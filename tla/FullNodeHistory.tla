-------------------------- MODULE FullNodeHistory ---------------------------
(***************************************************************************)
(* What the two status tables of the full node say, over time and at every *)
(* L1 height.  The first half holds across crashes: what is proven is      *)
(* backed by recorded proofs, neither status moves back, and the history   *)
(* below the last scanned block is frozen.  The second half needs graceful *)
(* restarts, because a crash lets a status be written under a smaller L1   *)
(* height than an older one.                                               *)
(***************************************************************************)
EXTENDS FullNodeRefinement

\* How long the provers may take for a step, so that a slow machine finds the proofs too.
USE SMTT(40), ZenonT(40)

\* The stored commitments that some recorded proof names with their hash.
Named ==
  {i \in DOMAIN commitmentByIndex :
     \E p \in RecordedProofs : \E n \in DOMAIN p.hashes :
       p.firstIndex + n - 1 = i /\ p.hashes[n] = commitmentByIndex[i]}

AllNamed ==
  \A s \in DOMAIN provenAt :
    LET e == provenAt[s] IN
    /\ e.index \in DOMAIN commitmentByIndex
    /\ commitmentByIndex[e.index].end = e.height
    /\ 1 .. e.index \subseteq Named

\* The commitment in progress was found to advance the committed status.
CommitAdvances ==
  step \in {"putCommitment", "setCommitted"} =>
    \/ DOMAIN committedAt = {}
    \/ /\ item.commitment.end > Highest(committedAt).height
       /\ item.commitment.index > Highest(committedAt).index

\* The proof in progress was found to advance the proven status, and is recorded.
ProofAdvances ==
  step = "setProven" =>
    LET p == item.proof IN
    /\ p.lastL2Height > Highest(provenAt).height
    /\ LastIndex(p) > Highest(provenAt).index
    /\ LastIndex(p) \in DOMAIN commitmentByIndex
    /\ commitmentByIndex[LastIndex(p)].end = p.lastL2Height
    /\ 1 .. LastIndex(p) \subseteq Named

\* The entries of t up to an L1 height have a last one.
HasLast(t, h) ==
  LET keys == {k \in DOMAIN t : k <= h}
  IN  keys = {} \/ \E g \in keys : \A j \in keys : j <= g

\* The reads of the status tables find what they look for.
Readable(t) == HasGreatest(t) /\ \A h \in Nat : HasLast(t, h)

HistoryInv ==
  /\ ChainInv
  /\ lastScanned <= current
  /\ Readable(committedAt) /\ Readable(provenAt)
  /\ AllNamed /\ CommitAdvances /\ ProofAdvances

-----------------------------------------------------------------------------
\* A status written under any key is the one read afterwards, unless the one read before
\* has a greater key.
LEMMA HighestPutAny ==
  ASSUME NEW t, DOMAIN t \subseteq Nat, HasGreatest(t), NEW k \in Nat, NEW v
  PROVE  /\ HasGreatest(Put(t, k, v))
         /\ \/ Highest(Put(t, k, v)) = v
            \/ DOMAIN t # {} /\ Highest(Put(t, k, v)) = Highest(t)
<1> DEFINE u == Put(t, k, v)
<1>1. CASE \A j \in DOMAIN t : j <= k
  BY <1>1, HighestPut
<1>2. CASE ~(\A j \in DOMAIN t : j <= k)
  <2>1. PICK g \in DOMAIN t : \A j \in DOMAIN t : j <= g
    BY <1>2 DEF HasGreatest
  <2>2. k <= g /\ k # g
    BY <1>2, <2>1
  <2>3. /\ DOMAIN u = DOMAIN t \cup {k}
        /\ u[g] = t[g]
    BY <2>2 DEF Put
  <2>4. DOMAIN u \subseteq Nat /\ g \in DOMAIN u /\ \A j \in DOMAIN u : j <= g
    BY <2>1, <2>2, <2>3
  <2>5. Highest(u) = u[g] /\ Highest(t) = t[g]
    BY <2>1, <2>4, HighestIs
  <2>6. QED
    BY <2>1, <2>3, <2>4, <2>5 DEF HasGreatest
<1>3. QED
  BY <1>1, <1>2

\* get_highest_l2_height_for_status(_, Some(h)) reads the entry with the greatest key.
LEMMA HighestAtIs ==
  ASSUME NEW t, DOMAIN t \subseteq Nat, NEW h \in Nat,
         NEW k \in DOMAIN t, k <= h, \A j \in DOMAIN t : j <= h => j <= k
  PROVE  HighestAt(t, h) = t[k]
<1> DEFINE keys == {j \in DOMAIN t : j <= h}
           m == CHOOSE n \in keys : \A j \in keys : j <= n
<1>1. k \in keys /\ \A j \in keys : j <= k
  OBVIOUS
<1>2. m \in keys /\ \A j \in keys : j <= m
  BY <1>1
<1>3. m = k
  <2>1. m <= k /\ k <= m /\ m \in Nat /\ k \in Nat
    BY <1>1, <1>2
  <2>2. QED
    BY <2>1
<1>4. QED
  BY <1>1, <1>3 DEF HighestAt

\* A status written under a greater key leaves the answer for an L1 height alone.
LEMMA HighestAtPut ==
  ASSUME NEW t, DOMAIN t \subseteq Nat, NEW k \in Nat, NEW h \in Nat, h < k, HasLast(t, h), NEW v
  PROVE  HighestAt(Put(t, k, v), h) = HighestAt(t, h)
<1> DEFINE u == Put(t, k, v)
<1>1. DOMAIN u = DOMAIN t \cup {k} /\ \A j \in DOMAIN t : j # k => u[j] = t[j]
  BY DEF Put
<1>2. CASE {j \in DOMAIN t : j <= h} = {}
  <2>1. {j \in DOMAIN u : j <= h} = {}
    BY <1>1, <1>2
  <2>2. QED
    BY <1>2, <2>1 DEF HighestAt
<1>3. CASE {j \in DOMAIN t : j <= h} # {}
  <2>1. PICK g \in DOMAIN t : g <= h /\ \A j \in DOMAIN t : j <= h => j <= g
    BY <1>3 DEF HasLast
  <2>2. HighestAt(t, h) = t[g]
    BY <2>1, HighestAtIs
  <2>3. DOMAIN u \subseteq Nat /\ g \in DOMAIN u /\ \A j \in DOMAIN u : j <= h => j <= g
    BY <1>1, <2>1
  <2>4. HighestAt(u, h) = u[g]
    BY <2>1, <2>3, HighestAtIs
  <2>5. u[g] = t[g]
    BY <1>1, <2>1
  <2>6. QED
    BY <2>2, <2>4, <2>5
<1>4. QED
  BY <1>2, <1>3

\* A write keeps a status table readable.
LEMMA ReadablePut ==
  ASSUME NEW t, DOMAIN t \subseteq Nat, Readable(t), NEW k \in Nat, NEW v
  PROVE  Readable(Put(t, k, v))
<1> DEFINE u == Put(t, k, v)
<1>1. DOMAIN u = DOMAIN t \cup {k}
  BY DEF Put
<1>2. HasGreatest(u)
  BY HighestPutAny DEF Readable
<1>3. ASSUME NEW h \in Nat PROVE HasLast(u, h)
  <2>1. CASE h < k \/ {j \in DOMAIN t : j <= h} = {}
    BY <1>1, <2>1 DEF Readable, HasLast
  <2>2. CASE k <= h /\ {j \in DOMAIN t : j <= h} # {}
    <3>1. PICK g \in DOMAIN t : g <= h /\ \A j \in DOMAIN t : j <= h => j <= g
      BY <2>2 DEF Readable, HasLast
    <3>2. CASE g <= k
      BY <1>1, <2>2, <3>1, <3>2 DEF HasLast
    <3>3. CASE k <= g
      BY <1>1, <2>2, <3>1, <3>3 DEF HasLast
    <3>4. QED
      BY <3>1, <3>2, <3>3
  <2>3. QED
    BY <2>1, <2>2
<1>4. QED
  BY <1>2, <1>3 DEF Readable

-----------------------------------------------------------------------------
\* The steps that write a status, a commitment or a proof; all others leave what is in
\* progress alone or drop it.
LEMMA StepKinds ==
  ASSUME [CrashNext]_vars
  PROVE  \/ AcceptCommitment \/ PutCommitment \/ SetCommitted \/ AcceptProof \/ SetProven
         \/ /\ UNCHANGED <<commitmentByIndex, committedAt, provenAt, verifiedProofs>>
            /\ step' \in {"putCommitment", "setCommitted", "setProven"} => step' = step /\ item' = item
<1> DEFINE Same == UNCHANGED <<commitmentByIndex, committedAt, provenAt, verifiedProofs>>
           Goes == step' \in {"putCommitment", "setCommitted", "setProven"} => step' = step /\ item' = item
<1>1. UNCHANGED vars \/ FinalizeL1Block \/ SyncL2 \/ CrashAndStart => Same /\ Goes
  BY DEF vars, ledger, FinalizeL1Block, SyncL2, ApplyL2Block, CommitL2Block, CrashAndStart, Boot
<1>2. StartBlock \/ SkipIndexZero \/ BlockDone \/ PendingCommitmentsDone \/ FinishBlock => Same /\ Goes
  BY DEF ledger, StartBlock, SkipIndexZero, BlockDone, PendingCommitmentsDone, FinishBlock
<1>3. DiscardCommitment \/ PendCommitment \/ HaltOnMismatch \/ FailOnEmptyRange
        \/ RemovePendingCommitment => Same /\ Goes
  BY DEF ledger, DiscardCommitment, PendCommitment, HaltOnMismatch, FailOnEmptyRange,
         RemovePendingCommitment
<1>4. DiscardProof \/ SkipProof \/ PanicOnProven \/ PendProof \/ RemovePendingProof => Same /\ Goes
  BY DEF ledger, DiscardProof, SkipProof, PanicOnProven, PendProof, RemovePendingProof
<1>5. QED
  BY <1>1, <1>2, <1>3, <1>4 DEF CrashNext, Node, Handler, ProcessCommitment, ProcessProof

\* The handler is never behind the last scanned block.
LEMMA ScanStep ==
  ASSUME TypeInv, lastScanned <= current, [CrashNext]_vars
  PROVE  lastScanned' <= current'
<1>1. lastScanned \in Nat /\ current \in Nat \ {0}
  BY DEF TypeInv, TypeOK
<1>2. \/ lastScanned' = lastScanned /\ current' = current
      \/ lastScanned' = current /\ current' = current + 1
      \/ lastScanned' = lastScanned /\ current' = IF lastScanned = 0 THEN 1 ELSE lastScanned
  BY ZenonT(40) DEF CrashNext, Node, Handler, ProcessCommitment, ProcessProof, FinalizeL1Block, SyncL2,
     ApplyL2Block, CommitL2Block, StartBlock, SkipIndexZero, BlockDone, DiscardCommitment,
     PendCommitment, HaltOnMismatch, FailOnEmptyRange, AcceptCommitment, PutCommitment,
     SetCommitted, RemovePendingCommitment, PendingCommitmentsDone, DiscardProof, SkipProof,
     PanicOnProven, PendProof, AcceptProof, SetProven, RemovePendingProof, FinishBlock,
     CrashAndStart, Boot, vars, ledger
<1>3. QED
  BY <1>1, <1>2

\* The types of the two statuses.
LEMMA HistoryTypes ==
  ASSUME HistoryInv
  PROVE  /\ TypeInv /\ current \in Nat \ {0}
         /\ DOMAIN committedAt \subseteq Nat /\ DOMAIN provenAt \subseteq Nat
         /\ Highest(committedAt).height \in Nat /\ Highest(committedAt).index \in Nat
         /\ Highest(provenAt).height \in Nat /\ Highest(provenAt).index \in Nat
<1>1. TypeInv /\ HasGreatest(committedAt) /\ HasGreatest(provenAt)
  BY DEF HistoryInv, ChainInv, Readable
<1>2. IsTable(committedAt, Nat, HeightAndIndex) /\ IsTable(provenAt, Nat, HeightAndIndex)
  BY <1>1 DEF TypeInv, TypeOK
<1>3. Highest(committedAt) \in HeightAndIndex /\ Highest(provenAt) \in HeightAndIndex
  BY <1>1, <1>2, HighestType
<1>4. current \in Nat \ {0}
  BY <1>1 DEF TypeInv, TypeOK
<1>5. QED
  BY <1>1, <1>2, <1>3, <1>4 DEF HeightAndIndex, IsTable

\* An append keeps what is there and adds the new element.
LEMMA AppendKeeps ==
  ASSUME NEW S, NEW q \in Seq(S), NEW x \in S
  PROVE  /\ DOMAIN Append(q, x) = DOMAIN q \cup {Len(q) + 1}
         /\ \A n \in DOMAIN q : Append(q, x)[n] = q[n]
         /\ Append(q, x)[Len(q) + 1] = x
OBVIOUS

\* What AcceptProof finds and does.
LEMMA AcceptedProof ==
  ASSUME TypeInv, AcceptProof
  PROVE  \E it \in ProofItems :
           /\ it.proof \in BatchProofs /\ it.found \in Nat
           /\ Examined(it.proof) /\ Verified(it.proof) /\ AllStored(it.proof)
           /\ Contiguous(it.proof)
           /\ \E q \in Seq(BatchProofs) :
                /\ q = IF it.found \in DOMAIN verifiedProofs THEN verifiedProofs[it.found] ELSE << >>
                /\ verifiedProofs' = Put(verifiedProofs, it.found, Append(q, it.proof))
           /\ item' = it
           /\ step = "decide" /\ step' = "setProven"
           /\ UNCHANGED <<commitmentByIndex, committedAt, provenAt>>
<1> DEFINE OnSlot(it) == IF it.found \in DOMAIN verifiedProofs THEN verifiedProofs[it.found] ELSE << >>
<1>1. PICK it \in ProofItems :
        /\ Examined(it.proof) /\ Verified(it.proof) /\ AllStored(it.proof) /\ Contiguous(it.proof)
        /\ verifiedProofs' = Put(verifiedProofs, it.found, Append(OnSlot(it), it.proof))
        /\ item' = it
  BY DEF AcceptProof
<1>2. it.proof \in BatchProofs /\ it.found \in Nat
  BY ProofItemTypes DEF ProofRecord
<1>3. OnSlot(it) \in Seq(BatchProofs)
  BY <1>2 DEF TypeInv, TypeOK, IsTable
<1>4. step = "decide" /\ step' = "setProven" /\ UNCHANGED <<commitmentByIndex, committedAt, provenAt>>
  BY DEF AcceptProof, Deciding
<1>5. QED
  BY <1>1, <1>2, <1>3, <1>4, Zenon

\* An accepted proof joins the recorded ones.
LEMMA RecordedGrows ==
  ASSUME TypeInv, AcceptProof
  PROVE  RecordedProofs \subseteq RecordedProofs' /\ item'.proof \in RecordedProofs'
<1>1. PICK it \in ProofItems : \E q \in Seq(BatchProofs) :
        /\ it.proof \in BatchProofs /\ item' = it
        /\ q = IF it.found \in DOMAIN verifiedProofs THEN verifiedProofs[it.found] ELSE << >>
        /\ verifiedProofs' = Put(verifiedProofs, it.found, Append(q, it.proof))
  BY AcceptedProof
<1>2. PICK q \in Seq(BatchProofs) :
        /\ it.proof \in BatchProofs /\ item' = it
        /\ q = IF it.found \in DOMAIN verifiedProofs THEN verifiedProofs[it.found] ELSE << >>
        /\ verifiedProofs' = Put(verifiedProofs, it.found, Append(q, it.proof))
  BY <1>1, Zenon
<1> DEFINE u == Append(q, it.proof)
<1>3. /\ DOMAIN u = DOMAIN q \cup {Len(q) + 1}
      /\ \A n \in DOMAIN q : u[n] = q[n]
      /\ u[Len(q) + 1] = it.proof
  BY <1>2, AppendKeeps
<1> HIDE DEF u
<1>4. /\ it.found \in DOMAIN verifiedProofs' /\ verifiedProofs'[it.found] = u
      /\ \A s \in DOMAIN verifiedProofs :
           /\ s \in DOMAIN verifiedProofs'
           /\ s # it.found => verifiedProofs'[s] = verifiedProofs[s]
  BY <1>2 DEF Put, u
<1>5. it.proof \in RecordedProofs'
  BY <1>3, <1>4 DEF RecordedProofs
<1>6. ASSUME NEW p \in RecordedProofs PROVE p \in RecordedProofs'
  <2>1. PICK s \in DOMAIN verifiedProofs : \E n \in DOMAIN verifiedProofs[s] : p = verifiedProofs[s][n]
    BY <1>6 DEF RecordedProofs
  <2>2. PICK n \in DOMAIN verifiedProofs[s] : p = verifiedProofs[s][n]
    BY <2>1
  <2>3. CASE s = it.found
    <3>1. n \in DOMAIN u /\ u[n] = p
      BY <1>2, <1>3, <2>2, <2>3
    <3>2. QED
      BY <1>4, <2>3, <3>1 DEF RecordedProofs
  <2>4. CASE s # it.found
    BY <1>4, <2>2, <2>4 DEF RecordedProofs
  <2>5. QED
    BY <2>3, <2>4
<1>7. QED
  BY <1>2, <1>5, <1>6

\* A commitment that is named stays named.
LEMMA NamedGrows ==
  ASSUME RecordedProofs \subseteq RecordedProofs',
         \A i \in DOMAIN commitmentByIndex :
           i \in DOMAIN commitmentByIndex' /\ commitmentByIndex'[i] = commitmentByIndex[i]
  PROVE  Named \subseteq Named'
BY DEF Named

\* A step that writes no proven status keeps what is said of the written ones.
LEMMA AllNamedFrame ==
  ASSUME AllNamed, Named \subseteq Named', provenAt' = provenAt,
         \A i \in DOMAIN commitmentByIndex :
           i \in DOMAIN commitmentByIndex' /\ commitmentByIndex'[i] = commitmentByIndex[i]
  PROVE  AllNamed'
<1> SUFFICES ASSUME NEW s \in DOMAIN provenAt
             PROVE  /\ provenAt[s].index \in DOMAIN commitmentByIndex'
                    /\ commitmentByIndex'[provenAt[s].index].end = provenAt[s].height
                    /\ 1 .. provenAt[s].index \subseteq Named'
  BY DEF AllNamed
<1>1. /\ provenAt[s].index \in DOMAIN commitmentByIndex
      /\ commitmentByIndex[provenAt[s].index].end = provenAt[s].height
      /\ 1 .. provenAt[s].index \subseteq Named
  BY DEF AllNamed
<1>2. QED
  BY <1>1

\* A proof accepted by process_tangerine_zk_proof leaves no commitment up to its last one
\* unnamed: those it covers it names itself, those before it are proven.
LEMMA AcceptedNames ==
  ASSUME HistoryInv, AcceptProof
  PROVE  /\ Named \subseteq Named'
         /\ ProofAdvances'
<1>1. TypeInv /\ AllNamed /\ HasGreatest(provenAt)
      /\ Highest(provenAt).index \in Nat /\ Highest(provenAt).height \in Nat
      /\ DOMAIN provenAt \subseteq Nat
  BY HistoryTypes DEF HistoryInv, Readable
<1>2. PICK it \in ProofItems :
        /\ it.proof \in BatchProofs
        /\ Examined(it.proof) /\ Verified(it.proof) /\ AllStored(it.proof) /\ Contiguous(it.proof)
        /\ item' = it /\ step' = "setProven"
        /\ UNCHANGED <<commitmentByIndex, committedAt, provenAt>>
  BY <1>1, AcceptedProof
<1> DEFINE p == it.proof
<1>3. RecordedProofs \subseteq RecordedProofs' /\ p \in RecordedProofs'
  BY <1>1, <1>2, RecordedGrows
<1>4. Named \subseteq Named'
  BY <1>2, <1>3, NamedGrows
<1>5. /\ p.firstIndex \in Nat /\ p.hashes \in Seq(SequencerCommitments) /\ LastIndex(p) \in Nat
      /\ LastIndex(p) = p.firstIndex + Len(p.hashes) - 1
  BY <1>2, ProofsAssumption DEF LastIndex
<1>6. ASSUME NEW j \in 1 .. LastIndex(p) PROVE j \in Named'
  <2>1. CASE j >= p.firstIndex
    <3> DEFINE n == j - p.firstIndex + 1
               r == <<p.firstIndex + n - 1, p.hashes[n]>>
    <3>1. n \in DOMAIN p.hashes /\ p.firstIndex + n - 1 = j
      BY <1>5, <1>6, <2>1
    <3>2. r \in References(p) /\ r[1] = j /\ r[2] = p.hashes[n]
      BY <3>1 DEF References
    <3>3. j \in DOMAIN commitmentByIndex /\ commitmentByIndex[j] = p.hashes[n]
      BY <1>2, <3>2 DEF Verified, AllStored, HashMatches
    <3> HIDE DEF n
    <3>4. QED
      BY <1>2, <1>3, <3>1, <3>3 DEF Named
  <2>2. CASE j < p.firstIndex
    <3>1. j <= Highest(provenAt).index /\ Highest(provenAt).index > 0
      <4>1. Highest(provenAt).index \in Nat /\ p.firstIndex <= Highest(provenAt).index + 1
        BY <1>1, <1>2, ZenonT(40) DEF Contiguous
      <4>2. QED
        BY <1>5, <1>6, <2>2, <4>1
    <3>2. DOMAIN provenAt # {}
      <4>1. Highest(provenAt).index # 0
        BY <1>1, <3>1
      <4>2. DOMAIN provenAt = {} => Highest(provenAt).index = 0
        BY DEF Highest, Default
      <4>3. QED
        BY <4>1, <4>2
    <3>3. PICK g \in DOMAIN provenAt : \A k \in DOMAIN provenAt : k <= g
      BY <1>1, <3>2 DEF HasGreatest
    <3>4. Highest(provenAt) = provenAt[g]
      BY <1>1, <3>3, HighestIs
    <3>5. 1 .. Highest(provenAt).index \subseteq Named
      BY <1>1, <3>4 DEF AllNamed
    <3>6. QED
      BY <1>1, <1>4, <1>6, <3>1, <3>5
  <2>3. QED
    BY <1>5, <1>6, <2>1, <2>2
<1>7. /\ LastIndex(p) \in DOMAIN commitmentByIndex
      /\ commitmentByIndex[LastIndex(p)].end = p.lastL2Height
  BY <1>2, VerifiedProofEnds DEF Examined
<1>8. p.lastL2Height > Highest(provenAt).height /\ LastIndex(p) > Highest(provenAt).index
  BY <1>2 DEF Examined, Advances
<1>9. Highest(provenAt)' = Highest(provenAt)
  BY <1>2 DEF Highest
<1>10. QED
  BY <1>2, <1>4, <1>6, <1>7, <1>8, <1>9 DEF ProofAdvances, LastIndex

-----------------------------------------------------------------------------
\* A stored commitment is kept by every step.
LEMMA StoredKept ==
  ASSUME ChainInv, [CrashNext]_vars
  PROVE  \A i \in DOMAIN commitmentByIndex :
           i \in DOMAIN commitmentByIndex' /\ commitmentByIndex'[i] = commitmentByIndex[i]
<1>1. CASE PutCommitment
  <2>1. Fits(item.commitment)
    BY <1>1 DEF PutCommitment, ChainInv, Accepted
  <2>2. item.commitment.index \notin DOMAIN commitmentByIndex
    BY <2>1 DEF Fits
  <2>3. QED
    BY <1>1, <2>2 DEF PutCommitment, Put
<1>2. CASE ~PutCommitment
  <2>1. commitmentByIndex' = commitmentByIndex
    BY <1>2, StepKinds, ZenonT(40) DEF AcceptCommitment, SetCommitted, AcceptProof, SetProven
  <2>2. QED
    BY <2>1
<1>3. QED
  BY <1>1, <1>2

\* The initial status tables are empty.
LEMMA HistoryInit == Init => HistoryInv
<1> SUFFICES ASSUME Init PROVE HistoryInv
  OBVIOUS
<1>1. ChainInv
  BY ChainInit
<1>2. /\ DOMAIN committedAt = {} /\ DOMAIN provenAt = {}
      /\ lastScanned = 0 /\ current = 1 /\ step = "decide"
  BY DEF Init, EmptyTable
<1>3. Readable(committedAt) /\ Readable(provenAt)
  BY <1>2 DEF Readable, HasGreatest, HasLast
<1>4. AllNamed /\ CommitAdvances /\ ProofAdvances
  BY <1>2 DEF AllNamed, CommitAdvances, ProofAdvances
<1>5. QED
  BY <1>1, <1>2, <1>3, <1>4 DEF HistoryInv

\* Steps that write no status and record no proof.
LEMMA HistoryFrame ==
  ASSUME HistoryInv, ChainInv', lastScanned' <= current', Named \subseteq Named',
         \A i \in DOMAIN commitmentByIndex :
           i \in DOMAIN commitmentByIndex' /\ commitmentByIndex'[i] = commitmentByIndex[i],
         committedAt' = committedAt, provenAt' = provenAt, CommitAdvances',
         step' = "setProven" => step = "setProven" /\ item' = item
  PROVE  HistoryInv'
<1>1. AllNamed'
  BY AllNamedFrame DEF HistoryInv
<1>2. Readable(committedAt') /\ Readable(provenAt')
  BY DEF HistoryInv
<1>3. ProofAdvances'
  <2> SUFFICES ASSUME step' = "setProven" PROVE ProofAdvances'
    BY DEF ProofAdvances
  <2>1. step = "setProven" /\ item' = item /\ Highest(provenAt)' = Highest(provenAt)
    BY DEF Highest
  <2>2. LET p == item.proof IN
        /\ p.lastL2Height > Highest(provenAt).height
        /\ LastIndex(p) > Highest(provenAt).index
        /\ LastIndex(p) \in DOMAIN commitmentByIndex
        /\ commitmentByIndex[LastIndex(p)].end = p.lastL2Height
        /\ 1 .. LastIndex(p) \subseteq Named
    BY <2>1 DEF HistoryInv, ProofAdvances
  <2>3. QED
    BY <2>1, <2>2 DEF ProofAdvances, LastIndex
<1>4. QED
  BY <1>1, <1>2, <1>3 DEF HistoryInv

\* Recording the committed status.
LEMMA SetCommittedHistory ==
  ASSUME HistoryInv, ChainInv', lastScanned' <= current', Named \subseteq Named', SetCommitted
  PROVE  HistoryInv'
<1> DEFINE v == [height |-> item.commitment.end, index |-> item.commitment.index]
<1>1. /\ committedAt' = Put(committedAt, current, v)
      /\ step' \in {"decide", "removeCommitment"}
      /\ UNCHANGED <<commitmentByIndex, provenAt>>
  BY DEF SetCommitted, StatusHeight
<1>2. current \in Nat /\ DOMAIN committedAt \subseteq Nat
  BY HistoryTypes
<1>3. Readable(committedAt') /\ Readable(provenAt')
  BY <1>1, <1>2, ReadablePut DEF HistoryInv
<1>4. AllNamed'
  BY <1>1, AllNamedFrame DEF HistoryInv
<1>5. CommitAdvances' /\ ProofAdvances'
  BY <1>1 DEF CommitAdvances, ProofAdvances
<1>6. QED
  BY <1>3, <1>4, <1>5 DEF HistoryInv

\* Recording the proven status: the proof in progress backs it.
LEMMA SetProvenHistory ==
  ASSUME HistoryInv, ChainInv', lastScanned' <= current', Named \subseteq Named', SetProven
  PROVE  HistoryInv'
<1> DEFINE p == item.proof
           v == [height |-> p.lastL2Height, index |-> LastIndex(p)]
<1>1. /\ provenAt' = Put(provenAt, current, v)
      /\ step = "setProven" /\ step' \in {"decide", "removeProof"}
      /\ UNCHANGED <<commitmentByIndex, committedAt>>
  BY DEF SetProven, StatusHeight
<1>2. current \in Nat /\ DOMAIN provenAt \subseteq Nat
  BY HistoryTypes
<1>3. Readable(committedAt') /\ Readable(provenAt')
  BY <1>1, <1>2, ReadablePut DEF HistoryInv
<1>4. AllNamed'
  <2>1. /\ LastIndex(p) \in DOMAIN commitmentByIndex
        /\ commitmentByIndex[LastIndex(p)].end = p.lastL2Height
        /\ 1 .. LastIndex(p) \subseteq Named
    BY <1>1 DEF HistoryInv, ProofAdvances
  <2>2. ASSUME NEW s \in DOMAIN provenAt'
        PROVE  /\ provenAt'[s].index \in DOMAIN commitmentByIndex
               /\ commitmentByIndex[provenAt'[s].index].end = provenAt'[s].height
               /\ 1 .. provenAt'[s].index \subseteq Named
    <3>1. CASE s = current
      <4>1. provenAt'[s] = v
        BY <1>1, <3>1 DEF Put
      <4>2. v.index = LastIndex(p) /\ v.height = p.lastL2Height
        OBVIOUS
      <4>3. QED
        BY <2>1, <4>1, <4>2, ZenonT(40)
    <3>2. CASE s # current
      <4>1. s \in DOMAIN provenAt /\ provenAt'[s] = provenAt[s]
        BY <1>1, <2>2, <3>2 DEF Put
      <4>2. QED
        BY <4>1 DEF HistoryInv, AllNamed
    <3>3. QED
      BY <3>1, <3>2
  <2>3. QED
    BY <1>1, <2>2 DEF AllNamed
<1>5. CommitAdvances' /\ ProofAdvances'
  BY <1>1 DEF CommitAdvances, ProofAdvances
<1>6. QED
  BY <1>3, <1>4, <1>5 DEF HistoryInv

\* Every step, crashes included, keeps the invariant.
LEMMA HistoryNext == HistoryInv /\ [CrashNext]_vars => HistoryInv'
<1> SUFFICES ASSUME HistoryInv, [CrashNext]_vars PROVE HistoryInv'
  OBVIOUS
<1>1. ChainInv' /\ TypeInv /\ lastScanned' <= current'
  BY ChainNext, ScanStep DEF HistoryInv, ChainInv
<1>2. \A i \in DOMAIN commitmentByIndex :
        i \in DOMAIN commitmentByIndex' /\ commitmentByIndex'[i] = commitmentByIndex[i]
  BY StoredKept DEF HistoryInv
<1>3. ~AcceptProof => RecordedProofs' = RecordedProofs
  <2>1. ~AcceptProof => verifiedProofs' = verifiedProofs
    BY StepKinds, ZenonT(40) DEF AcceptCommitment, PutCommitment, SetCommitted, SetProven
  <2>2. QED
    BY <2>1 DEF RecordedProofs
<1>4. Named \subseteq Named'
  BY <1>1, <1>2, <1>3, RecordedGrows, NamedGrows
<1>5. CASE AcceptCommitment
  <2>1. PICK it \in CommitmentItems : Checkable(it.commitment) /\ item' = it
    BY <1>5 DEF AcceptCommitment
  <2>2. /\ step' = "putCommitment"
        /\ committedAt' = committedAt /\ provenAt' = provenAt
    BY <1>5 DEF AcceptCommitment
  <2>3. it.commitment \in SequencerCommitments
    BY <1>1, CommitmentItemTypes DEF CommitmentRecord
  <2>4. it.commitment.end \in Nat /\ it.commitment.index \in Nat
    BY <2>3, KeyTypes
  <2>5. Highest(committedAt).height \in Nat /\ Highest(committedAt).index \in Nat
    BY HistoryTypes
  <2>6. \/ DOMAIN committedAt = {}
        \/ /\ it.commitment.end > Highest(committedAt).height
           /\ it.commitment.index > Highest(committedAt).index
    <3>1. ~Redundant(it.commitment)
      BY <2>1 DEF Checkable
    <3>2. \/ DOMAIN committedAt = {}
          \/ /\ ~(it.commitment.end <= Highest(committedAt).height)
             /\ ~(it.commitment.index <= Highest(committedAt).index)
      BY <3>1, Zenon DEF Redundant
    <3>3. QED
      BY <2>4, <2>5, <3>2
  <2>7. Highest(committedAt)' = Highest(committedAt)
    BY <2>2 DEF Highest
  <2>8. CommitAdvances'
    BY <2>1, <2>2, <2>6, <2>7 DEF CommitAdvances
  <2>9. QED
    BY <1>1, <1>2, <1>4, <2>2, <2>8, HistoryFrame
<1>6. CASE PutCommitment
  <2>1. /\ step = "putCommitment" /\ step' = "setCommitted" /\ item' = item
        /\ committedAt' = committedAt /\ provenAt' = provenAt
    BY <1>6 DEF PutCommitment
  <2>2. Highest(committedAt)' = Highest(committedAt)
    BY <2>1 DEF Highest
  <2>3. CommitAdvances'
    BY <2>1, <2>2 DEF HistoryInv, CommitAdvances
  <2>4. QED
    BY <1>1, <1>2, <1>4, <2>1, <2>3, HistoryFrame
<1>7. CASE SetCommitted
  BY <1>1, <1>4, <1>7, SetCommittedHistory
<1>8. CASE AcceptProof
  <2>1. /\ committedAt' = committedAt /\ provenAt' = provenAt
        /\ step' = "setProven"
    BY <1>8 DEF AcceptProof
  <2>2. AllNamed' /\ ProofAdvances' /\ CommitAdvances'
    BY <1>2, <1>4, <1>8, <2>1, AllNamedFrame, AcceptedNames DEF HistoryInv, CommitAdvances
  <2>3. QED
    BY <1>1, <2>1, <2>2 DEF HistoryInv
<1>9. CASE SetProven
  BY <1>1, <1>4, <1>9, SetProvenHistory
<1>10. CASE /\ UNCHANGED <<commitmentByIndex, committedAt, provenAt, verifiedProofs>>
            /\ step' \in {"putCommitment", "setCommitted", "setProven"} => step' = step /\ item' = item
  <2>1. committedAt' = committedAt /\ provenAt' = provenAt
        /\ Highest(committedAt)' = Highest(committedAt)
    BY <1>10 DEF Highest
  <2>2. CommitAdvances'
    BY <1>10, <2>1 DEF HistoryInv, CommitAdvances
  <2>3. step' = "setProven" => step = "setProven" /\ item' = item
    BY <1>10
  <2>4. QED
    BY <1>1, <1>2, <1>4, <2>1, <2>2, <2>3, HistoryFrame
<1>11. QED
  BY <1>5, <1>6, <1>7, <1>8, <1>9, <1>10, StepKinds

-----------------------------------------------------------------------------
\* Across crashes, whatever set_l2_height_status marks proven is the end of a stored
\* commitment, and a proof recorded by update_verified_proof_data names every commitment
\* up to it with its hash.
THEOREM ProvenIsBackedHolds == CrashSpec => []ProvenIsBacked
<1>1. HistoryInv => ProvenIsBacked
  <2> SUFFICES ASSUME HistoryInv, NEW s \in DOMAIN provenAt
               PROVE  /\ provenAt[s].index \in DOMAIN commitmentByIndex
                      /\ commitmentByIndex[provenAt[s].index].end = provenAt[s].height
                      /\ \A i \in 1 .. provenAt[s].index : i \in Named
    BY DEF ProvenIsBacked, Named
  <2>1. QED
    BY DEF HistoryInv, AllNamed
<1>2. QED
  BY <1>1, HistoryInit, HistoryNext, PTL DEF CrashSpec

\* No status is above itself, and none is above one that is higher.
LEMMA NotAbove ==
  ASSUME NEW a, NEW b, a.height \in Nat, a.index \in Nat, b.height \in Nat, b.index \in Nat,
         a.height < b.height \/ (a.height <= b.height /\ a.index <= b.index)
  PROVE  ~Above(a, b)
BY DEF Above

\* Across crashes the "safe" and "finalized" heights (get_highest_l2_height_for_status)
\* never move back: a status is written only for an item found to advance it, and a
\* status read earlier is hidden by none under a smaller L1 height.
THEOREM FinalityNeverRevertsHolds == CrashSpec => FinalityNeverReverts
<1> DEFINE Forward == /\ ~Above(Highest(committedAt), Highest(committedAt)')
                      /\ ~Above(Highest(provenAt), Highest(provenAt)')
<1>1. ASSUME HistoryInv, [CrashNext]_vars PROVE Forward
  <2>1. /\ current \in Nat /\ DOMAIN committedAt \subseteq Nat /\ DOMAIN provenAt \subseteq Nat
        /\ HasGreatest(committedAt) /\ HasGreatest(provenAt)
        /\ Highest(committedAt).height \in Nat /\ Highest(committedAt).index \in Nat
        /\ Highest(provenAt).height \in Nat /\ Highest(provenAt).index \in Nat
    BY <1>1, HistoryTypes DEF HistoryInv, Readable
  <2>2. committedAt' = committedAt => ~Above(Highest(committedAt), Highest(committedAt)')
    <3>1. ~Above(Highest(committedAt), Highest(committedAt))
      BY <2>1 DEF Above
    <3>2. committedAt' = committedAt => Highest(committedAt)' = Highest(committedAt)
      BY Zenon
    <3>3. QED
      BY <3>1, <3>2
  <2>3. provenAt' = provenAt => ~Above(Highest(provenAt), Highest(provenAt)')
    <3>1. ~Above(Highest(provenAt), Highest(provenAt))
      BY <2>1 DEF Above
    <3>2. provenAt' = provenAt => Highest(provenAt)' = Highest(provenAt)
      BY Zenon
    <3>3. QED
      BY <3>1, <3>2
  <2>4. CASE SetCommitted
    <3> DEFINE c == item.commitment
               v == [height |-> c.end, index |-> c.index]
    <3>1. /\ committedAt' = Put(committedAt, current, v) /\ provenAt' = provenAt
          /\ step = "setCommitted"
      BY <2>4 DEF SetCommitted, StatusHeight
    <3>2. c.end \in Nat /\ c.index \in Nat
      BY <1>1, <3>1, KeyTypes DEF HistoryInv, ChainInv, TypeInv, TypeOK
    <3>3. \/ Highest(committedAt') = v
          \/ Highest(committedAt') = Highest(committedAt)
      BY <2>1, <3>1, HighestPutAny
    <3>4. ~Above(Highest(committedAt), v)
      <4>1. CASE DOMAIN committedAt = {}
        <5>1. Highest(committedAt).height = 0 /\ Highest(committedAt).index = 0
          BY <4>1 DEF Highest, Default
        <5>2. v.height = c.end /\ v.index = c.index
          OBVIOUS
        <5> HIDE DEF c, v
        <5>3. QED
          BY <3>2, <5>1, <5>2, NotAbove
      <4>2. CASE DOMAIN committedAt # {}
        <5>1. c.end > Highest(committedAt).height
          BY <1>1, <3>1, <4>2, ZenonT(40) DEF HistoryInv, CommitAdvances
        <5>2. v.height = c.end /\ v.index = c.index
          OBVIOUS
        <5> HIDE DEF c, v
        <5>3. QED
          BY <2>1, <3>2, <5>1, <5>2, NotAbove
      <4>3. QED
        BY <4>1, <4>2, ZenonT(40)
    <3>5. ~Above(Highest(committedAt), Highest(committedAt))
      BY <2>1 DEF Above
    <3>6. QED
      BY <2>3, <3>1, <3>3, <3>4, <3>5
  <2>5. CASE SetProven
    <3> DEFINE p == item.proof
               v == [height |-> p.lastL2Height, index |-> LastIndex(p)]
    <3>1. /\ provenAt' = Put(provenAt, current, v) /\ committedAt' = committedAt
          /\ step = "setProven"
      BY <2>5 DEF SetProven, StatusHeight
    <3>2. p.lastL2Height \in Nat
      BY <1>1, <3>1, ProofsAssumption DEF HistoryInv, ChainInv, TypeInv, TypeOK
    <3>3. \/ Highest(provenAt') = v
          \/ Highest(provenAt') = Highest(provenAt)
      BY <2>1, <3>1, HighestPutAny
    <3>4. p.lastL2Height > Highest(provenAt).height
      BY <1>1, <3>1 DEF HistoryInv, ProofAdvances
    <3>5. ~Above(Highest(provenAt), v) /\ ~Above(Highest(provenAt), Highest(provenAt))
      <4>1. v.height = p.lastL2Height
        OBVIOUS
      <4> HIDE DEF p, v
      <4>2. QED
        BY <2>1, <3>2, <3>4, <4>1 DEF Above
    <3>6. QED
      BY <2>2, <3>1, <3>3, <3>5
  <2>6. SetCommitted \/ SetProven \/ (committedAt' = committedAt /\ provenAt' = provenAt)
    BY <1>1, StepKinds, Zenon DEF AcceptCommitment, PutCommitment, AcceptProof
  <2>7. QED
    BY <2>2, <2>3, <2>4, <2>5, <2>6
<1>2. HistoryInv /\ [CrashNext]_vars => [Forward]_vars
  BY <1>1
<1>3. QED
  BY <1>2, HistoryInit, HistoryNext, PTL DEF CrashSpec, FinalityNeverReverts

\* Across crashes, what get_l2_status_heights_by_l1_height answers for an L1 height below
\* the last scanned block never changes: a pending item is resolved under the height at
\* which the handler resolves it.
THEOREM ScannedHistoryFrozenHolds == CrashSpec => ScannedHistoryFrozen
<1> DEFINE Frozen == \A h \in 0 .. (lastScanned - 1) :
                       /\ HighestAt(committedAt, h)' = HighestAt(committedAt, h)
                       /\ HighestAt(provenAt, h)' = HighestAt(provenAt, h)
<1>1. ASSUME HistoryInv, [CrashNext]_vars PROVE Frozen
  <2>1. /\ current \in Nat /\ DOMAIN committedAt \subseteq Nat /\ DOMAIN provenAt \subseteq Nat
        /\ lastScanned \in Nat /\ lastScanned <= current
    BY <1>1, HistoryTypes DEF HistoryInv, TypeInv, TypeOK
  <2> SUFFICES ASSUME NEW h \in 0 .. (lastScanned - 1)
               PROVE  /\ HighestAt(committedAt', h) = HighestAt(committedAt, h)
                      /\ HighestAt(provenAt', h) = HighestAt(provenAt, h)
    BY Zenon DEF HighestAt
  <2>2. h \in Nat /\ h < current
    BY <2>1
  <2>3. HasLast(committedAt, h) /\ HasLast(provenAt, h)
    BY <1>1, <2>2 DEF HistoryInv, Readable
  <2>4. CASE SetCommitted
    <3>1. PICK v : committedAt' = Put(committedAt, current, v)
      BY <2>4, ZenonT(40) DEF SetCommitted, StatusHeight
    <3>2. provenAt' = provenAt
      BY <2>4 DEF SetCommitted
    <3>3. QED
      BY <2>1, <2>2, <2>3, <3>1, <3>2, HighestAtPut
  <2>5. CASE SetProven
    <3>1. PICK v : provenAt' = Put(provenAt, current, v)
      BY <2>5 DEF SetProven, StatusHeight
    <3>2. committedAt' = committedAt
      BY <2>5, ZenonT(40) DEF SetProven
    <3>3. QED
      BY <2>1, <2>2, <2>3, <3>1, <3>2, HighestAtPut
  <2>6. SetCommitted \/ SetProven \/ (committedAt' = committedAt /\ provenAt' = provenAt)
    BY <1>1, StepKinds, Zenon DEF AcceptCommitment, PutCommitment, AcceptProof
  <2>7. QED
    BY <2>4, <2>5, <2>6
<1>2. HistoryInv /\ [CrashNext]_vars => [Frozen]_vars
  BY <1>1
<1>3. QED
  BY <1>2, HistoryInit, HistoryNext, PTL DEF CrashSpec, ScannedHistoryFrozen

-----------------------------------------------------------------------------
(***************************************************************************)
(* With graceful restarts a status is written under the greatest key.      *)
(***************************************************************************)
Ascending(t) ==
  \A j, k \in DOMAIN t : j <= k => t[j].height <= t[k].height /\ t[j].index <= t[k].index

\* Up to L1 height n no proven entry is above the committed one.
Within(prv, com, n) ==
  \A h \in Nat : h < n => ~Above(HighestAt(prv, h), HighestAt(com, h))

OrderInv ==
  /\ FinalityInv /\ HistoryInv
  /\ Ascending(committedAt) /\ Ascending(provenAt)
  /\ Within(provenAt, committedAt, current)

\* A status that advances, written under the greatest key, keeps the order.
LEMMA AscendingPut ==
  ASSUME NEW t, IsTable(t, Nat, HeightAndIndex), HasGreatest(t), Ascending(t),
         NEW k \in Nat, \A j \in DOMAIN t : j <= k, NEW v \in HeightAndIndex,
         DOMAIN t # {} => v.height > Highest(t).height /\ v.index > Highest(t).index
  PROVE  Ascending(Put(t, k, v))
<1> DEFINE u == Put(t, k, v)
<1>1. DOMAIN u = DOMAIN t \cup {k} /\ u[k] = v /\ \A j \in DOMAIN t : j # k => u[j] = t[j]
  BY ZenonT(40) DEF Put
<1> HIDE DEF u
<1>2. DOMAIN t \subseteq Nat /\ \A j \in DOMAIN t : t[j].height \in Nat /\ t[j].index \in Nat
  BY DEF IsTable, HeightAndIndex
<1>3. v.height \in Nat /\ v.index \in Nat
  BY DEF HeightAndIndex
<1>4. ASSUME NEW j \in DOMAIN t PROVE t[j].height <= v.height /\ t[j].index <= v.index
  <2>1. PICK g \in DOMAIN t : \A n \in DOMAIN t : n <= g
    BY <1>4 DEF HasGreatest
  <2>2. Highest(t) = t[g]
    BY <1>2, <2>1, HighestIs
  <2>3. t[j].height <= t[g].height /\ t[j].index <= t[g].index
    BY <1>4, <2>1 DEF Ascending
  <2>4. v.height > t[g].height /\ v.index > t[g].index
    BY <1>4, <2>2
  <2>5. /\ t[j].height \in Nat /\ t[j].index \in Nat /\ t[g].height \in Nat /\ t[g].index \in Nat
    BY <1>2, <1>4, <2>1, Zenon
  <2>6. \A a, b, c \in Nat : a <= b /\ c > b => a <= c
    OBVIOUS
  <2>7. QED
    BY <1>3, <2>3, <2>4, <2>5, <2>6, ZenonT(40)
<1>5. ASSUME NEW i \in DOMAIN u, NEW j \in DOMAIN u, i <= j
      PROVE  u[i].height <= u[j].height /\ u[i].index <= u[j].index
  <2>1. CASE j = k /\ i = k
    <3>1. v.height <= v.height /\ v.index <= v.index
      BY <1>3
    <3>2. QED
      BY <1>1, <2>1, <3>1, Zenon
  <2>2. CASE j = k /\ i # k
    BY <1>1, <1>4, <1>5, <2>2, ZenonT(40)
  <2>3. CASE j # k
    <3>1. j \in DOMAIN t /\ j <= k /\ j \in Nat
      BY <1>1, <1>2, <1>5, <2>3, Zenon
    <3>2. i # k
      BY <1>5, <2>3, <3>1
    <3>3. i \in DOMAIN t
      BY <1>1, <1>5, <3>2
    <3>4. QED
      BY <1>1, <1>5, <2>3, <3>1, <3>2, <3>3, ZenonT(40) DEF Ascending
  <2>4. QED
    BY <2>1, <2>2, <2>3
<1>6. QED
  BY <1>5, ZenonT(40) DEF Ascending, u

\* From the greatest key on, an L1 height is answered like no L1 height.
LEMMA HighestAtAll ==
  ASSUME NEW t, DOMAIN t \subseteq Nat, HasGreatest(t), NEW h \in Nat, \A j \in DOMAIN t : j <= h
  PROVE  HighestAt(t, h) = Highest(t)
<1>1. CASE DOMAIN t = {}
  <2>1. {j \in DOMAIN t : j <= h} = {}
    BY <1>1
  <2>2. HighestAt(t, h) = Default
    BY <2>1 DEF HighestAt
  <2>3. Highest(t) = Default
    BY <1>1 DEF Highest
  <2>4. QED
    BY <2>2, <2>3
<1>2. CASE DOMAIN t # {}
  <2>1. PICK g \in DOMAIN t : \A j \in DOMAIN t : j <= g
    BY <1>2 DEF HasGreatest
  <2>2. HighestAt(t, h) = t[g]
    BY <2>1, HighestAtIs
  <2>3. QED
    BY <2>1, <2>2, HighestIs
<1>3. QED
  BY <1>1, <1>2, ZenonT(40)

\* At every L1 height the proven entry is not above the committed one.
LEMMA WithinAll ==
  ASSUME OrderInv, NEW h \in Nat
  PROVE  ~Above(HighestAt(provenAt, h), HighestAt(committedAt, h))
<1>1. CASE h < current
  BY <1>1 DEF OrderInv, Within
<1>2. CASE ~(h < current)
  <2>1. /\ current \in Nat /\ DOMAIN committedAt \subseteq Nat /\ DOMAIN provenAt \subseteq Nat
        /\ \A j \in DOMAIN committedAt : j <= current
        /\ \A j \in DOMAIN provenAt : j <= current
        /\ HasGreatest(committedAt) /\ HasGreatest(provenAt)
    BY HistoryTypes DEF OrderInv, FinalityInv, KeysOrdered
  <2>2. (\A j \in DOMAIN committedAt : j <= h) /\ (\A j \in DOMAIN provenAt : j <= h)
    BY <1>2, <2>1
  <2>3. HighestAt(committedAt, h) = Highest(committedAt) /\ HighestAt(provenAt, h) = Highest(provenAt)
    BY <2>1, <2>2, HighestAtAll
  <2>4. QED
    BY <2>3, ProvenNotAbove DEF OrderInv, ProvenAboveCommitted
<1>3. QED
  BY <1>1, <1>2

\* The initial tables are empty.
LEMMA OrderInit == Init => OrderInv
<1> SUFFICES ASSUME Init PROVE OrderInv
  OBVIOUS
<1>1. DOMAIN committedAt = {} /\ DOMAIN provenAt = {}
  BY DEF Init, EmptyTable
<1>2. Ascending(committedAt) /\ Ascending(provenAt)
  BY <1>1 DEF Ascending
<1>3. \A h \in Nat : HighestAt(committedAt, h) = Default /\ HighestAt(provenAt, h) = Default
  BY <1>1 DEF HighestAt
<1>4. ~Above(Default, Default)
  BY DEF Above, Default
<1>5. QED
  BY <1>2, <1>3, <1>4, FinalityInit, HistoryInit DEF OrderInv, Within

\* Every step with graceful restarts keeps the order.
LEMMA OrderNext == OrderInv /\ [Next]_vars => OrderInv'
<1> SUFFICES ASSUME OrderInv, [Next]_vars PROVE OrderInv'
  OBVIOUS
<1>1. [CrashNext]_vars /\ FinalityInv' /\ HistoryInv'
  BY GracefulIsCrash, FinalityNext, HistoryNext DEF OrderInv
<1>2. /\ IsTable(committedAt, Nat, HeightAndIndex) /\ IsTable(provenAt, Nat, HeightAndIndex)
      /\ HasGreatest(committedAt) /\ HasGreatest(provenAt)
      /\ \A j \in DOMAIN committedAt : j <= current
      /\ \A j \in DOMAIN provenAt : j <= current
  BY DEF OrderInv, FinalityInv, KeysOrdered, ChainInv, TypeInv, TypeOK
<1>3. current \in Nat /\ DOMAIN committedAt \subseteq Nat /\ DOMAIN provenAt \subseteq Nat
  BY HistoryTypes DEF OrderInv
<1>4. \A h \in Nat : HasLast(committedAt, h) /\ HasLast(provenAt, h)
  BY DEF OrderInv, HistoryInv, Readable
<1>5. CASE SetCommitted
  <2> DEFINE c == item.commitment
             v == [height |-> c.end, index |-> c.index]
  <2>1. /\ committedAt' = Put(committedAt, current, v) /\ provenAt' = provenAt
        /\ step = "setCommitted" /\ current' = current
    BY <1>5 DEF SetCommitted, StatusHeight
  <2>2. c.end \in Nat /\ c.index \in Nat
    BY <2>1, KeyTypes DEF OrderInv, HistoryInv, ChainInv, TypeInv, TypeOK
  <2>3. v \in HeightAndIndex /\ v.height = c.end /\ v.index = c.index
    BY <2>2 DEF HeightAndIndex
  <2>4. DOMAIN committedAt # {} => /\ c.end > Highest(committedAt).height
                                   /\ c.index > Highest(committedAt).index
    BY <2>1 DEF OrderInv, HistoryInv, CommitAdvances
  <2> HIDE DEF v
  <2>5. Ascending(committedAt') /\ Ascending(provenAt')
    BY <1>2, <1>3, <2>1, <2>3, <2>4, AscendingPut DEF OrderInv
  <2>6. ASSUME NEW h \in Nat, h < current
        PROVE  ~Above(HighestAt(provenAt', h), HighestAt(committedAt', h))
    <3>1. HighestAt(committedAt', h) = HighestAt(committedAt, h)
      BY <1>3, <1>4, <2>1, <2>6, HighestAtPut
    <3>2. QED
      BY <2>1, <2>6, <3>1, WithinAll
  <2>7. Within(provenAt', committedAt', current')
    BY <2>1, <2>6 DEF Within
  <2>8. QED
    BY <1>1, <2>5, <2>7 DEF OrderInv
<1>6. CASE SetProven
  <2> DEFINE p == item.proof
             v == [height |-> p.lastL2Height, index |-> LastIndex(p)]
  <2>1. /\ provenAt' = Put(provenAt, current, v) /\ committedAt' = committedAt
        /\ step = "setProven" /\ current' = current
    BY <1>6 DEF SetProven, StatusHeight
  <2>2. p.lastL2Height \in Nat /\ LastIndex(p) \in Nat
    BY <2>1, ProofsAssumption DEF OrderInv, HistoryInv, ChainInv, TypeInv, TypeOK
  <2>3. v \in HeightAndIndex /\ v.height = p.lastL2Height /\ v.index = LastIndex(p)
    BY <2>2 DEF HeightAndIndex
  <2>4. p.lastL2Height > Highest(provenAt).height /\ LastIndex(p) > Highest(provenAt).index
    BY <2>1, ZenonT(40) DEF OrderInv, HistoryInv, ProofAdvances
  <2> HIDE DEF v
  <2>5. Ascending(provenAt') /\ Ascending(committedAt')
    BY <1>2, <1>3, <2>1, <2>3, <2>4, AscendingPut DEF OrderInv
  <2>6. ASSUME NEW h \in Nat, h < current
        PROVE  ~Above(HighestAt(provenAt', h), HighestAt(committedAt', h))
    <3>1. HighestAt(provenAt', h) = HighestAt(provenAt, h)
      BY <1>3, <1>4, <2>1, <2>6, HighestAtPut
    <3>2. QED
      BY <2>1, <2>6, <3>1, WithinAll
  <2>7. Within(provenAt', committedAt', current')
    BY <2>1, <2>6 DEF Within
  <2>8. QED
    BY <1>1, <2>5, <2>7 DEF OrderInv
<1>7. CASE committedAt' = committedAt /\ provenAt' = provenAt
  <2>1. Ascending(committedAt') /\ Ascending(provenAt')
    BY <1>7 DEF OrderInv
  <2>2. Within(provenAt', committedAt', current')
    BY <1>7, WithinAll DEF Within
  <2>3. QED
    BY <1>1, <2>1, <2>2 DEF OrderInv
<1>8. SetCommitted \/ SetProven \/ (committedAt' = committedAt /\ provenAt' = provenAt)
  BY <1>1, StepKinds, ZenonT(40) DEF AcceptCommitment, PutCommitment, AcceptProof
<1>9. QED
  BY <1>5, <1>6, <1>7, <1>8

\* With graceful restarts get_l2_status_heights_by_l1_height answers with the highest
\* status recorded up to an L1 height, for both statuses.
THEOREM HighestUpToL1Holds == Spec => []HighestUpToL1
<1>1. ASSUME NEW t, IsTable(t, Nat, HeightAndIndex), Ascending(t), NEW h \in Nat, HasLast(t, h),
             NEW k \in DOMAIN t, k <= h
      PROVE  ~Above(t[k], HighestAt(t, h))
  <2>1. DOMAIN t \subseteq Nat /\ \A j \in DOMAIN t : t[j].height \in Nat /\ t[j].index \in Nat
    BY <1>1 DEF IsTable, HeightAndIndex
  <2>2. PICK g \in DOMAIN t : g <= h /\ \A j \in DOMAIN t : j <= h => j <= g
    BY <1>1 DEF HasLast
  <2>3. HighestAt(t, h) = t[g]
    BY <1>1, <2>1, <2>2, HighestAtIs
  <2>4. t[k].height <= t[g].height /\ t[k].index <= t[g].index
    BY <1>1, <2>2 DEF Ascending
  <2>5. /\ t[k].height \in Nat /\ t[k].index \in Nat /\ t[g].height \in Nat /\ t[g].index \in Nat
    BY <1>1, <2>1, <2>2, Zenon
  <2>6. ~Above(t[k], t[g])
    BY <2>4, <2>5, NotAbove
  <2>7. QED
    BY <2>3, <2>6
<1>2. OrderInv => HighestUpToL1
  <2> SUFFICES ASSUME OrderInv, NEW t \in {committedAt, provenAt}, NEW h \in Nat,
                      NEW k \in DOMAIN t, k <= h
               PROVE  ~Above(t[k], HighestAt(t, h))
    BY DEF HighestUpToL1
  <2>1. IsTable(t, Nat, HeightAndIndex) /\ Ascending(t) /\ HasLast(t, h)
    BY DEF OrderInv, HistoryInv, ChainInv, TypeInv, TypeOK, Readable
  <2>2. QED
    BY <1>1, <2>1
<1>3. QED
  BY <1>2, OrderInit, OrderNext, PTL DEF Spec

\* With graceful restarts the two entries of get_l2_status_heights_by_l1_height are in
\* order at every L1 height: what is proven there is committed there.
THEOREM ProvenWithinCommittedHolds == Spec => []ProvenWithinCommitted
<1>1. OrderInv => ProvenWithinCommitted
  BY WithinAll DEF ProvenWithinCommitted
<1>2. QED
  BY <1>1, OrderInit, OrderNext, PTL DEF Spec

-----------------------------------------------------------------------------
(***************************************************************************)
(* The lists kept for an L1 slot, with graceful restarts.                  *)
(***************************************************************************)
\* An accepted item is not dropped before its first write.
LEMMA ListSteps ==
  ASSUME IdleIsDeciding, [Next]_vars
  PROVE  /\ \/ AcceptCommitment \/ PutCommitment
            \/ /\ UNCHANGED commitmentsOnSlot
               /\ step = "putCommitment" => step' = step /\ item' = item
         /\ \/ AcceptProof \/ SetProven
            \/ /\ UNCHANGED <<verifiedProofs, provenAt>>
               /\ step = "setProven" => step' = step /\ item' = item
<1> DEFINE Same == UNCHANGED <<commitmentsOnSlot, verifiedProofs, provenAt>>
           Goes == step \in {"putCommitment", "setProven"} => step' = step /\ item' = item
<1>1. UNCHANGED vars \/ FinalizeL1Block \/ SyncL2 => Same /\ Goes
  BY DEF vars, ledger, FinalizeL1Block, SyncL2, ApplyL2Block, CommitL2Block
<1>2. StopAndStart => Same /\ Goes
  BY DEF StopAndStart, Boot, IdleIsDeciding
<1>3. StartBlock \/ SkipIndexZero \/ BlockDone \/ PendingCommitmentsDone \/ FinishBlock => Same /\ Goes
  BY ZenonT(40) DEF ledger, StartBlock, SkipIndexZero, BlockDone, PendingCommitmentsDone, FinishBlock, Deciding
<1>4. DiscardCommitment \/ PendCommitment \/ HaltOnMismatch \/ FailOnEmptyRange
        \/ RemovePendingCommitment \/ SetCommitted => Same /\ Goes
  BY ZenonT(40) DEF ledger, DiscardCommitment, PendCommitment, HaltOnMismatch, FailOnEmptyRange,
         RemovePendingCommitment, SetCommitted, Deciding
<1>5. DiscardProof \/ SkipProof \/ PanicOnProven \/ PendProof \/ RemovePendingProof => Same /\ Goes
  BY ZenonT(40) DEF ledger, DiscardProof, SkipProof, PanicOnProven, PendProof, RemovePendingProof, Deciding
<1>6. AcceptCommitment \/ PutCommitment =>
        /\ UNCHANGED <<verifiedProofs, provenAt>>
        /\ step = "setProven" => step' = step /\ item' = item
  BY DEF AcceptCommitment, PutCommitment, Deciding
<1>7. AcceptProof \/ SetProven =>
        /\ UNCHANGED commitmentsOnSlot
        /\ step = "putCommitment" => step' = step /\ item' = item
  BY DEF AcceptProof, SetProven, Deciding
<1>8. QED
  BY <1>1, <1>2, <1>3, <1>4, <1>5, <1>6, <1>7 DEF Next, Node, Handler, ProcessCommitment, ProcessProof

\* With graceful restarts the commitments listed for an L1 slot
\* (update_commitments_on_da_slot) are the canonical ones.
THEOREM SlotListsCanonicalHolds == Spec => []SlotListsCanonical
<1>1. Init => SlotListsCanonical
  BY DEF Init, EmptyTable, SlotListsCanonical
<1>2. ASSUME FinalityInv, SlotListsCanonical, [Next]_vars PROVE SlotListsCanonical'
  <2>1. \A i \in DOMAIN commitmentByIndex :
          i \in DOMAIN commitmentByIndex' /\ commitmentByIndex'[i] = commitmentByIndex[i]
    BY <1>2, GracefulIsCrash, StoredKept DEF FinalityInv
  <2>2. CASE AcceptCommitment
    <3>1. PICK it \in CommitmentItems :
            /\ item' = it
            /\ commitmentsOnSlot' =
                 Put(commitmentsOnSlot, it.found,
                     (IF it.found \in DOMAIN commitmentsOnSlot THEN commitmentsOnSlot[it.found] ELSE {})
                       \cup {it.commitment})
      BY <2>2, ZenonT(40) DEF AcceptCommitment
    <3>2. step = "decide" /\ step' = "putCommitment"
      BY <2>2 DEF AcceptCommitment, Deciding
    <3>3. ASSUME NEW s \in DOMAIN commitmentsOnSlot', NEW c \in commitmentsOnSlot'[s]
          PROVE  \/ c = it.commitment
                 \/ s \in DOMAIN commitmentsOnSlot /\ c \in commitmentsOnSlot[s]
      BY <3>1, <3>3 DEF Put
    <3>4. QED
      BY <1>2, <2>1, <3>1, <3>2, <3>3 DEF SlotListsCanonical
  <2>3. CASE PutCommitment
    <3>1. /\ commitmentByIndex' = Put(commitmentByIndex, item.commitment.index, item.commitment)
          /\ UNCHANGED <<commitmentsOnSlot, item>>
      BY <2>3 DEF PutCommitment
    <3>2. /\ item.commitment.index \in DOMAIN commitmentByIndex'
          /\ commitmentByIndex'[item.commitment.index] = item.commitment
      BY <3>1 DEF Put
    <3>3. QED
      BY <1>2, <2>1, <3>1, <3>2 DEF SlotListsCanonical
  <2>4. CASE UNCHANGED commitmentsOnSlot /\ (step = "putCommitment" => step' = step /\ item' = item)
    BY <1>2, <2>1, <2>4 DEF SlotListsCanonical
  <2>5. QED
    BY <1>2, <2>2, <2>3, <2>4, ListSteps DEF FinalityInv
<1>3. QED
  BY <1>1, <1>2, FinalityInit, FinalityNext, PTL DEF Spec

\* A recorded proof does not reach beyond the proven status, or is about to.
RecordedSettled ==
  \A q \in RecordedProofs :
    LastIndex(q) <= Highest(provenAt).index \/ (step = "setProven" /\ item.proof = q)

\* The step adds one proof to the lists, at place l of slot f.
AddedAt(f, l) ==
  \A s \in DOMAIN verifiedProofs' : \A m \in DOMAIN verifiedProofs'[s] :
    \/ s = f /\ m = l /\ verifiedProofs'[s][m] = item'.proof
    \/ /\ s \in DOMAIN verifiedProofs /\ m \in DOMAIN verifiedProofs[s]
       /\ verifiedProofs'[s][m] = verifiedProofs[s][m]

\* Where the recorded proofs are after one is appended.
LEMMA RecordedWhere ==
  ASSUME TypeInv, AcceptProof
  PROVE  \E f, l : AddedAt(f, l)
<1>1. PICK it \in ProofItems : \E q \in Seq(BatchProofs) :
        /\ it.proof \in BatchProofs /\ item' = it
        /\ q = IF it.found \in DOMAIN verifiedProofs THEN verifiedProofs[it.found] ELSE << >>
        /\ verifiedProofs' = Put(verifiedProofs, it.found, Append(q, it.proof))
  BY AcceptedProof
<1>2. PICK q \in Seq(BatchProofs) :
        /\ it.proof \in BatchProofs /\ item' = it
        /\ q = IF it.found \in DOMAIN verifiedProofs THEN verifiedProofs[it.found] ELSE << >>
        /\ verifiedProofs' = Put(verifiedProofs, it.found, Append(q, it.proof))
  BY <1>1, Zenon
<1> DEFINE u == Append(q, it.proof)
           l == Len(q) + 1
<1>3. /\ DOMAIN u = DOMAIN q \cup {l}
      /\ \A n \in DOMAIN q : u[n] = q[n]
      /\ u[l] = it.proof
  <2>1. q \in Seq(BatchProofs) /\ it.proof \in BatchProofs
    BY <1>2
  <2>2. QED
    BY <2>1, AppendKeeps
<1>4. it.found \in DOMAIN verifiedProofs \/ DOMAIN q = {}
  <2>1. DOMAIN << >> = {}
    OBVIOUS
  <2>2. it.found \in DOMAIN verifiedProofs \/ q = << >>
    BY <1>2, Zenon
  <2>3. QED
    BY <2>1, <2>2
<1> HIDE DEF u, l
<1>5. /\ verifiedProofs'[it.found] = u
      /\ DOMAIN verifiedProofs' = DOMAIN verifiedProofs \cup {it.found}
      /\ \A s \in DOMAIN verifiedProofs : s # it.found => verifiedProofs'[s] = verifiedProofs[s]
  BY <1>2 DEF Put, u
<1>6. ASSUME NEW s \in DOMAIN verifiedProofs', NEW m \in DOMAIN verifiedProofs'[s]
      PROVE  \/ s = it.found /\ m = l /\ verifiedProofs'[s][m] = item'.proof
             \/ /\ s \in DOMAIN verifiedProofs /\ m \in DOMAIN verifiedProofs[s]
                /\ verifiedProofs'[s][m] = verifiedProofs[s][m]
  <2>1. CASE s = it.found
    <3>1. CASE m = l
      BY <1>2, <1>3, <1>5, <2>1, <3>1
    <3>2. CASE m # l
      <4>1. m \in DOMAIN q /\ u[m] = q[m]
        BY <1>3, <1>5, <1>6, <2>1, <3>2
      <4>2. s \in DOMAIN verifiedProofs /\ q = verifiedProofs[s]
        BY <1>2, <1>4, <2>1, <4>1
      <4>3. QED
        BY <1>5, <2>1, <4>1, <4>2
    <3>3. QED
      BY <3>1, <3>2
  <2>2. CASE s # it.found
    BY <1>5, <1>6, <2>2
  <2>3. QED
    BY <2>1, <2>2
<1>7. AddedAt(it.found, l)
  BY <1>6, ZenonT(40) DEF AddedAt
<1>8. QED
  BY <1>7, Zenon

\* What is recorded stands in some list.
Listed(v, q) == \E s \in DOMAIN v : \E n \in DOMAIN v[s] : q = v[s][n]

LEMMA InLists ==
  /\ \A q : q \in RecordedProofs <=> Listed(verifiedProofs, q)
  /\ \A q : q \in RecordedProofs' <=> Listed(verifiedProofs', q)
<1>1. \A q : q \in RecordedProofs <=> Listed(verifiedProofs, q)
  BY DEF RecordedProofs, Listed
<1>2. \A q : q \in RecordedProofs' <=> Listed(verifiedProofs', q)
  BY DEF RecordedProofs, Listed
<1>3. QED
  BY <1>1, <1>2

\* What is recorded once has one place.
LEMMA OnceMeans ==
  ASSUME ProofRecordedOnce,
         NEW s \in DOMAIN verifiedProofs, NEW m \in DOMAIN verifiedProofs[s],
         NEW t \in DOMAIN verifiedProofs, NEW n \in DOMAIN verifiedProofs[t],
         verifiedProofs[s][m] = verifiedProofs[t][n]
  PROVE  s = t /\ m = n
BY DEF ProofRecordedOnce

\* Lists that stay record the same proofs, as often as before.
LEMMA ListsKept ==
  ASSUME verifiedProofs' = verifiedProofs
  PROVE  RecordedProofs' = RecordedProofs /\ (ProofRecordedOnce => ProofRecordedOnce')
<1>1. RecordedProofs' = RecordedProofs
  BY DEF RecordedProofs
<1>2. ProofRecordedOnce => ProofRecordedOnce'
  BY DEF ProofRecordedOnce
<1>3. QED
  BY <1>1, <1>2

\* With graceful restarts update_verified_proof_data records a proof once, although it
\* appends without looking.
THEOREM ProofRecordedOnceHolds == Spec => []ProofRecordedOnce
<1> DEFINE I == OrderInv /\ RecordedSettled /\ ProofRecordedOnce
<1>1. Init => RecordedSettled /\ ProofRecordedOnce
  BY DEF Init, EmptyTable, RecordedSettled, RecordedProofs, ProofRecordedOnce
<1>2. ASSUME I, [Next]_vars PROVE RecordedSettled' /\ ProofRecordedOnce'
  <2>1. TypeInv /\ HistoryInv /\ FinalityInv /\ Highest(provenAt).index \in Nat
    BY <1>2, HistoryTypes DEF OrderInv
  <2>2. RecordedProofs \subseteq BatchProofs
    <3>1. \A s \in DOMAIN verifiedProofs : verifiedProofs[s] \in Seq(BatchProofs)
      BY <2>1, ZenonT(40) DEF TypeInv, TypeOK, IsTable
    <3>2. \A s \in DOMAIN verifiedProofs : \A n \in DOMAIN verifiedProofs[s] :
            verifiedProofs[s][n] \in BatchProofs
      BY <3>1
    <3>3. ASSUME NEW q \in RecordedProofs PROVE q \in BatchProofs
      <4>1. PICK s \in DOMAIN verifiedProofs : \E n \in DOMAIN verifiedProofs[s] : q = verifiedProofs[s][n]
        BY <3>3, InLists, ZenonT(40) DEF Listed
      <4>2. QED
        BY <3>2, <4>1, ZenonT(40)
    <3>4. QED
      BY <3>3, Zenon
  <2>3. \A q \in BatchProofs : LastIndex(q) \in Nat
    BY KeyTypes
  <2>4. CASE AcceptProof
    <3>1. PICK it \in ProofItems : it.proof \in BatchProofs /\ Examined(it.proof) /\ item' = it
      BY <2>1, <2>4, AcceptedProof
    <3>2. step = "decide" /\ step' = "setProven" /\ provenAt' = provenAt
      BY <2>4 DEF AcceptProof, Deciding
    <3>3. LastIndex(it.proof) > Highest(provenAt).index
      BY <3>1 DEF Examined, Advances
    <3>4. \A q \in RecordedProofs : LastIndex(q) <= Highest(provenAt).index
      BY <1>2, <3>2 DEF RecordedSettled
    <3>5. it.proof \notin RecordedProofs
      BY <2>1, <2>3, <3>1, <3>3, <3>4
    <3>6. PICK f, l : AddedAt(f, l)
      BY <2>1, <2>4, RecordedWhere, ZenonT(40)
    <3> DEFINE new == item'.proof
    <3>a. new = it.proof
      BY <3>1
    <3> HIDE DEF new
    <3>b. ASSUME NEW s \in DOMAIN verifiedProofs', NEW m \in DOMAIN verifiedProofs'[s]
          PROVE  \/ s = f /\ m = l /\ verifiedProofs'[s][m] = new
                 \/ /\ s \in DOMAIN verifiedProofs /\ m \in DOMAIN verifiedProofs[s]
                    /\ verifiedProofs'[s][m] = verifiedProofs[s][m]
                    /\ verifiedProofs'[s][m] \in RecordedProofs
      <4>1. CASE s = f /\ m = l /\ verifiedProofs'[s][m] = item'.proof
        BY <4>1 DEF new
      <4>2. CASE /\ s \in DOMAIN verifiedProofs /\ m \in DOMAIN verifiedProofs[s]
                 /\ verifiedProofs'[s][m] = verifiedProofs[s][m]
        BY <4>2, InLists, ZenonT(40) DEF Listed
      <4>3. QED
        BY <3>6, <4>1, <4>2, ZenonT(40) DEF AddedAt
    <3>7. \A q \in RecordedProofs' : q \in RecordedProofs \/ q = it.proof
      <4>1. \A q \in RecordedProofs' : \E s \in DOMAIN verifiedProofs' :
              \E m \in DOMAIN verifiedProofs'[s] : q = verifiedProofs'[s][m]
        BY InLists, ZenonT(40) DEF Listed
      <4>2. ASSUME NEW q \in RecordedProofs' PROVE q \in RecordedProofs \/ q = it.proof
        <5>1. PICK s \in DOMAIN verifiedProofs' :
                \E m \in DOMAIN verifiedProofs'[s] : q = verifiedProofs'[s][m]
          BY <4>1, <4>2, ZenonT(40)
        <5>2. PICK m \in DOMAIN verifiedProofs'[s] : q = verifiedProofs'[s][m]
          BY <5>1, ZenonT(40)
        <5>3. verifiedProofs'[s][m] = new \/ verifiedProofs'[s][m] \in RecordedProofs
          BY <3>b, ZenonT(40)
        <5>4. QED
          BY <3>a, <5>2, <5>3, ZenonT(40)
      <4>3. QED
        BY <4>2, ZenonT(40)
    <3>8. RecordedSettled'
      BY <3>1, <3>2, <3>4, <3>7 DEF RecordedSettled, Highest, LastIndex
    <3>9. ASSUME NEW s \in DOMAIN verifiedProofs', NEW t \in DOMAIN verifiedProofs',
                 NEW m \in DOMAIN verifiedProofs'[s], NEW n \in DOMAIN verifiedProofs'[t],
                 verifiedProofs'[s][m] = verifiedProofs'[t][n]
          PROVE  s = t /\ m = n
      <4>1. new \notin RecordedProofs
        BY <3>5, <3>a
      <4>2. CASE s = f /\ m = l /\ verifiedProofs'[s][m] = new
        BY <3>9, <3>b, <4>1, <4>2, ZenonT(40)
      <4>3. CASE /\ s \in DOMAIN verifiedProofs /\ m \in DOMAIN verifiedProofs[s]
                 /\ verifiedProofs'[s][m] = verifiedProofs[s][m]
                 /\ verifiedProofs'[s][m] \in RecordedProofs
        <5>1. /\ t \in DOMAIN verifiedProofs /\ n \in DOMAIN verifiedProofs[t]
              /\ verifiedProofs'[t][n] = verifiedProofs[t][n]
          BY <3>9, <3>b, <4>1, <4>3, ZenonT(40)
        <5>2. verifiedProofs[s][m] = verifiedProofs[t][n]
          BY <3>9, <4>3, <5>1, ZenonT(40)
        <5>3. ProofRecordedOnce
          BY <1>2
        <5>4. QED
          BY <4>3, <5>1, <5>2, <5>3, OnceMeans, ZenonT(40)
      <4>4. QED
        BY <3>b, <3>9, <4>2, <4>3, ZenonT(40)
    <3>10. QED
      BY <3>8, <3>9 DEF ProofRecordedOnce
  <2>5. CASE SetProven
    <3> DEFINE p == item.proof
               v == [height |-> p.lastL2Height, index |-> LastIndex(p)]
    <3>1. /\ provenAt' = Put(provenAt, current, v) /\ step = "setProven"
          /\ verifiedProofs' = verifiedProofs
      BY <2>5 DEF SetProven, StatusHeight
    <3>2. /\ current \in Nat /\ DOMAIN provenAt \subseteq Nat /\ p \in BatchProofs
          /\ \A j \in DOMAIN provenAt : j <= current
      BY <2>1, <3>1 DEF FinalityInv, KeysOrdered, TypeInv, TypeOK, IsTable
    <3>3. Highest(provenAt') = v
      BY <3>1, <3>2, HighestPut
    <3>4. Highest(provenAt').index = LastIndex(p)
      BY <3>3
    <3>5. LastIndex(p) > Highest(provenAt).index
      BY <2>1, <3>1 DEF HistoryInv, ProofAdvances
    <3>6. RecordedProofs' = RecordedProofs
      BY <3>1, ListsKept
    <3>7. ASSUME NEW q \in RecordedProofs PROVE LastIndex(q) <= LastIndex(p)
      <4>1. LastIndex(q) \in Nat /\ LastIndex(p) \in Nat
        BY <2>2, <2>3, <3>2
      <4>2. LastIndex(q) <= Highest(provenAt).index \/ p = q
        BY <1>2, <3>7 DEF RecordedSettled
      <4>3. QED
        BY <2>1, <3>5, <4>1, <4>2
    <3>8. RecordedSettled'
      BY <3>4, <3>6, <3>7 DEF RecordedSettled, LastIndex
    <3>9. ProofRecordedOnce'
      BY <1>2, <3>1, ListsKept
    <3>10. QED
      BY <3>8, <3>9
  <2>6. CASE /\ UNCHANGED <<verifiedProofs, provenAt>>
             /\ step = "setProven" => step' = step /\ item' = item
    <3>1. RecordedProofs' = RecordedProofs /\ Highest(provenAt)' = Highest(provenAt)
      <4>1. verifiedProofs' = verifiedProofs /\ provenAt' = provenAt
        BY <2>6, Zenon
      <4>2. RecordedProofs' = RecordedProofs
        BY <4>1, ListsKept
      <4>3. Highest(provenAt)' = Highest(provenAt)
        BY <4>1 DEF Highest
      <4>4. QED
        BY <4>2, <4>3, Zenon
    <3>2. RecordedSettled'
      BY <1>2, <2>6, <3>1 DEF RecordedSettled, LastIndex
    <3>3. QED
      BY <1>2, <2>6, <3>2, ListsKept
  <2>7. QED
    BY <1>2, <2>1, <2>4, <2>5, <2>6, ListSteps DEF FinalityInv
<1>3. QED
  BY <1>1, <1>2, OrderInit, OrderNext, PTL DEF Spec
=============================================================================
