------------------------- MODULE FullNodeRefinement -------------------------
(***************************************************************************)
(* With graceful restarts the full node implements Finality, and its       *)
(* panics are unreachable.  The inductive invariant ties the two status    *)
(* tables, which are keyed by L1 height, to the stored commitments:        *)
(*   - the handler never writes a status under a smaller L1 height than    *)
(*     one already written (KeysOrdered), so the newest entry is the one   *)
(*     with the greatest key;                                              *)
(*   - between two items the committed entry is the last stored commitment *)
(*     (CommittedIsLast), and the proven entry is some stored commitment   *)
(*     (ProvenIsStored).                                                   *)
(* KeysOrdered is what a crash in the middle of a block breaks.            *)
(***************************************************************************)
EXTENDS FullNodeProofs

\* How long the provers may take for a step, so that a slow machine finds the proofs too.
USE SMTT(40), ZenonT(40)

HasGreatest(t) ==
  DOMAIN t = {} \/ \E k \in DOMAIN t : \A j \in DOMAIN t : j <= k

KeysOrdered ==
  /\ lastScanned <= current
  /\ \A t \in {committedAt, provenAt} :
       /\ HasGreatest(t)
       /\ \A k \in DOMAIN t : k <= current
       /\ phase = "idle" => \A k \in DOMAIN t : k <= lastScanned

\* The commitments that have their status recorded.
Settled ==
  IF step = "setCommitted" THEN DOMAIN commitmentByIndex \ {item.commitment.index}
  ELSE DOMAIN commitmentByIndex

CommittedIsLast ==
  LET com == Highest(committedAt) IN
  /\ \A i \in Settled : i <= com.index
  /\ IF DOMAIN committedAt = {} THEN Settled = {}
     ELSE com.index \in Settled /\ commitmentByIndex[com.index].end = com.height

Recording ==
  step = "setCommitted" =>
    LET c == item.commitment IN
    /\ c.index \in DOMAIN commitmentByIndex
    /\ commitmentByIndex[c.index] = c
    /\ c.index = Highest(committedAt).index + 1

ProvenIsStored ==
  LET prv == Highest(provenAt) IN
  prv = Default \/ (prv.index \in Settled /\ commitmentByIndex[prv.index].end = prv.height)

Proving ==
  step = "setProven" =>
    LET p == item.proof IN
    /\ Advances(p)
    /\ LastIndex(p) \in DOMAIN commitmentByIndex
    /\ commitmentByIndex[LastIndex(p)].end = p.lastL2Height

\* Between two blocks nothing is half written.
IdleIsDeciding == phase = "idle" => step = "decide"

FinalityInv ==
  ChainInv /\ IdleIsDeciding /\ KeysOrdered /\ CommittedIsLast /\ Recording /\ ProvenIsStored /\ Proving

-----------------------------------------------------------------------------
\* get_highest_l2_height_for_status(_, None) reads the entry with the greatest key.
LEMMA HighestIs ==
  ASSUME NEW t, DOMAIN t \subseteq Nat, NEW k \in DOMAIN t, \A j \in DOMAIN t : j <= k
  PROVE  Highest(t) = t[k]
<1> DEFINE m == CHOOSE n \in DOMAIN t : \A j \in DOMAIN t : j <= n
<1>1. m \in DOMAIN t /\ \A j \in DOMAIN t : j <= m
  OBVIOUS
<1>2. m = k
  <2>1. m <= k /\ k <= m /\ m \in Nat /\ k \in Nat
    BY <1>1
  <2>2. QED
    BY <2>1
<1>3. QED
  BY <1>2 DEF Highest

\* A status written under a key not below the others is the one read afterwards.
LEMMA HighestPut ==
  ASSUME NEW t, DOMAIN t \subseteq Nat, NEW k \in Nat, \A j \in DOMAIN t : j <= k, NEW v
  PROVE  /\ Highest(Put(t, k, v)) = v
         /\ HasGreatest(Put(t, k, v))
         /\ DOMAIN Put(t, k, v) # {}
         /\ \A j \in DOMAIN Put(t, k, v) : j <= k
<1> DEFINE u == Put(t, k, v)
<1>1. DOMAIN u = DOMAIN t \cup {k} /\ u[k] = v
  BY DEF Put
<1>2. DOMAIN u \subseteq Nat /\ k \in DOMAIN u /\ \A j \in DOMAIN u : j <= k
  BY <1>1
<1>3. Highest(u) = u[k]
  BY <1>2, HighestIs
<1>4. QED
  BY <1>1, <1>2, <1>3 DEF HasGreatest

\* What is read has the type of a status.
LEMMA HighestType ==
  ASSUME NEW t, IsTable(t, Nat, HeightAndIndex), HasGreatest(t)
  PROVE  Highest(t) \in HeightAndIndex
<1>1. CASE DOMAIN t = {}
  BY <1>1 DEF Highest, Default, HeightAndIndex
<1>2. CASE DOMAIN t # {}
  <2>1. PICK k \in DOMAIN t : \A j \in DOMAIN t : j <= k
    BY <1>2 DEF HasGreatest
  <2>2. Highest(t) = t[k]
    BY <2>1, HighestIs DEF IsTable
  <2>3. QED
    BY <2>1, <2>2 DEF IsTable
<1>3. QED
  BY <1>1, <1>2, Zenon

\* The types of the two statuses in a state of the invariant.
LEMMA StatusTypes ==
  ASSUME TypeInv, KeysOrdered
  PROVE  /\ Highest(committedAt) \in HeightAndIndex
         /\ Highest(committedAt).height \in Nat /\ Highest(committedAt).index \in Nat
         /\ Highest(provenAt) \in HeightAndIndex
         /\ Highest(provenAt).height \in Nat /\ Highest(provenAt).index \in Nat
<1>1. Highest(committedAt) \in HeightAndIndex
  BY HighestType DEF TypeInv, TypeOK, KeysOrdered
<1>2. Highest(provenAt) \in HeightAndIndex
  BY HighestType DEF TypeInv, TypeOK, KeysOrdered
<1>3. QED
  BY <1>1, <1>2 DEF HeightAndIndex

\* Along the chain a larger index ends at a larger height.
LEMMA ChainMonotone ==
  ASSUME TypeInv, CommittedChain,
         NEW i \in DOMAIN commitmentByIndex, NEW j \in DOMAIN commitmentByIndex, i <= j
  PROVE  /\ i \in Nat \ {0} /\ j \in Nat \ {0}
         /\ commitmentByIndex[i].end \in Nat \ {0} /\ commitmentByIndex[j].end \in Nat
         /\ commitmentByIndex[i].end <= commitmentByIndex[j].end
         /\ i < j => commitmentByIndex[i].end < commitmentByIndex[j].end
<1>1. i \in Nat \ {0} /\ j \in Nat \ {0}
  BY DEF TypeInv, TypeOK, IsTable, CommittedChain
<1>2. \A k \in DOMAIN commitmentByIndex : commitmentByIndex[k].end \in Nat
  BY KeyTypes DEF TypeInv, TypeOK, IsTable
<1>3. StartHeight(i) \in Nat \ {0}
  <2>1. CASE i = 1
    BY <2>1, BoundsAssumption DEF StartHeight
  <2>2. CASE i # 1
    <3>1. i - 1 \in DOMAIN commitmentByIndex
      BY <2>2, <1>1 DEF CommittedChain
    <3>2. QED
      BY <2>2, <3>1, <1>2 DEF StartHeight
  <2>3. QED
    BY <2>1, <2>2
<1>4. commitmentByIndex[i].end \in Nat \ {0}
  BY <1>2, <1>3 DEF CommittedChain
<1>5. i < j => commitmentByIndex[i].end < commitmentByIndex[j].end
  BY <1>1 DEF CommittedChain
<1>6. i = j \/ i < j
  BY <1>1
<1>7. QED
  BY <1>1, <1>2, <1>4, <1>5, <1>6

\* The proven status is not above the committed one (L2HeightAndIndex order): what
\* process_tangerine_zk_proof checks before it panics.
LEMMA ProvenNotAbove ==
  ASSUME FinalityInv
  PROVE  /\ ~ProvenAboveCommitted
         /\ Highest(provenAt).index <= Highest(committedAt).index
<1> DEFINE com == Highest(committedAt)
           prv == Highest(provenAt)
<1>1. TypeInv /\ CommittedChain /\ KeysOrdered /\ CommittedIsLast /\ ProvenIsStored
  BY DEF FinalityInv, ChainInv
<1>2. com.height \in Nat /\ com.index \in Nat /\ prv.height \in Nat /\ prv.index \in Nat
  BY <1>1, StatusTypes
<1>3. CASE prv = Default
  BY <1>2, <1>3 DEF Default, ProvenAboveCommitted, Above
<1>4. CASE prv # Default
  <2>1. prv.index \in Settled /\ commitmentByIndex[prv.index].end = prv.height
    BY <1>1, <1>4 DEF ProvenIsStored
  <2>2. prv.index <= com.index /\ com.index \in Settled
        /\ commitmentByIndex[com.index].end = com.height
    BY <1>1, <2>1 DEF CommittedIsLast
  <2>3. Settled \subseteq DOMAIN commitmentByIndex
    BY DEF Settled
  <2>4. prv.height <= com.height /\ (prv.index < com.index => prv.height < com.height)
    BY <1>1, <2>1, <2>2, <2>3, ChainMonotone
  <2>5. QED
    BY <1>2, <2>2, <2>4 DEF ProvenAboveCommitted, Above
<1>5. QED
  BY <1>3, <1>4

\* A commitment that passes the checks directly follows the committed one.
LEMMA CheckableIsNext ==
  ASSUME FinalityInv, step = "decide", NEW c \in SequencerCommitments, c.index > 0, Checkable(c)
  PROVE  /\ c.index = Highest(committedAt).index + 1
         /\ c.index # 1 => StartHeight(c.index) <= c.end
<1> DEFINE com == Highest(committedAt)
           D == DOMAIN commitmentByIndex
<1>1. TypeInv /\ CommittedChain /\ KeysOrdered /\ CommittedIsLast /\ Settled = D
  BY DEF FinalityInv, ChainInv, Settled
<1>2. com.height \in Nat /\ com.index \in Nat /\ c.index \in Nat /\ c.end \in Nat
  BY <1>1, StatusTypes, KeyTypes
<1>3. c.index \notin D /\ (c.index = 1 \/ c.index - 1 \in D)
  BY DEF Checkable, Redundant, HasPredecessor
<1>4. CASE DOMAIN committedAt = {}
  <2>1. D = {} /\ com.index = 0
    BY <1>1, <1>4 DEF CommittedIsLast, Highest, Default
  <2>2. QED
    BY <1>3, <2>1
<1>5. CASE DOMAIN committedAt # {}
  <2>1. com.index \in D /\ commitmentByIndex[com.index].end = com.height
        /\ \A i \in D : i <= com.index
    BY <1>1, <1>5 DEF CommittedIsLast
  <2>2. c.end > com.height /\ c.index > com.index
    BY <1>2, <1>5 DEF Checkable, Redundant
  <2>3. com.index > 0
    BY <1>1, <2>1 DEF CommittedChain
  <2>4. c.index - 1 \in D
    BY <1>2, <1>3, <2>2, <2>3
  <2>5. c.index - 1 = com.index
    BY <1>2, <2>1, <2>2, <2>4
  <2>6. QED
    BY <1>2, <2>1, <2>2, <2>3, <2>5 DEF StartHeight
<1>6. QED
  BY <1>4, <1>5, Zenon

\* A proof whose commitments are all stored with the hashes it names ends at a stored
\* commitment: the circuit guarantees the reported height is the last one's end.
LEMMA VerifiedProofEnds ==
  ASSUME NEW p \in BatchProofs, p.valid, Verified(p), AllStored(p)
  PROVE  /\ LastIndex(p) \in DOMAIN commitmentByIndex
         /\ commitmentByIndex[LastIndex(p)].end = p.lastL2Height
<1> DEFINE n == Len(p.hashes)
           r == <<p.firstIndex + n - 1, p.hashes[n]>>
<1>1. p.hashes \in Seq(SequencerCommitments) /\ BatchProofSound(p)
  BY ProofsAssumption
<1>2. n \in DOMAIN p.hashes
  BY <1>1 DEF BatchProofSound
<1>3. r \in References(p)
  BY <1>2 DEF References
<1>4. r[1] \in DOMAIN commitmentByIndex /\ HashMatches(r)
  BY <1>3 DEF Verified, AllStored
<1>5. r[1] = LastIndex(p) /\ r[2] = p.hashes[n]
  BY DEF LastIndex
<1>6. commitmentByIndex[LastIndex(p)] = p.hashes[n]
  BY <1>4, <1>5 DEF HashMatches
<1>7. QED
  BY <1>1, <1>4, <1>5, <1>6 DEF BatchProofSound

-----------------------------------------------------------------------------
\* A step within a block, or none, that writes no status keeps the keys ordered.
LEMMA KeysFrame ==
  ASSUME KeysOrdered, committedAt' = committedAt, provenAt' = provenAt,
         current' = current, lastScanned' = lastScanned, phase' = "idle" => phase = "idle"
  PROVE  KeysOrdered'
BY DEF KeysOrdered, HasGreatest

\* The committed status stays the last settled commitment if neither changes.
LEMMA CommittedIsLastFrame ==
  ASSUME CommittedIsLast, committedAt' = committedAt,
         commitmentByIndex' = commitmentByIndex, Settled' = Settled
  PROVE  CommittedIsLast'
<1>1. Highest(committedAt') = Highest(committedAt)
  BY Zenon
<1>2. QED
  BY <1>1, ZenonT(40) DEF CommittedIsLast

\* The proven status stays a settled commitment if more are settled.
LEMMA ProvenIsStoredFrame ==
  ASSUME ProvenIsStored, provenAt' = provenAt,
         commitmentByIndex' = commitmentByIndex, Settled \subseteq Settled'
  PROVE  ProvenIsStored'
<1>1. Highest(provenAt') = Highest(provenAt)
  BY Zenon
<1>2. QED
  BY <1>1, ZenonT(40) DEF ProvenIsStored

\* A step that writes neither a status nor a commitment keeps the invariant.
LEMMA FinalityFrame ==
  ASSUME FinalityInv, ChainInv', KeysOrdered', IdleIsDeciding',
         committedAt' = committedAt, provenAt' = provenAt,
         commitmentByIndex' = commitmentByIndex,
         (step' = "setCommitted") <=> (step = "setCommitted"),
         step = "setCommitted" => item' = item,
         step' = "setProven" => step = "setProven" /\ item' = item
  PROVE  FinalityInv'
<1>1. Settled' = Settled
  BY DEF Settled
<1>2. CommittedIsLast' /\ ProvenIsStored'
  BY <1>1, CommittedIsLastFrame, ProvenIsStoredFrame DEF FinalityInv
<1>3. Recording'
  BY DEF FinalityInv, Recording, Highest
<1>4. Proving'
  BY DEF FinalityInv, Proving, Highest, Advances, LastIndex
<1>5. QED
  BY <1>2, <1>3, <1>4 DEF FinalityInv

\* The initial statuses are empty.
LEMMA FinalityInit == Init => FinalityInv
<1> SUFFICES ASSUME Init PROVE FinalityInv
  OBVIOUS
<1>1. ChainInv
  BY ChainInit
<1>2. DOMAIN committedAt = {} /\ DOMAIN provenAt = {} /\ DOMAIN commitmentByIndex = {}
  BY DEF Init, EmptyTable
<1>3. KeysOrdered /\ IdleIsDeciding
  BY <1>2 DEF Init, KeysOrdered, IdleIsDeciding, HasGreatest
<1>4. CommittedIsLast /\ ProvenIsStored /\ Recording /\ Proving
  BY <1>2 DEF Init, CommittedIsLast, ProvenIsStored, Recording, Proving, Settled, Highest
<1>5. QED
  BY <1>1, <1>3, <1>4 DEF FinalityInv

\* Storing the accepted commitment: it is the next one, not yet settled.
LEMMA PutCommitmentFinality ==
  ASSUME FinalityInv, ChainInv', PutCommitment,
         item.commitment.index = Highest(committedAt).index + 1
  PROVE  FinalityInv'
<1> DEFINE c == item.commitment
           D == DOMAIN commitmentByIndex
<1>1. /\ commitmentByIndex' = Put(commitmentByIndex, c.index, c)
      /\ step = "putCommitment" /\ step' = "setCommitted" /\ item' = item
      /\ committedAt' = committedAt /\ provenAt' = provenAt
      /\ current' = current /\ lastScanned' = lastScanned /\ phase' = phase
  BY DEF PutCommitment
<1>2. c.index \notin D
  BY <1>1 DEF FinalityInv, ChainInv, Accepted, Fits
<1>3. /\ DOMAIN commitmentByIndex' = D \cup {c.index}
      /\ commitmentByIndex'[c.index] = c
      /\ \A i \in D : commitmentByIndex'[i] = commitmentByIndex[i]
  BY <1>1, <1>2 DEF Put
<1>4. Settled = D /\ Settled' = D
  BY <1>1, <1>2, <1>3 DEF Settled
<1>5. Highest(committedAt)' = Highest(committedAt) /\ Highest(provenAt)' = Highest(provenAt)
  BY <1>1 DEF Highest
<1>6. CommittedIsLast'
  BY <1>1, <1>3, <1>4, <1>5 DEF FinalityInv, CommittedIsLast
<1>7. ProvenIsStored'
  BY <1>1, <1>3, <1>4, <1>5 DEF FinalityInv, ProvenIsStored
<1>8. Recording'
  BY <1>1, <1>3, <1>5 DEF Recording
<1>9. Proving' /\ IdleIsDeciding' /\ KeysOrdered'
  BY <1>1, KeysFrame DEF FinalityInv, Proving, IdleIsDeciding
<1>10. QED
  BY <1>6, <1>7, <1>8, <1>9 DEF FinalityInv

\* A commitment that fits the stored chain is the one after the committed status.
LEMMA FitsIsNext ==
  ASSUME FinalityInv, step # "setCommitted", NEW c \in SequencerCommitments, Fits(c)
  PROVE  c.index = Highest(committedAt).index + 1
<1> DEFINE com == Highest(committedAt)
           D == DOMAIN commitmentByIndex
<1>1. TypeInv /\ CommittedChain /\ KeysOrdered /\ CommittedIsLast /\ Settled = D
  BY DEF FinalityInv, ChainInv, Settled
<1>2. com.index \in Nat /\ c.index \in Nat /\ D \subseteq Nat
  BY <1>1, StatusTypes, KeyTypes, ZenonT(40) DEF TypeInv, TypeOK, IsTable
<1>3. c.index > 0 /\ c.index \notin D /\ (c.index = 1 \/ c.index - 1 \in D)
  BY DEF Fits, HasPredecessor
<1>4. CASE DOMAIN committedAt = {}
  BY <1>1, <1>3, <1>4 DEF CommittedIsLast, Highest, Default
<1>5. CASE DOMAIN committedAt # {}
  <2>1. com.index \in D /\ \A i \in D : i <= com.index
    BY <1>1, <1>5 DEF CommittedIsLast
  <2>2. ~(c.index <= com.index)
    BY <1>1, <1>2, <1>3, <2>1 DEF CommittedChain
  <2>3. com.index > 0
    BY <1>1, <2>1 DEF CommittedChain
  <2>4. QED
    BY <1>2, <1>3, <2>1, <2>2, <2>3
<1>6. QED
  BY <1>4, <1>5, Zenon

\* Recording the committed status settles the stored commitment.
LEMMA SetCommittedFinality ==
  ASSUME FinalityInv, ChainInv', SetCommitted
  PROVE  FinalityInv'
<1> DEFINE c == item.commitment
           D == DOMAIN commitmentByIndex
           v == [height |-> c.end, index |-> c.index]
<1>1. /\ committedAt' = Put(committedAt, current, v)
      /\ step = "setCommitted" /\ step' \in {"decide", "removeCommitment"}
      /\ commitmentByIndex' = commitmentByIndex /\ provenAt' = provenAt
      /\ current' = current /\ lastScanned' = lastScanned /\ phase' = phase
  BY DEF SetCommitted, StatusHeight
<1>2. TypeInv /\ KeysOrdered /\ CommittedIsLast /\ Recording /\ ProvenIsStored /\ phase # "idle"
  BY <1>1 DEF FinalityInv, ChainInv, IdleIsDeciding
<1>3. current \in Nat /\ DOMAIN committedAt \subseteq Nat /\ \A j \in DOMAIN committedAt : j <= current
  BY <1>2 DEF TypeInv, TypeOK, IsTable, KeysOrdered
<1>4. /\ Highest(committedAt') = v
      /\ HasGreatest(committedAt')
      /\ DOMAIN committedAt' # {}
      /\ \A j \in DOMAIN committedAt' : j <= current
  BY <1>1, <1>3, HighestPut
<1>5. KeysOrdered'
  BY <1>1, <1>2, <1>4 DEF KeysOrdered, HasGreatest
<1>6. Settled = D \ {c.index} /\ Settled' = D
  BY <1>1 DEF Settled
<1>7. /\ c.index \in D /\ commitmentByIndex[c.index] = c
      /\ c.index = Highest(committedAt).index + 1
  BY <1>1, <1>2 DEF Recording
<1>8. Highest(committedAt).index \in Nat /\ D \subseteq Nat
  BY <1>2, StatusTypes, ZenonT(40) DEF TypeInv, TypeOK, IsTable
<1>9. CommittedIsLast'
  <2>1. \A i \in D : i <= c.index
    BY <1>2, <1>6, <1>7, <1>8 DEF CommittedIsLast
  <2>2. /\ Highest(committedAt').index = c.index
        /\ Highest(committedAt').height = c.end
    BY <1>4
  <2>3. commitmentByIndex'[c.index].end = c.end
    BY <1>1, <1>7
  <2>4. QED
    BY <1>4, <1>6, <1>7, <2>1, <2>2, <2>3, ZenonT(40) DEF CommittedIsLast
<1>10. ProvenIsStored'
  <2>1. Settled \subseteq Settled'
    BY <1>6
  <2>2. QED
    BY <1>1, <1>2, <2>1, ProvenIsStoredFrame, ZenonT(40)
<1>11. Recording' /\ Proving' /\ IdleIsDeciding'
  BY <1>1, <1>2 DEF Recording, Proving, IdleIsDeciding
<1>12. QED
  BY <1>5, <1>9, <1>10, <1>11 DEF FinalityInv

\* Recording the proven status.
LEMMA SetProvenFinality ==
  ASSUME FinalityInv, ChainInv', SetProven
  PROVE  FinalityInv'
<1> DEFINE p == item.proof
           v == [height |-> p.lastL2Height, index |-> LastIndex(p)]
<1>1. /\ provenAt' = Put(provenAt, current, v)
      /\ step = "setProven" /\ step' \in {"decide", "removeProof"}
      /\ commitmentByIndex' = commitmentByIndex /\ committedAt' = committedAt
      /\ current' = current /\ lastScanned' = lastScanned /\ phase' = phase
  BY DEF SetProven, StatusHeight
<1>2. TypeInv /\ KeysOrdered /\ CommittedIsLast /\ Proving /\ phase # "idle"
  BY <1>1 DEF FinalityInv, ChainInv, IdleIsDeciding
<1>3. current \in Nat /\ DOMAIN provenAt \subseteq Nat /\ \A j \in DOMAIN provenAt : j <= current
  BY <1>2 DEF TypeInv, TypeOK, IsTable, KeysOrdered
<1>4. /\ Highest(provenAt') = v
      /\ HasGreatest(provenAt')
      /\ \A j \in DOMAIN provenAt' : j <= current
  BY <1>1, <1>3, HighestPut
<1>5. KeysOrdered'
  BY <1>1, <1>2, <1>4 DEF KeysOrdered, HasGreatest
<1>6. Settled = DOMAIN commitmentByIndex /\ Settled' = Settled
  BY <1>1 DEF Settled
<1>7. CommittedIsLast'
  BY <1>1, <1>2, <1>6, CommittedIsLastFrame, ZenonT(40)
<1>8. ProvenIsStored'
  <2>1. /\ LastIndex(p) \in DOMAIN commitmentByIndex
        /\ commitmentByIndex[LastIndex(p)].end = p.lastL2Height
    BY <1>1, <1>2, ZenonT(40) DEF Proving
  <2>2. v.index = LastIndex(p) /\ v.height = p.lastL2Height
    OBVIOUS
  <2>3. QED
    BY <1>1, <1>4, <1>6, <2>1, <2>2, ZenonT(40) DEF ProvenIsStored
<1>9. Recording' /\ Proving' /\ IdleIsDeciding'
  BY <1>1, <1>2 DEF Recording, Proving, IdleIsDeciding
<1>10. QED
  BY <1>5, <1>7, <1>8, <1>9 DEF FinalityInv

\* Accepting a proof: it advances the proven status and ends at a stored commitment.
LEMMA AcceptProofFinality ==
  ASSUME FinalityInv, ChainInv', AcceptProof
  PROVE  FinalityInv'
<1>1. PICK it \in ProofItems :
        Examined(it.proof) /\ Verified(it.proof) /\ AllStored(it.proof) /\ item' = it
  BY DEF AcceptProof
<1>2. /\ step = "decide" /\ step' = "setProven"
      /\ commitmentByIndex' = commitmentByIndex
      /\ committedAt' = committedAt /\ provenAt' = provenAt
      /\ current' = current /\ lastScanned' = lastScanned /\ phase' = phase
  BY DEF AcceptProof, Deciding
<1>3. it.proof \in BatchProofs
  BY ProofItemTypes DEF FinalityInv, ChainInv, ProofRecord
<1>4. phase # "idle"
  BY <1>1 DEF ProofItems, CurrentMessages
<1>5. KeysOrdered'
  BY <1>2, KeysFrame DEF FinalityInv
<1>6. Settled' = Settled
  BY <1>2 DEF Settled
<1>7. CommittedIsLast' /\ ProvenIsStored'
  <2>1. Highest(committedAt)' = Highest(committedAt) /\ Highest(provenAt)' = Highest(provenAt)
    BY <1>2 DEF Highest
  <2>2. CommittedIsLast'
    BY <1>2, <1>6, <2>1 DEF FinalityInv, CommittedIsLast
  <2>3. ProvenIsStored'
    BY <1>2, <1>6, <2>1 DEF FinalityInv, ProvenIsStored
  <2>4. QED
    BY <2>2, <2>3
<1>8. Recording' /\ IdleIsDeciding'
  BY <1>2, <1>4 DEF Recording, IdleIsDeciding
<1>9. Proving'
  <2>1. /\ LastIndex(it.proof) \in DOMAIN commitmentByIndex
        /\ commitmentByIndex[LastIndex(it.proof)].end = it.proof.lastL2Height
    BY <1>1, <1>3, VerifiedProofEnds DEF Examined
  <2>2. Advances(it.proof)
    BY <1>1 DEF Examined
  <2>3. QED
    BY <1>1, <1>2, <2>1, <2>2 DEF Proving, Advances, Highest, LastIndex
<1>10. QED
  BY <1>5, <1>7, <1>8, <1>9 DEF FinalityInv

\* Every step with graceful restarts keeps the invariant.
LEMMA FinalityNext == FinalityInv /\ [Next]_vars => FinalityInv'
<1> SUFFICES ASSUME FinalityInv, [Next]_vars PROVE FinalityInv'
  OBVIOUS
<1>1. ChainInv'
  BY ChainNext, GracefulIsCrash DEF FinalityInv
<1>2. TypeInv /\ KeysOrdered /\ IdleIsDeciding
  BY DEF FinalityInv, ChainInv
<1>3. CASE UNCHANGED vars \/ FinalizeL1Block \/ SyncL2
  <2>1. UNCHANGED <<committedAt, provenAt, commitmentByIndex, current, lastScanned, phase, step, item>>
    BY <1>3 DEF vars, ledger, l2, FinalizeL1Block, SyncL2, ApplyL2Block, CommitL2Block
  <2>2. KeysOrdered' /\ IdleIsDeciding'
    BY <1>2, <2>1, KeysFrame DEF IdleIsDeciding
  <2>3. QED
    BY <1>1, <2>1, <2>2, FinalityFrame
<1>4. CASE StartBlock \/ SkipIndexZero \/ BlockDone \/ PendingCommitmentsDone
  <2>1. /\ UNCHANGED <<committedAt, provenAt, commitmentByIndex, current, lastScanned, step, item>>
        /\ step = "decide"
        /\ phase' = "idle" => phase = "idle"
    BY <1>4, ZenonT(40) DEF ledger, StartBlock, SkipIndexZero, BlockDone, PendingCommitmentsDone, Deciding
  <2>2. KeysOrdered' /\ IdleIsDeciding'
    BY <1>2, <2>1, KeysFrame DEF IdleIsDeciding
  <2>3. QED
    BY <1>1, <2>1, <2>2, FinalityFrame
<1>5. CASE DiscardCommitment \/ PendCommitment \/ HaltOnMismatch \/ FailOnEmptyRange
  <2>1. /\ UNCHANGED <<committedAt, provenAt, commitmentByIndex, current, lastScanned, step, item>>
        /\ step = "decide"
        /\ phase' = "idle" => phase = "idle"
    BY <1>5, ZenonT(40) DEF ledger, DiscardCommitment, PendCommitment, HaltOnMismatch, FailOnEmptyRange, Deciding
  <2>2. KeysOrdered' /\ IdleIsDeciding'
    BY <1>2, <2>1, KeysFrame DEF IdleIsDeciding
  <2>3. QED
    BY <1>1, <2>1, <2>2, FinalityFrame
<1>6. CASE AcceptCommitment
  <2>1. /\ UNCHANGED <<committedAt, provenAt, commitmentByIndex, current, lastScanned, phase>>
        /\ step = "decide" /\ step' = "putCommitment"
        /\ CommitmentItems # {}
    BY <1>6, ZenonT(40) DEF AcceptCommitment, Deciding
  <2>2. phase # "idle"
    BY <2>1, Zenon DEF CommitmentItems, CurrentMessages
  <2>3. KeysOrdered' /\ IdleIsDeciding'
    BY <1>2, <2>1, <2>2, KeysFrame DEF IdleIsDeciding
  <2>4. QED
    BY <1>1, <2>1, <2>3, FinalityFrame
<1>7. CASE PutCommitment
  <2>1. item.commitment \in SequencerCommitments /\ step = "putCommitment"
    BY <1>2, <1>7 DEF PutCommitment, TypeInv, TypeOK
  <2>2. Fits(item.commitment)
    BY <2>1 DEF FinalityInv, ChainInv, Accepted
  <2>3. item.commitment.index = Highest(committedAt).index + 1
    BY <2>1, <2>2, FitsIsNext
  <2>4. QED
    BY <1>1, <1>7, <2>3, PutCommitmentFinality
<1>8. CASE SetCommitted
  BY <1>1, <1>8, SetCommittedFinality
<1>9. CASE RemovePendingCommitment \/ RemovePendingProof
  <2>1. /\ UNCHANGED <<committedAt, provenAt, commitmentByIndex, current, lastScanned, phase>>
        /\ step \in {"removeCommitment", "removeProof"} /\ step' = "decide"
    BY <1>9 DEF RemovePendingCommitment, RemovePendingProof
  <2>2. KeysOrdered' /\ IdleIsDeciding'
    BY <1>2, <2>1, KeysFrame DEF IdleIsDeciding
  <2>3. QED
    BY <1>1, <2>1, <2>2, FinalityFrame
<1>10. CASE DiscardProof \/ SkipProof \/ PanicOnProven \/ PendProof
  <2>1. /\ UNCHANGED <<committedAt, provenAt, commitmentByIndex, current, lastScanned, step, item>>
        /\ step = "decide"
        /\ phase' = "idle" => phase = "idle"
    BY <1>10, ZenonT(40) DEF ledger, DiscardProof, SkipProof, PanicOnProven, PendProof, StopOrMoveOn, Deciding
  <2>2. KeysOrdered' /\ IdleIsDeciding'
    BY <1>2, <2>1, KeysFrame DEF IdleIsDeciding
  <2>3. QED
    BY <1>1, <2>1, <2>2, FinalityFrame
<1>11. CASE AcceptProof
  BY <1>1, <1>11, AcceptProofFinality
<1>12. CASE SetProven
  BY <1>1, <1>12, SetProvenFinality
<1>13. CASE FinishBlock
  <2>1. /\ UNCHANGED <<committedAt, provenAt, commitmentByIndex, step, item>>
        /\ step = "decide"
        /\ lastScanned' = current /\ current' = current + 1
    BY <1>13 DEF FinishBlock, Deciding
  <2>2. current \in Nat /\ DOMAIN committedAt \subseteq Nat /\ DOMAIN provenAt \subseteq Nat
    BY <1>2 DEF TypeInv, TypeOK, IsTable
  <2>3. KeysOrdered' /\ IdleIsDeciding'
    BY <1>2, <2>1, <2>2 DEF KeysOrdered, IdleIsDeciding, HasGreatest
  <2>4. QED
    BY <1>1, <2>1, <2>3, FinalityFrame
<1>14. CASE StopAndStart
  <2>1. /\ UNCHANGED <<committedAt, provenAt, commitmentByIndex, lastScanned>>
        /\ phase = "idle" /\ step' = "decide"
        /\ current' = IF lastScanned = 0 THEN 1 ELSE lastScanned
    BY <1>14 DEF StopAndStart, Boot
  <2>2. step = "decide"
    BY <1>2, <2>1 DEF IdleIsDeciding
  <2>3. lastScanned \in Nat /\ DOMAIN committedAt \subseteq Nat /\ DOMAIN provenAt \subseteq Nat
    BY <1>2 DEF TypeInv, TypeOK, IsTable
  <2>4. KeysOrdered' /\ IdleIsDeciding'
    BY <1>2, <2>1, <2>3 DEF KeysOrdered, IdleIsDeciding, HasGreatest
  <2>5. QED
    BY <1>1, <2>1, <2>2, <2>4, FinalityFrame
<1>15. QED
  BY <1>3, <1>4, <1>5, <1>6, <1>7, <1>8, <1>9, <1>10, <1>11, <1>12, <1>13, <1>14
     DEF Next, Node, Handler, ProcessCommitment, ProcessProof

\* Each step of the node is a Commit, a Prove or a stutter of Finality.
LEMMA FinalityStep ==
  FinalityInv /\ FinalityInv' /\ [Next]_vars
    => [F!Next]_<<Highest(committedAt), Highest(provenAt)>>
<1> SUFFICES ASSUME FinalityInv, FinalityInv', [Next]_vars
             PROVE  [F!Next]_<<Highest(committedAt), Highest(provenAt)>>
  OBVIOUS
<1> DEFINE com == Highest(committedAt)
           prv == Highest(provenAt)
<1>1. /\ TypeInv /\ CommittedChain /\ KeysOrdered /\ CommittedIsLast /\ Recording /\ Proving
      /\ TypeInv' /\ KeysOrdered' /\ CommittedChain' /\ CommittedIsLast'
  BY DEF FinalityInv, ChainInv
<1>2. /\ com \in HeightAndIndex /\ com.height \in Nat /\ com.index \in Nat
      /\ prv \in HeightAndIndex /\ prv.height \in Nat /\ prv.index \in Nat
  BY <1>1, StatusTypes
<1>3. CASE SetCommitted
  <2> DEFINE c == item.commitment
  <2>1. /\ step = "setCommitted"
        /\ committedAt' = Put(committedAt, current, [height |-> c.end, index |-> c.index])
        /\ provenAt' = provenAt
    BY <1>3 DEF SetCommitted, StatusHeight
  <2>2. /\ current \in Nat /\ DOMAIN committedAt \subseteq Nat
        /\ \A j \in DOMAIN committedAt : j <= current
        /\ c \in SequencerCommitments
    BY <1>1, <2>1, ZenonT(40) DEF TypeInv, TypeOK, IsTable, KeysOrdered
  <2>3. com' = [height |-> c.end, index |-> c.index]
    <3> DEFINE v == [height |-> c.end, index |-> c.index]
    <3>1. committedAt' = Put(committedAt, current, v)
      BY <2>1
    <3> HIDE DEF v
    <3>2. Highest(committedAt') = v
      BY <2>2, <3>1, HighestPut
    <3>3. QED
      BY <3>2, Zenon DEF v
  <2>4. c.index \in DOMAIN commitmentByIndex /\ commitmentByIndex[c.index] = c
        /\ c.index = com.index + 1
    BY <1>1, <2>1 DEF Recording
  <2>5. c.end \in Nat /\ c.index \in Nat
    BY <2>2, KeyTypes
  <2>6. c.end > com.height
    <3>1. CASE DOMAIN committedAt = {}
      <4>1. com.height = 0
        BY <3>1 DEF Highest, Default
      <4>2. c.end \in Nat \ {0}
        <5>1. c.index <= c.index
          BY <2>5
        <5>2. commitmentByIndex[c.index].end \in Nat \ {0}
          BY <1>1, <2>4, <5>1, ChainMonotone, ZenonT(40)
        <5>3. QED
          BY <2>4, <5>2
      <4>3. QED
        BY <4>1, <4>2
    <3>2. CASE DOMAIN committedAt # {}
      <4>1. com.index \in DOMAIN commitmentByIndex /\ commitmentByIndex[com.index].end = com.height
        BY <1>1, <3>2 DEF CommittedIsLast, Settled
      <4>2. com.index <= c.index /\ com.index < c.index
        <5>1. com.index \in Nat /\ c.index = com.index + 1
          BY <1>2, <2>4, Zenon
        <5> HIDE DEF c, com
        <5>2. QED
          BY <5>1
      <4>3. commitmentByIndex[com.index].end < commitmentByIndex[c.index].end
        BY <1>1, <2>4, <4>1, <4>2, ChainMonotone, ZenonT(40)
      <4>4. QED
        BY <1>2, <2>4, <2>5, <4>1, <4>3
    <3>3. QED
      BY <3>1, <3>2, ZenonT(40)
  <2>7. prv' = prv
    BY <2>1 DEF Highest
  <2>8. QED
    <3>1. com' \in F!HeightAndIndex /\ com'.index = c.index /\ com'.height = c.end
      <4> HIDE DEF c, com
      <4>1. QED
        BY <2>3, <2>5 DEF F!HeightAndIndex
    <3>2. com'.index = com.index + 1 /\ com'.height > com.height
      BY <2>4, <2>6, <3>1, Zenon
    <3>3. QED
      BY <2>7, <3>1, <3>2, ZenonT(40) DEF F!Next, F!Commit
<1>4. CASE SetProven
  <2> DEFINE p == item.proof
  <2>1. /\ step = "setProven"
        /\ provenAt' = Put(provenAt, current, [height |-> p.lastL2Height, index |-> LastIndex(p)])
        /\ committedAt' = committedAt
    BY <1>4 DEF SetProven, StatusHeight
  <2>2. /\ current \in Nat /\ DOMAIN provenAt \subseteq Nat
        /\ \A j \in DOMAIN provenAt : j <= current
        /\ p \in BatchProofs
    BY <1>1, <2>1, ZenonT(40) DEF TypeInv, TypeOK, IsTable, KeysOrdered
  <2>3. prv' = [height |-> p.lastL2Height, index |-> LastIndex(p)]
    BY <2>1, <2>2, HighestPut
  <2>4. /\ LastIndex(p) \in DOMAIN commitmentByIndex
        /\ commitmentByIndex[LastIndex(p)].end = p.lastL2Height
        /\ p.lastL2Height > prv.height /\ LastIndex(p) > prv.index
    BY <1>1, <2>1, ZenonT(40) DEF Proving, Advances
  <2>5. Settled = DOMAIN commitmentByIndex
    BY <2>1, ZenonT(40) DEF Settled
  <2>6. LastIndex(p) <= com.index /\ com.index \in DOMAIN commitmentByIndex
        /\ commitmentByIndex[com.index].end = com.height
    BY <1>1, <2>4, <2>5 DEF CommittedIsLast
  <2>7. p.lastL2Height <= com.height
    BY <1>1, <2>4, <2>6, ChainMonotone, ZenonT(40)
  <2>8. p.lastL2Height \in Nat /\ LastIndex(p) \in Nat
    BY <2>2, ProofsAssumption
  <2>9. com' = com
    BY <2>1 DEF Highest
  <2>10. prv' \in [height : Nat, index : Nat]
    BY <2>3, <2>8
  <2>11. prv'.height = p.lastL2Height /\ prv'.index = LastIndex(p)
    <3> HIDE DEF p, prv
    <3>1. QED
      BY <2>3
  <2>12. F!Prove
    BY <2>4, <2>6, <2>7, <2>9, <2>10, <2>11, ZenonT(40) DEF F!Prove, F!HeightAndIndex
  <2>13. QED
    BY <2>12 DEF F!Next
<1>5. CASE committedAt' = committedAt /\ provenAt' = provenAt
  BY <1>5 DEF Highest
<1>6. SetCommitted \/ SetProven \/ (committedAt' = committedAt /\ provenAt' = provenAt)
  BY ZenonT(40) DEF Next, Node, Handler, ProcessCommitment, ProcessProof, FinalizeL1Block, SyncL2,
     ApplyL2Block, CommitL2Block, StartBlock, SkipIndexZero, BlockDone, DiscardCommitment,
     PendCommitment, HaltOnMismatch, FailOnEmptyRange, AcceptCommitment, PutCommitment,
     RemovePendingCommitment, PendingCommitmentsDone, DiscardProof, SkipProof, PanicOnProven,
     PendProof, AcceptProof, RemovePendingProof, FinishBlock, StopAndStart, Boot, vars, ledger
<1>7. QED
  BY <1>3, <1>4, <1>5, <1>6

\* With graceful restarts the "safe" and "finalized" heights a node serves
\* (getLastCommittedL2Height, getLastProvenL2Height) behave as Finality says.
THEOREM FullNodeImplementsFinality == Spec => ImplementsFinality
<1>1. Init => F!Init
  BY DEF Init, F!Init, Highest, Default, EmptyTable
<1>2. QED
  BY <1>1, FinalityInit, FinalityNext, FinalityStep, PTL DEF Spec, ImplementsFinality, F!Spec

-----------------------------------------------------------------------------
\* The sequencer's first commitment reaches at least the first block it must cover.
FirstCommitmentCovers ==
  \A c \in SequencerCommitments : c.index = 1 => c.end >= Tangerine

\* With graceful restarts, and a first commitment that covers a block, neither the
\* panic! of process_tangerine_zk_proof nor the unreachable! of process_l1_block on a
\* commitment error is ever reached.
THEOREM NeverPanicsHolds ==
  ASSUME FirstCommitmentCovers
  PROVE  Spec => []NeverPanics
<1>1. ASSUME FinalityInv, NeverPanics, [Next]_vars
      PROVE  NeverPanics'
  <2>1. ~PanicOnProven
    BY <1>1, ProvenNotAbove DEF PanicOnProven
  <2>2. ~FailOnEmptyRange
    <3> SUFFICES ASSUME FailOnEmptyRange PROVE FALSE
      OBVIOUS
    <3>1. PICK it \in CommitmentItems :
            /\ Checkable(it.commitment)
            /\ StartHeight(it.commitment.index) > it.commitment.end
      BY DEF FailOnEmptyRange
    <3>2. step = "decide"
      BY DEF FailOnEmptyRange, Deciding
    <3>3. it.commitment \in SequencerCommitments /\ it.commitment.index > 0
      BY <1>1, CommitmentItemTypes, ItemIndexPositive DEF FinalityInv, ChainInv, CommitmentRecord
    <3>4. it.commitment.index # 1 => StartHeight(it.commitment.index) <= it.commitment.end
      BY <1>1, <3>1, <3>2, <3>3, CheckableIsNext
    <3>5. it.commitment.index = 1 => StartHeight(it.commitment.index) <= it.commitment.end
      BY <3>3, FirstCommitmentCovers, BoundsAssumption, KeyTypes
         DEF StartHeight, FirstCommitmentCovers
    <3>6. it.commitment.end \in Nat /\ StartHeight(it.commitment.index) \in Nat
      <4>1. it.commitment.index = 1 \/ it.commitment.index - 1 \in DOMAIN commitmentByIndex
        BY <3>1 DEF Checkable, HasPredecessor
      <4>2. \A i \in DOMAIN commitmentByIndex : commitmentByIndex[i].end \in Nat
        BY <1>1, KeyTypes DEF FinalityInv, ChainInv, TypeInv, TypeOK, IsTable
      <4>3. it.commitment.end \in Nat
        BY <3>3, KeyTypes
      <4>4. Tangerine \in Nat
        BY BoundsAssumption
      <4>5. QED
        <5>1. CASE it.commitment.index = 1
          BY <4>3, <4>4, <5>1 DEF StartHeight
        <5>2. CASE it.commitment.index # 1
          <6>1. commitmentByIndex[it.commitment.index - 1].end \in Nat
            BY <4>1, <4>2, <5>2, Zenon
          <6>2. StartHeight(it.commitment.index)
                  = commitmentByIndex[it.commitment.index - 1].end + 1
            BY <5>2, Zenon DEF StartHeight
          <6>3. \A e \in Nat : e + 1 \in Nat
            OBVIOUS
          <6>4. QED
            BY <4>3, <6>1, <6>2, <6>3, Zenon
        <5>3. QED
          BY <5>1, <5>2, Zenon
    <3>7. QED
      BY <3>1, <3>4, <3>5, <3>6
  <2>3. QED
    BY <1>1, <2>1, <2>2, ZenonT(40)
       DEF NeverPanics, Next, Node, Handler, ProcessCommitment, ProcessProof, FinalizeL1Block,
         SyncL2, ApplyL2Block, CommitL2Block, StartBlock, SkipIndexZero, BlockDone,
         DiscardCommitment, PendCommitment, HaltOnMismatch, AcceptCommitment, PutCommitment,
         SetCommitted, RemovePendingCommitment, PendingCommitmentsDone, DiscardProof, SkipProof,
         PendProof, AcceptProof, SetProven, RemovePendingProof, FinishBlock, StopAndStart, Boot,
         vars
<1>2. Init => NeverPanics
  BY DEF Init, NeverPanics
<1>3. QED
  BY <1>1, <1>2, FinalityInit, FinalityNext, PTL DEF Spec
=============================================================================
