--------------------------- MODULE FullNodeProofs ---------------------------
(***************************************************************************)
(* Theorems about FullNode, for every set of commitments, proofs and       *)
(* Bitcoin blocks, and every bound.                                        *)
(***************************************************************************)
EXTENDS FullNode

\* How long the provers may take for a step, so that a slow machine finds the proofs too.
USE SMTT(40), ZenonT(40)

CommitmentRecord == [commitment : SequencerCommitments, found : Nat]
ProofRecord == [proof : BatchProofs, found : Nat]

\* The handler works on a block that exists.
InBlock == phase = "block" => current \in DOMAIN l1

TypeInv == TypeOK /\ InBlock

-----------------------------------------------------------------------------
(***************************************************************************)
(* Facts about tables, used wherever a step writes one.                    *)
(***************************************************************************)
\* A put of a typed key and value (DB::put) keeps the table's type.
LEMMA PutType ==
  ASSUME NEW K, NEW V, NEW t, IsTable(t, K, V), NEW k \in K, NEW v \in V
  PROVE  IsTable(Put(t, k, v), K, V)
BY DEF IsTable, Put

\* A delete (DB::delete) keeps the table's type.
LEMMA DeleteType ==
  ASSUME NEW K, NEW V, NEW t, IsTable(t, K, V), NEW ks
  PROVE  IsTable(Delete(t, ks), K, V)
BY DEF IsTable, Delete

\* The table with no key has every type.
LEMMA EmptyTableType ==
  ASSUME NEW K, NEW V
  PROVE  IsTable(EmptyTable, K, V)
BY DEF IsTable, EmptyTable
-----------------------------------------------------------------------------
\* The messages of a block are commitments and proofs of the universe.
LEMMA MessageTypes ==
  ASSUME TypeInv, NEW m \in CurrentMessages
  PROVE  /\ m \in Messages
         /\ m.kind = "commitment" => m.body \in SequencerCommitments
         /\ m.kind = "proof" => m.body \in BatchProofs
<1>1. phase = "block" /\ pos \in DOMAIN l1[current] /\ m = l1[current][pos]
  BY DEF CurrentMessages
<1>2. l1[current] \in L1Contents
  BY <1>1 DEF TypeInv, TypeOK, InBlock
<1>3. l1[current] \in Seq(Messages)
  BY <1>2, L1Assumption
<1>4. m \in Messages
  BY <1>1, <1>3
<1>5. QED
  BY <1>4 DEF Messages, CommitmentMessage, ProofMessage

\* What the handler processes next is a typed record.
LEMMA CommitmentItemTypes ==
  ASSUME TypeInv, NEW it \in CommitmentItems
  PROVE  it \in CommitmentRecord
<1>1. CASE phase = "commitments"
  <2>1. CurrentMessages = {}
    BY <1>1 DEF CurrentMessages
  <2>2. PICK i \in DOMAIN pendingCommitments : it = pendingCommitments[i]
    BY <2>1 DEF CommitmentItems
  <2>3. QED
    BY <2>2 DEF TypeInv, TypeOK, IsTable, CommitmentRecord
<1>2. CASE phase # "commitments"
  <2>1. PICK m \in CurrentMessages :
          m.kind = "commitment" /\ it = [commitment |-> m.body, found |-> current]
    BY <1>2 DEF CommitmentItems
  <2>2. m.body \in SequencerCommitments
    BY <2>1, MessageTypes
  <2>3. QED
    BY <2>1, <2>2 DEF TypeInv, TypeOK, CommitmentRecord
<1>3. QED
  BY <1>1, <1>2

\* The same for proofs.
LEMMA ProofItemTypes ==
  ASSUME TypeInv, NEW it \in ProofItems
  PROVE  it \in ProofRecord
<1>1. CASE phase = "proofs"
  <2>1. CurrentMessages = {}
    BY <1>1 DEF CurrentMessages
  <2>2. PICK i \in DOMAIN pendingProofs : it = pendingProofs[i]
    BY <2>1 DEF ProofItems
  <2>3. QED
    BY <2>2 DEF TypeInv, TypeOK, IsTable, ProofRecord
<1>2. CASE phase # "proofs"
  <2>1. PICK m \in CurrentMessages :
          m.kind = "proof" /\ it = [proof |-> m.body, found |-> current]
    BY <1>2 DEF ProofItems
  <2>2. m.body \in BatchProofs
    BY <2>1, MessageTypes
  <2>3. QED
    BY <2>1, <2>2 DEF TypeInv, TypeOK, ProofRecord
<1>3. QED
  BY <1>1, <1>2

\* The key of a proof is a pair of u32 indices, the key of a commitment too.
LEMMA KeyTypes ==
  /\ \A c \in SequencerCommitments : c.index \in Nat /\ c.end \in Nat /\ Key(c) \in Nat \X Nat
  /\ \A p \in BatchProofs : Range(p) \in Nat \X Nat /\ LastIndex(p) \in Nat
BY CommitmentsAssumption, ProofsAssumption DEF Key, Range

\* The initial state is typed.
LEMMA InitType == Init => TypeInv
BY EmptyTableType, BoundsAssumption DEF Init, TypeInv, TypeOK, InBlock

\* A new block on Bitcoin leaves the block in progress where it is.
LEMMA FinalizeType == TypeInv /\ FinalizeL1Block => TypeInv'
<1> SUFFICES ASSUME TypeInv, FinalizeL1Block PROVE TypeInv'
  OBVIOUS
<1>1. PICK b \in L1Contents : l1' = Append(l1, b)
  BY DEF FinalizeL1Block
<1>2. l1' \in Seq(L1Contents) /\ DOMAIN l1 \subseteq DOMAIN l1'
  BY <1>1 DEF TypeInv, TypeOK
<1>3. QED
  BY <1>2 DEF FinalizeL1Block, TypeInv, TypeOK, InBlock, ledger, l2

\* The L2 syncer keeps the state database at the head or one block ahead.
LEMMA SyncType == TypeInv /\ SyncL2 => TypeInv'
BY DEF SyncL2, ApplyL2Block, CommitL2Block, TypeInv, TypeOK, InBlock, ledger

\* The steps of the block handler that process no item.
LEMMA ControlType ==
  TypeInv /\ (StartBlock \/ SkipIndexZero \/ BlockDone \/ PendingCommitmentsDone \/ FinishBlock)
    => TypeInv'
<1>1. TypeInv /\ StartBlock => TypeInv'
  BY DEF StartBlock, Deciding, TypeInv, TypeOK, InBlock, l2
<1>2. TypeInv /\ SkipIndexZero => TypeInv'
  BY DEF SkipIndexZero, Deciding, TypeInv, TypeOK, InBlock, ledger, l2
<1>3. TypeInv /\ BlockDone => TypeInv'
  BY DEF BlockDone, Deciding, TypeInv, TypeOK, InBlock, ledger, l2
<1>4. TypeInv /\ PendingCommitmentsDone => TypeInv'
  BY DEF PendingCommitmentsDone, Deciding, TypeInv, TypeOK, InBlock, ledger, l2
<1>5. TypeInv /\ FinishBlock => TypeInv'
  BY DEF FinishBlock, Deciding, TypeInv, TypeOK, InBlock, l2
<1>6. QED
  BY <1>1, <1>2, <1>3, <1>4, <1>5, ZenonT(40)

\* Going on to the next item keeps the iterators typed.
LEMMA MoveOnType ==
  ASSUME TypeInv, NEW key \in Nat \X Nat, MoveOn(key)
  PROVE  pos' \in Nat \ {0} /\ cursor' \in Nat \X Nat
<1>1. pos \in Nat \ {0} /\ cursor \in Nat \X Nat
  BY DEF TypeInv, TypeOK
<1>2. pos' \in {pos, pos + 1} /\ cursor' \in {cursor, key}
  BY DEF MoveOn
<1>3. pos' \in Nat \ {0}
  BY <1>1, <1>2
<1>4. QED
  BY <1>1, <1>2, <1>3

\* process_sequencer_commitment keeps the types.
LEMMA CommitmentType == TypeInv /\ ProcessCommitment => TypeInv'
<1> SUFFICES ASSUME TypeInv, ProcessCommitment PROVE TypeInv'
  OBVIOUS
<1>1. CASE DiscardCommitment
  <2>1. PICK it \in CommitmentItems :
          /\ pendingCommitments' = IF phase = "block" THEN pendingCommitments
                                   ELSE Delete(pendingCommitments, {it.commitment.index})
          /\ MoveOn(Key(it.commitment))
    BY <1>1, Zenon DEF DiscardCommitment
  <2>2. Key(it.commitment) \in Nat \X Nat
    BY CommitmentItemTypes, KeyTypes, Zenon DEF CommitmentRecord
  <2>3. pos' \in Nat \ {0} /\ cursor' \in Nat \X Nat
    BY <2>1, <2>2, MoveOnType
  <2>4. IsTable(pendingCommitments', Nat, [commitment : SequencerCommitments, found : Nat])
    BY <2>1, DeleteType DEF TypeInv, TypeOK
  <2>5. QED
    BY <1>1, <2>3, <2>4 DEF DiscardCommitment, Deciding, TypeInv, TypeOK, InBlock, l2
<1>2. CASE PendCommitment
  <2>1. PICK it \in CommitmentItems :
          /\ \/ pendingCommitments' = pendingCommitments
             \/ pendingCommitments' = Put(pendingCommitments, it.commitment.index, it)
          /\ MoveOn(Key(it.commitment))
    BY <1>2 DEF PendCommitment
  <2>2. it \in [commitment : SequencerCommitments, found : Nat]
    BY CommitmentItemTypes DEF CommitmentRecord
  <2>3. it.commitment.index \in Nat /\ Key(it.commitment) \in Nat \X Nat
    BY <2>2, KeyTypes
  <2>4. pos' \in Nat \ {0} /\ cursor' \in Nat \X Nat
    BY <2>1, <2>3, MoveOnType
  <2>5. IsTable(Put(pendingCommitments, it.commitment.index, it),
                Nat, [commitment : SequencerCommitments, found : Nat])
    BY <2>2, <2>3, PutType, Zenon DEF TypeInv, TypeOK
  <2>6. IsTable(pendingCommitments', Nat, [commitment : SequencerCommitments, found : Nat])
    BY <2>1, <2>5 DEF TypeInv, TypeOK
  <2>7. QED
    BY <1>2, <2>4, <2>6 DEF PendCommitment, Deciding, TypeInv, TypeOK, InBlock, l2
<1>3. CASE HaltOnMismatch
  BY <1>3 DEF HaltOnMismatch, Deciding, TypeInv, TypeOK, InBlock, ledger, l2
<1>4. CASE FailOnEmptyRange
  <2>1. /\ UNCHANGED <<l1, l2, ledger, current, pos, step, item, restarts>>
        /\ \/ mode' = "panicked" /\ UNCHANGED <<phase, cursor>>
           \/ mode' = mode /\ phase' = "proofs" /\ cursor' = <<0, 0>>
        /\ mode = "running" /\ step = "decide"
    BY <1>4 DEF FailOnEmptyRange, Deciding
  <2>2. QED
    BY <2>1 DEF TypeInv, TypeOK, InBlock, ledger, l2
<1>5. CASE AcceptCommitment
  <2>1. PICK it \in CommitmentItems :
          /\ commitmentsOnSlot' =
               Put(commitmentsOnSlot, it.found,
                   (IF it.found \in DOMAIN commitmentsOnSlot
                    THEN commitmentsOnSlot[it.found] ELSE {}) \cup {it.commitment})
          /\ item' = it
    BY <1>5, Zenon DEF AcceptCommitment
  <2>2. it \in [commitment : SequencerCommitments, found : Nat]
    BY CommitmentItemTypes DEF CommitmentRecord
  <2>3. (IF it.found \in DOMAIN commitmentsOnSlot
         THEN commitmentsOnSlot[it.found] ELSE {}) \cup {it.commitment}
           \in SUBSET SequencerCommitments
    BY <2>2 DEF IsTable, TypeInv, TypeOK
  <2>4. IsTable(commitmentsOnSlot', Nat, SUBSET SequencerCommitments)
    BY <2>1, <2>2, <2>3, PutType, Zenon DEF TypeInv, TypeOK
  <2>5. QED
    BY <1>5, <2>1, <2>2, <2>4 DEF AcceptCommitment, Deciding, TypeInv, TypeOK, InBlock, l2
<1>6. CASE PutCommitment
  <2>1. item \in [commitment : SequencerCommitments, found : Nat]
    BY <1>6 DEF PutCommitment, TypeInv, TypeOK
  <2>2. IsTable(commitmentByIndex', Nat, SequencerCommitments)
    BY <1>6, <2>1, PutType, KeyTypes, Zenon DEF PutCommitment, TypeInv, TypeOK
  <2>3. QED
    BY <1>6, <2>1, <2>2 DEF PutCommitment, TypeInv, TypeOK, InBlock, l2
<1>7. CASE SetCommitted
  <2>1. item \in [commitment : SequencerCommitments, found : Nat]
    BY <1>7 DEF SetCommitted, TypeInv, TypeOK
  <2>2. [height |-> item.commitment.end, index |-> item.commitment.index] \in HeightAndIndex
    BY <2>1, KeyTypes DEF HeightAndIndex
  <2>3. IsTable(committedAt', Nat, HeightAndIndex)
    BY <1>7, <2>2, PutType, Zenon DEF SetCommitted, StatusHeight, TypeInv, TypeOK
  <2>4. pos' \in Nat \ {0} /\ cursor' \in Nat \X Nat
    BY <1>7, <2>1, MoveOnType, KeyTypes, ZenonT(40) DEF SetCommitted, TypeInv, TypeOK
  <2>5. QED
    BY <1>7, <2>1, <2>3, <2>4 DEF SetCommitted, TypeInv, TypeOK, InBlock, l2
<1>8. CASE RemovePendingCommitment
  <2>1. item \in [commitment : SequencerCommitments, found : Nat]
    BY <1>8 DEF RemovePendingCommitment, TypeInv, TypeOK
  <2>2. IsTable(pendingCommitments', Nat, [commitment : SequencerCommitments, found : Nat])
    BY <1>8, DeleteType DEF RemovePendingCommitment, TypeInv, TypeOK
  <2>3. pos' \in Nat \ {0} /\ cursor' \in Nat \X Nat
    BY <1>8, <2>1, MoveOnType, KeyTypes DEF RemovePendingCommitment
  <2>4. QED
    BY <1>8, <2>2, <2>3 DEF RemovePendingCommitment, TypeInv, TypeOK, InBlock, l2
<1>9. QED
  BY <1>1, <1>2, <1>3, <1>4, <1>5, <1>6, <1>7, <1>8, ZenonT(40) DEF ProcessCommitment

\* process_zk_proof keeps the types.
LEMMA ProofType == TypeInv /\ ProcessProof => TypeInv'
<1> SUFFICES ASSUME TypeInv, ProcessProof PROVE TypeInv'
  OBVIOUS
<1>1. CASE DiscardProof
  <2>1. PICK it \in ProofItems :
          /\ pendingProofs' = IF phase = "block" THEN pendingProofs
                              ELSE Delete(pendingProofs, {Range(it.proof)})
          /\ MoveOn(Range(it.proof))
    BY <1>1, Zenon DEF DiscardProof
  <2>2. Range(it.proof) \in Nat \X Nat
    BY ProofItemTypes, KeyTypes, Zenon DEF ProofRecord
  <2>3. pos' \in Nat \ {0} /\ cursor' \in Nat \X Nat
    BY <2>1, <2>2, MoveOnType
  <2>4. IsTable(pendingProofs', Nat \X Nat, [proof : BatchProofs, found : Nat])
    BY <2>1, DeleteType DEF TypeInv, TypeOK
  <2>5. QED
    BY <1>1, <2>3, <2>4 DEF DiscardProof, Deciding, TypeInv, TypeOK, InBlock, l2
<1>2. CASE SkipProof
  <2>1. PICK it \in ProofItems : StopOrMoveOn(Range(it.proof))
    BY <1>2 DEF SkipProof
  <2>2. Range(it.proof) \in Nat \X Nat
    BY ProofItemTypes, KeyTypes, Zenon DEF ProofRecord
  <2>3. pos' \in Nat \ {0} /\ cursor' \in Nat \X Nat
    BY <2>1, <2>2, MoveOnType DEF StopOrMoveOn
  <2>4. QED
    BY <1>2, <2>1, <2>3 DEF SkipProof, Deciding, StopOrMoveOn, TypeInv, TypeOK, InBlock, ledger, l2
<1>3. CASE PanicOnProven
  BY <1>3 DEF PanicOnProven, Deciding, TypeInv, TypeOK, InBlock, ledger, l2
<1>4. CASE PendProof
  <2>1. PICK it \in ProofItems :
          /\ pendingProofs' = Put(pendingProofs, Range(it.proof), it)
          /\ StopOrMoveOn(Range(it.proof))
    BY <1>4 DEF PendProof
  <2>2. it \in [proof : BatchProofs, found : Nat] /\ Range(it.proof) \in Nat \X Nat
    BY ProofItemTypes, KeyTypes, Zenon DEF ProofRecord
  <2>3. pos' \in Nat \ {0} /\ cursor' \in Nat \X Nat
    BY <2>1, <2>2, MoveOnType DEF StopOrMoveOn
  <2>4. IsTable(pendingProofs', Nat \X Nat, [proof : BatchProofs, found : Nat])
    BY <2>1, <2>2, PutType, Zenon DEF TypeInv, TypeOK
  <2>5. QED
    BY <1>4, <2>1, <2>3, <2>4 DEF PendProof, Deciding, StopOrMoveOn, TypeInv, TypeOK, InBlock, l2
<1>5. CASE AcceptProof
  <2>1. PICK it \in ProofItems :
          /\ verifiedProofs' =
               Put(verifiedProofs, it.found,
                   Append(IF it.found \in DOMAIN verifiedProofs
                          THEN verifiedProofs[it.found] ELSE << >>, it.proof))
          /\ item' = it
    BY <1>5 DEF AcceptProof
  <2>2. it \in [proof : BatchProofs, found : Nat]
    BY ProofItemTypes DEF ProofRecord
  <2>3. (IF it.found \in DOMAIN verifiedProofs THEN verifiedProofs[it.found] ELSE << >>)
           \in Seq(BatchProofs)
    BY DEF IsTable, TypeInv, TypeOK
  <2>4. Append(IF it.found \in DOMAIN verifiedProofs
               THEN verifiedProofs[it.found] ELSE << >>, it.proof) \in Seq(BatchProofs)
    <3>1. \A s \in Seq(BatchProofs), p \in BatchProofs : Append(s, p) \in Seq(BatchProofs)
      OBVIOUS
    <3>2. it.proof \in BatchProofs
      BY <2>2
    <3>3. QED
      BY <2>3, <3>1, <3>2, ZenonT(40)
  <2>5. IsTable(verifiedProofs', Nat, Seq(BatchProofs))
    BY <2>1, <2>2, <2>4, PutType, Zenon DEF TypeInv, TypeOK
  <2>6. QED
    BY <1>5, <2>1, <2>2, <2>5 DEF AcceptProof, Deciding, TypeInv, TypeOK, InBlock, l2
<1>6. CASE SetProven
  <2>1. item \in [proof : BatchProofs, found : Nat]
    BY <1>6 DEF SetProven, TypeInv, TypeOK
  <2>2. [height |-> item.proof.lastL2Height, index |-> LastIndex(item.proof)] \in HeightAndIndex
    BY <2>1, KeyTypes, ProofsAssumption DEF HeightAndIndex
  <2>3. IsTable(provenAt', Nat, HeightAndIndex)
    BY <1>6, <2>2, PutType, Zenon DEF SetProven, StatusHeight, TypeInv, TypeOK
  <2>4. pos' \in Nat \ {0} /\ cursor' \in Nat \X Nat
    BY <1>6, <2>1, MoveOnType, KeyTypes, Zenon DEF SetProven, TypeInv, TypeOK
  <2>5. QED
    BY <1>6, <2>1, <2>3, <2>4, Zenon DEF SetProven, TypeInv, TypeOK, InBlock, l2
<1>7. CASE RemovePendingProof
  <2>1. item \in [proof : BatchProofs, found : Nat]
    BY <1>7 DEF RemovePendingProof, TypeInv, TypeOK
  <2>2. IsTable(pendingProofs', Nat \X Nat, [proof : BatchProofs, found : Nat])
    BY <1>7, DeleteType DEF RemovePendingProof, TypeInv, TypeOK
  <2>3. pos' \in Nat \ {0} /\ cursor' \in Nat \X Nat
    BY <1>7, <2>1, MoveOnType, KeyTypes, Zenon DEF RemovePendingProof
  <2>4. QED
    BY <1>7, <2>2, <2>3 DEF RemovePendingProof, TypeInv, TypeOK, InBlock, l2
<1>8. QED
  BY <1>1, <1>2, <1>3, <1>4, <1>5, <1>6, <1>7, ZenonT(40) DEF ProcessProof

\* A restart, graceful or not, leaves the ledger typed and the handler idle.
LEMMA BootType == TypeInv /\ Boot => TypeInv'
<1> SUFFICES ASSUME TypeInv, Boot PROVE TypeInv'
  OBVIOUS
<1>1. IsTable(pendingCommitments', Nat, [commitment : SequencerCommitments, found : Nat])
  BY DeleteType DEF Boot, RollbackForgets, TypeInv, TypeOK
<1>2. IsTable(pendingProofs', Nat \X Nat, [proof : BatchProofs, found : Nat])
  BY DeleteType DEF Boot, RollbackForgets, TypeInv, TypeOK
<1>3. QED
  BY <1>1, <1>2 DEF Boot, TypeInv, TypeOK, InBlock

\* Every step, crashes included, keeps the types.
LEMMA NextType == TypeInv /\ [CrashNext]_vars => TypeInv'
<1>1. TypeInv /\ UNCHANGED vars => TypeInv'
  BY DEF TypeInv, TypeOK, InBlock, vars, ledger, l2
<1>2. QED
  BY <1>1, FinalizeType, SyncType, ControlType, CommitmentType, ProofType, BootType
     DEF CrashNext, Node, Handler, CrashAndStart

\* Graceful restarts are among the crashes: Spec allows no step CrashSpec does not.
LEMMA GracefulIsCrash == [Next]_vars => [CrashNext]_vars
BY DEF Next, CrashNext, StopAndStart, CrashAndStart

\* The tables, the iterators and the item in progress always have their types, for
\* every order of L1 blocks, L2 blocks and crashes (process_l1_block, apply_l2_block,
\* sync_ledger_and_state_db).
THEOREM TypeCorrect == CrashSpec => []TypeOK
<1>1. TypeInv => TypeOK
  BY DEF TypeInv
<1>2. QED
  BY <1>1, InitType, NextType, PTL DEF CrashSpec

-----------------------------------------------------------------------------
(***************************************************************************)
(* The stored commitments form a chain.  CommittedChain alone is not       *)
(* inductive: it needs that the commitment about to be stored was checked  *)
(* against the same table (Accepted), and that a pending commitment is     *)
(* filed under its own, positive index (PendingFiled).                     *)
(***************************************************************************)
PendingFiled ==
  \A i \in DOMAIN pendingCommitments : i > 0 /\ pendingCommitments[i].commitment.index = i

Fits(c) ==
  /\ c.index > 0
  /\ c.index \notin DOMAIN commitmentByIndex
  /\ HasPredecessor(c.index)
  /\ StartHeight(c.index) <= c.end
  /\ c.end <= head
  /\ c.root = MerkleRoot(StartHeight(c.index), c.end)

Accepted == step = "putCommitment" => Fits(item.commitment)

ChainInv == TypeInv /\ CommittedChain /\ PendingFiled /\ Accepted

\* What is processed next has a positive index: index 0 is skipped in the block, and
\* is never pending.
LEMMA ItemIndexPositive ==
  ASSUME TypeInv, PendingFiled, NEW it \in CommitmentItems
  PROVE  it.commitment.index > 0
<1>1. it \in CommitmentRecord
  BY CommitmentItemTypes
<1>2. it.commitment.index \in Nat
  BY <1>1, KeyTypes DEF CommitmentRecord
<1>3. CASE phase = "commitments"
  BY <1>3 DEF CommitmentItems, CurrentMessages, PendingFiled
<1>4. CASE phase # "commitments"
  <2>1. PICK m \in CurrentMessages : /\ m.kind = "commitment"
                                     /\ ~IsSkipped(m)
                                     /\ it = [commitment |-> m.body, found |-> current]
    BY <1>4 DEF CommitmentItems
  <2>2. QED
    BY <2>1, <1>2 DEF IsSkipped
<1>5. QED
  BY <1>3, <1>4

\* A step that leaves the stored commitments alone and does not move the head back
\* keeps the chain.
LEMMA ChainFrame ==
  ASSUME TypeInv, TypeInv', CommittedChain, commitmentByIndex' = commitmentByIndex, head' >= head
  PROVE  CommittedChain'
<1> SUFFICES ASSUME NEW i \in DOMAIN commitmentByIndex
             PROVE  LET c == commitmentByIndex[i] IN
                    /\ c.index = i
                    /\ i > 0
                    /\ \A j \in 1 .. i : j \in DOMAIN commitmentByIndex
                    /\ \A j \in 1 .. (i - 1) : commitmentByIndex[j].end < c.end
                    /\ StartHeight(i)' <= c.end
                    /\ c.end <= head'
                    /\ c.root = MerkleRoot(StartHeight(i)', c.end)
  BY DEF CommittedChain, MerkleRoot
<1>1. StartHeight(i)' = StartHeight(i)
  BY DEF StartHeight
<1>2. commitmentByIndex[i].end \in Nat /\ head \in Nat /\ head' \in Nat
  BY KeyTypes DEF TypeInv, TypeOK, IsTable
<1>3. QED
  BY <1>1, <1>2 DEF CommittedChain

\* Storing a commitment that fits extends the chain by one.
LEMMA ChainExtend ==
  ASSUME TypeInv, CommittedChain, NEW c \in SequencerCommitments, Fits(c),
         commitmentByIndex' = Put(commitmentByIndex, c.index, c), head' = head
  PROVE  CommittedChain'
<1> DEFINE n == c.index
           D == DOMAIN commitmentByIndex
<1>1. /\ n \in Nat /\ n > 0 /\ c.end \in Nat /\ D \subseteq Nat /\ head \in Nat
      /\ \A i \in D : commitmentByIndex[i] \in SequencerCommitments
      /\ \A i \in D : commitmentByIndex[i].end \in Nat
  BY KeyTypes, Zenon DEF TypeInv, TypeOK, IsTable, Fits
<1>2. /\ DOMAIN commitmentByIndex' = D \cup {n}
      /\ commitmentByIndex'[n] = c
      /\ \A i \in D : i # n => commitmentByIndex'[i] = commitmentByIndex[i]
  BY DEF Put
<1>3. n \notin D /\ HasPredecessor(n)
  BY DEF Fits
<1>4. \A i \in D : i < n
  BY <1>1, <1>3 DEF CommittedChain
<1>5. \A j \in 1 .. (n - 1) : j \in D
  BY <1>1, <1>3 DEF HasPredecessor, CommittedChain
<1>6. StartHeight(n)' = StartHeight(n)
  <2>1. CASE n = 1
    BY <2>1 DEF StartHeight
  <2>2. CASE n # 1
    BY <2>2, <1>1, <1>2, <1>5 DEF StartHeight
  <2>3. QED
    BY <2>1, <2>2
<1>7. \A i \in D : StartHeight(i)' = StartHeight(i)
  <2> SUFFICES ASSUME NEW i \in D PROVE StartHeight(i)' = StartHeight(i)
    OBVIOUS
  <2>1. CASE i = 1
    BY <2>1 DEF StartHeight
  <2>2. CASE i # 1
    <3>1. i - 1 \in D /\ i - 1 # n
      BY <2>2, <1>1, <1>4 DEF CommittedChain
    <3>2. QED
      BY <2>2, <3>1, <1>2 DEF StartHeight
  <2>3. QED
    BY <2>1, <2>2
<1>8. \A j \in 1 .. (n - 1) : commitmentByIndex[j].end < c.end
  <2> SUFFICES ASSUME NEW j \in 1 .. (n - 1) PROVE commitmentByIndex[j].end < c.end
    OBVIOUS
  <2>1. n # 1 /\ n - 1 \in D /\ j \in D
    BY <1>1, <1>5
  <2>2. commitmentByIndex[n - 1].end < c.end
    BY <1>1, <2>1 DEF Fits, StartHeight
  <2>3. j = n - 1 \/ commitmentByIndex[j].end < commitmentByIndex[n - 1].end
    BY <1>1, <2>1 DEF CommittedChain
  <2>4. QED
    BY <1>1, <2>1, <2>2, <2>3
<1>9. ASSUME NEW i \in D \cup {n}
      PROVE  LET d == commitmentByIndex'[i] IN
             /\ d.index = i
             /\ i > 0
             /\ \A j \in 1 .. i : j \in D \cup {n}
             /\ \A j \in 1 .. (i - 1) : commitmentByIndex'[j].end < d.end
             /\ StartHeight(i)' <= d.end
             /\ d.end <= head
             /\ d.root = MerkleRoot(StartHeight(i)', d.end)
  <2>1. CASE i = n
    <3>1. commitmentByIndex'[i] = c /\ i \in Nat \ {0}
      BY <2>1, <1>1, <1>2
    <3>2. \A j \in 1 .. i : j \in D \cup {n}
      BY <2>1, <1>1, <1>5
    <3>3. \A j \in 1 .. (i - 1) : commitmentByIndex'[j] = commitmentByIndex[j]
      BY <2>1, <1>1, <1>2, <1>5
    <3>4. \A j \in 1 .. (i - 1) : commitmentByIndex'[j].end < c.end
      BY <2>1, <3>3, <1>8, Zenon
    <3>5. QED
      BY <2>1, <3>1, <3>2, <3>4, <1>1, <1>6 DEF Fits
  <2>2. CASE i # n
    <3>1. i \in D /\ commitmentByIndex'[i] = commitmentByIndex[i]
      BY <2>2, <1>2
    <3>2. \A j \in 1 .. (i - 1) : commitmentByIndex'[j] = commitmentByIndex[j]
      <4>1. i \in Nat /\ i < n /\ \A j \in 1 .. i : j \in D
        BY <3>1, <1>1, <1>4 DEF CommittedChain
      <4>2. \A j \in 1 .. (i - 1) : j \in D /\ j # n
        BY <4>1, <1>1
      <4>3. QED
        BY <4>2, <1>2, Zenon
    <3>3. QED
      BY <3>1, <3>2, <1>7 DEF CommittedChain
  <2>3. QED
    BY <2>1, <2>2
<1>10. QED
  BY <1>2, <1>9 DEF CommittedChain, MerkleRoot

\* The frame of every step that stores nothing: the commitment in progress, if any,
\* still fits.
LEMMA ChainInvFrame ==
  ASSUME ChainInv, TypeInv', commitmentByIndex' = commitmentByIndex, head' >= head,
         PendingFiled',
         step' = "putCommitment" => step = "putCommitment" /\ item' = item
  PROVE  ChainInv'
<1>1. CommittedChain'
  BY ChainFrame DEF ChainInv
<1>2. Accepted'
  <2> SUFFICES ASSUME step' = "putCommitment" PROVE Fits(item.commitment)'
    BY DEF Accepted
  <2>1. Fits(item.commitment) /\ item' = item /\ step = "putCommitment"
    BY DEF ChainInv, Accepted
  <2>2. item.commitment.end \in Nat /\ head \in Nat /\ head' \in Nat
    BY <2>1, KeyTypes DEF ChainInv, TypeInv, TypeOK
  <2>3. item.commitment.end <= head'
    BY <2>1, <2>2 DEF Fits
  <2>4. QED
    BY <2>1, <2>3, ZenonT(40) DEF Fits, HasPredecessor, StartHeight, MerkleRoot
<1>3. QED
  BY <1>1, <1>2 DEF ChainInv

\* Filing a commitment under its own index, or removing one, keeps PendingFiled.
LEMMA PendingFiledPut ==
  ASSUME PendingFiled, NEW it, it.commitment.index > 0,
         pendingCommitments' = Put(pendingCommitments, it.commitment.index, it)
  PROVE  PendingFiled'
BY DEF PendingFiled, Put

LEMMA PendingFiledDelete ==
  ASSUME PendingFiled, NEW ks, pendingCommitments' = Delete(pendingCommitments, ks)
  PROVE  PendingFiled'
BY DEF PendingFiled, Delete

LEMMA PendingFiledSame ==
  ASSUME PendingFiled, pendingCommitments' = pendingCommitments
  PROVE  PendingFiled'
BY DEF PendingFiled

\* A step that leaves the stored and the pending commitments and the L2 chain alone, and
\* accepts nothing.
Quiet ==
  /\ commitmentByIndex' = commitmentByIndex
  /\ pendingCommitments' = pendingCommitments
  /\ head' = head
  /\ step' = "putCommitment" => step = "putCommitment" /\ item' = item

LEMMA QuietKeepsChain ==
  ASSUME ChainInv, TypeInv', Quiet
  PROVE  ChainInv'
<1>1. PendingFiled'
  BY PendingFiledSame DEF ChainInv, Quiet
<1>2. head' >= head
  <2>1. head \in Nat /\ head' = head
    BY Zenon DEF ChainInv, TypeInv, TypeOK, Quiet
  <2>2. QED
    BY <2>1
<1>3. QED
  BY <1>1, <1>2, ChainInvFrame, ZenonT(40) DEF Quiet

\* The initial ledger is empty.
LEMMA ChainInit == Init => ChainInv
BY InitType DEF Init, ChainInv, CommittedChain, PendingFiled, Accepted, EmptyTable

\* Every step of the node, crashes included, keeps the chain.
LEMMA ChainNext == ChainInv /\ [CrashNext]_vars => ChainInv'
<1> SUFFICES ASSUME ChainInv, [CrashNext]_vars PROVE ChainInv'
  OBVIOUS
<1>1. TypeInv /\ TypeInv' /\ PendingFiled
  BY NextType DEF ChainInv
<1>2. head \in Nat
  BY <1>1 DEF TypeInv, TypeOK
<1>3. CASE UNCHANGED vars
  <2>1. Quiet
    BY <1>3 DEF Quiet, vars, ledger, l2
  <2>2. QED
    BY <1>1, <2>1, QuietKeepsChain, Zenon
<1>4. CASE FinalizeL1Block
  <2>1. Quiet
    BY <1>4 DEF Quiet, FinalizeL1Block, ledger, l2
  <2>2. QED
    BY <1>1, <2>1, QuietKeepsChain, Zenon
<1>5. CASE SyncL2
  <2>1. /\ commitmentByIndex' = commitmentByIndex /\ pendingCommitments' = pendingCommitments
        /\ step' = step /\ item' = item
    BY <1>5 DEF SyncL2, ApplyL2Block, CommitL2Block, ledger
  <2>2. head' >= head
    BY <1>2, <1>5 DEF SyncL2, ApplyL2Block, CommitL2Block
  <2>3. PendingFiled'
    BY <1>1, <2>1, PendingFiledSame
  <2>4. QED
    BY <1>1, <2>1, <2>2, <2>3, ChainInvFrame, ZenonT(40)
<1>6. CASE StartBlock \/ SkipIndexZero \/ BlockDone \/ PendingCommitmentsDone \/ FinishBlock
  <2>1. StartBlock => Quiet
    BY DEF Quiet, StartBlock, ledger, l2
  <2>2. SkipIndexZero => Quiet
    BY DEF Quiet, SkipIndexZero, ledger, l2
  <2>3. BlockDone => Quiet
    BY DEF Quiet, BlockDone, ledger, l2
  <2>4. PendingCommitmentsDone => Quiet
    BY DEF Quiet, PendingCommitmentsDone, ledger, l2
  <2>5. FinishBlock => Quiet
    BY DEF Quiet, FinishBlock, ledger, l2
  <2>6. QED
    BY <1>1, <1>6, <2>1, <2>2, <2>3, <2>4, <2>5, QuietKeepsChain, Zenon
<1>7. CASE DiscardCommitment
  <2>1. PendingFiled'
    BY <1>1, <1>7, PendingFiledSame, PendingFiledDelete DEF DiscardCommitment
  <2>2. /\ commitmentByIndex' = commitmentByIndex /\ head' = head
        /\ step' = "putCommitment" => step = "putCommitment" /\ item' = item
    BY <1>7 DEF DiscardCommitment, l2
  <2>3. head' >= head
    BY <1>2, <2>2
  <2>4. QED
    BY <1>1, <2>1, <2>2, <2>3, ChainInvFrame, ZenonT(40)
<1>8. CASE PendCommitment
  <2>1. PICK it \in CommitmentItems :
          \/ pendingCommitments' = pendingCommitments
          \/ pendingCommitments' = Put(pendingCommitments, it.commitment.index, it)
    BY <1>8, Zenon DEF PendCommitment
  <2>2. it.commitment.index > 0
    BY <1>1, ItemIndexPositive
  <2>3. PendingFiled'
    BY <1>1, <2>1, <2>2, PendingFiledSame, PendingFiledPut
  <2>4. /\ commitmentByIndex' = commitmentByIndex /\ head' = head
        /\ step' = "putCommitment" => step = "putCommitment" /\ item' = item
    BY <1>8 DEF PendCommitment, l2
  <2>5. head' >= head
    BY <1>2, <2>4
  <2>6. QED
    BY <1>1, <2>3, <2>4, <2>5, ChainInvFrame, ZenonT(40)
<1>9. CASE HaltOnMismatch \/ FailOnEmptyRange
  <2>1. HaltOnMismatch => Quiet
    BY DEF Quiet, HaltOnMismatch, ledger, l2
  <2>2. FailOnEmptyRange => Quiet
    BY DEF Quiet, FailOnEmptyRange, ledger, l2
  <2>3. QED
    BY <1>1, <1>9, <2>1, <2>2, QuietKeepsChain, Zenon
<1>10. CASE AcceptCommitment
  <2>1. PICK it \in CommitmentItems :
          /\ Checkable(it.commitment)
          /\ StartHeight(it.commitment.index) <= it.commitment.end
          /\ it.commitment.root = MerkleRoot(StartHeight(it.commitment.index), it.commitment.end)
          /\ item' = it
    BY <1>10, ZenonT(40) DEF AcceptCommitment
  <2>2. it.commitment.index > 0
    BY <1>1, ItemIndexPositive
  <2>3. Fits(it.commitment)
    BY <2>1, <2>2 DEF Checkable, Redundant, Fits
  <2>4. Accepted'
    BY <1>10, <2>1, <2>3, ZenonT(40)
       DEF AcceptCommitment, Accepted, Fits, HasPredecessor, StartHeight, MerkleRoot, l2
  <2>5. CommittedChain'
    <3>1. commitmentByIndex' = commitmentByIndex /\ head' = head
      BY <1>10, ZenonT(40) DEF AcceptCommitment, l2
    <3>2. head' >= head
      BY <1>2, <3>1
    <3>3. QED
      BY <1>1, <3>1, <3>2, ChainFrame DEF ChainInv
  <2>6. PendingFiled'
    BY <1>1, <1>10, PendingFiledSame DEF AcceptCommitment
  <2>7. QED
    BY <1>1, <2>4, <2>5, <2>6 DEF ChainInv
<1>11. CASE PutCommitment
  <2>1. item.commitment \in SequencerCommitments
    BY <1>1, <1>11 DEF PutCommitment, TypeInv, TypeOK
  <2>2. Fits(item.commitment)
    BY <1>11 DEF PutCommitment, ChainInv, Accepted
  <2>3. CommittedChain'
    BY <1>1, <1>11, <2>1, <2>2, ChainExtend DEF PutCommitment, ChainInv, l2
  <2>4. PendingFiled' /\ Accepted'
    BY <1>1, <1>11, PendingFiledSame DEF PutCommitment, Accepted
  <2>5. QED
    BY <1>1, <2>3, <2>4 DEF ChainInv
<1>12. CASE SetCommitted
  <2>1. Quiet
    BY <1>12 DEF Quiet, SetCommitted, l2
  <2>2. QED
    BY <1>1, <2>1, QuietKeepsChain, Zenon
<1>13. CASE RemovePendingCommitment
  <2>1. PendingFiled'
    BY <1>1, <1>13, PendingFiledDelete DEF RemovePendingCommitment
  <2>2. commitmentByIndex' = commitmentByIndex /\ head' = head /\ step' # "putCommitment"
    BY <1>13 DEF RemovePendingCommitment, l2
  <2>3. head' >= head
    BY <1>2, <2>2
  <2>4. QED
    BY <1>1, <2>1, <2>2, <2>3, ChainInvFrame, ZenonT(40)
<1>14. CASE ProcessProof
  <2>1. DiscardProof => Quiet
    BY DEF Quiet, DiscardProof, l2
  <2>2. SkipProof => Quiet
    BY DEF Quiet, SkipProof, ledger, l2
  <2>3. PanicOnProven => Quiet
    BY DEF Quiet, PanicOnProven, ledger, l2
  <2>4. PendProof => Quiet
    BY DEF Quiet, PendProof, l2
  <2>5. AcceptProof => Quiet
    BY DEF Quiet, AcceptProof, l2
  <2>6. SetProven => Quiet
    BY DEF Quiet, SetProven, l2
  <2>7. RemovePendingProof => Quiet
    BY DEF Quiet, RemovePendingProof, l2
  <2>8. Quiet
    BY <1>14, <2>1, <2>2, <2>3, <2>4, <2>5, <2>6, <2>7 DEF ProcessProof
  <2>9. QED
    BY <1>1, <2>8, QuietKeepsChain, Zenon
<1>15. CASE CrashAndStart
  <2>1. PendingFiled'
    BY <1>1, <1>15, PendingFiledSame, PendingFiledDelete DEF CrashAndStart, Boot, RollbackForgets
  <2>2. commitmentByIndex' = commitmentByIndex /\ step' # "putCommitment"
    BY <1>15 DEF CrashAndStart, Boot
  <2>3. head' >= head
    BY <1>2, <1>15 DEF CrashAndStart, Boot
  <2>4. QED
    BY <1>1, <2>1, <2>2, <2>3, ChainInvFrame, ZenonT(40)
<1>16. QED
  BY <1>3, <1>4, <1>5, <1>6, <1>7, <1>8, <1>9, <1>10, <1>11, <1>12, <1>13, <1>14, <1>15
     DEF CrashNext, Node, Handler, ProcessCommitment

\* Whatever arrives on Bitcoin, in whatever order, and wherever the node crashes, the
\* commitments it has stored (put_commitment_by_index) form one gapless chain of synced
\* L2 ranges with the right Merkle roots.
THEOREM CommittedChainHolds == CrashSpec => []CommittedChain
<1>1. ChainInv => CommittedChain
  BY DEF ChainInv
<1>2. QED
  BY <1>1, ChainInit, ChainNext, PTL DEF CrashSpec

\* A stored commitment is never replaced nor removed (process_sequencer_commitment
\* discards a commitment whose index is taken), even by a re-scan after a crash.
THEOREM CanonicalCommitmentKeptHolds == CrashSpec => CanonicalCommitmentKept
<1> DEFINE Kept == \A i \in DOMAIN commitmentByIndex :
                     /\ i \in DOMAIN commitmentByIndex'
                     /\ commitmentByIndex'[i] = commitmentByIndex[i]
<1>1. ASSUME ChainInv, [CrashNext]_vars PROVE [Kept]_vars
  <2>1. CASE PutCommitment
    <3>1. Fits(item.commitment)
      BY <2>1, <1>1 DEF PutCommitment, ChainInv, Accepted
    <3>2. QED
      BY <2>1, <3>1 DEF PutCommitment, Fits, Put
  <2>2. CASE commitmentByIndex' = commitmentByIndex
    BY <2>2
  <2>3. [CrashNext]_vars => PutCommitment \/ commitmentByIndex' = commitmentByIndex
    BY Zenon DEF CrashNext, Node, Handler, ProcessCommitment, ProcessProof, FinalizeL1Block, SyncL2,
       ApplyL2Block, CommitL2Block, StartBlock, SkipIndexZero, BlockDone, DiscardCommitment,
       PendCommitment, HaltOnMismatch, FailOnEmptyRange, AcceptCommitment, SetCommitted,
       RemovePendingCommitment, PendingCommitmentsDone, DiscardProof, SkipProof, PanicOnProven,
       PendProof, AcceptProof, SetProven, RemovePendingProof, FinishBlock, CrashAndStart, Boot,
       vars, ledger
  <2>4. QED
    BY <1>1, <2>1, <2>2, <2>3
<1>2. QED
  BY <1>1, ChainInit, ChainNext, PTL DEF CrashSpec, CanonicalCommitmentKept
=============================================================================
