------------------------------ MODULE FullNode ------------------------------
(***************************************************************************)
(* Finality tracking in a Citrea full node.                                *)
(*                                                                         *)
(* Two tasks share one ledger database.  L2Syncer applies the sequencer's  *)
(* L2 blocks and moves the head.  L1BlockHandler walks the finalized       *)
(* Bitcoin blocks in order and, for each, processes the sequencer          *)
(* commitments and batch proofs it carries, retries what is pending, and   *)
(* records the block as scanned.  The handler makes one durable write at a *)
(* time: every write is a step of its own here, so that the other task and *)
(* a crash can fall between any two of them.                               *)
(*                                                                         *)
(* Data is abstracted to what the handler compares.  The node's L2 chain   *)
(* is canonical: the Merkle root of the blocks s..e is the pair <<s, e>>,  *)
(* the state root after block h is h, and a commitment is its own hash.    *)
(***************************************************************************)
EXTENDS Tables, Sequences, FiniteSets

CONSTANTS
  SequencerCommitments,  \* commitments that may be inscribed on Bitcoin
  BatchProofs,           \* batch proofs that may be inscribed on Bitcoin
  NoCommitment,          \* previous_commitment_index() = None
  L1Contents,            \* what one Bitcoin block may carry: sequences of messages
  Tangerine,             \* get_tangerine_activation_height_non_zero()
  L1Bound,               \* bound: number of finalized Bitcoin blocks
  L2Bound,               \* bound: length of the L2 chain
  RestartBound           \* bound: number of restarts of the node

CommitmentMessage(c) == [kind |-> "commitment", body |-> c]
ProofMessage(p)      == [kind |-> "proof", body |-> p]

Messages == {CommitmentMessage(c) : c \in SequencerCommitments}
              \cup {ProofMessage(p) : p \in BatchProofs}

\* The commitment indices a proof covers are firstIndex .. LastIndex(p).
LastIndex(p) == p.firstIndex + Len(p.hashes) - 1

\* What is assumed of the output of a proof that verifies.  The batch proof
\* circuit asserts that the first commitment follows the previous one and that
\* the L2 heights are contiguous up to the reported one; that the indices in
\* between are consecutive is the work of the prover, which stops at an index gap
\* before it starts a proof (filter_commitments_with_index_gap).
BatchProofSound(p) ==
  /\ p.firstIndex > 0
  /\ Len(p.hashes) > 0
  /\ \A i \in DOMAIN p.hashes : p.hashes[i].index = p.firstIndex + i - 1
  /\ p.lastL2Height = p.hashes[Len(p.hashes)].end
  /\ (p.previous = NoCommitment) <=> (p.firstIndex = 1)
  /\ p.previous # NoCommitment => p.previous.index = p.firstIndex - 1

ASSUME CommitmentsAssumption ==
  /\ SequencerCommitments \subseteq [index : Nat, end : Nat, root : Nat \X Nat]
  /\ NoCommitment \notin SequencerCommitments

ASSUME ProofsAssumption ==
  \A p \in BatchProofs :
    /\ p.firstIndex \in Nat
    /\ p.hashes \in Seq(SequencerCommitments)
    /\ LastIndex(p) \in Nat
    /\ p.previous \in SequencerCommitments \cup {NoCommitment}
    /\ p.initialStateRoot \in Nat
    /\ p.lastL2Height \in Nat
    /\ p.lastL1Height \in Nat
    /\ p.valid \in BOOLEAN
    /\ p.valid => BatchProofSound(p)

ASSUME L1Assumption == \A b \in L1Contents : b \in Seq(Messages)

ASSUME BoundsAssumption ==
  /\ Tangerine \in Nat \ {0}
  /\ L1Bound \in Nat
  /\ L2Bound \in Nat
  /\ RestartBound \in Nat

VARIABLES
  \* ---- outside the node
  l1,                  \* finalized Bitcoin blocks, height = position
  \* ---- durable: the ledger database, and the version of the state database
  head,                \* head L2 block of the ledger database
  stateVersion,        \* L2 block up to which the state database is written
  lastScanned,         \* ProverLastScannedSlot; 0 when absent
  slotByHash,          \* L1 heights whose hash the ledger knows
  commitmentByIndex,   \* SequencerCommitmentByIndex
  pendingCommitments,  \* PendingSequencerCommitments
  pendingProofs,       \* PendingProofs
  committedAt,         \* L2StatusHeights, status Committed
  provenAt,            \* L2StatusHeights, status Proven
  commitmentsOnSlot,   \* CommitmentsByNumber
  verifiedProofs,      \* VerifiedBatchProofsBySlotNumber
  \* ---- volatile: the L1 block handler
  mode,                \* "running", "halted" (handler returned), "panicked"
  current,             \* L1 height at the front of the handler's queue
  phase,               \* what process_l1_block is doing with block current
  pos,                 \* next message of the block
  cursor,              \* last key seen by the pending iterator
  step,                \* next durable write of the item in progress
  item,                \* the item in progress, NoCommitment if none
  \* ---- bookkeeping
  restarts

ledger == <<lastScanned, slotByHash, commitmentByIndex, pendingCommitments,
            pendingProofs, committedAt, provenAt, commitmentsOnSlot, verifiedProofs>>
l2     == <<head, stateVersion>>
vars   == <<l1, l2, ledger, mode, current, phase, pos, cursor, step, item, restarts>>

HeightAndIndex == [height : Nat, index : Nat]

TypeOK ==
  /\ l1 \in Seq(L1Contents)
  /\ head \in Nat
  /\ stateVersion \in {head, head + 1}
  /\ lastScanned \in Nat
  /\ slotByHash \subseteq Nat
  /\ IsTable(commitmentByIndex, Nat, SequencerCommitments)
  /\ IsTable(pendingCommitments, Nat, [commitment : SequencerCommitments, found : Nat])
  /\ IsTable(pendingProofs, Nat \X Nat, [proof : BatchProofs, found : Nat])
  /\ IsTable(committedAt, Nat, HeightAndIndex)
  /\ IsTable(provenAt, Nat, HeightAndIndex)
  /\ IsTable(commitmentsOnSlot, Nat, SUBSET SequencerCommitments)
  /\ IsTable(verifiedProofs, Nat, Seq(BatchProofs))
  /\ mode \in {"running", "halted", "panicked"}
  /\ current \in Nat \ {0}
  /\ phase \in {"idle", "block", "commitments", "proofs", "scanned"}
  /\ pos \in Nat \ {0}
  /\ cursor \in Nat \X Nat
  /\ restarts \in Nat
  /\ \/ step = "decide" /\ item = NoCommitment
     \/ /\ step \in {"putCommitment", "setCommitted", "removeCommitment"}
        /\ item \in [commitment : SequencerCommitments, found : Nat]
     \/ /\ step \in {"setProven", "removeProof"}
        /\ item \in [proof : BatchProofs, found : Nat]

Init ==
  /\ l1 = << >>
  /\ head = 0
  /\ stateVersion = 0
  /\ lastScanned = 0
  /\ slotByHash = {}
  /\ commitmentByIndex = EmptyTable
  /\ pendingCommitments = EmptyTable
  /\ pendingProofs = EmptyTable
  /\ committedAt = EmptyTable
  /\ provenAt = EmptyTable
  /\ commitmentsOnSlot = EmptyTable
  /\ verifiedProofs = EmptyTable
  /\ mode = "running"
  /\ current = 1
  /\ phase = "idle"
  /\ pos = 1
  /\ cursor = <<0, 0>>
  /\ step = "decide"
  /\ item = NoCommitment
  /\ restarts = 0

-----------------------------------------------------------------------------
(***************************************************************************)
(* Reads of the ledger database.                                           *)
(***************************************************************************)
Default == [height |-> 0, index |-> 0]

\* get_highest_l2_height_for_status(status, Some(l1Height)): the entry with the
\* greatest L1 height not above l1Height, or the default.
HighestAt(table, l1Height) ==
  LET keys == {k \in DOMAIN table : k <= l1Height}
  IN  IF keys = {} THEN Default
      ELSE table[CHOOSE k \in keys : \A j \in keys : j <= k]

\* The same with None: the entry with the greatest L1 height.
Highest(table) ==
  IF DOMAIN table = {} THEN Default
  ELSE table[CHOOSE k \in DOMAIN table : \A j \in DOMAIN table : j <= k]

\* PartialOrd of L2HeightAndIndex, derived: height first, then index.
Above(a, b) == a.height > b.height \/ (a.height = b.height /\ a.index > b.index)

\* Root of the tree over the hashes of the node's L2 blocks s..e.
MerkleRoot(s, e) == <<s, e>>

\* First L2 block of the commitment with index i.
StartHeight(i) == IF i = 1 THEN Tangerine ELSE commitmentByIndex[i - 1].end + 1

HasPredecessor(i) == i = 1 \/ i - 1 \in DOMAIN commitmentByIndex

-----------------------------------------------------------------------------
(***************************************************************************)
(* The environment and the L2 syncer.                                      *)
(***************************************************************************)
\* Bitcoin finalizes one more block.
FinalizeL1Block ==
  /\ Len(l1) < L1Bound
  /\ \E b \in L1Contents : l1' = Append(l1, b)
  /\ UNCHANGED <<l2, ledger, mode, current, phase, pos, cursor, step, item, restarts>>

\* apply_l2_block ends with finalize_storage: the state database has the block,
\* the ledger database does not yet.
ApplyL2Block ==
  /\ mode # "panicked"
  /\ stateVersion = head
  /\ head < L2Bound
  /\ stateVersion' = head + 1
  /\ UNCHANGED <<l1, head, ledger, mode, current, phase, pos, cursor, step, item, restarts>>

\* commit_l2_block: the ledger database has the block too.
CommitL2Block ==
  /\ mode # "panicked"
  /\ stateVersion = head + 1
  /\ head' = stateVersion
  /\ UNCHANGED <<l1, stateVersion, ledger, mode, current, phase, pos, cursor, step, item, restarts>>

SyncL2 == ApplyL2Block \/ CommitL2Block

-----------------------------------------------------------------------------
(***************************************************************************)
(* process_l1_block.  Its phases: the messages of the block in order       *)
(* ("block"), process_pending_commitments ("commitments"),                 *)
(* process_pending_proofs ("proofs"), set_last_scanned_l1_height           *)
(* ("scanned").                                                            *)
(***************************************************************************)
Deciding == mode = "running" /\ step = "decide"

\* The handler takes the next finalized block.  slotByHash stands for both
\* tables written here under the block's hash, the L1 height and the short
\* header proof.
StartBlock ==
  /\ Deciding
  /\ phase = "idle"
  /\ current \in DOMAIN l1
  /\ slotByHash' = slotByHash \cup {current}
  /\ phase' = "block"
  /\ pos' = 1
  /\ UNCHANGED <<l1, l2, lastScanned, commitmentByIndex, pendingCommitments, pendingProofs,
                 committedAt, provenAt, commitmentsOnSlot, verifiedProofs,
                 mode, current, cursor, step, item, restarts>>

\* The message of the block to process now.
CurrentMessages ==
  {l1[current][n] : n \in {k \in {pos} : phase = "block" /\ k \in DOMAIN l1[current]}}

\* A commitment with index 0 is skipped.
IsSkipped(m) == m.kind = "commitment" /\ m.body.index = 0

SkipIndexZero ==
  /\ Deciding
  /\ \E m \in CurrentMessages : IsSkipped(m)
  /\ pos' = pos + 1
  /\ UNCHANGED <<l1, l2, ledger, mode, current, phase, cursor, step, item, restarts>>

BlockDone ==
  /\ Deciding
  /\ phase = "block"
  /\ pos \notin DOMAIN l1[current]
  /\ phase' = "commitments"
  /\ cursor' = <<0, 0>>
  /\ UNCHANGED <<l1, l2, ledger, mode, current, pos, step, item, restarts>>

\* The handler goes on after the item with this key: to the next message of the
\* block, or to the next key of the pending table it iterates over.
MoveOn(key) ==
  /\ pos' = IF phase = "block" THEN pos + 1 ELSE pos
  /\ cursor' = IF phase = "block" THEN cursor ELSE key

-----------------------------------------------------------------------------
(***************************************************************************)
(* process_sequencer_commitment, called from the block loop and from       *)
(* process_pending_commitments.                                            *)
(***************************************************************************)
Key(c) == <<c.index, c.index>>

IsNextPending(i) ==
  IsNextKey(<<i, i>>, {<<j, j>> : j \in DOMAIN pendingCommitments}, cursor)

Processable(i) ==
  IF i = 1 THEN pendingCommitments[i].commitment.end <= head
  ELSE i - 1 \in DOMAIN commitmentByIndex

\* The commitment to process now, with the L1 height it was found at.
CommitmentItems ==
  {[commitment |-> m.body, found |-> current] :
     m \in {n \in CurrentMessages : n.kind = "commitment" /\ ~IsSkipped(n)}}
  \cup
  {pendingCommitments[i] :
     i \in {j \in DOMAIN pendingCommitments :
              phase = "commitments" /\ IsNextPending(j) /\ Processable(j)}}

\* Mutant: only the height is required to advance.
MutRedundant(c) == c.end <= Highest(committedAt).height

\* The index is taken, or the commitment does not advance the committed height.
Redundant(c) ==
  \/ c.index \in DOMAIN commitmentByIndex
  \/ /\ DOMAIN committedAt # {}
     /\ \/ c.end <= Highest(committedAt).height
        \/ c.index <= Highest(committedAt).index

\* ProcessingResult::Discarded; a pending commitment is removed.
DiscardCommitment ==
  /\ Deciding
  /\ \E it \in CommitmentItems :
       /\ Redundant(it.commitment)
       /\ pendingCommitments' = IF phase = "block" THEN pendingCommitments
                                ELSE Delete(pendingCommitments, {it.commitment.index})
       /\ MoveOn(Key(it.commitment))
  /\ UNCHANGED <<l1, l2, lastScanned, slotByHash, commitmentByIndex, pendingProofs,
                 committedAt, provenAt, commitmentsOnSlot, verifiedProofs,
                 mode, current, phase, step, item, restarts>>

\* ProcessingResult::Pending: the predecessor is missing, and whatever was pending
\* at this index is overwritten; or the L2 blocks are not synced, and the
\* commitment already pending at this index is kept.
PendCommitment ==
  /\ Deciding
  /\ \E it \in CommitmentItems :
       LET c == it.commitment IN
       /\ ~Redundant(c)
       /\ \/ /\ ~HasPredecessor(c.index)
             /\ pendingCommitments' = Put(pendingCommitments, c.index, it)
          \/ /\ HasPredecessor(c.index)
             /\ c.end > head
             /\ pendingCommitments' = IF c.index \in DOMAIN pendingCommitments
                                      THEN pendingCommitments
                                      ELSE Put(pendingCommitments, c.index, it)
       /\ MoveOn(Key(c))
  /\ UNCHANGED <<l1, l2, lastScanned, slotByHash, commitmentByIndex, pendingProofs,
                 committedAt, provenAt, commitmentsOnSlot, verifiedProofs,
                 mode, current, phase, step, item, restarts>>

\* Mutant: does not wait for the L2 blocks.
MutCheckable(c) == ~Redundant(c) /\ HasPredecessor(c.index)

\* All checks up to the comparison of Merkle roots are passed.
Checkable(c) ==
  /\ ~Redundant(c)
  /\ HasPredecessor(c.index)
  /\ c.end <= head

\* The roots differ: a halting error, the handler returns.
HaltOnMismatch ==
  /\ Deciding
  /\ \E it \in CommitmentItems :
       LET c == it.commitment IN
       /\ Checkable(c)
       /\ StartHeight(c.index) <= c.end
       /\ c.root # MerkleRoot(StartHeight(c.index), c.end)
  /\ mode' = "halted"
  /\ UNCHANGED <<l1, l2, ledger, current, phase, pos, cursor, step, item, restarts>>

\* The range is empty, so there is no root to report: an error that is not a
\* halting one.  The block loop takes it for unreachable!, the pending loop stops.
FailOnEmptyRange ==
  /\ Deciding
  /\ \E it \in CommitmentItems :
       /\ Checkable(it.commitment)
       /\ StartHeight(it.commitment.index) > it.commitment.end
  /\ \/ /\ phase = "block"
        /\ mode' = "panicked"
        /\ UNCHANGED <<phase, cursor>>
     \/ /\ phase = "commitments"
        /\ phase' = "proofs"
        /\ cursor' = <<0, 0>>
        /\ UNCHANGED mode
  /\ UNCHANGED <<l1, l2, ledger, current, pos, step, item, restarts>>

\* The commitment is accepted.  First write: update_commitments_on_da_slot, which
\* does not add a commitment twice.
AcceptCommitment ==
  /\ Deciding
  /\ \E it \in CommitmentItems :
       LET c == it.commitment
           onSlot == IF it.found \in DOMAIN commitmentsOnSlot
                     THEN commitmentsOnSlot[it.found] ELSE {}
       IN
       /\ Checkable(c)
       /\ StartHeight(c.index) <= c.end
       /\ c.root = MerkleRoot(StartHeight(c.index), c.end)
       /\ commitmentsOnSlot' = Put(commitmentsOnSlot, it.found, onSlot \cup {c})
       /\ item' = it
  /\ step' = "putCommitment"
  /\ UNCHANGED <<l1, l2, lastScanned, slotByHash, commitmentByIndex, pendingCommitments,
                 pendingProofs, committedAt, provenAt, verifiedProofs,
                 mode, current, phase, pos, cursor, restarts>>

\* put_commitment_by_index.  The write of the L2 range under the Merkle root, just
\* before it, is only read by RPCs and is repeated with the same value.
PutCommitment ==
  /\ mode = "running"
  /\ step = "putCommitment"
  /\ commitmentByIndex' = Put(commitmentByIndex, item.commitment.index, item.commitment)
  /\ step' = "setCommitted"
  /\ UNCHANGED <<l1, l2, lastScanned, slotByHash, pendingCommitments, pendingProofs,
                 committedAt, provenAt, commitmentsOnSlot, verifiedProofs,
                 mode, current, phase, pos, cursor, item, restarts>>

\* Mutant: a status is recorded where the item was found.
MutStatusHeight(it) == it.found

\* The L1 height under which processing an item records the new status: the block
\* being processed, whatever block the item was found in.
StatusHeight(it) == current

\* set_l2_height_status(Committed) under the L1 height being processed.
SetCommitted ==
  /\ mode = "running"
  /\ step = "setCommitted"
  /\ LET c == item.commitment IN
     /\ committedAt' = Put(committedAt, StatusHeight(item), [height |-> c.end, index |-> c.index])
     /\ \/ /\ phase = "block"
           /\ step' = "decide"
           /\ item' = NoCommitment
           /\ MoveOn(Key(c))
        \/ /\ phase = "commitments"
           /\ step' = "removeCommitment"
           /\ UNCHANGED <<item, pos, cursor>>
  /\ UNCHANGED <<l1, l2, lastScanned, slotByHash, commitmentByIndex, pendingCommitments,
                 pendingProofs, provenAt, commitmentsOnSlot, verifiedProofs,
                 mode, current, phase, restarts>>

\* remove_pending_commitment after a success.
RemovePendingCommitment ==
  /\ mode = "running"
  /\ step = "removeCommitment"
  /\ pendingCommitments' = Delete(pendingCommitments, {item.commitment.index})
  /\ step' = "decide"
  /\ item' = NoCommitment
  /\ MoveOn(Key(item.commitment))
  /\ UNCHANGED <<l1, l2, lastScanned, slotByHash, commitmentByIndex, pendingProofs,
                 committedAt, provenAt, commitmentsOnSlot, verifiedProofs,
                 mode, current, phase, restarts>>

\* The pending loop ends: no key is left, or the next one is not processable.
PendingCommitmentsDone ==
  /\ Deciding
  /\ phase = "commitments"
  /\ \A i \in DOMAIN pendingCommitments : IsNextPending(i) => ~Processable(i)
  /\ phase' = "proofs"
  /\ cursor' = <<0, 0>>
  /\ UNCHANGED <<l1, l2, ledger, mode, current, pos, step, item, restarts>>

-----------------------------------------------------------------------------
(***************************************************************************)
(* process_zk_proof, called from the block loop and from                   *)
(* process_pending_proofs.                                                 *)
(***************************************************************************)
Range(p) == <<p.firstIndex, LastIndex(p)>>

\* The proof to process now, with the L1 height it was found at.
ProofItems ==
  {[proof |-> m.body, found |-> current] : m \in {n \in CurrentMessages : n.kind = "proof"}}
  \cup
  {pendingProofs[k] :
     k \in {r \in DOMAIN pendingProofs :
              phase = "proofs" /\ IsNextKey(r, DOMAIN pendingProofs, cursor)}}

\* The commitments a proof names: index and hash.
References(p) ==
  {<<p.firstIndex + i - 1, p.hashes[i]>> : i \in DOMAIN p.hashes}
  \cup {<<c.index, c>> : c \in {p.previous} \ {NoCommitment}}

\* verify_sequencer_commitment_hash_by_index succeeds: the commitment stored at the
\* index or, failing that, the one pending there has this hash.
HashMatches(r) ==
  IF r[1] \in DOMAIN commitmentByIndex THEN commitmentByIndex[r[1]] = r[2]
  ELSE r[1] \in DOMAIN pendingCommitments /\ pendingCommitments[r[1]].commitment = r[2]

PreviousEnd(p) ==
  IF p.previous = NoCommitment THEN Tangerine - 1 ELSE p.previous.end

KnownL1(p) == p.lastL1Height \in slotByHash

\* Mutant: every proof counts as an advance.
MutAlwaysAdvances(p) == p.lastL2Height > 0

Advances(p) ==
  /\ p.lastL2Height > Highest(provenAt).height
  /\ LastIndex(p) > Highest(provenAt).index

ProvenAboveCommitted == Above(Highest(provenAt), Highest(committedAt))

\* The checks that precede the reads of commitments.
Examined(p) == p.valid /\ KnownL1(p) /\ Advances(p) /\ ~ProvenAboveCommitted

Verified(p) == \A r \in References(p) : HashMatches(r)

\* Mutant: proof_is_pending is never set.
MutAllStored(p) == \A r \in References(p) : r[1] > 0

AllStored(p) == \A r \in References(p) : r[1] \in DOMAIN commitmentByIndex

StateRootMatches(p) ==
  /\ PreviousEnd(p) <= head
  /\ p.initialStateRoot = PreviousEnd(p)

\* Mutant: off by one.
MutContiguous(p) == p.firstIndex <= Highest(provenAt).index + 2

Contiguous(p) == p.firstIndex <= Highest(provenAt).index + 1

\* ProcessingResult::Discarded: the proof cannot be parsed or verified, or does not
\* advance the proven height.  A pending proof is removed.
DiscardProof ==
  /\ Deciding
  /\ \E it \in ProofItems :
       /\ \/ ~it.proof.valid
          \/ KnownL1(it.proof) /\ ~Advances(it.proof)
       /\ pendingProofs' = IF phase = "block" THEN pendingProofs
                           ELSE Delete(pendingProofs, {Range(it.proof)})
       /\ MoveOn(Range(it.proof))
  /\ UNCHANGED <<l1, l2, lastScanned, slotByHash, commitmentByIndex, pendingCommitments,
                 committedAt, provenAt, commitmentsOnSlot, verifiedProofs,
                 mode, current, phase, step, item, restarts>>

\* The handler does not wait for what this proof needs.  The block loop goes on with
\* the next message, the pending loop stops.
StopOrMoveOn(key) ==
  /\ phase' = IF phase = "block" THEN phase ELSE "scanned"
  /\ MoveOn(key)

\* A skippable error: unknown L1 hash, unknown commitment, wrong hash, wrong initial
\* state root.  The block loop drops the proof; the pending loop keeps it and stops.
SkipProof ==
  /\ Deciding
  /\ \E it \in ProofItems :
       LET p == it.proof IN
       /\ \/ p.valid /\ ~KnownL1(p)
          \/ Examined(p) /\ ~Verified(p)
          \/ Examined(p) /\ Verified(p) /\ AllStored(p) /\ ~StateRootMatches(p)
       /\ StopOrMoveOn(Range(p))
  /\ UNCHANGED <<l1, l2, ledger, mode, current, step, item, restarts>>

\* panic!: the highest proven entry is above the highest committed one.
PanicOnProven ==
  /\ Deciding
  /\ \E it \in ProofItems :
       it.proof.valid /\ KnownL1(it.proof) /\ Advances(it.proof)
  /\ ProvenAboveCommitted
  /\ mode' = "panicked"
  /\ UNCHANGED <<l1, l2, ledger, current, phase, pos, cursor, step, item, restarts>>

\* ProcessingResult::Pending: a commitment the proof names is itself pending, or the
\* commitments before it are not all proven.
PendProof ==
  /\ Deciding
  /\ \E it \in ProofItems :
       LET p == it.proof IN
       /\ Examined(p)
       /\ Verified(p)
       /\ \/ ~AllStored(p)
          \/ AllStored(p) /\ StateRootMatches(p) /\ ~Contiguous(p)
       /\ pendingProofs' = Put(pendingProofs, Range(p), it)
       /\ StopOrMoveOn(Range(p))
  /\ UNCHANGED <<l1, l2, lastScanned, slotByHash, commitmentByIndex, pendingCommitments,
                 committedAt, provenAt, commitmentsOnSlot, verifiedProofs,
                 mode, current, step, item, restarts>>

\* The proof is accepted.  First write: update_verified_proof_data, which appends.
AcceptProof ==
  /\ Deciding
  /\ \E it \in ProofItems :
       LET p == it.proof
           onSlot == IF it.found \in DOMAIN verifiedProofs
                     THEN verifiedProofs[it.found] ELSE << >>
       IN
       /\ Examined(p)
       /\ Verified(p)
       /\ AllStored(p)
       /\ StateRootMatches(p)
       /\ Contiguous(p)
       /\ verifiedProofs' = Put(verifiedProofs, it.found, Append(onSlot, p))
       /\ item' = it
  /\ step' = "setProven"
  /\ UNCHANGED <<l1, l2, lastScanned, slotByHash, commitmentByIndex, pendingCommitments,
                 pendingProofs, committedAt, provenAt, commitmentsOnSlot,
                 mode, current, phase, pos, cursor, restarts>>

\* set_l2_height_status(Proven) under the L1 height being processed.
SetProven ==
  /\ mode = "running"
  /\ step = "setProven"
  /\ LET p == item.proof IN
     /\ provenAt' = Put(provenAt, StatusHeight(item),
                        [height |-> p.lastL2Height, index |-> LastIndex(p)])
     /\ \/ /\ phase = "block"
           /\ step' = "decide"
           /\ item' = NoCommitment
           /\ MoveOn(Range(p))
        \/ /\ phase = "proofs"
           /\ step' = "removeProof"
           /\ UNCHANGED <<item, pos, cursor>>
  /\ UNCHANGED <<l1, l2, lastScanned, slotByHash, commitmentByIndex, pendingCommitments,
                 pendingProofs, committedAt, commitmentsOnSlot, verifiedProofs,
                 mode, current, phase, restarts>>

\* remove_pending_proof after a success.
RemovePendingProof ==
  /\ mode = "running"
  /\ step = "removeProof"
  /\ pendingProofs' = Delete(pendingProofs, {Range(item.proof)})
  /\ step' = "decide"
  /\ item' = NoCommitment
  /\ MoveOn(Range(item.proof))
  /\ UNCHANGED <<l1, l2, lastScanned, slotByHash, commitmentByIndex, pendingCommitments,
                 committedAt, provenAt, commitmentsOnSlot, verifiedProofs,
                 mode, current, phase, restarts>>

\* set_last_scanned_l1_height, then the block leaves the queue.
FinishBlock ==
  /\ Deciding
  /\ \/ phase = "scanned"
     \/ phase = "proofs" /\ ProofItems = {}
  /\ lastScanned' = current
  /\ current' = current + 1
  /\ phase' = "idle"
  /\ UNCHANGED <<l1, l2, slotByHash, commitmentByIndex, pendingCommitments, pendingProofs,
                 committedAt, provenAt, commitmentsOnSlot, verifiedProofs,
                 mode, pos, cursor, step, item, restarts>>

-----------------------------------------------------------------------------
(***************************************************************************)
(* Restart.  The handler starts again from the last scanned block, which   *)
(* it scans a second time.  sync_ledger_and_state_db first rolls the state *)
(* database back to the ledger's head if it is one block ahead; the ledger *)
(* part of that rollback forgets the pending items found after the last    *)
(* scanned block, and nothing else.                                        *)
(***************************************************************************)
FoundAfterScan(t) == {k \in DOMAIN t : t[k].found > lastScanned}

RollbackForgets(t) ==
  IF stateVersion = head + 1 THEN Delete(t, FoundAfterScan(t)) ELSE t

Boot ==
  /\ restarts < RestartBound
  /\ restarts' = restarts + 1
  /\ stateVersion' = head
  /\ pendingCommitments' = RollbackForgets(pendingCommitments)
  /\ pendingProofs' = RollbackForgets(pendingProofs)
  /\ mode' = "running"
  /\ current' = IF lastScanned = 0 THEN 1 ELSE lastScanned
  /\ phase' = "idle"
  /\ pos' = 1
  /\ cursor' = <<0, 0>>
  /\ step' = "decide"
  /\ item' = NoCommitment
  /\ UNCHANGED <<l1, head, lastScanned, slotByHash, commitmentByIndex,
                 committedAt, provenAt, commitmentsOnSlot, verifiedProofs>>

\* A graceful shutdown is seen between two blocks, by both tasks, and a start.
StopAndStart ==
  /\ mode = "running"
  /\ phase = "idle"
  /\ stateVersion = head
  /\ Boot

\* The process dies anywhere (a crash, a panic, a shutdown that exceeds its
\* timeout) and is started again.
CrashAndStart == Boot

-----------------------------------------------------------------------------
ProcessCommitment ==
  \/ DiscardCommitment \/ PendCommitment \/ HaltOnMismatch \/ FailOnEmptyRange
  \/ AcceptCommitment \/ PutCommitment \/ SetCommitted \/ RemovePendingCommitment

ProcessProof ==
  \/ DiscardProof \/ SkipProof \/ PanicOnProven \/ PendProof
  \/ AcceptProof \/ SetProven \/ RemovePendingProof

Handler ==
  \/ StartBlock \/ SkipIndexZero \/ BlockDone \/ ProcessCommitment
  \/ PendingCommitmentsDone \/ ProcessProof \/ FinishBlock

Node == Handler \/ SyncL2

Next == FinalizeL1Block \/ Node \/ StopAndStart

CrashNext == FinalizeL1Block \/ Node \/ CrashAndStart

\* Restarts are graceful.
Spec == Init /\ [][Next]_vars

\* The tasks are scheduled by tokio and the chains grow.  A restart is not fair.
FairSpec ==
  /\ Spec
  /\ WF_vars(FinalizeL1Block)
  /\ WF_vars(SyncL2)
  /\ WF_vars(Handler)

\* The node may crash between any two durable writes.
CrashSpec == Init /\ [][CrashNext]_vars

-----------------------------------------------------------------------------
(***************************************************************************)
(* Properties.                                                             *)
(***************************************************************************)
\* The stored commitments (put_commitment_by_index) form one chain: indices 1..k
\* without a gap, each starting where its predecessor ended and covering at least
\* one block, with the Merkle root of the node's own blocks, all of them synced.
\* Holds although commitments arrive out of order, twice, in conflict with each
\* other, before their blocks, and although the node crashes between two writes.
CommittedChain ==
  \A i \in DOMAIN commitmentByIndex :
    LET c == commitmentByIndex[i] IN
    /\ c.index = i
    /\ i > 0
    /\ \A j \in 1 .. i : j \in DOMAIN commitmentByIndex
    /\ \A j \in 1 .. (i - 1) : commitmentByIndex[j].end < c.end
    /\ StartHeight(i) <= c.end
    /\ c.end <= head
    /\ c.root = MerkleRoot(StartHeight(i), c.end)

\* p is recorded as verified (update_verified_proof_data) on some slot.
RecordedProofs ==
  UNION {{verifiedProofs[s][n] : n \in DOMAIN verifiedProofs[s]} : s \in DOMAIN verifiedProofs}

\* Whatever is marked proven (set_l2_height_status(Proven)) is the end of a stored
\* commitment, and every commitment up to it is named, with the hash under which it is
\* stored, by a proof recorded as verified: no commitment is finalized unproven, even
\* across crashes and a re-scan that proves a range a second time.
ProvenIsBacked ==
  \A s \in DOMAIN provenAt :
    LET e == provenAt[s] IN
    /\ e.index \in DOMAIN commitmentByIndex
    /\ commitmentByIndex[e.index].end = e.height
    /\ \A i \in 1 .. e.index :
         \E p \in RecordedProofs : \E n \in DOMAIN p.hashes :
           p.firstIndex + n - 1 = i /\ p.hashes[n] = commitmentByIndex[i]

\* At every L1 height the answer of get_l2_status_heights_by_l1_height has its proven
\* entry not above its committed entry, although the two are written by different
\* paths and pending items are resolved under a later L1 height.
ProvenWithinCommitted ==
  \A h \in 0 .. Len(l1) : ~Above(HighestAt(provenAt, h), HighestAt(committedAt, h))

\* The handler's panic! ("Proven height above committed height") and its
\* unreachable! on a commitment error are never reached.
NeverPanics == mode # "panicked"

\* The commitments listed for an L1 slot (update_commitments_on_da_slot) are the
\* canonical ones: a conflicting commitment is never listed, except while the
\* write of the accepted one is under way.
SlotListsCanonical ==
  \A s \in DOMAIN commitmentsOnSlot : \A c \in commitmentsOnSlot[s] :
    \/ c.index \in DOMAIN commitmentByIndex /\ commitmentByIndex[c.index] = c
    \/ step = "putCommitment" /\ item.commitment = c

\* update_verified_proof_data appends without looking, yet a proof is recorded once:
\* neither a duplicate inscription, nor the second scan of the last block after a
\* restart, nor a proof both pending and inscribed again records it twice.
ProofRecordedOnce ==
  \A s, t \in DOMAIN verifiedProofs :
    \A m \in DOMAIN verifiedProofs[s], n \in DOMAIN verifiedProofs[t] :
      verifiedProofs[s][m] = verifiedProofs[t][n] => s = t /\ m = n

\* get_l2_status_heights_by_l1_height answers with the highest entry up to an L1
\* height: no entry under a smaller L1 height is above it. This is for graceful
\* restarts: after a crash in a block the one before it is scanned again, and a status
\* may be recorded there that is above one recorded for the later block.
HighestUpToL1 ==
  \A t \in {committedAt, provenAt} :
    \A h \in 0 .. Len(l1) : \A k \in {j \in DOMAIN t : j <= h} : ~Above(t[k], HighestAt(t, h))

\* The "safe" and "finalized" tags never move back, across restarts and crashes.
FinalityNeverReverts ==
  [][/\ ~Above(Highest(committedAt), Highest(committedAt)')
     /\ ~Above(Highest(provenAt), Highest(provenAt)')]_vars

\* A commitment once stored is canonical for ever: no later step replaces or removes it.
CanonicalCommitmentKept ==
  [][\A i \in DOMAIN commitmentByIndex :
       /\ i \in DOMAIN commitmentByIndex'
       /\ commitmentByIndex'[i] = commitmentByIndex[i]]_vars

\* The finality recorded for an L1 height below the last scanned one is history: what
\* was pending there is resolved under the height at which it is resolved.
ScannedHistoryFrozen ==
  [][\A h \in 0 .. (lastScanned - 1) :
       /\ HighestAt(committedAt, h)' = HighestAt(committedAt, h)
       /\ HighestAt(provenAt, h)' = HighestAt(provenAt, h)]_vars

\* The handler does not halt: with an honest sequencer no commitment is found to
\* contradict the node's blocks, in whatever order the commitments arrive.
NeverHalts == mode # "halted"

\* Message m is inscribed in one of the first b blocks, before position n of block b.
InscribedBefore(m, b, n) ==
  \E k \in DOMAIN l1 : \E i \in DOMAIN l1[k] : l1[k][i] = m /\ (k < b \/ (k = b /\ i < n))

\* Proofs are inscribed after the commitments they name, as the batch prover does.
Causal ==
  \A b \in DOMAIN l1 : \A n \in DOMAIN l1[b] :
    l1[b][n].kind = "proof" =>
      \A r \in References(l1[b][n].body) : InscribedBefore(CommitmentMessage(r[2]), b, n)

\* The node has all L2 blocks while block current is still to be processed, and the
\* commitments up to index i are inscribed by then.
ReadyFor(i) ==
  /\ head = L2Bound
  /\ mode = "running"
  /\ phase = "idle"
  /\ current \in DOMAIN l1
  /\ \A c \in SequencerCommitments :
       c.index <= i => InscribedBefore(CommitmentMessage(c), current + 1, 1)

\* Out of order and unsynced commitments are not forgotten: once the L2 blocks are
\* there, the next L1 block the handler processes commits all it can.
CommitmentsBecomeFinal ==
  \A c \in SequencerCommitments :
    ReadyFor(c.index) ~> Highest(committedAt).index >= c.index

\* The same for proofs, which may have waited for a commitment or for an earlier proof.
ProofsBecomeFinal ==
  \A p \in BatchProofs :
    (/\ ReadyFor(LastIndex(p))
     /\ Causal
     /\ \A q \in BatchProofs :
          LastIndex(q) <= LastIndex(p) => InscribedBefore(ProofMessage(q), current + 1, 1))
      ~> Highest(provenAt).index >= LastIndex(p)

\* The node implements the abstract finality tracker.
F == INSTANCE Finality WITH
       committed <- Highest(committedAt), proven <- Highest(provenAt)

\* With graceful restarts the pair (safe, finalized) behaves as Finality says:
\* commitments are committed one index at a time, and proofs only finalize what is
\* committed.
ImplementsFinality == F!Spec
=============================================================================
