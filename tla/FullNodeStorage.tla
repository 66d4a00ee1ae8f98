-------------------------- MODULE FullNodeStorage ---------------------------
(***************************************************************************)
(* The full node of FullNode with the operations on its ledger database    *)
(* that come from outside the two tasks: the pruner, a third task that     *)
(* follows the head and deletes old L2 blocks, and the rollback that an    *)
(* operator runs on the stopped node, to rescan Bitcoin from the start or  *)
(* to return to a point noted earlier.                                     *)
(***************************************************************************)
EXTENDS FullNode

CONSTANTS
  Distance,      \* pruning distance
  RollbackBound  \* bound: number of rollbacks

ASSUME StorageAssumption == Distance \in Nat \ {0} /\ RollbackBound \in Nat

VARIABLES
  prunedTo,      \* L2BlockByNumber holds the blocks prunedTo + 1 .. head
  lastPruned,    \* PrunerService: last_pruned_block
  storedPruned,  \* LastPrunedBlock
  point,         \* the rollback context the operator has noted
  rollbacks

svars == <<prunedTo, lastPruned, storedPruned, point, rollbacks>>
allVars == <<vars, svars>>

\* A rescan of Bitcoin keeps all L2 blocks and forgets all commitments.
Rescan == [l2 |-> L2Bound, l1 |-> 0, index |-> 0]

StorageInit ==
  /\ Init
  /\ prunedTo = 0 /\ lastPruned = 0 /\ storedPruned = 0
  /\ point = Rescan
  /\ rollbacks = 0

-----------------------------------------------------------------------------
(***************************************************************************)
(* Reads of pruned blocks.  The range read of a commitment starts at the   *)
(* first block that is left and takes as many blocks as the range has, so  *)
(* the root differs.  A state root that is missing skips the proof.        *)
(***************************************************************************)
ReadsPruned(c) == Checkable(c) /\ StartHeight(c.index) <= c.end /\ StartHeight(c.index) <= prunedTo

RootPruned(p) == Examined(p) /\ Verified(p) /\ AllStored(p) /\ PreviousEnd(p) \in 1 .. prunedTo

MeetsPruned ==
  /\ Deciding
  /\ \/ \E it \in CommitmentItems : ReadsPruned(it.commitment)
     \/ \E it \in ProofItems : RootPruned(it.proof)

HaltOnPruned ==
  /\ Deciding
  /\ \E it \in CommitmentItems : ReadsPruned(it.commitment)
  /\ mode' = "halted"
  /\ UNCHANGED <<l1, l2, ledger, current, phase, pos, cursor, step, item, restarts>>

SkipOnPruned ==
  /\ Deciding
  /\ \E it \in ProofItems : RootPruned(it.proof) /\ StopOrMoveOn(Range(it.proof))
  /\ UNCHANGED <<l1, l2, ledger, mode, current, step, item, restarts>>

StorageHandler ==
  /\ \/ ~MeetsPruned /\ Handler
     \/ HaltOnPruned \/ SkipOnPruned
  /\ UNCHANGED svars

Environment == (FinalizeL1Block \/ SyncL2) /\ UNCHANGED svars

-----------------------------------------------------------------------------
(***************************************************************************)
(* The pruner.                                                             *)
(***************************************************************************)
\* Mutant: the Proven rows go with the Committed ones.
MutPrunedStatus(blocks) ==
  committedAt' = Delete(committedAt, blocks) /\ provenAt' = Delete(provenAt, blocks)

\* prune_l2_blocks deletes, with each block, the Committed status whose key is the
\* number of the block.
PrunedStatus(blocks) == committedAt' = Delete(committedAt, blocks) /\ UNCHANGED provenAt

\* PrunerService receives a new height, and DistanceCriteria says how far to prune.
\* prune_slots walks L2RangeByL1Height, which no node writes, and finds nothing.
PruneLedger ==
  /\ mode # "panicked"
  /\ head >= lastPruned + 2 * Distance
  /\ lastPruned' = lastPruned + Distance
  /\ prunedTo' = IF prunedTo > lastPruned + Distance THEN prunedTo ELSE lastPruned + Distance
  /\ PrunedStatus((prunedTo + 1) .. (lastPruned + Distance))
  /\ UNCHANGED <<l1, l2, lastScanned, slotByHash, commitmentByIndex, pendingCommitments, pendingProofs,
                 commitmentsOnSlot, verifiedProofs, mode, current, phase, pos, cursor, step, item,
                 restarts, storedPruned, point, rollbacks>>

\* The pruner stores its height at a graceful shutdown only.
StorageStopAndStart ==
  /\ StopAndStart
  /\ storedPruned' = lastPruned
  /\ UNCHANGED <<prunedTo, lastPruned, point, rollbacks>>

StorageCrashAndStart ==
  /\ CrashAndStart
  /\ lastPruned' = storedPruned
  /\ UNCHANGED <<prunedTo, storedPruned, point, rollbacks>>

-----------------------------------------------------------------------------
(***************************************************************************)
(* The operator.                                                           *)
(***************************************************************************)
LastCommitment == IF DOMAIN commitmentByIndex = {} THEN 0
                  ELSE CHOOSE i \in DOMAIN commitmentByIndex : \A j \in DOMAIN commitmentByIndex : j <= i

Quiet == mode = "running" /\ phase = "idle" /\ stateVersion = head

\* The operator notes where the node is.
NotePoint ==
  /\ Quiet /\ point = Rescan /\ rollbacks = 0 /\ lastScanned > 0
  /\ point' = [l2 |-> head, l1 |-> lastScanned, index |-> LastCommitment]
  /\ UNCHANGED <<vars, prunedTo, lastPruned, storedPruned, rollbacks>>

IndicesAbove(t, k) == {j \in DOMAIN t : j > k}

\* clear_pending_proofs and clear_pending_sequencer_commitments
ClearPending(t, l1Target) == Delete(t, {k \in DOMAIN t : t[k].found > l1Target})

\* rollback_slots: the rows of the L1 heights after the target up to the last scanned.
RolledBackSlots(ctx) == (ctx.l1 + 1) .. lastScanned

\* Mutant: the statuses stay.
MutRollbackStatus(t, ctx) == t

RollbackStatus(t, ctx) == Delete(t, RolledBackSlots(ctx))

\* FullNodeLedgerRollback::execute on the stopped node, with the state database
\* rolled back beside it, and the start after it.
RollbackAndStart(ctx) ==
  /\ rollbacks < RollbackBound
  /\ rollbacks' = rollbacks + 1
  /\ ctx.l1 <= lastScanned /\ ctx.l2 > prunedTo
  /\ head' = IF head > ctx.l2 THEN ctx.l2 ELSE head
  /\ stateVersion' = head'
  /\ commitmentByIndex' = Delete(commitmentByIndex, IndicesAbove(commitmentByIndex, ctx.index))
  /\ pendingCommitments' = ClearPending(Delete(pendingCommitments, IndicesAbove(commitmentByIndex, ctx.index)),
                                        ctx.l1)
  /\ pendingProofs' = ClearPending(pendingProofs, ctx.l1)
  /\ commitmentsOnSlot' = Delete(commitmentsOnSlot, RolledBackSlots(ctx))
  /\ verifiedProofs' = Delete(verifiedProofs, RolledBackSlots(ctx))
  /\ committedAt' = RollbackStatus(committedAt, ctx)
  /\ provenAt' = RollbackStatus(provenAt, ctx)
  /\ slotByHash' = slotByHash \ RolledBackSlots(ctx)
  /\ lastScanned' = ctx.l1
  /\ mode' = "running" /\ phase' = "idle"
  /\ current' = IF ctx.l1 = 0 THEN 1 ELSE ctx.l1
  /\ pos' = 1 /\ cursor' = <<0, 0>> /\ step' = "decide" /\ item' = NoCommitment
  /\ UNCHANGED <<l1, restarts, prunedTo, point>>

\* After a graceful stop.
StopAndRollback ==
  /\ Quiet
  /\ RollbackAndStart(point)
  /\ storedPruned' = lastPruned /\ UNCHANGED lastPruned

-----------------------------------------------------------------------------
\* The operator rescans from the start, after a graceful stop, and nothing is pruned.
RescanNext == Environment \/ StorageHandler \/ StopAndRollback

\* The operator may also return to a point noted earlier.
PointNext == RescanNext \/ NotePoint

\* The pruner runs, and the node may crash.
PruneNext ==
  Environment \/ StorageHandler \/ PruneLedger \/ StorageStopAndStart \/ StorageCrashAndStart

-----------------------------------------------------------------------------
(***************************************************************************)
(* Properties.                                                             *)
(***************************************************************************)
\* What a status row names is stored: the handler discards commitments up to the
\* highest Committed row as known, so a row that outlives its commitment in a
\* rollback (rollback_slots, rollback_commitments) would hide it for ever. The rollback
\* is that of a node stopped gracefully: after a crash it would leave the rows of the
\* block in progress, which come after the last scanned one.
StatusIsStored ==
  \A t \in {committedAt, provenAt} : \A h \in DOMAIN t :
    t[h].index \in DOMAIN commitmentByIndex /\ commitmentByIndex[t[h].index].end = t[h].height

\* The pruner deletes L2 blocks, Committed rows and nothing else that finality rests
\* on: the "finalized" tag moves back in a rollback by the operator only.
ProvenNeverReverts ==
  [][rollbacks' = rollbacks => ~Above(Highest(provenAt), Highest(provenAt)')]_allVars

\* With an honest sequencer the handler halts in one case only: a commitment, the next
\* of the chain, covers a block that the pruner deleted before the handler had come
\* to it.
HaltsOnlyOnPruned ==
  mode = "halted" =>
    \E c \in SequencerCommitments : c.index = LastCommitment + 1 /\ StartHeight(c.index) <= prunedTo
=============================================================================
