------------------------- MODULE MCFullNodeStorage --------------------------
(***************************************************************************)
(* Instances of FullNodeStorage for TLC: an honest sequencer and batch     *)
(* prover whose inscriptions Bitcoin orders freely.                        *)
(***************************************************************************)
EXTENDS FullNodeStorage

Commitment(i, s, e) == [index |-> i, end |-> e, root |-> <<s, e>>]
Proof(first, hashes, previous, init, lastL1) ==
  [firstIndex |-> first, hashes |-> hashes, previous |-> previous,
   initialStateRoot |-> init, lastL2Height |-> hashes[Len(hashes)].end,
   lastL1Height |-> lastL1, valid |-> TRUE]

A1 == Commitment(1, 1, 1)
A2 == Commitment(2, 2, 2)
A3 == Commitment(3, 3, 3)
P1 == Proof(1, <<A1>>, NoCommitment, 0, 1)
P2 == Proof(2, <<A2>>, A1, 1, 1)
P3 == Proof(3, <<A3>>, A2, 2, 2)

C(c) == CommitmentMessage(c)
P(p) == ProofMessage(p)

HonestCommitments == {A1, A2, A3}
HonestProofs == {P1, P2, P3}
HonestContents ==
  { <<C(A1), P(P1)>>, <<C(A2), P(P2)>>, <<C(A3), P(P3)>> }

-----------------------------------------------------------------------------
(***************************************************************************)
(* A behaviour belongs to one of three systems: the operator rescans       *)
(* Bitcoin after a graceful stop and nothing is pruned; or, on a shorter   *)
(* Bitcoin, the operator returns to a point noted earlier, or the pruner   *)
(* runs and the node may crash.                                            *)
(***************************************************************************)
CONSTANT ShortL1Bound  \* bound: number of Bitcoin blocks in the shorter systems

VARIABLE system

mcVars == <<allVars, system>>

Short == INSTANCE FullNodeStorage WITH L1Bound <- ShortL1Bound

MCInit == StorageInit /\ system \in {"rescan", "point", "prune"}

MCNext ==
  /\ \/ system = "rescan" /\ RescanNext
     \/ system = "point" /\ Short!PointNext
     \/ system = "prune" /\ Short!PruneNext
  /\ UNCHANGED system

\* In the first system Bitcoin finalizes blocks, and the node's two tasks go on.
Rescans(A) == system = "rescan" /\ A /\ UNCHANGED system

MCSpec ==
  /\ MCInit
  /\ [][MCNext]_mcVars
  /\ WF_mcVars(Rescans(FinalizeL1Block /\ UNCHANGED svars))
  /\ WF_mcVars(Rescans(SyncL2 /\ UNCHANGED svars))
  /\ WF_mcVars(Rescans(StorageHandler))

\* Out of order and unsynced commitments are not forgotten, and whatever the operator rolled
\* back is committed again (CommitmentsBecomeFinal of FullNode, across the rescan).
CommitmentsGetFinal == system = "rescan" => CommitmentsBecomeFinal

\* The same for proofs, which may have waited for a commitment or for an earlier proof
\* (ProofsBecomeFinal of FullNode).
ProofsGetFinal == system = "rescan" => ProofsBecomeFinal

\* With an honest sequencer and no pruner, no commitment is found to contradict the
\* node's blocks, in whatever order the commitments arrive and however often they are
\* scanned (HaltOnMismatch is not reached).
HonestNeverHalts == system # "prune" => NeverHalts
-----------------------------------------------------------------------------
\* The tables stay true to the chain behind pruning and behind rollbacks of a gracefully
\* stopped node: a status row has its commitment, and the node halts only where the pruner
\* took the blocks it needs. A rollback after a crash is excluded: rollback_slots goes up to
\* the last scanned height and leaves the rows of the block in progress.
TablesStayTrue == StatusIsStored /\ HonestNeverHalts /\ HaltsOnlyOnPruned

\* Whatever is inscribed becomes final, out of order or not, and again after a graceful stop
\* and a rescan from the start; what is proven stays so unless an operator rolls it back, with
\* a pruner beside it too. A rollback to a later point is excluded: it does not make pending
\* again what waited then.
AllGetsFinal == CommitmentsGetFinal /\ ProofsGetFinal /\ ProvenNeverReverts
=============================================================================
