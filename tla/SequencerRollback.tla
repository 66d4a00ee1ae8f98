------------------------- MODULE SequencerRollback --------------------------
(***************************************************************************)
(* An operator stops the sequencer, rolls its ledger back and starts it    *)
(* again: SequencerLedgerRollback over the tables of module Commitments.   *)
(* Blocks that are rolled back are produced anew, with other contents.     *)
(***************************************************************************)
EXTENDS Commitments

CONSTANT RollBound   \* bound: number of rollbacks

ASSUME SequencerRollbackAssumption == RollBound \in Nat

VARIABLE rolls       \* number of rollbacks

rollVars == <<vars, rolls>>

RollInit == Init /\ rolls = 0

\* rollback_l2: the blocks after the target with their state diffs. The diff of a block
\* that was not committed stays.
RollbackL2(n) ==
  /\ chain' = SubSeq(chain, 1, n)
  /\ diffs' = Delete(diffs, (n + 1) .. Len(chain))

\* rollback_commitments: the commitments after the last one.
RollbackCommitments(last_index) ==
  commitments' = Delete(commitments, {i \in DOMAIN commitments : i > last_index})

\* The process ends, the ledger is rolled back to a block and to the last commitment that
\* ends there or before. The operator keeps what Bitcoin already has a commitment to, and
\* does not cut a stored commitment in two.
\* rollback_slots visits a table the sequencer does not write.
Rollback ==
  /\ rolls < RollBound /\ chain # << >>
  /\ \E n \in 1 .. Len(chain) :
       /\ \A c \in OnDa : c.end <= n
       /\ \A c \in Stored : c.end <= n \/ n < c.start
       /\ RollbackL2(n)
       /\ RollbackCommitments(Cardinality({c \in Stored : c.end <= n}))
  /\ rolls' = rolls + 1
  /\ pc' = "stopped" /\ built' = FALSE
  /\ producing' = TRUE /\ haltRx' = << >>
  /\ requests' = << >> /\ notified' = FALSE /\ txQueue' = << >>
  /\ toStore' = {} /\ current' = Nothing
  /\ next' = [index |-> 1, start |-> FirstHeight]
  /\ last' = 0 /\ acc' = {} /\ head' = 0
  /\ UNCHANGED <<halts, bitcoin, stops>>

\* The Bitcoin node can be reached when the recovery asks it.
Recovers == pc = "mined" => pc' # "load"

RollNext == (Next /\ Recovers /\ UNCHANGED rolls) \/ Rollback

RollSpec == RollInit /\ [][RollNext]_rollVars
-----------------------------------------------------------------------------
\* No stored commitment covers a block that is not there: the service resumes behind the
\* last one, and would wait for the chain to grow past it (rollback_commitments, 53-79).
StoredFitsChain == LastCommitment.end <= Len(chain)
=============================================================================
