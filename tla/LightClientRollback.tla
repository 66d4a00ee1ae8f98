------------------------ MODULE LightClientRollback -------------------------
(***************************************************************************)
(* An operator rolls a stopped light client prover back to an L1 height.   *)
(*                                                                         *)
(* Rollback::execute starts the task that rolls the ledger back, and then  *)
(* computes from the state database and from the ledger which version the  *)
(* state must go back to.  The two run at the same time.  The prover has   *)
(* no L2 state: it writes one state version per scanned L1 block, so the   *)
(* state is modelled by the L1 heights it was built from.                  *)
(***************************************************************************)
EXTENDS Integers, Sequences, FiniteSets

CONSTANTS
  First,       \* L1 height the first light client proof is made of
  L1Bound,     \* bound: last finalized L1 height
  Forward,     \* the operator may give a target above the last scanned height
  RollBound    \* bound: number of rollbacks

LightClientRollbackAssumption ==
  /\ First \in Nat \ {0} /\ L1Bound \in Nat /\ L1Bound >= First
  /\ Forward \in BOOLEAN /\ RollBound \in Nat

VARIABLES
  state,    \* state database: the L1 height each version was written for
  proofs,   \* LightClientProofBySlotNumber: heights
  scanned,  \* ProverLastScannedSlot, 0 when unset
  ledger,   \* the ledger task: "none", "slots", "scanned" or "done"
  pc,       \* "running", the step of execute, or how it ended
  target,   \* l1_target
  version,  \* state_db_last_version, then target_version
  rolls     \* number of rollbacks

vars == <<state, proofs, scanned, ledger, pc, target, version, rolls>>

Minus(a, b) == IF a > b THEN a - b ELSE 0

Init ==
  /\ state = << >> /\ proofs = {} /\ scanned = 0
  /\ ledger = "none" /\ pc = "running" /\ target = 0 /\ version = 0 /\ rolls = 0

\* run and process_l1_block: the block after the last scanned one, or the first.
ProcessL1Block ==
  /\ pc = "running"
  /\ \E h \in {IF scanned = 0 THEN First ELSE scanned + 1} :
       /\ h <= L1Bound
       /\ state' = Append(state, h)
       /\ proofs' = proofs \cup {h}
       /\ scanned' = h
  /\ UNCHANGED <<ledger, pc, target, version, rolls>>
-----------------------------------------------------------------------------
\* The node has been stopped; execute spawns the ledger task.
Execute ==
  /\ pc = "running" /\ rolls < RollBound
  /\ target' \in First .. (IF Forward THEN L1Bound ELSE scanned)
  /\ ledger' = "slots" /\ pc' = "version"
  /\ rolls' = rolls + 1
  /\ UNCHANGED <<state, proofs, scanned, version>>

\* rollback_slots_by_number.
RollbackSlots ==
  /\ ledger = "slots"
  /\ proofs' = {h \in proofs : h <= target}
  /\ ledger' = "scanned"
  /\ UNCHANGED <<state, scanned, pc, target, version, rolls>>

SetLastScanned ==
  /\ ledger = "scanned"
  /\ scanned' = target
  /\ ledger' = "done"
  /\ UNCHANGED <<state, proofs, pc, target, version, rolls>>

\* The highest version in the state database.
ReadVersion ==
  /\ pc = "version"
  /\ version' = Len(state)
  /\ pc' = "height"
  /\ UNCHANGED <<state, proofs, scanned, ledger, target, rolls>>

\* Reads the last scanned height and refuses, gives up or computes the target version.
ReadScanned ==
  /\ pc = "height"
  /\ pc' = (CASE scanned < target   -> "refused"
              [] scanned = 0        -> "unneeded"
              [] scanned <= version -> "unreachable"
              [] OTHER              -> "state")
  /\ version' = IF pc' = "state" THEN Minus(version, Minus(scanned, target)) ELSE version
  /\ UNCHANGED <<state, proofs, scanned, ledger, target, rolls>>

\* rollback_state_db and rollback_native_db keep the versions up to the target version.
RollbackState ==
  /\ pc = "state"
  /\ state' = SubSeq(state, 1, version)
  /\ pc' = "joined"
  /\ UNCHANGED <<proofs, scanned, ledger, target, version, rolls>>

\* The process ends: it waits for its tasks, but one that a failed execute has not seen
\* started is dropped. The node starts again.
Restart ==
  /\ \/ ledger = "done" /\ pc \in {"refused", "unneeded", "unreachable", "joined"}
     \/ ledger = "slots" /\ pc \in {"refused", "unneeded", "unreachable"}
  /\ pc' = "running" /\ ledger' = "none" /\ version' = 0 /\ target' = 0
  /\ UNCHANGED <<state, proofs, scanned, rolls>>

Next == ProcessL1Block \/ Execute \/ RollbackSlots \/ SetLastScanned \/ ReadVersion
          \/ ReadScanned \/ RollbackState \/ Restart

Spec == Init /\ [][Next]_vars
-----------------------------------------------------------------------------
\* However the two tasks interleave, the proofs end at the last scanned height once the
\* node runs again, and none is missing below it (light_client.rs lines 53-67); a target
\* that is refused changes nothing (mod.rs lines 93-100).
ProofsFollowScan == pc = "running" => proofs = First .. scanned
=============================================================================
