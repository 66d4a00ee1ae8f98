----------------------------- MODULE CacheMerge -----------------------------
(***************************************************************************)
(* Two cache logs filled one after the other and merged.                   *)
(*                                                                         *)
(* The left log records accesses to the values, then the right one does;   *)
(* in between, values may change without any log seeing it.  A third log   *)
(* that records every access is what the merged log is compared with.      *)
(***************************************************************************)
EXTENDS CacheLog

CONSTANTS
  Keys,          \* the keys accessed
  Vals,          \* their values
  AccessBound,   \* bound: accesses recorded
  DriftBound     \* bound: changes no log sees

MergeAssumption ==
  Keys \subseteq Nat /\ None \notin Vals /\ AccessBound \in Nat /\ DriftBound \in Nat

VARIABLES
  vals,          \* the values the accesses see
  left, right,   \* the two logs
  whole,         \* the log of all accesses
  turn,          \* which log records
  steps          \* accesses and changes, for the bounds

vars == <<vals, left, right, whole, turn, steps>>

Init ==
  /\ vals \in [Keys -> Vals \cup {None}]
  /\ left = EmptyTable /\ right = EmptyTable /\ whole = EmptyTable
  /\ turn = "left"
  /\ steps = [access |-> 0, drift |-> 0]

\* CacheLog::add_read: the first read of a key is recorded, a later one has to
\* agree with the log.
Reading(log, k, v) == IF Cached(log, k) THEN log ELSE AddRead(log, k, v)

RecordRead ==
  /\ steps.access < AccessBound
  /\ \E k \in Keys :
       /\ left' = IF turn = "left" THEN Reading(left, k, vals[k]) ELSE left
       /\ right' = IF turn = "right" THEN Reading(right, k, vals[k]) ELSE right
       /\ whole' = Reading(whole, k, vals[k])
  /\ steps' = [steps EXCEPT !.access = @ + 1]
  /\ UNCHANGED <<vals, turn>>

RecordWrite ==
  /\ steps.access < AccessBound
  /\ \E k \in Keys, v \in Vals \cup {None} :
       /\ vals' = [vals EXCEPT ![k] = v]
       /\ left' = IF turn = "left" THEN AddWrite(left, k, v) ELSE left
       /\ right' = IF turn = "right" THEN AddWrite(right, k, v) ELSE right
       /\ whole' = AddWrite(whole, k, v)
  /\ steps' = [steps EXCEPT !.access = @ + 1]
  /\ UNCHANGED turn

\* The next accesses go to the right log, after a value may have changed.
Switch ==
  /\ turn = "left"
  /\ turn' = "right"
  /\ \E k \in Keys, v \in Vals \cup {None} :
       /\ v # vals[k] => steps.drift < DriftBound
       /\ vals' = [vals EXCEPT ![k] = v]
       /\ steps' = [steps EXCEPT !.drift = IF v # vals[k] THEN @ + 1 ELSE @]
  /\ UNCHANGED <<left, right, whole>>

Next == RecordRead \/ RecordWrite \/ Switch

Spec == Init /\ [][Next]_vars

-----------------------------------------------------------------------------
\* Without a change behind the logs, the merged log has the last value and the
\* first read of every key that one log of all accesses has, and writes what
\* that log writes (merge_left "preserves the first read (from self) and the
\* last write (from rhs)").
MergedIsWhole ==
  steps.drift = 0 =>
    LET m == MergeLeft(left, right)
    IN /\ m.ok
       /\ DOMAIN m.log = DOMAIN whole
       /\ \A k \in DOMAIN whole :
            /\ LastValue(m.log[k]) = LastValue(whole[k])
            /\ (m.log[k].op = "Write") = (whole[k].op = "Write")
            /\ m.log[k].op # "Write" => m.log[k].orig = whole[k].orig
       /\ \A k \in DOMAIN Writes(whole) : k \in DOMAIN Writes(m.log)

\* A value that changed behind the logs is found exactly when the right log
\* read it first and the left log knows another one; keys after the first such
\* key are not merged.
MergeFindsDrift ==
  LET m == MergeLeft(left, right)
      torn == {k \in DOMAIN left \cap DOMAIN right :
                 right[k].op # "Write" /\ right[k].orig # LastValue(left[k])}
  IN /\ m.ok <=> torn = {}
     /\ \A k \in DOMAIN m.log : (\E b \in torn : b <= k) => k \in DOMAIN left /\ m.log[k] = left[k]

\* Merging the writes alone never fails and leaves the last values; merging the
\* reads alone adds no write.
FilteredMerges ==
  LET w == MergeLeft(left, WritesOnly(right))
      r == MergeLeft(left, ReadsOnly(right))
  IN /\ w.ok
     /\ \A k \in DOMAIN Writes(right) :
          k \in DOMAIN w.log /\ LastValue(w.log[k]) = Writes(right)[k]
     /\ \A k \in DOMAIN left : k \notin DOMAIN Writes(right) => w.log[k] = left[k]
     /\ Writes(r.log) = Writes(left)
=============================================================================
