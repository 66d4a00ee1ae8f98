------------------------------ MODULE Finality ------------------------------
(***************************************************************************)
(* What a full node promises to the readers of its finality tags.  The     *)
(* committed height ("safe") grows by one sequencer commitment at a time;  *)
(* the proven height ("finalized") only moves to a commitment that is      *)
(* already committed.  Neither ever moves back.                            *)
(***************************************************************************)
EXTENDS Naturals

VARIABLES committed, proven

HeightAndIndex == [height : Nat, index : Nat]

Init ==
  /\ committed = [height |-> 0, index |-> 0]
  /\ proven = [height |-> 0, index |-> 0]

\* The next commitment in index order is committed; it covers at least one block.
Commit ==
  /\ committed' \in HeightAndIndex
  /\ committed'.index = committed.index + 1
  /\ committed'.height > committed.height
  /\ UNCHANGED proven

\* A proof finalizes one or more committed commitments.
Prove ==
  /\ proven' \in HeightAndIndex
  /\ proven'.index > proven.index
  /\ proven'.height > proven.height
  /\ proven'.index <= committed.index
  /\ proven'.height <= committed.height
  /\ UNCHANGED committed

Next == Commit \/ Prove

Spec == Init /\ [][Next]_<<committed, proven>>
=============================================================================
