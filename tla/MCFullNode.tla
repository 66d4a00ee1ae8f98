---------------------------- MODULE MCFullNode ------------------------------
(***************************************************************************)
(* Instances of FullNode for TLC.                                          *)
(***************************************************************************)
EXTENDS FullNode

\* A commitment with index i to the blocks s..e.
Commitment(i, s, e) == [index |-> i, end |-> e, root |-> <<s, e>>]

Proof(first, hashes, previous, init, lastL1) ==
  [firstIndex |-> first, hashes |-> hashes, previous |-> previous,
   initialStateRoot |-> init, lastL2Height |-> hashes[Len(hashes)].end,
   lastL1Height |-> lastL1, valid |-> TRUE]

\* The sequencer's chain, and a second partition of the same blocks from index 2 on.
A1 == Commitment(1, 1, 1)
A2 == Commitment(2, 2, 2)
A3 == Commitment(3, 3, 4)
B2 == Commitment(2, 2, 3)
B3 == Commitment(3, 4, 4)
\* Fits after A2; after B2 its range is empty.
D3 == Commitment(3, 3, 3)
Zero == Commitment(0, 1, 1)

P1  == Proof(1, <<A1>>, NoCommitment, 0, 1)
P2  == Proof(2, <<A2>>, A1, 1, 1)
P12 == Proof(1, <<A1, A2>>, NoCommitment, 0, 1)
P3  == Proof(3, <<A3>>, A2, 2, 2)
Q2  == Proof(2, <<B2>>, A1, 1, 1)
Q3  == Proof(3, <<B3>>, B2, 3, 1)
\* Does not verify; its output starts from a state root that is not the chain's.
Junk  == [P1 EXCEPT !.valid = FALSE]
Wrong == [P1 EXCEPT !.initialStateRoot = 2]

C(c) == CommitmentMessage(c)
P(p) == ProofMessage(p)

MCCommitments == {A1, A2, A3, B2, B3, D3, Zero}
MCProofs == {P1, P2, P12, P3, Q2, Q3, Junk, Wrong}

\* Two partitions race: out of order, duplicated and conflicting commitments.
ConflictContents ==
  { <<C(A1), P(P1)>>, <<C(A2), C(A1), P(P2)>>, <<C(B2), P(Q2)>>, <<C(Zero), C(A3)>>,
    <<P(P12), P(Wrong), P(Junk), C(D3)>>, <<C(B3), P(Q3)>> }

\* Less of the same for the run with crashes, which has many more states.
CrashContents ==
  { <<C(A1), P(P1)>>, <<C(A2), P(P2), P(P12)>>, <<C(B2), P(Q2), C(D3)>> }
=============================================================================
