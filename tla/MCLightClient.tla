--------------------------- MODULE MCLightClient ----------------------------
(***************************************************************************)
(* Instances of LightClient for TLC.                                       *)
(***************************************************************************)
EXTENDS LightClient

\* A commitment with index i to the blocks s..e.
Commitment(i, s, e) == [index |-> i, end |-> e, root |-> <<s, e>>]

Proof(hashes, previous, method) ==
  [firstIndex |-> hashes[1].index, lastIndex |-> hashes[Len(hashes)].index,
   hashes |-> hashes, previous |-> previous,
   stateRoots |-> [i \in 1 .. (Len(hashes) + 1) |->
                     IF i > 1 THEN LastState(hashes[i - 1])
                     ELSE IF previous = NoCommitment THEN GenesisRoot ELSE LastState(previous)],
   lastL2Height |-> hashes[Len(hashes)].end, lastL1Hash |-> 1,
   methodId |-> method, valid |-> TRUE]

\* The sequencer's chain, and a second partition of the same blocks from index 2 on.
A1 == Commitment(1, 1, 1)
A2 == Commitment(2, 2, 2)
A3 == Commitment(3, 3, 4)
B2 == Commitment(2, 2, 3)
\* Follows A1 in the L2 chain, but not by its index.
E3 == Commitment(3, 2, 2)

P1  == Proof(<<A1>>, NoCommitment, "m0")
P12 == Proof(<<A1, A2>>, NoCommitment, "m0")
P2  == [Proof(<<A2>>, A1, "m0") EXCEPT !.lastL1Hash = 2]
P3  == Proof(<<A3>>, A2, "m0")
N3  == Proof(<<A3>>, A2, "m1")
Q2  == Proof(<<B2>>, A1, "m0")
Gap == Proof(<<A1, E3>>, NoCommitment, "m0")
Junk == [P1 EXCEPT !.valid = FALSE]

MCCommitments == {A1, A2, A3, B2, E3}
MCProofs == {P1, P12, P2, P3, N3, Q2, Gap, Junk}

Fragment(p, i, n) == [proof |-> p, part |-> i, of |-> n]
Parts(p, n) == [i \in 1 .. n |-> Fragment(p, i, n)]

MCDecompress ==
  [f \in {Parts(p, n) : p \in MCProofs, n \in 1 .. 3} |-> f[1].proof]

C(c) == [kind |-> "commitment", sender |-> "sequencer", body |-> c]
P(p) == [kind |-> "complete", sender |-> "prover", body |-> Parts(p, 1)]
Chunk(p, i, n) == [kind |-> "chunk", wtxid |-> <<p, i, n>>, body |-> Fragment(p, i, n)]
Aggregate(p, n) ==
  [kind |-> "aggregate", sender |-> "prover", wtxids |-> [i \in 1 .. n |-> <<p, i, n>>]]
Unparsable == [kind |-> "unparsable"]

Signed(members) == [i \in DOMAIN members |-> [member |-> members[i], valid |-> TRUE]]
Upgrade(h, id, members) ==
  [kind |-> "methodId", activation |-> h, id |-> id, chainId |-> "circuit",
   signatures |-> Signed(members)]
U3 == Upgrade(3, "m1", <<0, 2, 4>>)
\* Activates where U3 does; signed twice by one member; for another chain.
Again   == Upgrade(3, "m0", <<0, 1, 2>>)
Twice   == Upgrade(4, "m0", <<1, 1, 2>>)
Foreign == [Upgrade(5, "m0", <<0, 1, 2>>) EXCEPT !.chainId = "other"]

MCInitialMethodIds == << [activation |-> 0, id |-> "m0"] >>

MCContents ==
  { <<C(A1), Chunk(P12, 1, 2), P(P3), Aggregate(P12, 2), Chunk(P12, 2, 2)>>,
    <<P(P2), C(A3), C(A2), P(P2)>>,
    <<C(B2), P(Q2), P(P3), P(N3)>>,
    <<U3, Foreign, Aggregate(P12, 2), Unparsable, [C(B2) EXCEPT !.sender = "other"]>>,
    <<Twice, Again, C(E3), P(Gap), [P(P1) EXCEPT !.sender = "other"], P(Junk), P(N3), P(P1)>> }

\* An aggregate of more than the permitted size, for the runs with crashes.
CrashContents ==
  { <<C(A1), P(P1)>>,
    <<P(P2), C(A2), C(A3)>>,
    <<U3, P(P2), P(N3)>>,
    <<Chunk(P1, 1, 3), Chunk(P1, 2, 3), Chunk(P1, 3, 3), Aggregate(P1, 3)>> }

\* The queue is what matters: blocks with little in them.
QueueContents == { <<C(A1), P(P1)>>, << >> }

AllContents == MCContents \cup CrashContents \cup QueueContents

-----------------------------------------------------------------------------
(***************************************************************************)
(* A behaviour belongs to one of three systems: much on Bitcoin and no     *)
(* trouble; little on Bitcoin, with failed attempts and a graceful         *)
(* restart; crashes anywhere.                                              *)
(***************************************************************************)
VARIABLE system

mcVars == <<vars, system>>

Plain == INSTANCE LightClient WITH
  L1Contents <- MCContents, L1Bound <- 4, FailBound <- 0, RestartBound <- 0
Queue == INSTANCE LightClient WITH
  L1Contents <- QueueContents, L1Bound <- 4, FailBound <- 2, RestartBound <- 1
Crash == INSTANCE LightClient WITH
  L1Contents <- CrashContents, L1Bound <- 3, FailBound <- 0, RestartBound <- 2

MCInit == Init /\ system \in {"plain", "queue", "crash"}

MCNext ==
  /\ \/ system = "plain" /\ Plain!Next
     \/ system = "queue" /\ Queue!Next
     \/ system = "crash" /\ Crash!CrashNext
  /\ UNCHANGED system

MCSpec == MCInit /\ [][MCNext]_mcVars

\* As long as the node is stopped gracefully it can go on: the JMT on disk is the one the
\* last stored output commits to whenever no block is being stored, and neither the
\* unreachable! of the chain loop nor one of the asserts on the JMT is ever reached.
GracefulGoesOn == system # "crash" => NeverPanics /\ JmtMatchesProof
=============================================================================
