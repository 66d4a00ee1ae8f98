------------------------- MODULE CommitmentsProofs --------------------------
(***************************************************************************)
(* Proofs about the sequencer's commitment service, for every chain, every *)
(* limit and every pattern of stops, failed recoveries and full mempools:  *)
(* an index never names two ranges, every range is cut as long as it may   *)
(* be, the diffs that decide about the cuts are there, and the service     *)
(* does not panic.  The invariant and the argument are those of            *)
(* CommitmentsRecovery.                                                    *)
(***************************************************************************)
EXTENDS CommitmentsRecovery

\* How long the provers may take for a step, so that a slow machine finds the proofs too.
USE SMTT(40), ZenonT(40)

(***************************************************************************)
(* The loop.                                                               *)
(***************************************************************************)
\* A tick notes the head and the end of the walk forgets it.
LEMMA TickStep ==
  ASSUME IInv, Tick \/ TickDone
  PROVE  IInv'
  <1>1. Known' \subseteq Known /\ UNCHANGED <<chain, commitments>>
    BY DEF Known, Everywhere, Stored, OnDa, Mined, Tick, TickDone, durable, queues, bitcoin
  <1>2. /\ LastCommitment' = LastCommitment
        /\ Dense(commitments, LastCommitment.index)' /\ LastCommitment'.index \in Nat
        /\ KnownFits(Known, chain, commitments)'
    BY <1>1, NothingNew
  <1>3. head' \in Nat /\ head' <= Len(chain')
    BY LastFacts DEF Tick, TickDone, durable
  <1>4. Types' /\ BuiltHasDiff'
    BY <1>3 DEF IInv, Types, BuiltHasDiff, Tick, TickDone, durable, queues, bitcoin
  <1>5. UncommittedDiffsKept'
    BY <1>2 DEF IInv, UncommittedDiffsKept, Tick, TickDone, durable
  <1>6. Accumulated' /\ NextFollows' /\ RecoveryFollows' /\ NeverPanics'
    BY <1>2 DEF IInv, Accumulated, NextFollows, RecoveryFollows, NeverPanics, Tick, TickDone, durable
  <1>. QED  BY <1>2, <1>3, <1>4, <1>5, <1>6 DEF IInv

\* What should_commit finds at the next block: its diff, the diffs so far, and their sum.
LEMMA Walked ==
  ASSUME IInv, pc = "check", last < head
  PROVE  /\ last \in Nat /\ next.start \in Nat \ {0} /\ Len(chain) \in Nat
         /\ last + 1 <= Len(chain) /\ next.start <= last + 1
         /\ last - next.start + 1 < MaxL2Blocks /\ MaxL2Blocks \in Nat \ {0}
         /\ acc = Union(chain, next.start, last) /\ ~OverLimit(acc)
         /\ StateDiff(last + 1) = chain[last + 1].diff
         /\ chain[last + 1].diff \in BlockDiffs
         /\ acc \cup StateDiff(last + 1) = Union(chain, next.start, last + 1)
         /\ next.index = LastCommitment.index + 1 /\ next.start = LastCommitment.end + 1
  <1>1. /\ last \in Nat /\ next.start \in Nat \ {0} /\ Len(chain) \in Nat /\ head \in Nat
        /\ head <= Len(chain)
    BY DEF IInv, Types
  <1>2. /\ next.start <= last + 1 /\ last - next.start + 1 < MaxL2Blocks
        /\ acc = Union(chain, next.start, last) /\ ~OverLimit(acc)
    BY DEF IInv, Accumulated
  <1>3. next.index = LastCommitment.index + 1 /\ next.start = LastCommitment.end + 1
    BY DEF IInv, NextFollows
  <1>4. last + 1 <= Len(chain) /\ last + 1 \in Nat
    BY <1>1
  <1>5. LastCommitment.end < last + 1
    BY <1>1, <1>2, <1>3, LastFacts
  <1>6. StateDiff(last + 1) = chain[last + 1].diff /\ chain[last + 1].diff \in BlockDiffs
    BY <1>4, <1>5, DiffIsThere
  <1>7. acc \cup StateDiff(last + 1) = Union(chain, next.start, last + 1)
    BY <1>1, <1>2, <1>6, UnionStep
  <1>. QED  BY <1>1, <1>2, <1>3, <1>4, <1>6, <1>7, CommitmentsAssumption

\* A block that does not end the commitment joins it.
LEMMA NoCommitStep ==
  ASSUME IInv, NoCommit
  PROVE  IInv'
  <1>1. Known' \subseteq Known
    BY DEF Known, Everywhere, Stored, OnDa, Mined, NoCommit, durable, queues, bitcoin
  <1>2. /\ LastCommitment' = LastCommitment
        /\ Dense(commitments, LastCommitment.index)' /\ LastCommitment'.index \in Nat
        /\ KnownFits(Known, chain, commitments)'
    BY <1>1, NothingNew DEF NoCommit, durable
  <1>3. Types' /\ BuiltHasDiff' /\ head' <= Len(chain')
    BY DEF IInv, Types, BuiltHasDiff, NoCommit, durable, queues, bitcoin
  <1>4. UncommittedDiffsKept'
    BY <1>2 DEF IInv, UncommittedDiffsKept, NoCommit, durable
  <1>5. Accumulated'
    <2>1. /\ next'.start <= last' + 1 /\ last' <= Len(chain')
          /\ last' - next'.start + 1 < MaxL2Blocks
      BY Walked DEF NoCommit, durable
    <2>2. acc' = Union(chain', next'.start, last') /\ ~OverLimit(acc')
      BY Walked DEF NoCommit, durable
    <2>. QED  BY <2>1, <2>2 DEF Accumulated, OverLimit
  <1>6. NextFollows' /\ RecoveryFollows' /\ NeverPanics'
    BY <1>2 DEF IInv, NextFollows, RecoveryFollows, NeverPanics, NoCommit
  <1>. QED  BY <1>2, <1>3, <1>4, <1>5, <1>6 DEF IInv

\* The commitment behind the last of a dense table continues it.
LEMMA NextContinues ==
  ASSUME NEW t, NEW n \in Nat, Dense(t, n), NEW c,
         c.index = n + 1, c.start = LastOf(t).end + 1
  PROVE  Continues(t, c)
  <1>1. LastOf(t) = IF n = 0 THEN Nothing ELSE t[n]
    BY LastOfDense
  <1>2. CASE n = 0
    <2>1. LastOf(t).end = 0
      BY <1>1, <1>2 DEF Nothing
    <2>. QED  BY <1>2, <2>1 DEF Continues, FirstHeight
  <1>3. CASE n # 0
    <2>1. c.index # 1 /\ c.index - 1 = n /\ n \in DOMAIN t
      BY <1>3 DEF Dense
    <2>. QED  BY <1>1, <1>3, <2>1, ZenonT(40) DEF Continues
  <1>. QED  BY <1>2, <1>3

\* The number behind one is positive.
LEMMA Successor == \A n \in Nat : n + 1 \in Nat /\ n + 1 \in Nat \ {0}
  OBVIOUS

\* CommitmentService::commit of a cut behind the last stored commitment: it is sent, it
\* agrees with all that is known, and the controller goes on behind it.
LEMMA CommitStep ==
  ASSUME IInv, pc = "check", NEW e \in Nat,
         NEW c, c = [index |-> next.index, start |-> next.start, end |-> e], IsCut(chain, c),
         next.index = LastCommitment.index + 1, next.start = LastCommitment.end + 1,
         current' = c, next' = [index |-> next.index + 1, start |-> e + 1],
         last' = last + 1, pc' = "sending", requests' = Append(requests, c),
         UNCHANGED <<durable, built, toStore, head, halting, txQueue, bitcoin, stops>>,
         e + 1 <= last' + 1, last' <= Len(chain), last' - (e + 1) + 1 < MaxL2Blocks,
         acc' = Union(chain, e + 1, last'), ~OverLimit(acc')
  PROVE  IInv'
  <1>1. next \in [index : Nat \ {0}, start : Nat \ {0}] /\ chain \in Seq(Block) /\ last \in Nat
    BY DEF IInv, Types
  <1>2. c.index = next.index /\ c.start = next.start /\ c.end = e /\ c \in Commitment
    <2>1. next.index \in Nat \ {0} /\ next.start \in Nat \ {0}
      BY <1>1
    <2>. QED  BY <2>1 DEF Commitment
  <1>. DEFINE n == LastCommitment.index
  <1>3. n \in Nat /\ Dense(commitments, n) /\ LastCommitment = LastOf(commitments)
    BY LastFacts DEF IInv
  <1>4. c.index = n + 1 /\ c.start = LastCommitment.end + 1
    BY <1>2
  <1>. HIDE DEF n
  <1>5. Continues(commitments, c)
    BY <1>3, <1>4, NextContinues
  <1>6. KnownFits(Known \cup {c}, chain, commitments)
    BY <1>1, <1>2, <1>5, KnowMore, Zenon DEF IInv
  <1>7. requests' \in Seq(Commitment) /\ Elements(requests') = Elements(requests) \cup {c}
    <2>1. requests \in Seq(Commitment)
      BY DEF IInv, Types
    <2>. QED  BY <1>2, <2>1, ElementsAppend
  <1>8. Known' \subseteq Known \cup {c}
    <2>1. UNCHANGED <<commitments, l1, mempool, txQueue, toStore>> /\ current' = c
      BY ZenonT(40) DEF durable, bitcoin
    <2>2. Stored' = Stored /\ Mined(1)' = Mined(1)
      BY <2>1, StoredKept, MinedKept, Zenon
    <2>3. Elements(mempool)' = Elements(mempool) /\ Elements(txQueue)' = Elements(txQueue)
      BY <2>1, ZenonT(40) DEF Elements
    <2>4. Everywhere' \subseteq Everywhere \cup {c}
      BY <1>7, <2>2, <2>3, ZenonT(40) DEF Everywhere, OnDa
    <2>. QED  BY <2>1, <2>4, ZenonT(40) DEF Known
  <1>9. KnownFits(Known, chain, commitments)'
    BY <1>6, <1>8, KnowLess DEF durable
  <1>10. LastCommitment' = LastCommitment
    <2>1. commitments' = commitments
      BY DEF durable
    <2>. QED  BY <2>1, StoredKept
  <1>11. Types' /\ BuiltHasDiff' /\ head' <= Len(chain')
    <2>1. next' \in [index : Nat \ {0}, start : Nat \ {0}] /\ last' \in Nat
      <3>1. next.index + 1 \in Nat \ {0} /\ e + 1 \in Nat \ {0} /\ last + 1 \in Nat
        <4>1. next.index \in Nat
          BY <1>1
        <4>. QED  BY <1>1, <4>1, Successor, ZenonT(40)
      <3>. QED  BY <3>1
    <2>2. UNCHANGED <<chain, diffs, built, toStore, head, txQueue, mempool, l1>>
      BY Zenon DEF durable, bitcoin
    <2>3. BuiltHasDiff' /\ head' <= Len(chain')
      <3>1. BuiltHasDiff /\ head <= Len(chain)
        BY Zenon DEF IInv
      <3>2. head' <= Len(chain')
        BY <2>2, <3>1, ZenonT(40)
      <3>. QED  BY <2>2, <3>1, <3>2 DEF BuiltHasDiff
    <2>. QED  BY <1>2, <1>7, <2>1, <2>2, <2>3, ZenonT(40) DEF IInv, Types
  <1>12. UncommittedDiffsKept'
    BY <1>10 DEF IInv, UncommittedDiffsKept, durable
  <1>13. Accumulated'
    <2>1. next'.start = e + 1
      OBVIOUS
    <2>. QED  BY <2>1 DEF Accumulated, OverLimit, durable
  <1>14. NextFollows' /\ RecoveryFollows' /\ NeverPanics'
    BY <1>2, <1>10 DEF NextFollows, RecoveryFollows, NeverPanics
  <1>15. Dense(commitments, LastCommitment.index)' /\ LastCommitment'.index \in Nat
    BY <1>3, <1>10 DEF n, durable
  <1>. QED  BY <1>9, <1>11, <1>12, <1>13, <1>14, <1>15 DEF IInv

\* A single block is never over the limit.
LEMMA BlockFits ==
  ASSUME NEW d \in BlockDiffs
  PROVE  ~OverLimit(d)
  <1>1. IsFiniteSet(d) /\ Cardinality(d) <= DiffLimit
    BY FS_Subset, CommitmentsAssumption DEF BlockDiffs
  <1>2. Cardinality(d) \in Nat
    BY <1>1, FS_CardinalityType
  <1>. QED  BY <1>1, <1>2, CommitmentsAssumption DEF OverLimit

\* The block that would be too much is left to the next commitment: there is one before
\* it, since a single block fits.
LEMMA CommitOnStateDiffStep ==
  ASSUME IInv, CommitOnStateDiff
  PROVE  IInv'
  <1>. DEFINE c == [index |-> next.index, start |-> next.start, end |-> last]
              b == chain[last + 1].diff
  <1>0. pc = "check" /\ last < head
    BY DEF CommitOnStateDiff
  <1>1. /\ last \in Nat /\ next.start \in Nat \ {0} /\ Len(chain) \in Nat
        /\ last + 1 <= Len(chain) /\ next.start <= last + 1
        /\ last - next.start + 1 < MaxL2Blocks /\ MaxL2Blocks \in Nat \ {0}
        /\ acc = Union(chain, next.start, last) /\ ~OverLimit(acc)
        /\ StateDiff(last + 1) = b /\ b \in BlockDiffs
        /\ acc \cup StateDiff(last + 1) = Union(chain, next.start, last + 1)
        /\ next.index = LastCommitment.index + 1 /\ next.start = LastCommitment.end + 1
    BY <1>0, Walked
  <1>2. OverLimit(Union(chain, next.start, last + 1)) /\ acc' = b
    BY <1>1, ZenonT(40) DEF CommitOnStateDiff
  <1>. HIDE DEF b
  <1>3. next.start <= last
    <2>. SUFFICES ASSUME last < next.start  PROVE FALSE
      BY <1>1
    <2>1. acc = {}
      BY <1>1, UnionEmpty
    <2>2. Union(chain, next.start, last + 1) = b
      BY <1>1, <2>1, ZenonT(40)
    <2>. QED  BY <1>1, <1>2, <2>2, BlockFits
  <1>4. c.end = last /\ c.start = next.start /\ c.index = next.index
    OBVIOUS
  <1>5. IsCut(chain, c)
    <2>. HIDE DEF c
    <2>1. c.end <= Len(chain) /\ c.end - c.start + 1 <= MaxL2Blocks /\ c.end < Len(chain)
      BY <1>1, <1>4
    <2>2. ~OverLimit(Union(chain, c.start, c.end)) /\ OverLimit(Union(chain, c.start, c.end + 1))
      BY <1>1, <1>2, <1>4, ZenonT(40)
    <2>. QED  BY <1>3, <1>4, <2>1, <2>2, ZenonT(40) DEF IsCut
  <1>6. /\ current' = c /\ next' = [index |-> next.index + 1, start |-> last + 1]
        /\ last' = last + 1 /\ pc' = "sending" /\ requests' = Append(requests, c)
        /\ UNCHANGED <<durable, built, toStore, head, halting, txQueue, bitcoin, stops>>
    <2>1. ~(last < next.start)
      BY <1>1, <1>3
    <2>. QED  BY <2>1 DEF CommitOnStateDiff, Commit
  <1>7. acc' = Union(chain, last + 1, last') /\ ~OverLimit(acc')
    <2>1. Union(chain, last + 1, last) = {}
      BY <1>1, UnionEmpty
    <2>2. Union(chain, last + 1, last + 1) = {} \cup b
      <3>. DEFINE f == last + 1
      <3>1. f \in Nat /\ f <= last + 1 /\ Union(chain, f, last) = {}
        BY <1>1, <2>1
      <3>. HIDE DEF f
      <3>2. Union(chain, f, last + 1) = Union(chain, f, last) \cup chain[last + 1].diff
        <4>1. \A from, to \in Nat : from <= to + 1 =>
                Union(chain, from, to + 1) = Union(chain, from, to) \cup chain[to + 1].diff
          BY UnionStep
        <4>2. last \in Nat
          BY <1>1
        <4>. QED  BY <3>1, <4>1, <4>2, ZenonT(40)
      <3>. QED  BY <3>1, <3>2 DEF f, b
    <2>3. ~OverLimit(b)
      BY <1>1, BlockFits
    <2>. QED  BY <1>2, <1>6, <2>2, <2>3
  <1>8. last + 1 <= last' + 1 /\ last' <= Len(chain) /\ last' - (last + 1) + 1 < MaxL2Blocks
    <2>. HIDE DEF c
    <2>1. /\ last \in Nat /\ Len(chain) \in Nat /\ last + 1 <= Len(chain)
          /\ next.start \in Nat /\ next.start <= last
          /\ last - next.start + 1 < MaxL2Blocks /\ MaxL2Blocks \in Nat /\ last' = last + 1
      BY <1>1, <1>3, <1>6, Zenon
    <2>. QED  BY <2>1
  <1>. HIDE DEF c
  <1>9. c = [index |-> next.index, start |-> next.start, end |-> last]
    BY DEF c
  <1>. QED  BY <1>0, <1>1, <1>4, <1>5, <1>6, <1>7, <1>8, <1>9, CommitStep, ZenonT(40)

\* At the maximal number of blocks the commitment ends with the block, not before.
LEMMA CommitOnMaxStep ==
  ASSUME IInv, CommitOnMaxL2Blocks
  PROVE  IInv'
  <1>. DEFINE c == [index |-> next.index, start |-> next.start, end |-> last + 1]
  <1>0. pc = "check" /\ last < head
    BY DEF CommitOnMaxL2Blocks
  <1>1. /\ last \in Nat /\ next.start \in Nat \ {0} /\ Len(chain) \in Nat
        /\ last + 1 <= Len(chain) /\ next.start <= last + 1
        /\ last - next.start + 1 < MaxL2Blocks /\ MaxL2Blocks \in Nat \ {0}
        /\ acc \cup StateDiff(last + 1) = Union(chain, next.start, last + 1)
        /\ next.index = LastCommitment.index + 1 /\ next.start = LastCommitment.end + 1
    BY <1>0, Walked
  <1>2. /\ ~OverLimit(Union(chain, next.start, last + 1)) /\ acc' = {}
        /\ 1 + (last + 1) - next.start >= MaxL2Blocks
    BY <1>1, ZenonT(40) DEF CommitOnMaxL2Blocks
  <1>3. (last + 1) - next.start + 1 = MaxL2Blocks
    BY <1>1, <1>2
  <1>4. c.end = last + 1 /\ c.start = next.start /\ c.index = next.index
    OBVIOUS
  <1>5. IsCut(chain, c)
    <2>. HIDE DEF c
    <2>. QED  BY <1>1, <1>2, <1>3, <1>4 DEF IsCut
  <1>6. /\ current' = c /\ next' = [index |-> next.index + 1, start |-> (last + 1) + 1]
        /\ last' = last + 1 /\ pc' = "sending" /\ requests' = Append(requests, c)
        /\ UNCHANGED <<durable, built, toStore, head, halting, txQueue, bitcoin, stops>>
    <2>1. ~(last + 1 < next.start)
      BY <1>1
    <2>. QED  BY <2>1 DEF CommitOnMaxL2Blocks, Commit
  <1>7. acc' = Union(chain, (last + 1) + 1, last') /\ ~OverLimit(acc')
    <2>1. Union(chain, (last + 1) + 1, last + 1) = {}
      BY <1>1, UnionEmpty
    <2>2. ~OverLimit({})
      BY FS_EmptySet, CommitmentsAssumption DEF OverLimit
    <2>. QED  BY <1>2, <1>6, <2>1, <2>2
  <1>8. /\ (last + 1) + 1 <= last' + 1 /\ last' <= Len(chain)
        /\ last' - ((last + 1) + 1) + 1 < MaxL2Blocks
    <2>. HIDE DEF c
    <2>1. /\ last \in Nat /\ Len(chain) \in Nat /\ last + 1 <= Len(chain)
          /\ MaxL2Blocks \in Nat \ {0} /\ last' = last + 1
      BY <1>1, <1>6, Zenon
    <2>. QED  BY <2>1
  <1>. HIDE DEF c
  <1>9. c = [index |-> next.index, start |-> next.start, end |-> last + 1] /\ last + 1 \in Nat
    BY <1>1 DEF c
  <1>. QED  BY <1>0, <1>1, <1>4, <1>5, <1>6, <1>7, <1>8, <1>9, CommitStep

\* The commitment that was sent is stored: it is behind the last one.
LEMMA PutCommitmentStep ==
  ASSUME IInv, PutCommitment
  PROVE  IInv'
  <1>1. /\ current \in Commitment /\ current.index = LastCommitment.index + 1
        /\ next = [index |-> current.index + 1, start |-> current.end + 1]
    BY DEF IInv, NextFollows, PutCommitment
  <1>2. current \in Known
    BY <1>1 DEF Known, Nothing, Commitment
  <1>3. (Known \ Stored)' \subseteq Known
    BY DEF Known, Everywhere, OnDa, Mined, PutCommitment, control, queues, bitcoin
  <1>4. /\ LastCommitment' = current
        /\ Dense(commitments, LastCommitment.index)' /\ LastCommitment'.index \in Nat
        /\ KnownFits(Known, chain, commitments)' /\ UncommittedDiffsKept'
    BY <1>1, <1>2, <1>3, StoreNext DEF PutCommitment
  <1>5. Types' /\ BuiltHasDiff' /\ head' <= Len(chain')
    BY DEF IInv, Types, BuiltHasDiff, PutCommitment, control, queues, bitcoin
  <1>6. Accumulated'
    BY DEF IInv, Accumulated, PutCommitment, control
  <1>7. NextFollows' /\ RecoveryFollows' /\ NeverPanics'
    BY <1>1, <1>4 DEF NextFollows, RecoveryFollows, NeverPanics, PutCommitment, control
  <1>. QED  BY <1>4, <1>5, <1>6, <1>7 DEF IInv

\* The diffs of the stored commitment are deleted.
LEMMA DeleteStateDiffsStep ==
  ASSUME IInv, DeleteStateDiffs
  PROVE  IInv'
  <1>1. current = LastCommitment /\ current \in Commitment
    BY DEF IInv, NextFollows, DeleteStateDiffs
  <1>2. Known' \subseteq Known
    BY DEF Known, Everywhere, Stored, OnDa, Mined, DeleteStateDiffs, queues, bitcoin
  <1>3. /\ LastCommitment' = LastCommitment
        /\ Dense(commitments, LastCommitment.index)' /\ LastCommitment'.index \in Nat
        /\ KnownFits(Known, chain, commitments)'
    BY <1>2, NothingNew DEF DeleteStateDiffs
  <1>4. \A h \in current.start .. current.end : h \in Nat /\ h <= LastCommitment.end
    <2>1. current.start \in Nat /\ current.end \in Nat /\ LastCommitment.end = current.end
      BY <1>1 DEF Commitment
    <2>. QED  BY <2>1
  <1>5. UncommittedDiffsKept' /\ BuiltHasDiff' /\ DOMAIN diffs' \subseteq Nat
    BY <1>4, DiffsDeleted, Zenon DEF DeleteStateDiffs
  <1>6. Types' /\ head' <= Len(chain')
    BY <1>5 DEF IInv, Types, DeleteStateDiffs, queues, bitcoin
  <1>7. Accumulated'
    BY DEF IInv, Accumulated, DeleteStateDiffs
  <1>8. NextFollows' /\ RecoveryFollows' /\ NeverPanics'
    BY <1>3 DEF IInv, NextFollows, RecoveryFollows, NeverPanics, DeleteStateDiffs
  <1>. QED  BY <1>3, <1>5, <1>6, <1>7, <1>8 DEF IInv

(***************************************************************************)
(* Halts, the Bitcoin service and Bitcoin, stops.                          *)
(***************************************************************************)
\* A step that only moves known commitments about keeps the invariant.
LEMMA KnownMoved ==
  ASSUME IInv, UNCHANGED <<durable, built, pc, toStore, control>>, Known' \subseteq Known,
         requests' \in Seq(Commitment), txQueue' \in Seq(Commitment),
         mempool' \in Seq(Commitment), l1' \in Seq(Seq(Commitment))
  PROVE  IInv'
  <1>1. /\ LastCommitment' = LastCommitment
        /\ Dense(commitments, LastCommitment.index)' /\ LastCommitment'.index \in Nat
        /\ KnownFits(Known, chain, commitments)'
    BY NothingNew DEF durable
  <1>2. Types' /\ BuiltHasDiff' /\ head' <= Len(chain')
    BY DEF IInv, Types, BuiltHasDiff, durable, control
  <1>3. UncommittedDiffsKept'
    BY <1>1 DEF IInv, UncommittedDiffsKept, durable
  <1>4. Accumulated'
    BY DEF IInv, Accumulated, durable, control
  <1>5. NextFollows' /\ RecoveryFollows' /\ NeverPanics'
    BY <1>1 DEF IInv, NextFollows, RecoveryFollows, NeverPanics, durable, control
  <1>. QED  BY <1>1, <1>2, <1>3, <1>4, <1>5 DEF IInv

\* Requests to halt or resume move no commitment.
LEMMA HaltStep ==
  ASSUME IInv, RequestHalt \/ ReceiveHalt
  PROVE  IInv'
  <1>1. UNCHANGED <<durable, built, pc, toStore, control, queues, bitcoin>>
    BY ZenonT(40) DEF RequestHalt, ReceiveHalt
  <1>2. Known' = Known
    BY <1>1 DEF durable, control, queues, bitcoin, Known, Everywhere, Stored, OnDa, Mined
  <1>3. Types
    BY DEF IInv
  <1>. QED  BY <1>1, <1>2, <1>3, KnownMoved DEF Types, queues, bitcoin

\* A request goes to the mempool or to the queue of signed transactions.
LEMMA SendTransactionStep ==
  ASSUME IInv, SendTransaction
  PROVE  IInv'
  <1>1. requests \in Seq(Commitment) /\ txQueue \in Seq(Commitment)
        /\ mempool \in Seq(Commitment) /\ l1 \in Seq(Seq(Commitment))
    BY DEF IInv, Types
  <1>. DEFINE r == Head(requests)
  <1>2. /\ r \in Commitment /\ r \in Elements(requests)
        /\ requests' \in Seq(Commitment) /\ Elements(requests') \subseteq Elements(requests)
    BY <1>1, ElementsHeadTail DEF SendTransaction
  <1>3. /\ mempool' \in Seq(Commitment)
        /\ Elements(mempool') \subseteq Elements(mempool) \cup {r}
    <2>1. CASE Len(mempool) < MempoolLimit
      <3>1. mempool' = Append(mempool, r)
        BY <2>1 DEF SendTransaction
      <3>. HIDE DEF r
      <3>2. Elements(Append(mempool, r)) = Elements(mempool) \cup {r}
        BY <1>1, <1>2, ElementsAppend
      <3>. QED  BY <1>1, <1>2, <3>1, <3>2
    <2>2. CASE ~(Len(mempool) < MempoolLimit)
      BY <2>2, <1>1 DEF SendTransaction
    <2>. QED  BY <2>1, <2>2
  <1>4. txQueue' \in Seq(Commitment) /\ Elements(txQueue') \subseteq {r}
    <2>1. CASE Len(mempool) < MempoolLimit
      BY <2>1, <1>1 DEF Elements, SendTransaction
    <2>2. CASE ~(Len(mempool) < MempoolLimit)
      <3>1. txQueue' = << r >>
        BY <2>2 DEF SendTransaction
      <3>. HIDE DEF r
      <3>2. << r >> \in Seq(Commitment) /\ DOMAIN << r >> = {1} /\ << r >>[1] = r
        BY <1>2
      <3>. QED  BY <3>1, <3>2 DEF Elements
    <2>. QED  BY <2>1, <2>2
  <1>. HIDE DEF r
  <1>5. Known' \subseteq Known
    <2>1. UNCHANGED <<commitments, toStore, current, l1>>
      BY ZenonT(40) DEF SendTransaction, durable, control
    <2>2. Stored' = Stored /\ Mined(1)' = Mined(1)
      BY <2>1, StoredKept, MinedKept
    <2>. QED  BY <1>2, <1>3, <1>4, <2>1, <2>2, KnownFlows DEF Places, Everywhere, OnDa
  <1>. QED  BY <1>1, <1>2, <1>3, <1>4, <1>5, KnownMoved DEF SendTransaction

\* A signed transaction goes to the mempool.
LEMMA ProcessQueueStep ==
  ASSUME IInv, ProcessTransactionQueue
  PROVE  IInv'
  <1>1. requests \in Seq(Commitment) /\ txQueue \in Seq(Commitment)
        /\ mempool \in Seq(Commitment) /\ l1 \in Seq(Seq(Commitment))
    BY DEF IInv, Types
  <1>. DEFINE r == Head(txQueue)
  <1>2. /\ r \in Commitment /\ r \in Elements(txQueue)
        /\ txQueue' \in Seq(Commitment) /\ Elements(txQueue') \subseteq Elements(txQueue)
    BY <1>1, ElementsHeadTail DEF ProcessTransactionQueue
  <1>. HIDE DEF r
  <1>3. mempool' \in Seq(Commitment) /\ Elements(mempool') = Elements(mempool) \cup {r}
    <2>1. mempool' = Append(mempool, r)
      BY Zenon DEF r, ProcessTransactionQueue
    <2>. QED  BY <1>1, <1>2, <2>1, ElementsAppend
  <1>4. Known' \subseteq Known
    <2>1. UNCHANGED <<commitments, toStore, current, requests, l1>>
      BY ZenonT(40) DEF ProcessTransactionQueue, durable, control
    <2>2. Stored' = Stored /\ Mined(1)' = Mined(1)
      BY <2>1, StoredKept, MinedKept
    <2>. QED  BY <1>2, <1>3, <2>1, <2>2, KnownFlows DEF Places, Everywhere, OnDa
  <1>. QED  BY <1>1, <1>2, <1>3, <1>4, KnownMoved DEF ProcessTransactionQueue

\* A Bitcoin block takes the first transactions of the mempool.
LEMMA MineBlockStep ==
  ASSUME IInv, MineBlock
  PROVE  IInv'
  <1>1. requests \in Seq(Commitment) /\ txQueue \in Seq(Commitment)
        /\ mempool \in Seq(Commitment) /\ l1 \in Seq(Seq(Commitment))
    BY DEF IInv, Types
  <1>2. PICK n \in 1 .. Len(mempool) :
          /\ l1' = Append(l1, SubSeq(mempool, 1, n))
          /\ mempool' = SubSeq(mempool, n + 1, Len(mempool))
    BY DEF MineBlock
  <1>. DEFINE b == SubSeq(mempool, 1, n)
  <1>3. b \in Seq(Commitment) /\ Elements(b) \subseteq Elements(mempool)
    <2>1. 1 \in 1 .. (Len(mempool) + 1) /\ n \in 0 .. Len(mempool)
      BY <1>1
    <2>. QED  BY <1>1, <2>1, ElementsSubSeq
  <1>4. mempool' \in Seq(Commitment) /\ Elements(mempool') \subseteq Elements(mempool)
    <2>1. n + 1 \in 1 .. (Len(mempool) + 1) /\ Len(mempool) \in 0 .. Len(mempool)
      BY <1>1
    <2>. DEFINE m == SubSeq(mempool, n + 1, Len(mempool))
    <2>2. Elements(m) \subseteq Elements(mempool)
      BY <1>1, <2>1, ElementsSubSeq, ZenonT(40)
    <2>3. m \in Seq(Commitment)
      BY <1>1, <2>1
    <2>. QED  BY <1>2, <2>2, <2>3
  <1>. HIDE DEF b
  <1>5. /\ l1' \in Seq(Seq(Commitment)) /\ Len(l1') = Len(l1) + 1 /\ Len(l1) \in Nat
        /\ \A h \in 1 .. Len(l1) : l1'[h] = l1[h]
        /\ l1'[Len(l1) + 1] = b
    BY <1>1, <1>2, <1>3 DEF b
  <1>6. Mined(1)' \subseteq Mined(1) \cup Elements(b)
    <2>. SUFFICES ASSUME NEW h \in 1 .. (Len(l1) + 1), NEW x \in Elements(l1'[h])
                  PROVE  x \in Mined(1) \cup Elements(b)
      <3>1. Mined(1)' = UNION {Elements(l1'[h]) : h \in 1 .. (Len(l1) + 1)}
        BY <1>5 DEF Mined
      <3>. QED  BY <3>1
    <2>1. CASE h = Len(l1) + 1
      BY <2>1, <1>5
    <2>2. CASE h \in 1 .. Len(l1)
      BY <2>2, <1>5 DEF Mined
    <2>. QED  BY <1>5, <2>1, <2>2
  <1>7. UNCHANGED <<durable, built, pc, toStore, control, queues>>
    BY DEF MineBlock
  <1>8. Known' \subseteq Known
    <2>1. UNCHANGED <<commitments, toStore, current, requests, txQueue>>
      BY <1>7, Zenon DEF durable, control, queues
    <2>2. Stored' = Stored
      BY <2>1, StoredKept
    <2>. QED  BY <1>3, <1>4, <1>6, <2>1, <2>2, KnownFlows DEF Places, Everywhere, OnDa
  <1>. QED  BY <1>1, <1>4, <1>5, <1>7, <1>8, KnownMoved DEF queues

\* A stop forgets what was queued; the ledger and Bitcoin keep what they have.
LEMMA StopStep ==
  ASSUME IInv, Stop
  PROVE  IInv'
  <1>1. Elements(<< >>) = {}
    BY DEF Elements
  <1>2. Known' \subseteq Known
    <2>1. /\ UNCHANGED <<commitments, mempool, l1>>
          /\ requests' = << >> /\ txQueue' = << >> /\ toStore' = {} /\ current' = Nothing
      BY ZenonT(40) DEF Stop, durable, bitcoin
    <2>2. Stored' = Stored /\ Mined(1)' = Mined(1)
      BY <2>1, StoredKept, MinedKept
    <2>. QED  BY <1>1, <2>1, <2>2 DEF Known, Everywhere, OnDa
  <1>3. /\ LastCommitment' = LastCommitment
        /\ Dense(commitments, LastCommitment.index)' /\ LastCommitment'.index \in Nat
        /\ KnownFits(Known, chain, commitments)'
    BY <1>2, NothingNew DEF Stop, durable
  <1>4. Types' /\ BuiltHasDiff' /\ head' <= Len(chain')
    <2>1. next' \in [index : Nat \ {0}, start : Nat \ {0}]
      BY DEF FirstHeight, Stop
    <2>2. << >> \in Seq(Commitment)
      OBVIOUS
    <2>3. head' <= Len(chain')
      <3>1. head' = 0 /\ chain' = chain
        BY ZenonT(40) DEF Stop, durable
      <3>2. Len(chain) \in Nat
        BY LastFacts
      <3>. QED  BY <3>1, <3>2
    <2>4. /\ UNCHANGED <<chain, diffs, mempool, l1>> /\ last' = 0 /\ head' = 0
          /\ requests' = << >> /\ txQueue' = << >> /\ toStore' = {} /\ current' = Nothing
          /\ built' = FALSE
      BY ZenonT(40) DEF Stop, durable, bitcoin
    <2>5. BuiltHasDiff'
      BY <2>4 DEF BuiltHasDiff
    <2>. QED  BY <2>1, <2>2, <2>3, <2>4, <2>5 DEF IInv, Types
  <1>5. UncommittedDiffsKept'
    <2>1. UNCHANGED <<chain, diffs>>
      BY Zenon DEF Stop, durable
    <2>. QED  BY <1>3, <2>1 DEF IInv, UncommittedDiffsKept
  <1>6. Accumulated' /\ NextFollows' /\ RecoveryFollows' /\ NeverPanics'
    BY DEF Accumulated, NextFollows, RecoveryFollows, NeverPanics, Stop
  <1>. QED  BY <1>3, <1>4, <1>5, <1>6 DEF IInv

-----------------------------------------------------------------------------
(***************************************************************************)
(* The theorems.                                                           *)
(***************************************************************************)
\* The invariant holds of every reachable state.
THEOREM Invariance == Spec => []IInv
  <1>1. Init => IInv
    <2>. SUFFICES ASSUME Init  PROVE IInv
      OBVIOUS
    <2>. USE DEF Init
    <2>1. LastCommitment = Nothing
      BY DEF LastCommitment
    <2>2. LastCommitment.index = 0 /\ LastCommitment.end = 0
      BY <2>1 DEF Nothing
    <2>3. DOMAIN EmptyTable = {}
      BY DEF EmptyTable
    <2>4. Known = {}
      <3>1. Elements(<< >>) = {}
        BY DEF Elements
      <3>2. Mined(1) = {}
        <4>1. 1 .. Len(l1) = {}
          OBVIOUS
        <4>. QED  BY <4>1 DEF Mined
      <3>3. Stored = {}
        BY <2>3 DEF Stored
      <3>. QED  BY <3>1, <3>2, <3>3 DEF Known, Everywhere, OnDa
    <2>5. Dense(commitments, 0)
      <3>1. 1 .. 0 = {}
        OBVIOUS
      <3>. QED  BY <3>1 DEF Dense, EmptyTable
    <2>6. KnownFits(Known, chain, commitments)
      BY <2>4 DEF KnownFits, Agree
    <2>7. Types /\ BuiltHasDiff /\ head <= Len(chain)
      <3>1. next \in [index : Nat \ {0}, start : Nat \ {0}]
        BY DEF FirstHeight
      <3>2. BuiltHasDiff
        BY DEF BuiltHasDiff
      <3>3. chain \in Seq(Block) /\ l1 \in Seq(Seq(Commitment)) /\ head <= Len(chain)
        OBVIOUS
      <3>4. requests \in Seq(Commitment) /\ txQueue \in Seq(Commitment) /\ mempool \in Seq(Commitment)
        OBVIOUS
      <3>. QED  BY <2>3, <3>1, <3>2, <3>3, <3>4 DEF Types
    <2>8. UncommittedDiffsKept
      <3>1. (0 + 1) .. Len(chain) = {}
        OBVIOUS
      <3>. QED  BY <2>2, <3>1 DEF UncommittedDiffsKept
    <2>9. Accumulated /\ NextFollows /\ RecoveryFollows /\ NeverPanics
      BY DEF Accumulated, NextFollows, RecoveryFollows, NeverPanics
    <2>10. Dense(commitments, LastCommitment.index) /\ LastCommitment.index \in Nat
      BY <2>2, <2>5
    <2>. QED  BY <2>6, <2>7, <2>8, <2>9, <2>10, ZenonT(40) DEF IInv
  <1>2. IInv /\ [Next]_vars => IInv'
    <2>. SUFFICES ASSUME IInv, [Next]_vars  PROVE IInv'
      OBVIOUS
    <2>1. CASE SetStateDiff \/ CommitL2Block
      BY <2>1, SetStateDiffStep, CommitL2BlockStep
    <2>2. CASE Recovery \/ RecoveryFails
      BY <2>2, StartStep, GetPendingStep, GetMinedStep, StoreFromDaStep,
         DeleteDiffsFromDaStep, LoadControllerStep DEF Recovery
    <2>3. CASE Service
      BY <2>3, TickStep, CommitOnStateDiffStep, CommitOnMaxStep, NoCommitStep,
         PutCommitmentStep, DeleteStateDiffsStep DEF Service
    <2>4. CASE RequestHalt \/ ReceiveHalt
      BY <2>4, HaltStep
    <2>5. CASE SendTransaction \/ ProcessTransactionQueue \/ MineBlock \/ Stop
      BY <2>5, SendTransactionStep, ProcessQueueStep, MineBlockStep, StopStep
    <2>6. CASE UNCHANGED vars
      <3>1. UNCHANGED <<durable, built, pc, toStore, control, queues, bitcoin>>
        BY <2>6 DEF vars
      <3>2. Known' = Known
        <4>1. UNCHANGED <<commitments, toStore, current, requests, txQueue, mempool, l1>>
          BY <3>1, Zenon DEF durable, control, queues, bitcoin
        <4>2. Stored' = Stored /\ Mined(1)' = Mined(1)
          BY <4>1, StoredKept, MinedKept
        <4>. QED  BY <4>1, <4>2, Zenon DEF Known, Everywhere, OnDa
      <3>3. Types
        BY DEF IInv
      <3>. QED  BY <3>1, <3>2, <3>3, KnownMoved DEF Types, queues, bitcoin
    <2>. QED  BY <2>1, <2>2, <2>3, <2>4, <2>5, <2>6 DEF Next
  <1>. QED  BY <1>1, <1>2, PTL DEF Spec

\* What is stored, queued or on Bitcoin is known.
LEMMA EverywhereKnown ==
  ASSUME IInv
  PROVE  Everywhere \subseteq Known
  <1>1. Stored \subseteq Commitment
    <2>1. Dense(commitments, LastCommitment.index)
      BY DEF IInv
    <2>. QED  BY <2>1 DEF Dense, Stored
  <1>2. /\ Elements(mempool) \subseteq Commitment /\ Elements(requests) \subseteq Commitment
        /\ Elements(txQueue) \subseteq Commitment
    <2>1. \A s \in Seq(Commitment) : Elements(s) \subseteq Commitment
      <3>1. \A s \in Seq(Commitment) : \A i \in DOMAIN s : s[i] \in Commitment
        OBVIOUS
      <3>. QED  BY <3>1, Zenon DEF Elements
    <2>2. Types
      BY DEF IInv
    <2>3. /\ mempool \in Seq(Commitment) /\ requests \in Seq(Commitment)
          /\ txQueue \in Seq(Commitment)
      BY <2>2 DEF Types
    <2>. QED  BY <2>1, <2>3
  <1>3. Nothing \notin Mined(1) /\ Nothing \notin Commitment
    <2>1. Nothing \notin Commitment
      BY DEF Nothing, Commitment
    <2>2. Types /\ 1 \in Nat \ {0}
      BY DEF IInv
    <2>. QED  BY <2>1, <2>2, MinedKnown
  <1>. QED  BY <1>1, <1>2, <1>3 DEF Known, Everywhere, OnDa

(***************************************************************************)
(* However often the sequencer stops and forgets what it had queued, on    *)
(* every chain and with every limit, an index names one commitment: what   *)
(* is cut again is what was cut before.                                    *)
(***************************************************************************)
THEOREM OneCommitmentTheorem == Spec => []OneCommitmentPerIndex
  <1>1. IInv => OneCommitmentPerIndex
    BY EverywhereKnown DEF IInv, KnownFits, Agree, OneCommitmentPerIndex
  <1>. QED  BY <1>1, Invariance, PTL

(***************************************************************************)
(* Every commitment anywhere starts where its predecessor ended, fits in   *)
(* one transaction body, and could not have been longer.                   *)
(***************************************************************************)
THEOREM CutsTheorem == Spec => []CutsAreMaximal
  <1>1. IInv => CutsAreMaximal
    <2>. SUFFICES ASSUME IInv, NEW c \in Everywhere
                  PROVE
           /\ c.start = IF c.index = 1 THEN FirstHeight
                        ELSE (CHOOSE d \in Everywhere : d.index = c.index - 1).end + 1
           /\ c.start <= c.end /\ c.end <= Len(chain)
           /\ ~OverLimit(UnionDiff(c.start, c.end))
           /\ \/ c.end - c.start + 1 = MaxL2Blocks
              \/ /\ c.end < Len(chain)
                 /\ OverLimit(UnionDiff(c.start, c.end + 1))
      BY DEF CutsAreMaximal
    <2>1. c \in Commitment /\ IsCut(chain, c) /\ Continues(commitments, c)
      BY EverywhereKnown DEF IInv, KnownFits
    <2>2. c.index # 1 => (CHOOSE d \in Everywhere : d.index = c.index - 1) = commitments[c.index - 1]
      <3>. SUFFICES ASSUME c.index # 1
                    PROVE  (CHOOSE d \in Everywhere : d.index = c.index - 1) = commitments[c.index - 1]
        OBVIOUS
      <3>. DEFINE p == commitments[c.index - 1]
      <3>1. c.index - 1 \in DOMAIN commitments
        BY <2>1 DEF Continues
      <3>2. p \in Everywhere /\ p.index = c.index - 1
        BY <3>1 DEF IInv, Dense, Everywhere, Stored
      <3>3. \A d \in Everywhere : d.index = p.index => d = p
        BY <3>2, EverywhereKnown DEF IInv, KnownFits, Agree
      <3>. HIDE DEF p
      <3>4. (CHOOSE d \in Everywhere : d.index = c.index - 1) = p
        BY <3>2, <3>3
      <3>. QED  BY <3>4 DEF p
    <2>3. c.start = IF c.index = 1 THEN FirstHeight
                    ELSE (CHOOSE d \in Everywhere : d.index = c.index - 1).end + 1
      BY <2>1, <2>2, Zenon DEF Continues
    <2>. QED  BY <2>1, <2>3 DEF IsCut, UnionDiff, Union
  <1>. QED  BY <1>1, Invariance, PTL

(***************************************************************************)
(* The diff of a block no stored commitment covers is never deleted, and   *)
(* neither the assertions of the recovery nor the Merkle root of an empty  *)
(* range ever stop the service.                                            *)
(***************************************************************************)
THEOREM DiffsKeptTheorem == Spec => [](UncommittedDiffsKept /\ NeverPanics)
  <1>1. IInv => UncommittedDiffsKept /\ NeverPanics
    BY DEF IInv
  <1>. QED  BY <1>1, Invariance, PTL

=============================================================================
