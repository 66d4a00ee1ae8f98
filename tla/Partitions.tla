----------------------------- MODULE Partitions -----------------------------
(***************************************************************************)
(* How the batch prover cuts its pending commitments into proofs.          *)
(*                                                                         *)
(* A sequence of commitments is a sequence of indices; the end height of   *)
(* each is what the commitment table knows of it.  A state diff is the set *)
(* of state keys written, the size of its compressed form their number.    *)
(* The parameters of a call are the table of known commitments, the head   *)
(* of the synced L2 chain and a record                                     *)
(*   env = [maxCount |-> max_commitments_per_proof, 0 when not configured, *)
(*          maxDiff  |-> MAX_TX_BODY_SIZE in keys,                         *)
(*          spec     |-> the fork of each height,                          *)
(*          diff     |-> the state diff of each height].                   *)
(***************************************************************************)
EXTENDS Tables, Sequences, FiniteSets, SequencesExt

\* No sync target: every pending commitment is synced.
NoTarget == 0

\* Position of the first commitment of cs beyond head.
UnsyncedPos(cs, known, head) ==
  CHOOSE p \in DOMAIN cs :
    /\ known[cs[p]] > head
    /\ \A q \in 1 .. p - 1 : known[cs[q]] <= head

\* Mutant: the commitment that ends one block beyond the head passes as synced.
MutFilterUnsynced(cs, known, head) ==
  IF known[Last(cs)] <= head + 1
  THEN [synced |-> cs, target |-> NoTarget]
  ELSE LET p == UnsyncedPos(cs, known, head + 1)
       IN [synced |-> SubSeq(cs, 1, p - 1), target |-> known[cs[p]]]

\* The commitments the L2 chain has reached, and the height to wait for.
FilterUnsynced(cs, known, head) ==
  IF known[Last(cs)] <= head
  THEN [synced |-> cs, target |-> NoTarget]
  ELSE LET p == UnsyncedPos(cs, known, head)
       IN [synced |-> SubSeq(cs, 1, p - 1), target |-> known[cs[p]]]

\* The longest prefix without a gap, if the predecessor of its first is known.
FilterIndexGap(cs, known) ==
  LET contiguous(n) == \A p \in 1 .. n : cs[p] = cs[1] + p - 1
      n == CHOOSE k \in 0 .. Len(cs) :
             contiguous(k) /\ \A m \in k + 1 .. Len(cs) : ~contiguous(m)
  IN IF cs[1] = 1 \/ cs[1] - 1 \in DOMAIN known THEN SubSeq(cs, 1, n) ELSE << >>

\* PartitionState: the partitions so far and the start of the next one.
NewPartitionState(cs, known) ==
  [parts |-> << >>, startIdx |-> 1,
   startHeight |-> IF cs[1] = 1 THEN 1 ELSE known[cs[1] - 1] + 1]

\* Closes the current partition behind position end.
AddPartition(st, cs, known, end) ==
  [parts |-> Append(st.parts, [indices |-> SubSeq(cs, st.startIdx, end),
                               start |-> st.startHeight, end |-> known[cs[end]]]),
   startIdx |-> end + 1,
   startHeight |-> IF end = Len(cs) THEN st.startHeight ELSE known[cs[end]] + 1]

\* get_state_diff: the merged diff of the blocks start..end.
StateDiff(start, end, env) == UNION {env.diff[h] : h \in start .. end}

\* The loop of the Normal mode runs over the accumulator [st, cum, count, from]: the
\* partition state, cumulative_state_diff, commitments_in_current_partition and
\* commitment_start_height. diff is the state diff of the commitment at position i.
\* Does the current partition end before the commitment at position i?
MustCut(acc, i, diff, cs, known, env) ==
  \/ env.maxCount # 0 /\ acc.count >= env.maxCount
  \/ env.spec[known[cs[i]]] # env.spec[known[cs[i - 1]]]
  \/ Cardinality(acc.cum \cup diff) > env.maxDiff

\* Ends the partition at position i - 1 and opens the next one with position i.
Cut(acc, i, diff, cs, known) ==
  [st |-> AddPartition(acc.st, cs, known, i - 1), cum |-> diff, count |-> 1,
   from |-> known[cs[i]] + 1]

\* One iteration.
NormalStep(acc, i, cs, known, env) ==
  LET diff == StateDiff(acc.from, known[cs[i]], env)
  IN IF i > 1 /\ MustCut(acc, i, diff, cs, known, env)
     THEN Cut(acc, i, diff, cs, known)
     ELSE [acc EXCEPT !.cum = @ \cup diff, !.count = @ + 1, !.from = known[cs[i]] + 1]

\* partition_commitments, on a non-empty sequence without gaps.
PartitionCommitments(cs, known, mode, env) ==
  LET st0 == NewPartitionState(cs, known)
      positions == [i \in 1 .. Len(cs) |-> i]
      normal == FoldLeft(LAMBDA acc, i : NormalStep(acc, i, cs, known, env),
                         [st |-> st0, cum |-> {}, count |-> 0, from |-> st0.startHeight],
                         positions)
  IN IF mode = "OneByOne"
     THEN FoldLeft(LAMBDA st, i : AddPartition(st, cs, known, i), st0, positions).parts
     ELSE AddPartition(normal.st, cs, known, Len(cs)).parts

\* create_partitions: the sync target and the partitions, of a non-empty sequence.
CreatePartitions(cs, known, head, mode, env) ==
  LET f == FilterUnsynced(cs, known, head)
      g == IF f.synced = << >> THEN << >> ELSE FilterIndexGap(f.synced, known)
  IN [target |-> f.target,
      parts  |-> IF g = << >> THEN << >> ELSE PartitionCommitments(g, known, mode, env)]
=============================================================================
