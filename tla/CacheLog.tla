------------------------------ MODULE CacheLog ------------------------------
(***************************************************************************)
(* The cache log of a working set: for every key accessed, what was read   *)
(* first and what was written last.                                        *)
(*                                                                         *)
(* Keys are naturals, in the order of the BTreeMap that holds the log; a   *)
(* value is any value, None the value of an absent key.                    *)
(***************************************************************************)
EXTENDS Naturals, FiniteSets, FiniteSetsExt, Functions, Tables

CONSTANT None      \* the value of a key that is not in the storage

\* Access: a key that was only read, read and then written, or only written.
Read(v) == [op |-> "Read", orig |-> v, val |-> v]
ReadThenWrite(o, v) == [op |-> "ReadThenWrite", orig |-> o, val |-> v]
Write(v) == [op |-> "Write", orig |-> None, val |-> v]

\* Access::last_value
LastValue(a) == a.val

\* Access::write_value: a key written back to the value read is a read.
WriteValue(a, v) ==
  CASE a.op = "Write" -> Write(v)
    [] a.op # "Write" /\ a.orig = v -> Read(v)
    [] a.op # "Write" /\ a.orig # v -> ReadThenWrite(a.orig, v)

\* CacheLog::get_value: ValueExists::Yes when the key has an entry.
Cached(log, k) == k \in DOMAIN log
GetValue(log, k) == LastValue(log[k])

\* CacheLog::add_read for a key that has no entry, the only way it is called.
AddRead(log, k, v) == Put(log, k, Read(v))

\* CacheLog::add_write
AddWrite(log, k, v) ==
  Put(log, k, IF k \in DOMAIN log THEN WriteValue(log[k], v) ELSE Write(v))

\* CacheLog::iter_writes: the last write of every key that was changed.
Writes(log) ==
  [k \in {x \in DOMAIN log : log[x].op # "Read"} |-> log[k].val]

\* CacheLog::mark_all_as_read
MarkAllAsRead(log) == [k \in DOMAIN log |-> Read(log[k].val)]

\* CacheLog::prune_half: the upper half of the keys is dropped.
PruneHalf(log) ==
  LET mid == CHOOSE k \in DOMAIN log :
               Cardinality({x \in DOMAIN log : x < k}) = Cardinality(DOMAIN log) \div 2
  IN IF DOMAIN log = {} THEN log ELSE Restrict(log, {x \in DOMAIN log : x < mid})

-----------------------------------------------------------------------------
(* Merging two logs.                                                       *)

\* Access::merge succeeds when the right access starts from the left's value.
MergeOk(a, b) == b.op = "Write" \/ a.val = b.orig

\* Access::merge: the first read of the left and the last write of the right.
Merge(a, b) ==
  CASE b.op = "Read" -> a
    [] b.op # "Read" /\ a.op = "Write" -> Write(b.val)
    [] b.op # "Read" /\ a.op # "Write" -> ReadThenWrite(a.orig, b.val)

\* The filters of merge_left, merge_writes_left and merge_reads_left.
WritesOnly(log) ==
  [k \in {x \in DOMAIN log : log[x].op # "Read"} |-> Write(log[k].val)]
ReadsOnly(log) ==
  [k \in {x \in DOMAIN log : log[x].op # "Write"} |-> Read(log[k].orig)]

\* merge_left_with_filter_map: the keys of the right log in order, up to the
\* first that contradicts the left log; the result and whether it is complete.
MergeLeft(left, right) ==
  LET bad == {k \in DOMAIN left \cap DOMAIN right : ~MergeOk(left[k], right[k])}
      done == {k \in DOMAIN right : \A b \in bad : k < b}
  IN [ok |-> bad = {},
      log |-> [k \in DOMAIN left \cup done |->
                 IF k \notin done THEN left[k]
                 ELSE IF k \notin DOMAIN left THEN right[k] ELSE Merge(left[k], right[k])]]
=============================================================================
