------------------------------- MODULE Tables -------------------------------
(***************************************************************************)
(* The key-value tables of the ledger database.  Every component keeps its *)
(* durable state in column families of one RocksDB instance; a table is    *)
(* modelled as a function whose domain is the set of keys present.  One    *)
(* write_schemas batch is atomic and durable; two batches are not.         *)
(***************************************************************************)
EXTENDS Naturals, TLAPS

\* The table with no key.
EmptyTable == [x \in {} |-> x]

\* DB::put: inserts the key or overwrites its value.
Put(t, k, v) == [x \in DOMAIN t \cup {k} |-> IF x = k THEN v ELSE t[x]]

\* DB::delete of a set of keys; deleting an absent key is no error.
Delete(t, ks) == [x \in DOMAIN t \ ks |-> t[x]]

\* t is a table from keys in K to values in V.
IsTable(t, K, V) ==
  /\ t = [x \in DOMAIN t |-> t[x]]
  /\ DOMAIN t \subseteq K
  /\ \A x \in DOMAIN t : t[x] \in V

\* Key order of the tables keyed by a pair, the order their iterators follow.
Before(a, b) == a[1] < b[1] \/ (a[1] = b[1] /\ a[2] < b[2])

\* k is where an iterator over the keys K stands after it has passed cursor.
IsNextKey(k, K, cursor) ==
  /\ k \in K
  /\ Before(cursor, k)
  /\ \A j \in K : Before(cursor, j) => (j = k \/ Before(k, j))
=============================================================================
