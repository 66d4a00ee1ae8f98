--------------------------- MODULE StateVersions ---------------------------
(***************************************************************************)
(* The versioned state of a full node or batch prover: the state database  *)
(* (values and Merkle tree nodes by version), the native database (code    *)
(* and RPC records by version) and the ledger.  A block's storage is       *)
(* opened at the latest version, filled, and written to the three          *)
(* databases one after the other; a crash between two of them is repaired  *)
(* at the next start.  Meanwhile old versions are read, the native         *)
(* database is pruned, and an operator may roll a stopped node back.       *)
(* Block h is committed at version h + 1, genesis at version 1.            *)
(***************************************************************************)
EXTENDS Tables, Integers, FiniteSets, FiniteSetsExt, Sequences, TLC

CONSTANTS
  StateKeys,    \* keys of the state, numbers from 1
  Values,       \* values that blocks write, numbers from 1
  Distance,     \* pruning distance
  MaxHeight,    \* bound: L2 height
  MaxCrashes,   \* bound: crashes
  MaxRollbacks  \* bound: rollbacks by the operator

StateVersionsAssumption ==
  /\ StateKeys \subseteq Nat \ {0} /\ Values \subseteq Nat \ {0}
  /\ {Distance, MaxHeight} \subseteq Nat \ {0} /\ {MaxCrashes, MaxRollbacks} \subseteq Nat

VARIABLES
  jmtNodes,      \* StateDB: versions with tree nodes, and the keys whose leaves they hold
  jmtValues,     \* StateDB: (key, version) to value
  native,        \* NativeDB: (key, version) to value
  head,          \* LedgerDB: head L2 height
  ledgerPruned,  \* LedgerDB: LastPrunedBlock
  status,        \* running, starting, stopped or corrupt
  storage,       \* the storage of the block in progress
  notified,      \* L2 heights broadcast to the pruner and not yet received
  lastPruned,    \* PrunerService: last_pruned_block
  chain,         \* history: the sequencer's blocks
  crashes, rollbacks

disk == <<jmtNodes, jmtValues, native, head, ledgerPruned>>
vars == <<disk, status, storage, notified, lastPruned, chain, crashes, rollbacks>>

-----------------------------------------------------------------------------
(***************************************************************************)
(* The typed layer over RocksDB (sov-schema-db): batches of writes, the    *)
(* reverse iterator and DbTransaction, which keeps writes in memory and    *)
(* reads them together with the rows of the database.  Keys are numbers in *)
(* the order of their encodings.                                           *)
(***************************************************************************)
\* Operations a batch keeps per key.
PutOp(value) == [put |-> TRUE, value |-> value]
DeleteOp == [put |-> FALSE]

NoRow == << >>

(* SchemaBatch: the last operation on each key. *)

batch_put(batch, key, value) == Put(batch, key, PutOp(value))
batch_delete(batch, key) == Put(batch, key, DeleteOp)

\* SchemaBatch::merge, the newer operation wins.
merge(batch, other) ==
  [k \in DOMAIN batch \cup DOMAIN other |-> IF k \in DOMAIN other THEN other[k] ELSE batch[k]]

\* DB::write_schemas, one atomic write of the batch.
write_schemas(db, batch) ==
  [k \in {k \in DOMAIN db \cup DOMAIN batch : k \in DOMAIN batch => batch[k].put} |->
     IF k \in DOMAIN batch THEN batch[k].value ELSE db[k]]

\* DB::delete_range of the keys from (inclusive) to to (exclusive).
delete_range(db, from, to) == Delete(db, from .. to - 1)

-----------------------------------------------------------------------------
(* DbTransaction. *)

read(cache, db, key) ==
  IF key \in DOMAIN cache THEN IF cache[key].put THEN <<cache[key].value>> ELSE NoRow
  ELSE IF key \in DOMAIN db THEN <<db[key]>> ELSE NoRow

RECURSIVE iter_next(_, _, _, _)

\* DbTransactionIter::next: from the keys both iterators still have to visit,
\* the largest that is not deleted.  A key of both is the cache's.
iter_next(cache, db, local, rows) ==
  IF local = {} /\ rows = {} THEN NoRow
  ELSE IF rows = {} \/ (local # {} /\ Max(local) >= Max(rows))
  THEN IF cache[Max(local)].put THEN <<Max(local), cache[Max(local)].value>>
       ELSE iter_next(cache, db, local \ {Max(local)}, rows \ {Max(local)})
  ELSE <<Max(rows), db[Max(rows)]>>

\* The row with the largest key, and with the largest key up to seek.
get_largest(cache, db) == iter_next(cache, db, DOMAIN cache, DOMAIN db)
get_prev(cache, db, seek) ==
  iter_next(cache, db, {k \in DOMAIN cache : k <= seek}, {k \in DOMAIN db : k <= seek})
-----------------------------------------------------------------------------
\* A block's effect: some state keys written, and perhaps the code deployed.
Blocks ==
  {[writes |-> w, deploys |-> d] :
     w \in UNION {[ks -> Values] : ks \in SUBSET StateKeys \ {{}}}, d \in BOOLEAN}

NoStorage == [step |-> "none", version |-> 0, state |-> EmptyTable, native |-> EmptyTable]

\* Composite keys sort by key, then by version (big-endian).
MaxVersion == MaxHeight + 2
Encode(key, version) == key * (MaxVersion + 1) + version
KeyOf(e) == e \div (MaxVersion + 1)
VersionOf(e) == e % (MaxVersion + 1)

\* Keys of the native database: the code (prefix E/c/), the record of a block
\* and the length of the vector of records.
CodeKey == 0
LengthKey == 1
BlockKey(height) == 2 + height

\* The value of a key after block h.
RECURSIVE After(_, _)
After(h, key) ==
  IF h = 0 THEN 0 ELSE IF key \in DOMAIN chain[h].writes THEN chain[h].writes[key] ELSE After(h - 1, key)
Deployed(h) == \E i \in 1 .. h : chain[i].deploys

-----------------------------------------------------------------------------
(* Reading. *)

\* StateDB: the newest value of the key up to the version.
get_value_option_by_key(cache, key, version) ==
  LET row == get_prev(cache, jmtValues, Encode(key, version)) IN
  IF row # NoRow /\ KeyOf(row[1]) = key THEN <<row[2]>> ELSE NoRow

\* NativeDB likewise.
get_value_option(cache, key, version) ==
  LET row == get_prev(cache, native, Encode(key, version)) IN
  IF row # NoRow /\ KeyOf(row[1]) = key THEN <<row[2]>> ELSE NoRow

\* set_state_to_end_of_evm_block
VersionOfBlock(height) == height + 1

\* Archival working sets: the state, the code and the records at the end of a block.
ArchivalState(height, key) == get_value_option_by_key(EmptyTable, key, VersionOfBlock(height))
ArchivalCode(height) == get_value_option(EmptyTable, CodeKey, VersionOfBlock(height))

\* create_final_view_storage reads at the largest version.
FinalView == MaxVersion
LatestState(key) == get_value_option_by_key(EmptyTable, key, FinalView)
LatestRecord(key) == get_value_option(EmptyTable, key, FinalView)

\* StateDB::next_version
next_version == Max(DOMAIN jmtNodes \cup {0}) + 1

-----------------------------------------------------------------------------

Init ==
  /\ jmtNodes = (0 :> {} @@ 1 :> StateKeys)
  /\ jmtValues = [e \in {Encode(k, 1) : k \in StateKeys} |-> 0]
  /\ native = (Encode(BlockKey(0), 1) :> 0 @@ Encode(LengthKey, 1) :> 1)
  /\ head = 0 /\ ledgerPruned = 0
  /\ status = "running" /\ storage = NoStorage
  /\ notified = << >> /\ lastPruned = 0
  /\ chain = << >>
  /\ crashes = 0 /\ rollbacks = 0

\* apply_l2_block: the storage for the next height is at the height of the
\* block; its state root must match the block's.
OpenStorage ==
  /\ status = "running" /\ storage.step = "none" /\ head < MaxHeight
  /\ \E b \in IF Len(chain) > head THEN {chain[head + 1]} ELSE Blocks :
       /\ chain' = IF Len(chain) > head THEN chain ELSE Append(chain, b)
       /\ LET version == next_version - 1
              agrees == \A k \in StateKeys :
                          get_value_option_by_key(EmptyTable, k, version) = <<After(head, k)>>
          IN IF version = head + 1 /\ agrees
             THEN status' = status /\ storage' = [NoStorage EXCEPT !.step = "open", !.version = version]
             ELSE status' = "corrupt" /\ storage' = NoStorage
  /\ UNCHANGED <<disk, notified, lastPruned, crashes, rollbacks>>

\* The offchain state keeps code the first time it is deployed.
NewCode(b) == b.deploys /\ get_value_option(storage.native, CodeKey, storage.version) = NoRow

\* NativeDB::set_values and StateDB::write_node_batch
set_values(cache, pairs, version) ==
  merge(cache, [e \in {Encode(k, version) : k \in DOMAIN pairs} |-> PutOp(pairs[KeyOf(e)])])
write_node_batch(cache, writes, version) ==
  merge(cache, [e \in {Encode(k, version) : k \in DOMAIN writes} |-> PutOp(writes[KeyOf(e)])])

\* Storage::commit: accessory and offchain writes, then values, into the cache.
Commit ==
  /\ storage.step = "open"
  /\ \E b \in {chain[head + 1]}, v \in {storage.version + 1} :
       storage' = [step |-> "committed", version |-> v,
                   native |-> set_values(set_values(storage.native,
                                           BlockKey(head + 1) :> head + 1 @@ LengthKey :> head + 2, v),
                                         IF NewCode(b) THEN CodeKey :> 1 ELSE EmptyTable, v),
                   state |-> write_node_batch(storage.state, b.writes, v)]
  /\ UNCHANGED <<disk, status, notified, lastPruned, chain, crashes, rollbacks>>

\* finalize_storage, the state database first.
FinalizeState ==
  /\ storage.step = "committed"
  /\ jmtValues' = write_schemas(jmtValues, storage.state)
  /\ jmtNodes' = Put(jmtNodes, storage.version, {KeyOf(e) : e \in DOMAIN storage.state})
  /\ storage' = [storage EXCEPT !.step = "state"]
  /\ UNCHANGED <<native, head, ledgerPruned, status, notified, lastPruned, chain, crashes, rollbacks>>

FinalizeNative ==
  /\ storage.step = "state"
  /\ native' = write_schemas(native, storage.native)
  /\ storage' = [storage EXCEPT !.step = "native"]
  /\ UNCHANGED <<jmtNodes, jmtValues, head, ledgerPruned, status, notified, lastPruned, chain,
                 crashes, rollbacks>>

\* commit_l2_block, and the new height is broadcast.
CommitL2Block ==
  /\ storage.step = "native"
  /\ head' = head + 1
  /\ notified' = Append(notified, head + 1)
  /\ storage' = NoStorage
  /\ UNCHANGED <<jmtNodes, jmtValues, native, ledgerPruned, status, lastPruned, chain, crashes, rollbacks>>

-----------------------------------------------------------------------------
(* Pruning of the native database. *)

\* DistanceCriteria::should_prune
should_prune(last, current) ==
  IF current >= last + 2 * Distance THEN <<last + Distance>> ELSE << >>

\* All rows up to the version of the block, except code.
prune_native_db(db, upTo) ==
  Delete(db, {e \in DOMAIN db : KeyOf(e) # CodeKey /\ VersionOf(e) <= upTo + 1})

\* PrunerService::run on a new L2 height.
Prune ==
  /\ status = "running" /\ notified # << >>
  /\ notified' = Tail(notified)
  /\ IF should_prune(lastPruned, Head(notified)) = << >> THEN UNCHANGED <<native, lastPruned>>
     ELSE \E upTo \in {should_prune(lastPruned, Head(notified))[1]} :
            native' = prune_native_db(native, upTo) /\ lastPruned' = upTo
  /\ UNCHANGED <<jmtNodes, jmtValues, head, ledgerPruned, status, storage, chain, crashes, rollbacks>>

-----------------------------------------------------------------------------
(* Stopping, starting and rolling back. *)

Down == status' = "stopped" /\ storage' = NoStorage /\ notified' = << >> /\ lastPruned' = 0

\* A graceful shutdown between two blocks stores the pruned height.
Shutdown ==
  /\ status = "running" /\ storage.step = "none"
  /\ Down
  /\ ledgerPruned' = lastPruned
  /\ UNCHANGED <<jmtNodes, jmtValues, native, head, chain, crashes, rollbacks>>

Crash ==
  /\ status \in {"running", "starting"} /\ crashes < MaxCrashes
  /\ crashes' = crashes + 1
  /\ Down
  /\ UNCHANGED <<disk, chain, rollbacks>>

\* rollback_state_db, first step: the values of the leaves above the target.
RollbackValues(values, nodes, target) ==
  Delete(values, {Encode(k, v) : k \in UNION {nodes[v] : v \in DOMAIN nodes},
                                 v \in {v \in DOMAIN nodes : v > target}})

\* Mutant: the nodes from the target's own version on are deleted.
MutRollbackNodes(nodes, target) == delete_range(nodes, target, Max(DOMAIN nodes) + 1)

\* Second step: the range of node versions after the target.
RollbackNodes(nodes, target) == delete_range(nodes, target + 1, Max(DOMAIN nodes) + 1)

rollback_native_db(db, target) == Delete(db, {e \in DOMAIN db : VersionOf(e) > target})

\* sync_ledger_and_state_db: compares the state's version with the ledger's.
Start ==
  /\ status = "stopped"
  /\ lastPruned' = ledgerPruned
  /\ status' = (CASE next_version - 2 = head + 1 -> "starting"
                  [] next_version - 2 = head -> "running"
                  [] OTHER -> "corrupt")
  /\ UNCHANGED <<disk, storage, notified, chain, crashes, rollbacks>>

\* The rollback at start runs its parts in tasks of their own; a crash may come
\* between any two of them.
SyncValues ==
  /\ status = "starting"
  /\ jmtValues' = RollbackValues(jmtValues, jmtNodes, head + 1)
  /\ jmtValues' # jmtValues
  /\ UNCHANGED <<jmtNodes, native, head, ledgerPruned, status, storage, notified, lastPruned, chain,
                 crashes, rollbacks>>

SyncNodes ==
  /\ status = "starting"
  /\ RollbackValues(jmtValues, jmtNodes, head + 1) = jmtValues
  /\ next_version > head + 2
  /\ jmtNodes' = RollbackNodes(jmtNodes, head + 1)
  /\ UNCHANGED <<jmtValues, native, head, ledgerPruned, status, storage, notified, lastPruned, chain,
                 crashes, rollbacks>>

SyncNative ==
  /\ status = "starting"
  /\ native' = rollback_native_db(native, head + 1)
  /\ native' # native
  /\ UNCHANGED <<jmtNodes, jmtValues, head, ledgerPruned, status, storage, notified, lastPruned, chain,
                 crashes, rollbacks>>

Synced ==
  /\ status = "starting"
  /\ next_version = head + 2
  /\ rollback_native_db(native, head + 1) = native
  /\ status' = "running"
  /\ UNCHANGED <<disk, storage, notified, lastPruned, chain, crashes, rollbacks>>

\* Rollback::execute by the operator, with the node stopped and not to a height
\* that was pruned; the sequencer's chain may continue differently from there.
OperatorRollback ==
  /\ status = "stopped" /\ rollbacks < MaxRollbacks
  /\ \E target \in {t \in 0 .. head - 1 : Encode(LengthKey, t + 1) \in DOMAIN native} :
       /\ head' = target
       /\ jmtValues' = RollbackValues(jmtValues, jmtNodes, target + 1)
       /\ jmtNodes' = RollbackNodes(jmtNodes, target + 1)
       /\ native' = rollback_native_db(native, target + 1)
       /\ chain' = SubSeq(chain, 1, target)
  /\ rollbacks' = rollbacks + 1
  /\ UNCHANGED <<ledgerPruned, status, storage, notified, lastPruned, crashes>>

Next ==
  \/ OpenStorage \/ Commit \/ FinalizeState \/ FinalizeNative \/ CommitL2Block
  \/ Prune \/ Shutdown \/ Crash \/ Start
  \/ SyncValues \/ SyncNodes \/ SyncNative \/ Synced \/ OperatorRollback

Spec == Init /\ [][Next]_vars

-----------------------------------------------------------------------------
(* Properties. *)

\* However often the node crashed between its databases, was rolled back and
\* took another chain from there, a read at the end of any block returns what
\* that block left behind and the tree has a root for it; between two blocks
\* the final view is the head's state.
ReadsAreHistory ==
  status = "running" =>
    /\ \A h \in 0 .. head, k \in StateKeys :
         ArchivalState(h, k) = <<After(h, k)>> /\ VersionOfBlock(h) \in DOMAIN jmtNodes
    /\ storage.step = "none" => \A k \in StateKeys : LatestState(k) = <<After(head, k)>>

\* Code once deployed can be read at every later block, pruning or not: an
\* execution, or a re-execution for a proof, that lacks it stops.
CodeStays ==
  status = "running" => \A h \in 0 .. head : Deployed(h) => ArchivalCode(h) # NoRow

\* The start-up check repairs every interrupted commit: the assertion on the
\* storage's version, the state root check and the corruption error are never
\* reached.
NeverCorrupt == status # "corrupt"
=============================================================================
