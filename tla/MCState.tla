------------------------------ MODULE MCState -------------------------------
(***************************************************************************)
(* State and storage for TLC: the batch proof circuit on honest and on     *)
(* altered input, the replay of blocks with witnesses, the merge of cache  *)
(* logs, a database transaction, the versions of the state, and the        *)
(* backups.  A behaviour runs one of them; the others rest.                *)
(***************************************************************************)
EXTENDS BatchCircuit

VARIABLES
  system,  \* what this behaviour runs
  \* ---- the replay of blocks
  phase, versions, blocks, discard, tx, accepted, host, replayer, ops,
  \* ---- the merge of cache logs
  vals, left, right, whole, turn, steps,
  \* ---- a database transaction
  rows,    \* the rows of the database
  cache,   \* the transaction's writes
  own,     \* per key the last thing the transaction did: 0 nothing, -1 deleted, or the value
  \* ---- the versions of the state
  jmtNodes, jmtValues, native, head, ledgerPruned, status, storage, notified, lastPruned, history,
  crashes, rollbacks,
  \* ---- the backups
  db, present, up, l1, l2, l1Lock, l2Lock, job, copies, dirs, meta, metaBak, restore, bounds

\* Forks before and after Tangerine, two of them at adjacent heights: the sequencer's
\* attempts fail and it restarts. The circuit with altered input is this module's own.
Honest == INSTANCE BatchCircuit WITH
  KnownPrev <- FALSE, MaxHeight <- 5, FaultBound <- 2, AlterBound <- 0,
  ForkList <- <<[spec |-> 1, height |-> 0], [spec |-> 2, height |-> 2],
                [spec |-> 3, height |-> 3], [spec |-> 4, height |-> 5]>>

\* A network that starts with Tangerine.
ForksFromStart == <<[spec |-> 2, height |-> 0], [spec |-> 3, height |-> 4]>>

\* The hash of the first L1 block lies below the other keys, that of the second above them,
\* so that pruning drops either.
Replayed(c) == INSTANCE Replay WITH
  HeadKey <- c.headKey, NextKey <- c.nextKey, HashSlots <- <<1, 5>>, Slots <- {4}, CodeKey <- 9,
  Vals <- {1}, MaxBlocks <- c.blocks, OpBound <- c.ops, CorruptBound <- c.corrupt,
  guest <- replayer, count <- ops

Whole == [name |-> "replay", headKey |-> 2, nextKey |-> 3, blocks |-> 2, ops |-> 3, corrupt |-> 0]
Corrupt == [name |-> "corrupt", headKey |-> 3, nextKey |-> 6, blocks |-> 2, ops |-> 2, corrupt |-> 1]
Replays == {Whole, Corrupt}

Logs == INSTANCE CacheMerge WITH
  Keys <- {1, 2}, Vals <- {10, 11}, AccessBound <- 4, DriftBound <- 1

Keys == 1 .. 3
Values == {1, 2}

Versions == INSTANCE StateVersions WITH
  StateKeys <- {1, 2}, Values <- {1}, Distance <- 1, MaxHeight <- 3, MaxCrashes <- 2,
  MaxRollbacks <- 1, chain <- history

Manager(c) == INSTANCE Backup WITH
  CatchUp <- c.missed, MaxL2 <- c.l2, MaxL1 <- c.l1, BackupBound <- c.backups, PurgeBound <- c.purges,
  RestoreBound <- 1, FailBound <- c.fails, CrashBound <- c.crashes, count <- bounds

Locking == [name |-> "backup", missed |-> FALSE, l1 |-> 1, l2 |-> 1, backups |-> 1,
            purges |-> 0, fails |-> 0, crashes |-> 1]
CatchingUp == [name |-> "backup_missed", missed |-> TRUE, l1 |-> 0, l2 |-> 2, backups |-> 1,
               purges |-> 0, fails |-> 0, crashes |-> 1]
Crashing == [name |-> "backup_crash", missed |-> FALSE, l1 |-> 0, l2 |-> 1, backups |-> 2,
             purges |-> 1, fails |-> 0, crashes |-> 1]
Failing == [name |-> "backup_fails", missed |-> FALSE, l1 |-> 0, l2 |-> 1, backups |-> 2,
            purges |-> 1, fails |-> 2, crashes |-> 0]
Managers == {Locking, CatchingUp, Crashing, Failing}

ASSUME StateAssumption ==
  /\ \A c \in Replays : Replayed(c)!ReplayAssumption
  /\ Logs!MergeAssumption /\ Versions!StateVersionsAssumption
  /\ \A c \in Managers : Manager(c)!BackupAssumption
-----------------------------------------------------------------------------
(* A transaction, used by one task, over a database others write to.       *)
TxPut ==
  \E k \in Keys, v \in Values :
    /\ cache' = Versions!batch_put(cache, k, v)
    /\ own' = [own EXCEPT ![k] = v]
    /\ UNCHANGED rows

TxDelete ==
  \E k \in Keys :
    /\ cache' = Versions!batch_delete(cache, k)
    /\ own' = [own EXCEPT ![k] = -1]
    /\ UNCHANGED rows

\* DbTransaction::write_many of a batch with two keys.
TxWriteMany ==
  \E k, j \in Keys, v \in Values :
    /\ k < j
    /\ cache' = Versions!merge(cache, Versions!batch_put(Versions!batch_delete(EmptyTable, j), k, v))
    /\ own' = [own EXCEPT ![k] = v, ![j] = -1]
    /\ UNCHANGED rows

\* Another task writes to the database.
OtherWrites ==
  \E k \in Keys, v \in Values :
    /\ rows' \in {Put(rows, k, v), Delete(rows, {k})}
    /\ UNCHANGED <<cache, own>>

TxNext == TxPut \/ TxDelete \/ TxWriteMany \/ OtherWrites
-----------------------------------------------------------------------------
replay == <<phase, versions, blocks, discard, tx, accepted, host, replayer, ops>>
logs == <<vals, left, right, whole, turn, steps>>
table == <<rows, cache, own>>
stateDb == <<jmtNodes, jmtValues, native, head, ledgerPruned, status, storage, notified, lastPruned,
             history, crashes, rollbacks>>
backup == <<db, present, up, l1, l2, l1Lock, l2Lock, job, copies, dirs, meta, metaBak, restore, bounds>>
mcVars == <<system, vars, replay, logs, table, stateDb, backup>>

Circuits == {"honest", "altered"}
ReplayNames == {c.name : c \in Replays}
ManagerNames == {c.name : c \in Managers}

Rest(name) ==
  /\ name \notin Circuits =>
       /\ chain = 0 /\ seqFork = 0 /\ commitments = 0 /\ input = 0 /\ guest = 0 /\ count = 0
  /\ name \notin ReplayNames =>
       /\ phase = 0 /\ versions = 0 /\ blocks = 0 /\ discard = 0 /\ tx = 0 /\ accepted = 0
       /\ host = 0 /\ replayer = 0 /\ ops = 0
  /\ name # "merge" => vals = 0 /\ left = 0 /\ right = 0 /\ whole = 0 /\ turn = 0 /\ steps = 0
  /\ name # "schema" => rows = 0 /\ cache = 0 /\ own = 0
  /\ name # "versions" =>
       /\ jmtNodes = 0 /\ jmtValues = 0 /\ native = 0 /\ head = 0 /\ ledgerPruned = 0 /\ status = "off"
       /\ storage = 0 /\ notified = 0 /\ lastPruned = 0 /\ history = 0 /\ crashes = 0
       /\ rollbacks = 0
  /\ name \notin ManagerNames =>
       /\ db = 0 /\ present = 0 /\ up = 0 /\ l1 = 0 /\ l2 = 0 /\ l1Lock = 0 /\ l2Lock = 0 /\ job = 0
       /\ copies = 0 /\ dirs = 0 /\ meta = 0 /\ metaBak = 0 /\ restore = 0 /\ bounds = 0

MCInit ==
  /\ \/ system = "honest" /\ Honest!Init
     \/ system = "altered" /\ Init
     \/ \E c \in Replays : system = c.name /\ Replayed(c)!Init
     \/ system = "merge" /\ Logs!Init
     \/ system = "schema" /\ rows = EmptyTable /\ cache = EmptyTable /\ own = [k \in Keys |-> 0]
     \/ system = "versions" /\ Versions!Init
     \/ \E c \in Managers : system = c.name /\ Manager(c)!Init
  /\ Rest(system)

MCNext ==
  /\ UNCHANGED system
  /\ \/ /\ \/ system = "honest" /\ Honest!Next
           \/ system = "altered" /\ Next
        /\ UNCHANGED <<replay, logs, table, stateDb, backup>>
     \/ /\ \E c \in Replays : system = c.name /\ Replayed(c)!Next
        /\ UNCHANGED <<vars, logs, table, stateDb, backup>>
     \/ /\ system = "merge" /\ Logs!Next
        /\ UNCHANGED <<vars, replay, table, stateDb, backup>>
     \/ /\ system = "schema" /\ TxNext
        /\ UNCHANGED <<vars, replay, logs, stateDb, backup>>
     \/ /\ system = "versions" /\ Versions!Next
        /\ UNCHANGED <<vars, replay, logs, table, backup>>
     \/ /\ \E c \in Managers : system = c.name /\ Manager(c)!Next
        /\ UNCHANGED <<vars, replay, logs, table, stateDb>>

MCSpec == MCInit /\ [][MCNext]_mcVars
-----------------------------------------------------------------------------
\* When the commitments of an accepted input are the published ones, the blocks are those
\* of the chain after the previous commitment, in order and complete, and the output's
\* roots are the chain's roots at the commitments' ends.
OutputIsTheChain == system = "altered" => OutputIsChain

\* Even for commitments nobody published, the blocks of an accepted input form one chain:
\* heights without a gap, each block on the hash and the state of the one before.
AcceptedBlocksLink == system = "altered" => AcceptedIsLinked

\* The guest gets through every input the batch prover builds, whatever range of
\* commitments it is for and wherever forks fall in it.
HonestAccepted == system = "honest" => Honest!HonestInputAccepted

\* The sequencer, through failed attempts and restarts, the batch prover and the guest
\* execute a block under the same spec, each by its own way to the fork.
ForksAgree == system = "honest" => Honest!SpecsAgree

\* The block executed on a fresh working set reads what the transactions read when they
\* were tried, whatever else was tried and reverted in between (dry_run_transactions).
DryRunAgrees == system = Whole.name => Replayed(Whole)!DryRunAgrees

\* The batch prover executes a block with the cache of the blocks before, whole or pruned,
\* to the values and the root the sequencer had.
WitnessRegenerated == system = Whole.name => Replayed(Whole)!WitnessRegenerated

\* With an unaltered witness the guest never panics, reads the values the batch prover
\* read and leaves no hint and no short header proof behind.
GuestFollows == system = Whole.name => Replayed(Whole)!GuestFollows

\* Whatever the witness says, a block the guest gets through was executed on the values of
\* the state: a wrong value fails its proof.
GuestReadsState == system = Corrupt.name => Replayed(Corrupt)!GuestReadsState

\* The last L1 hash in the output is the one the light client contract has after the last
\* block, taken from the proofs, the cache or the witness.
LastHashRight == \A c \in Replays : system = c.name => Replayed(c)!LastHashRight

\* Without a change behind the logs, the merged log has the first reads and the last
\* values of one log of all accesses (merge_left).
MergedIsWhole == system = "merge" => Logs!MergedIsWhole

\* A value that changed behind the logs is found exactly when the right log read it first
\* and the left log knows another one.
MergeFindsDrift == system = "merge" => Logs!MergeFindsDrift

\* Merging the writes alone never fails and leaves the last values; merging the reads
\* alone adds no write.
FilteredMerges == system = "merge" => Logs!FilteredMerges

\* The rows of the database under the transaction's own writes.
Seen == {k \in Keys : own[k] \in Values \/ (own[k] = 0 /\ k \in DOMAIN rows)}
SeenValue(k) == IF own[k] = 0 THEN rows[k] ELSE own[k]

\* DbTransaction::read returns the transaction's last write of a key, nothing after its
\* delete, and otherwise what the database holds now.
ReadsOwnWrites ==
  system = "schema" =>
    \A k \in Keys :
      Versions!read(cache, rows, k) = (IF k \in Seen THEN <<SeenValue(k)>> ELSE Versions!NoRow)

\* get_prev and get_largest, which merge two iterators, find the largest of the rows seen,
\* whatever mix of puts, deletes and rows of the database precedes it.
FindsLargestSeen ==
  system = "schema" =>
  /\ \A seek \in Keys :
       LET below == {k \in Seen : k <= seek} IN
       Versions!get_prev(cache, rows, seek)
         = (IF below = {} THEN Versions!NoRow ELSE <<Max(below), SeenValue(Max(below))>>)
  /\ Versions!get_largest(cache, rows)
       = (IF Seen = {} THEN Versions!NoRow ELSE <<Max(Seen), SeenValue(Max(Seen))>>)

\* Writing the frozen transaction turns the database into what its reader saw.
WritesWhatWasSeen ==
  system = "schema" => \E after \in {Versions!write_schemas(rows, cache)} :
    DOMAIN after = Seen /\ \A k \in Seen : after[k] = SeenValue(k)

\* However often the node crashed between its databases, was rolled back and took another
\* chain from there, a read at the end of any block returns what that block left behind.
ReadsAreHistory == system = "versions" => Versions!ReadsAreHistory

\* Code once deployed can be read at every later block, pruning or not.
CodeStays == system = "versions" => Versions!CodeStays

\* The start-up check repairs every interrupted commit: the corruption error is never
\* reached.
NeverCorrupt == system = "versions" => Versions!NeverCorrupt

\* When create_backup has both locks, no block is being processed and the databases agree,
\* but for a sequencer's blocks for missed L1 blocks, which take no lock.
QuietUnderLocks == \A c \in Managers : system = c.name => Manager(c)!QuietUnderLocks

\* A backup the metadata file lists has the recorded height in the ledger and in the state,
\* although the threads copy while blocks are processed.
RecordedHeightReached == \A c \in Managers : system = c.name => Manager(c)!RecordedHeightReached

\* A backup the metadata file lists exists, as long as no copy or deletion fails.
MetadataBacked == \A c \in Managers : system = c.name => Manager(c)!MetadataBacked

\* What restore_dbs_from_backup accepts comes from one call of create_backup, after at most
\* one failed copy or deletion or one crash.
RestoresOneBackup == \A c \in Managers : system = c.name => Manager(c)!RestoresOneBackup
-----------------------------------------------------------------------------

\* The batch proof circuit accepts what an honest prover feeds it, and what it accepts is
\* the chain: linked blocks, published commitments, one spec per block.
CircuitProvesChain == OutputIsTheChain /\ AcceptedBlocksLink /\ HonestAccepted /\ ForksAgree

\* Dry run, block, witness generation and guest execute a block on the same values, with
\* caches that are cut, pruned and merged in between.
ExecutionsAgree ==
  /\ DryRunAgrees /\ WitnessRegenerated /\ GuestFollows /\ GuestReadsState /\ LastHashRight
  /\ MergedIsWhole /\ MergeFindsDrift /\ FilteredMerges

\* The databases read back what was written: a transaction its own writes over the rows,
\* a version its own block, behind every crash, rollback and pruning.
StorageReadsBack ==
  /\ ReadsOwnWrites /\ FindsLargestSeen /\ WritesWhatWasSeen
  /\ ReadsAreHistory /\ CodeStays /\ NeverCorrupt

\* A backup is taken of a quiet node, listed once it exists with a height it has reached,
\* and restored from one call. Excluded are, for the first, the blocks for missed L1 blocks,
\* which runner.rs line 1233 produces without the lock that manager.rs line 107 says should be
\* held; for the second, a list put back after a failed deletion; for the third, more than
\* one fault. The copies themselves are made after the locks are given back, so nothing is
\* said of how far apart they are.
BackupsRestore ==
  QuietUnderLocks /\ RecordedHeightReached /\ MetadataBacked /\ RestoresOneBackup
=============================================================================
