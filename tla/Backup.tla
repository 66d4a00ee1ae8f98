------------------------------- MODULE Backup -------------------------------
(***************************************************************************)
(* The backup manager of a node and the tasks it has to keep apart.        *)
(*                                                                         *)
(* An L2 block is written to the state database, the native database and   *)
(* the ledger, an L1 block to the ledger in two writes.  A backup takes    *)
(* the locks of both tasks, reads the heights, hands each database to a    *)
(* thread that copies it, and gives the locks back.  A copy becomes the    *)
(* next backup of that database's directory; when all three are done, the  *)
(* directories are compared and the height goes to the metadata file.      *)
(* Purging shortens the metadata file and then each directory; restoring   *)
(* builds new databases from one backup and renames them into place.       *)
(*                                                                         *)
(* A database is the height it has reached.  Backups in a directory are    *)
(* numbered by RocksDB, one above the last.  Corruption of files is left   *)
(* out.                                                                    *)
(***************************************************************************)
EXTENDS Integers, Sequences, SequencesExt, FiniteSetsExt, Tables

CONSTANTS
  CatchUp,      \* the node is a sequencer that produces blocks for missed L1 blocks
  MaxL2,        \* bound: the highest L2 block
  MaxL1,        \* bound: the highest L1 block
  BackupBound,  \* bound: number of backups
  PurgeBound,   \* bound: number of purges
  RestoreBound, \* bound: number of restores
  FailBound,    \* bound: copies and deletions that fail
  CrashBound    \* bound: number of crashes

BackupAssumption ==
  /\ CatchUp \in BOOLEAN
  /\ {MaxL2, MaxL1, BackupBound, PurgeBound, RestoreBound, FailBound, CrashBound} \subseteq Nat

VARIABLES
  \* ---- the node's databases
  db,        \* the content of each
  present,   \* the database directory exists
  \* ---- the tasks of the node
  up,        \* the node runs
  l1, l2,    \* what the L1 and the L2 task do
  l1Lock, l2Lock, \* the holder of each lock
  \* ---- the backup manager
  job,       \* the holder of the semaphore's permit
  copies,    \* threads that have not finished
  dirs,      \* the backups in each directory (with the call that made them, as history)
  meta,      \* the metadata file
  metaBak,   \* its copy during a purge
  \* ---- the restore command
  restore,
  \* ---- bounds
  count

node == <<up, l1, l2, l1Lock, l2Lock>>
files == <<dirs, meta, metaBak>>
vars == <<db, present, node, job, copies, files, restore, count>>

\* BackupConfig: the databases in the order they are handled.
BackupDirs == <<"ledger", "state", "native">>
Dirs == ToSet(BackupDirs)

Genesis == [ledger |-> [head |-> 0, rows |-> 0, scanned |-> 0], state |-> 0, native |-> 0]

Idle == [pc |-> "idle"]
NoFile == << >>

Counted(what) == count' = [count EXCEPT ![what] = @ + 1]
Limit == [backup |-> BackupBound, purge |-> PurgeBound, restore |-> RestoreBound,
          fail |-> FailBound, crash |-> CrashBound]
May(what) == count[what] < Limit[what]

Init ==
  /\ db = Genesis /\ present = TRUE
  /\ up = TRUE /\ l1 = "idle" /\ l2 = "idle" /\ l1Lock = "free" /\ l2Lock = "free"
  /\ job = Idle /\ copies = {}
  /\ dirs = [d \in Dirs |-> EmptyTable] /\ meta = NoFile /\ metaBak = NoFile
  /\ restore = Idle
  /\ count = [what \in DOMAIN Limit |-> 0]
-----------------------------------------------------------------------------
(***************************************************************************)
(* Block processing.                                                       *)
(***************************************************************************)
\* start_l1_processing.
L1Start ==
  /\ up /\ l1 = "idle" /\ l1Lock = "free" /\ db.ledger.scanned < MaxL1
  /\ l1Lock' = "task" /\ l1' = "rows"
  /\ UNCHANGED <<db, present, up, l2, l2Lock, job, copies, files, restore, count>>

\* What the block contains is written ...
L1Rows ==
  /\ up /\ l1 = "rows"
  /\ db' = [db EXCEPT !.ledger.rows = db.ledger.scanned + 1]
  /\ l1' = "scanned"
  /\ UNCHANGED <<present, up, l2, l1Lock, l2Lock, job, copies, files, restore, count>>

\* ... then that it was scanned.
L1Scanned ==
  /\ up /\ l1 = "scanned"
  /\ db' = [db EXCEPT !.ledger.scanned = @ + 1]
  /\ l1' = "idle" /\ l1Lock' = "free"
  /\ UNCHANGED <<present, up, l2, l2Lock, job, copies, files, restore, count>>

\* Mutant: L2 blocks are processed without the lock.
MutL2Start ==
  /\ up /\ l2 = "idle" /\ db.ledger.head < MaxL2
  /\ l2' = "state"
  /\ UNCHANGED <<db, present, up, l1, l1Lock, l2Lock, job, copies, files, restore, count>>

\* start_l2_processing; blocks for missed L1 blocks are produced without it.
L2Start ==
  /\ up /\ l2 = "idle" /\ db.ledger.head < MaxL2
  /\ \/ l2Lock = "free" /\ l2Lock' = "task"
     \/ CatchUp /\ UNCHANGED l2Lock
  /\ l2' = "state"
  /\ UNCHANGED <<db, present, up, l1, l1Lock, job, copies, files, restore, count>>

\* finalize_storage writes the state, then the native database.
L2State ==
  /\ up /\ l2 = "state"
  /\ db' = [db EXCEPT !.state = @ + 1]
  /\ l2' = "native"
  /\ UNCHANGED <<present, up, l1, l1Lock, l2Lock, job, copies, files, restore, count>>

L2Native ==
  /\ up /\ l2 = "native"
  /\ db' = [db EXCEPT !.native = Max({@, db.state})]
  /\ l2' = "ledger"
  /\ UNCHANGED <<present, up, l1, l1Lock, l2Lock, job, copies, files, restore, count>>

\* commit_l2_block; a lock that was taken is given back.
L2Ledger ==
  /\ up /\ l2 = "ledger"
  /\ db' = [db EXCEPT !.ledger.head = @ + 1]
  /\ l2' = "idle"
  /\ l2Lock' = IF l2Lock = "task" THEN "free" ELSE l2Lock
  /\ UNCHANGED <<present, up, l1, l1Lock, job, copies, files, restore, count>>
-----------------------------------------------------------------------------
(***************************************************************************)
(* create_backup.                                                          *)
(***************************************************************************)
\* The permit is taken.
CallCreate ==
  /\ up /\ job.pc = "idle" /\ May("backup") /\ Counted("backup")
  /\ job' = [pc |-> "l1", nr |-> count'.backup, height |-> 0, ok |-> {}, bad |-> {}]
  /\ UNCHANGED <<db, present, node, copies, files, restore>>

LockL1 ==
  /\ up /\ job.pc = "l1" /\ l1Lock = "free"
  /\ l1Lock' = "backup"
  /\ job' = [job EXCEPT !.pc = "l2"]
  /\ UNCHANGED <<db, present, up, l1, l2, l2Lock, copies, files, restore, count>>

LockL2 ==
  /\ up /\ job.pc = "l2" /\ l2Lock = "free"
  /\ l2Lock' = "backup"
  /\ job' = [job EXCEPT !.pc = "spawn"]
  /\ UNCHANGED <<db, present, up, l1, l2, l1Lock, copies, files, restore, count>>

\* The heights are read, the databases flushed and the threads spawned; the locks are
\* dropped.
Spawn ==
  /\ up /\ job.pc = "spawn"
  /\ copies' = copies \cup {<<job.nr, d>> : d \in Dirs}
  /\ job' = [job EXCEPT !.pc = "join", !.height = db.ledger.head]
  /\ l1Lock' = "free" /\ l2Lock' = "free"
  /\ UNCHANGED <<db, present, up, l1, l2, files, restore, count>>

\* BackupEngine: the ids of a directory's backups; the next one.
Ids(d) == DOMAIN dirs[d]
NextId(d) == Max(Ids(d) \cup {0}) + 1

Finished(c, how) ==
  /\ copies' = copies \ {c}
  /\ job' = IF job.pc = "join" /\ job.nr = c[1] THEN [job EXCEPT ![how] = @ \cup {c[2]}] ELSE job

\* DB::create_backup, in a thread of its own.
Copy(c) ==
  /\ dirs' = [dirs EXCEPT ![c[2]] = Put(@, NextId(c[2]), [of |-> c[1], db |-> db[c[2]]])]
  /\ Finished(c, "ok")
  /\ UNCHANGED <<db, present, node, meta, metaBak, restore, count>>

CopyFails(c) ==
  /\ May("fail") /\ Counted("fail")
  /\ Finished(c, "bad")
  /\ UNCHANGED <<db, present, node, files, restore>>

\* The threads are awaited in order; at the first that failed the call returns and leaves
\* the others alone.
JoinFails ==
  /\ job.pc = "join"
  /\ \E i \in DOMAIN BackupDirs :
       BackupDirs[i] \in job.bad /\ \A j \in 1 .. i - 1 : BackupDirs[j] \in job.ok
  /\ job' = Idle
  /\ UNCHANGED <<db, present, node, copies, files, restore, count>>

\* utils::validate_backup: the directory has backups, all of them readable.
HasBackups(d) == dirs[d] # EmptyTable

\* validate_backup: every directory has backups, and all have the same number.
Valid ==
  /\ \A d \in Dirs : HasBackups(d)
  /\ \A d, e \in Dirs : Cardinality(Ids(d)) = Cardinality(Ids(e))

\* The backup is validated and known by the id it has in the ledger's directory.
Validate ==
  /\ job.pc = "join" /\ job.ok = Dirs
  /\ job' = IF Valid
            THEN [pc |-> "meta", id |-> Max(Ids("ledger")), height |-> job.height]
            ELSE Idle
  /\ UNCHANGED <<db, present, node, copies, files, restore, count>>

\* set_metadata.
SetMetadata ==
  /\ job.pc = "meta"
  /\ meta' = <<Put(IF meta = NoFile THEN EmptyTable ELSE meta[1], job.id, job.height)>>
  /\ job' = Idle
  /\ UNCHANGED <<db, present, node, copies, dirs, metaBak, restore, count>>
-----------------------------------------------------------------------------
(***************************************************************************)
(* purge_backup, called by backup_create with a number to keep or by the   *)
(* command line tool.                                                      *)
(***************************************************************************)
\* The id below which backups go when keep of them are kept.
Threshold(keep) ==
  CHOOSE id \in DOMAIN meta[1] : Cardinality({i \in DOMAIN meta[1] : i >= id}) = keep

\* The metadata file is copied (backup_metadata_file).
PurgeFrom(id) ==
  /\ job.pc = "idle" /\ meta # NoFile /\ May("purge") /\ Counted("purge")
  /\ metaBak' = meta
  /\ job' = [pc |-> "purge", id |-> id]
  /\ UNCHANGED <<db, present, node, copies, dirs, meta, restore>>

\* With nothing to purge, or nothing to keep, the call ends.
PurgeKeeping(keep) ==
  /\ meta # NoFile /\ keep \in 1 .. Cardinality(DOMAIN meta[1]) - 1
  /\ PurgeFrom(Threshold(keep))

\* update_metadata_after_purge.
PurgeMetadata ==
  /\ job.pc = "purge"
  /\ meta' = <<Delete(meta[1], 0 .. job.id - 1)>>
  /\ job' = [pc |-> "delete", id |-> job.id, todo |-> BackupDirs]
  /\ UNCHANGED <<db, present, node, copies, dirs, metaBak, restore, count>>

\* delete_backups, one directory: as many are kept as are not below the id.
DeleteBackups ==
  /\ job.pc = "delete" /\ job.todo # << >>
  /\ dirs' = [dirs EXCEPT ![Head(job.todo)] = Delete(@, 0 .. job.id - 1)]
  /\ job' = [job EXCEPT !.todo = Tail(@)]
  /\ UNCHANGED <<db, present, node, copies, meta, metaBak, restore, count>>

\* restore_metadata_backup.
DeleteFails ==
  /\ job.pc = "delete" /\ job.todo # << >> /\ May("fail") /\ Counted("fail")
  /\ meta' = metaBak /\ metaBak' = NoFile
  /\ job' = Idle
  /\ UNCHANGED <<db, present, node, copies, dirs, restore>>

\* remove_metadata_backup.
PurgeDone ==
  /\ job.pc = "delete" /\ job.todo = << >>
  /\ metaBak' = NoFile
  /\ job' = Idle
  /\ UNCHANGED <<db, present, node, copies, dirs, meta, restore, count>>
-----------------------------------------------------------------------------
(***************************************************************************)
(* Stopping, restoring and starting.                                       *)
(***************************************************************************)
Crash ==
  /\ May("crash") /\ Counted("crash")
  /\ up \/ restore # Idle
  /\ up' = FALSE /\ l1' = "idle" /\ l2' = "idle" /\ l1Lock' = "free" /\ l2Lock' = "free"
  /\ job' = Idle /\ copies' = {} /\ restore' = Idle
  /\ UNCHANGED <<db, present, files>>

\* A graceful shutdown.
Stop ==
  /\ up /\ l1 = "idle" /\ l2 = "idle" /\ job.pc = "idle" /\ copies = {}
  /\ up' = FALSE
  /\ UNCHANGED <<db, present, l1, l2, l1Lock, l2Lock, job, copies, files, restore, count>>

\* restore_from_backup of one database, into a directory that does not exist yet.
Restored(d, id) == dirs[d][id].db

\* restore_dbs_from_backup: after the validation all databases are built in a temporary
\* directory; one without this backup fails the command.
RestoreBackup(id) ==
  /\ ~up /\ restore = Idle /\ job.pc = "idle" /\ May("restore") /\ Counted("restore")
  /\ Valid /\ \A d \in Dirs : id \in Ids(d)
  /\ restore' = [pc |-> "built", dbs |-> [d \in Dirs |-> Restored(d, id)]]
  /\ UNCHANGED <<db, present, node, job, copies, files>>

\* Existing databases are renamed, then the new ones.
RestoreKeepOld ==
  /\ restore.pc = "built" /\ present
  /\ present' = FALSE
  /\ UNCHANGED <<db, node, job, copies, files, restore, count>>

RestoreRename ==
  /\ restore.pc = "built" /\ ~present
  /\ present' = TRUE /\ db' = restore.dbs
  /\ restore' = Idle
  /\ UNCHANGED <<node, job, copies, files, count>>

\* sync_ledger_and_state_db: a state that is one block ahead is rolled back, with the native
\* database; any other difference is refused.
InSync == db.state \in {db.ledger.head, db.ledger.head + 1}
Synced ==
  IF db.state = db.ledger.head THEN db
  ELSE [db EXCEPT !.state = db.ledger.head, !.native = Min({@, db.ledger.head})]

\* Without databases the node starts with new ones; with databases that do not fit it
\* refuses to.
Start ==
  /\ ~up /\ restore = Idle /\ job.pc = "idle"
  /\ up' = TRUE
  /\ IF present
     THEN InSync /\ db' = Synced
     ELSE db' = Genesis
  /\ present' = TRUE
  /\ UNCHANGED <<l1, l2, l1Lock, l2Lock, job, copies, files, restore, count>>
-----------------------------------------------------------------------------
Tasks == \/ L1Start \/ L1Rows \/ L1Scanned
         \/ L2Start \/ L2State \/ L2Native \/ L2Ledger
Create == LockL1 \/ LockL2 \/ Spawn \/ JoinFails \/ Validate \/ SetMetadata
Threads == \E c \in copies : Copy(c)
Purge == PurgeMetadata \/ DeleteBackups \/ PurgeDone
Calls == \/ CallCreate
         \/ \E id \in 1 .. BackupBound : PurgeFrom(id) \/ PurgeKeeping(id) \/ RestoreBackup(id)
Faults == Crash \/ DeleteFails \/ \E c \in copies : CopyFails(c)
Next == \/ Tasks \/ Create \/ Threads \/ Purge \/ Calls \/ Faults
        \/ RestoreKeepOld \/ RestoreRename \/ Stop \/ Start

Spec == Init /\ [][Next]_vars

\* Every task and thread of a running node goes on, the locks are handed out in the order
\* they were asked for, and files get written.
FairSpec ==
  /\ Spec
  /\ WF_vars(L1Rows \/ L1Scanned) /\ WF_vars(L2State \/ L2Native \/ L2Ledger)
  /\ SF_vars(L1Start) /\ SF_vars(L2Start) /\ SF_vars(LockL1) /\ SF_vars(LockL2)
  /\ WF_vars(Spawn \/ JoinFails \/ Validate \/ SetMetadata) /\ WF_vars(Threads) /\ WF_vars(Purge)
-----------------------------------------------------------------------------
\* Every value is of the kind the code gives it; the numbers of backups in a directory have
\* no gaps.
TypeOK ==
  /\ db.ledger.head \in 0 .. MaxL2 /\ db.ledger.scanned \in 0 .. MaxL1
  /\ db.state \in 0 .. MaxL2 /\ db.native \in 0 .. MaxL2
  /\ {l1Lock, l2Lock} \subseteq {"free", "task", "backup"}
  /\ \A d \in Dirs : \A i \in Ids(d) : i + 1 \in Ids(d) \/ i = Max(Ids(d))
  /\ meta # NoFile => IsTable(meta[1], 1 .. BackupBound, 0 .. MaxL2)

\* When create_backup has both locks, no block is being processed and the databases agree.
\* One kind of block is excluded: a sequencer makes those for missed L1 blocks before it asks
\* for the lock, so one of them may be half written.
QuietUnderLocks ==
  job.pc = "spawn" =>
    /\ l1 = "idle"
    /\ l2 = "idle" => db.state = db.ledger.head
    /\ ~CatchUp => l2 = "idle"

\* A backup the metadata file lists has the recorded height in the ledger and in the state,
\* although the threads copy while blocks are processed.
RecordedHeightReached ==
  meta # NoFile =>
    \A id \in DOMAIN meta[1] :
      /\ id \in Ids("ledger") => dirs["ledger"][id].db.head >= meta[1][id]
      /\ id \in Ids("state") => dirs["state"][id].db >= meta[1][id]

\* A backup the metadata file lists exists: it is listed last and removed first. When a
\* deletion fails the old list comes back whole, so this holds until one does.
MetadataBacked ==
  meta # NoFile /\ count.fail = 0 => \A d \in Dirs : DOMAIN meta[1] \subseteq Ids(d)

\* What restore_dbs_from_backup accepts comes from one call of create_backup, although the
\* directories are numbered one by one and compared by the number of their backups only. That
\* is so after one fault; two that leave out different directories make the numbers equal again.
RestoresOneBackup ==
  ~up /\ job.pc = "idle" /\ Valid /\ count.fail + count.crash <= 1 =>
    \A d, e \in Dirs : \A id \in Ids(d) \cap Ids(e) : dirs[d][id].of = dirs[e][id].of

\* Again and again no call of create_backup or purge_backup is under way, although the
\* locks are contended, and the node has processed every block or is down.
BackupsEnd ==
  []<>(job.pc = "idle" /\ (~up \/ (db.ledger.head = MaxL2 /\ db.ledger.scanned = MaxL1)))
=============================================================================
