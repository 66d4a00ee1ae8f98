---------------------------- MODULE BatchProver -----------------------------
(***************************************************************************)
(* The batch prover node.                                                  *)
(*                                                                         *)
(* Four kinds of task share one ledger.  The L1 syncer stores the          *)
(* commitments it finds on Bitcoin and marks them pending; the L2 syncer   *)
(* stores state diffs and blocks; the prover, woken by either or by a      *)
(* request, cuts what is pending into partitions (module Partitions),      *)
(* starts a proof of each in the zkVM, inserts the job and removes the     *)
(* commitments from the pending table; a watcher per call takes the proofs *)
(* in the order they were started, stores each and hands it to a task that *)
(* submits it to Bitcoin and finalizes the job.  After a restart the       *)
(* prover first recovers the remote sessions the ledger knows and submits  *)
(* every stored proof that has no transaction.                             *)
(*                                                                         *)
(* A commitment is its index; it ends at the L2 block of the same number   *)
(* times BlocksPerCommitment, and its Merkle root matches those blocks     *)
(* (the sequencer is honest).  A panic in one of the node's own tasks      *)
(* brings the node down and is flagged; a panic in a spawned task ends     *)
(* that task only.  Each write to the ledger is one step.                  *)
(***************************************************************************)
EXTENDS Partitions

CONSTANTS
  L1Chains,     \* what Bitcoin may hold: sequences of ascending sequences of indices
  MaxCount,     \* max_commitments_per_proof, 0 when not configured
  Permits,      \* parallel proof limit
  Remote,       \* the zkVM is Bonsai, whose sessions are stored, or local
  Sampling,     \* proofs are sampled: a signal may be skipped
  L2Capacity,   \* capacity of the L2 block broadcast channel
  JobBound,     \* bound: number of jobs
  CrashBound,   \* bound: number of crashes
  FailBound,    \* bound: number of zkVM and submission failures
  CallBound     \* bound: number of RPC calls

BatchProverAssumption ==
  /\ MaxCount \in Nat /\ Permits \in Nat \ {0} /\ L2Capacity \in Nat \ {0}
  /\ Remote \in BOOLEAN /\ Sampling \in BOOLEAN
  /\ JobBound \in Nat /\ CrashBound \in Nat /\ FailBound \in Nat /\ CallBound \in Nat

VARIABLES
  \* ---- the ledger
  stored,      \* SequencerCommitmentByIndex: the end height of each commitment
  byL1,        \* CommitmentIndicesByL1: the indices recorded for some L1 block
  pending,     \* ProverPendingCommitments
  scanned,     \* last scanned L1 height, 0 when none
  diffs,       \* ProverStateDiffs: greatest height with a state diff
  head,        \* head L2 block
  jobs,        \* CommitmentIndicesByJobId
  jobOf,       \* JobIdOfCommitment
  proofs,      \* ProofByJobId: has the proof a transaction id?
  submission,  \* PendingL1SubmissionJobs
  sessions,    \* PendingBonsaiSessionByJobId
  \* ---- Bitcoin
  l1,          \* the finalized blocks
  sent,        \* jobs whose proof was handed to the DA service
  \* ---- syncers
  writing,     \* L1 syncer: block, commitments left in it, writes done for the first
  setting,     \* set_commitments: the same for the call in progress
  l1Signal,    \* l1_signal channel (capacity 1)
  l2Seen,      \* last L2 height the prover has taken from the broadcast
  \* ---- prover
  pc,          \* "recover", "idle", "start", "insert" or "delete"
  recovering,  \* sessions the recovery waits for
  recovered,   \* jobs whose proof the recovery has collected
  target,      \* sync_target_l2_height
  paused,      \* proving_paused
  requests,    \* request channel
  parts,       \* partitions not yet handled by the current call
  call,        \* first job number of the current call: names its watcher
  nextId,      \* number of the next job
  \* ---- background tasks
  watch,       \* watcher of each call: the jobs in its channel
  vm,          \* zkVM runs: "proving", "ready" (proof in the channel) or "failed"
  closing,     \* Bonsai handlers that have sent the proof and not removed the session
  submits,     \* submission tasks: TRUE once the DA service has the proof
  retry,       \* retry_proving_job: commitments not yet pending again
  panic,       \* a task of the node has panicked
  \* ---- bookkeeping
  covers,      \* the commitments each started proof is about
  lost,        \* commitments in flight between two writes when the node crashed
  again,       \* commitments still pending with their proof started when the node crashed
  crashes, fails, calls

ledgerL1  == <<stored, byL1, pending, scanned>>
ledgerL2  == <<diffs, head>>
ledgerJob == <<jobs, jobOf, proofs, submission, sessions>>
ledger    == <<ledgerL1, ledgerL2, ledgerJob>>
bitcoin   == <<l1, sent>>
syncers   == <<writing, setting, l1Signal>>
recovery  == <<recovering, recovered>>
plan      == <<parts, call, nextId>>
tasks     == <<watch, vm, closing, submits>>
counters  == <<covers, lost, again, crashes, fails, calls>>
vars == <<ledger, bitcoin, syncers, l2Seen, pc, recovery, target, paused, requests, plan,
          tasks, retry, panic, counters>>

Indices == UNION {ToSet(l1[h]) : h \in DOMAIN l1}
EndOf(i) == i
MaxHead == IF Indices = {} THEN 0 ELSE EndOf(CHOOSE i \in Indices : \A j \in Indices : j <= i)
Env == [maxCount |-> MaxCount, maxDiff |-> 1, spec |-> [h \in 1 .. MaxHead |-> 1],
        diff |-> [h \in 1 .. MaxHead |-> {}]]

NoWrite == [block |-> 0, left |-> << >>, done |-> 0]

Init ==
  /\ l1 \in L1Chains /\ sent = {}
  /\ stored = EmptyTable /\ byL1 = {} /\ pending = {} /\ scanned = 0
  /\ diffs = 0 /\ head = 0
  /\ jobs = EmptyTable /\ jobOf = EmptyTable /\ proofs = EmptyTable
  /\ submission = {} /\ sessions = {}
  /\ writing = NoWrite /\ setting = NoWrite /\ l1Signal = FALSE /\ l2Seen = 0
  /\ pc = "recover" /\ recovering = {} /\ recovered = {}
  /\ target = NoTarget /\ paused = FALSE /\ requests = << >>
  /\ parts = << >> /\ call = 0 /\ nextId = 1
  /\ watch = EmptyTable /\ vm = EmptyTable /\ closing = {} /\ submits = EmptyTable
  /\ retry = << >> /\ panic = FALSE
  /\ covers = EmptyTable /\ lost = {} /\ again = {} /\ crashes = 0 /\ fails = 0 /\ calls = 0
-----------------------------------------------------------------------------
\* The block to scan next: after a restart the last scanned one is read again.
\* writing.block is 0 until the first block of this run of the node.
NextBlock == IF writing.block = 0 THEN IF scanned = 0 THEN 1 ELSE scanned
             ELSE writing.block + 1

\* Takes the next block and its commitments, ascending and without index 0.
OpenL1Block ==
  /\ writing.left = << >> /\ writing.done = 0
  /\ NextBlock \in DOMAIN l1
  /\ writing' = [block |-> NextBlock, left |-> l1[NextBlock], done |-> 1]
  /\ UNCHANGED <<ledger, bitcoin, setting, l1Signal, l2Seen, pc, recovery, target, paused,
                 requests, plan, tasks, retry, panic, counters>>

\* A known commitment is only reported.
SkipKnown ==
  /\ writing.left # << >> /\ writing.done = 1
  /\ Head(writing.left) \in DOMAIN stored
  /\ writing' = [writing EXCEPT !.left = Tail(@)]
  /\ UNCHANGED <<ledger, bitcoin, setting, l1Signal, l2Seen, pc, recovery, target, paused,
                 requests, plan, tasks, retry, panic, counters>>

\* The three writes for the commitment i; w is the progress before, v after.
PutCommitment(i, w, v) ==
  \/ w.done = 1 /\ stored' = Put(stored, i, EndOf(i)) /\ v = [w EXCEPT !.done = 2]
     /\ UNCHANGED <<byL1, pending>>
  \/ w.done = 2 /\ byL1' = byL1 \cup {i} /\ v = [w EXCEPT !.done = 3]
     /\ UNCHANGED <<stored, pending>>
  \/ w.done = 3 /\ pending' = pending \cup {i} /\ v = [w EXCEPT !.left = Tail(@), !.done = 1]
     /\ UNCHANGED <<stored, byL1>>

StoreCommitment ==
  /\ writing.left # << >>
  /\ writing.done = 1 => Head(writing.left) \notin DOMAIN stored
  /\ PutCommitment(Head(writing.left), writing, writing')
  /\ UNCHANGED <<scanned, ledgerL2, ledgerJob, bitcoin, setting, l1Signal, l2Seen, pc,
                 recovery, target, paused, requests, plan, tasks, retry, panic, counters>>

\* Mutant: the signal is sent when the first block of the queue is done.
MutCloseL1Block ==
  /\ writing.left = << >> /\ writing.done = 1
  /\ scanned' = writing.block
  /\ writing' = [writing EXCEPT !.done = 0]
  /\ l1Signal' = (l1Signal \/ writing.block = 1)
  /\ UNCHANGED <<stored, byL1, pending, ledgerL2, ledgerJob, bitcoin, setting, l2Seen, pc,
                 recovery, target, paused, requests, plan, tasks, retry, panic, counters>>

\* The block is done: the scanned height is set and the block leaves the queue. When it
\* was the last of the queue the prover is signalled; a full channel already holds a
\* signal. The queue ends before any block that is not downloaded yet.
CloseL1Block ==
  /\ writing.left = << >> /\ writing.done = 1
  /\ scanned' = writing.block
  /\ writing' = [writing EXCEPT !.done = 0]
  /\ l1Signal' \in {TRUE, l1Signal \/ writing.block = Len(l1)}
  /\ UNCHANGED <<stored, byL1, pending, ledgerL2, ledgerJob, bitcoin, setting, l2Seen, pc,
                 recovery, target, paused, requests, plan, tasks, retry, panic, counters>>
-----------------------------------------------------------------------------
(***************************************************************************)
(* The L2 syncer: process_l2_block.                                        *)
(***************************************************************************)
SetL2StateDiff ==
  /\ diffs = head /\ head < MaxHead
  /\ diffs' = head + 1
  /\ UNCHANGED <<ledgerL1, head, ledgerJob, bitcoin, syncers, l2Seen, pc, recovery, target,
                 paused, requests, plan, tasks, retry, panic, counters>>

\* Commits the block and broadcasts its height.
CommitL2Block ==
  /\ diffs > head
  /\ head' = head + 1
  /\ UNCHANGED <<ledgerL1, diffs, ledgerJob, bitcoin, syncers, l2Seen, pc, recovery, target,
                 paused, requests, plan, tasks, retry, panic, counters>>
-----------------------------------------------------------------------------
(***************************************************************************)
(* The prover: run, try_proving and the handling of one partition.         *)
(***************************************************************************)
\* The calls that read the pending commitments and the state diffs of the partitions
\* expect each of them to be there.
ReadsFail(r) == \E k \in DOMAIN r.parts : r.parts[k].end > diffs

\* create_circuit_input and get_prev_hash_proof expect the two commitments before the
\* partition: the previous one, and the one that tells where the previous one starts.
InputFails(p) ==
  LET i == p.indices[1]
  IN \/ p.end > head
     \/ i > 1 /\ i - 1 \notin DOMAIN stored
     \/ i > 2 /\ i - 2 \notin DOMAIN stored

\* should_prove: with sampling a signal may be skipped, a request never is.
MaySkip(sampled) == sampled /\ Sampling

\* try_proving up to the loop over the partitions: skips, or cuts the pending commitments
\* and starts a watcher for this call.
TryProving(mode, sampled) ==
  \/ /\ paused \/ MaySkip(sampled) \/ pending = {}
     /\ UNCHANGED <<pc, target, parts, call, watch, panic>>
  \/ /\ ~paused /\ pending # {} /\ ~(pending \subseteq DOMAIN stored)
     /\ panic' = TRUE
     /\ UNCHANGED <<pc, target, parts, call, watch>>
  \/ /\ ~paused /\ pending # {} /\ pending \subseteq DOMAIN stored
     /\ \E r \in {CreatePartitions(SetToSortSeq(pending, <), stored, head, mode, Env)} :
           /\ panic' = ReadsFail(r)
           /\ target' = r.target
           /\ IF r.parts = << >> \/ ReadsFail(r) THEN UNCHANGED <<pc, parts, call, watch>>
              ELSE /\ pc' = "start" /\ parts' = r.parts /\ call' = nextId
                   /\ watch' = Put(watch, nextId, << >>)

\* The branches of the select, in its biased order.
Idle == pc = "idle" /\ ~panic /\ nextId <= JobBound

OnL1Signal ==
  /\ Idle /\ l1Signal
  /\ l1Signal' = FALSE
  /\ TryProving("Normal", TRUE)
  /\ UNCHANGED <<ledger, bitcoin, writing, setting, l2Seen, recovery, paused, requests,
                 nextId, vm, closing, submits, retry, counters>>

\* A receiver that lags is told so and goes on with the oldest height still held.
OnL2Block ==
  /\ Idle /\ ~l1Signal /\ l2Seen < head
  /\ l2Seen' = IF head - l2Seen > L2Capacity THEN head - L2Capacity + 1 ELSE l2Seen + 1
  /\ IF target # NoTarget /\ l2Seen' >= target THEN TryProving("Normal", TRUE)
     ELSE UNCHANGED <<pc, target, parts, call, watch, panic>>
  /\ UNCHANGED <<ledger, bitcoin, syncers, recovery, paused, requests, nextId, vm, closing,
                 submits, retry, counters>>

\* Pause, Prove and CreateInput. The input of a CreateInput is only returned, but the
\* partitions are made by the function that also sets the sync target.
OnRequest ==
  /\ Idle /\ ~l1Signal /\ l2Seen = head /\ requests # << >>
  /\ requests' = Tail(requests)
  /\ LET r == Head(requests)
         c == CreatePartitions(r.cs, stored, head, r.mode, Env)
     IN \/ /\ r.kind = "pause"
           /\ paused' = TRUE
           /\ UNCHANGED <<pc, target, parts, call, watch, panic>>
        \/ /\ r.kind = "prove"
           /\ TryProving(r.mode, FALSE)
           /\ UNCHANGED paused
        \/ /\ r.kind = "input"
           /\ target' = c.target
           /\ panic' = (ReadsFail(c) \/ \E k \in DOMAIN c.parts : InputFails(c.parts[k]))
           /\ UNCHANGED <<paused, pc, parts, call, watch>>
  /\ UNCHANGED <<ledger, bitcoin, syncers, l2Seen, recovery, nextId, vm, closing, submits,
                 retry, counters>>

\* The permits taken, and whether one is left.
Busy == {id \in DOMAIN vm : vm[id] = "proving"}
HasSlot == Cardinality(Busy) < Permits

\* start_proving: the zkVM runs, and a remote session is stored at once.
StartProving(id) ==
  /\ vm' = Put(vm, id, "proving")
  /\ sessions' = IF Remote THEN sessions \cup {id} ELSE sessions

\* Creates the input, waits for a permit, starts the proof and passes the receiver to the
\* watcher. A dead watcher is an error that ends the call with the proof already running.
StartJob ==
  /\ pc = "start" /\ ~panic /\ nextId <= JobBound
  /\ IF InputFails(Head(parts))
     THEN /\ panic' = TRUE
          /\ UNCHANGED <<pc, parts, nextId, vm, sessions, watch, covers>>
     ELSE /\ HasSlot
          /\ StartProving(nextId)
          /\ nextId' = nextId + 1
          /\ covers' = Put(covers, nextId, ToSet(Head(parts).indices))
          /\ IF call \in DOMAIN watch
             THEN /\ watch' = [watch EXCEPT ![call] = Append(@, nextId)]
                  /\ pc' = "insert" /\ UNCHANGED parts
             ELSE pc' = "idle" /\ parts' = << >> /\ UNCHANGED watch
          /\ UNCHANGED panic
  /\ UNCHANGED <<ledgerL1, ledgerL2, jobs, jobOf, proofs, submission, bitcoin, syncers,
                 l2Seen, recovery, target, paused, requests, call, closing, submits, retry,
                 lost, again, crashes, fails, calls>>

\* The zkVM refuses the proof: the call ends with an error, the rest stays pending.
StartFails ==
  /\ pc = "start" /\ ~panic /\ fails < FailBound
  /\ ~InputFails(Head(parts)) /\ HasSlot
  /\ pc' = "idle" /\ parts' = << >> /\ fails' = fails + 1
  /\ UNCHANGED <<ledger, bitcoin, syncers, l2Seen, recovery, target, paused, requests, call,
                 nextId, tasks, retry, panic, covers, lost, again, crashes, calls>>

\* insert_new_proving_job.
InsertJob ==
  /\ pc = "insert"
  /\ LET is == ToSet(Head(parts).indices)
     IN /\ jobs' = Put(jobs, nextId - 1, Head(parts).indices)
        /\ jobOf' = [i \in DOMAIN jobOf \cup is |-> IF i \in is THEN nextId - 1 ELSE jobOf[i]]
  /\ pc' = "delete"
  /\ UNCHANGED <<ledgerL1, ledgerL2, proofs, submission, sessions, bitcoin, syncers, l2Seen,
                 recovery, target, paused, requests, plan, tasks, retry, panic, counters>>

\* Mutant: the commitments of the job stay pending.
MutDeletePending ==
  /\ pc = "delete"
  /\ parts' = Tail(parts)
  /\ pc' = IF Tail(parts) = << >> THEN "idle" ELSE "start"
  /\ UNCHANGED <<ledger, bitcoin, syncers, l2Seen, recovery, target, paused, requests, call,
                 nextId, tasks, retry, panic, counters>>

\* delete_prover_pending_commitments, then the next partition.
DeletePending ==
  /\ pc = "delete"
  /\ pending' = pending \ ToSet(Head(parts).indices)
  /\ parts' = Tail(parts)
  /\ pc' = IF Tail(parts) = << >> THEN "idle" ELSE "start"
  /\ UNCHANGED <<stored, byL1, scanned, ledgerL2, ledgerJob, bitcoin, syncers, l2Seen,
                 recovery, target, paused, requests, call, nextId, tasks, retry, panic,
                 counters>>
-----------------------------------------------------------------------------
(***************************************************************************)
(* The zkVM, the watchers and the submission tasks.                        *)
(***************************************************************************)
Watched(id) == \E c \in DOMAIN watch : id \in ToSet(watch[c])

\* The proof is done and passed on: the permit is free. Nobody may be there to take it.
VmDone(id) ==
  /\ id \in Busy
  /\ vm' = IF Watched(id) THEN [vm EXCEPT ![id] = "ready"] ELSE Delete(vm, {id})
  /\ closing' = IF Remote THEN closing \cup {id} ELSE closing
  /\ UNCHANGED <<ledger, bitcoin, syncers, l2Seen, pc, recovery, target, paused, requests,
                 plan, watch, submits, retry, panic, counters>>

\* The run fails and the channel closes; a remote session stays in the ledger.
VmFails(id) ==
  /\ id \in Busy /\ fails < FailBound
  /\ vm' = IF Watched(id) THEN [vm EXCEPT ![id] = "failed"] ELSE Delete(vm, {id})
  /\ fails' = fails + 1
  /\ UNCHANGED <<ledger, bitcoin, syncers, l2Seen, pc, recovery, target, paused, requests,
                 plan, watch, closing, submits, retry, panic, covers, lost, again, crashes, calls>>

\* The handler of a remote session removes it once the proof was passed on.
RemoveSession(id) ==
  /\ id \in closing
  /\ sessions' = sessions \ {id}
  /\ closing' = closing \ {id}
  /\ UNCHANGED <<ledgerL1, ledgerL2, jobs, jobOf, proofs, submission, bitcoin, syncers,
                 l2Seen, pc, recovery, target, paused, requests, plan, watch, vm, submits,
                 retry, panic, counters>>

\* put_proof_by_job_id: the proof has no transaction yet and waits for submission.
PutProof(id) ==
  /\ proofs' = Put(proofs, id, FALSE)
  /\ submission' = submission \cup {id}

\* The proof of the job is there; the zkVM being sound, its output is that of the job's
\* input and verifies under the code commitment of its fork (extract_proof_output).
HasProof(id) == vm[id] = "ready"

\* The watcher of call c takes the proof of its first job, stores it and spawns the task
\* that submits it.
WatchProof(c) ==
  /\ c \in DOMAIN watch /\ watch[c] # << >>
  /\ LET id == Head(watch[c])
     IN /\ HasProof(id)
        /\ PutProof(id)
        /\ vm' = Delete(vm, {id})
        /\ submits' = Put(submits, id, FALSE)
  /\ watch' = [watch EXCEPT ![c] = Tail(@)]
  /\ UNCHANGED <<ledgerL1, ledgerL2, jobs, jobOf, sessions, bitcoin, syncers, l2Seen, pc,
                 recovery, target, paused, requests, plan, closing, retry, panic, counters>>

\* The channel of its first job is closed: the watcher panics and its jobs go unwatched.
WatchPanics(c) ==
  /\ c \in DOMAIN watch /\ watch[c] # << >>
  /\ vm[Head(watch[c])] = "failed"
  /\ vm' = Delete(vm, {id \in ToSet(watch[c]) : vm[id] # "proving"})
  /\ watch' = Delete(watch, {c})
  /\ UNCHANGED <<ledger, bitcoin, syncers, l2Seen, pc, recovery, target, paused, requests,
                 plan, closing, submits, retry, panic, counters>>

Submit(id) ==
  /\ id \in DOMAIN submits /\ ~submits[id]
  /\ sent' = sent \cup {id}
  /\ submits' = [submits EXCEPT ![id] = TRUE]
  /\ UNCHANGED <<ledger, l1, syncers, l2Seen, pc, recovery, target, paused, requests, plan,
                 watch, vm, closing, retry, panic, counters>>

SubmitFails(id) ==
  /\ id \in DOMAIN submits /\ ~submits[id] /\ fails < FailBound
  /\ submits' = Delete(submits, {id})
  /\ fails' = fails + 1
  /\ UNCHANGED <<ledger, bitcoin, syncers, l2Seen, pc, recovery, target, paused, requests,
                 plan, watch, vm, closing, retry, panic, covers, lost, again, crashes, calls>>

\* finalize_proving_job; the task panics when a retry has removed the job.
Finalize(id) ==
  /\ id \in DOMAIN submits /\ submits[id]
  /\ IF id \in DOMAIN proofs /\ ~proofs[id]
     THEN proofs' = [proofs EXCEPT ![id] = TRUE] /\ submission' = submission \ {id}
     ELSE UNCHANGED <<proofs, submission>>
  /\ submits' = Delete(submits, {id})
  /\ UNCHANGED <<ledgerL1, ledgerL2, jobs, jobOf, sessions, bitcoin, syncers, l2Seen, pc,
                 recovery, target, paused, requests, plan, watch, vm, closing, retry, panic,
                 counters>>
-----------------------------------------------------------------------------
(***************************************************************************)
(* Crash and recovery.                                                     *)
(***************************************************************************)
\* A commitment between its first and its last write.
HalfWritten(w) == IF w.left # << >> /\ w.done \in {2, 3} THEN {Head(w.left)} ELSE {}

\* What no table remembers if the node stops now: a commitment stored and not yet
\* pending, one whose job a retry has removed, one whose proof is in memory only.
Exposed ==
  (HalfWritten(writing) \cup HalfWritten(setting) \cup ToSet(retry)
     \cup UNION {covers[id] : id \in (DOMAIN vm \cup DOMAIN submits) \ (sessions \cup submission)})
  \ pending

\* What is proved again if the node stops now: the proof is started, and the commitments are
\* not yet removed from the pending table.
Repeated == IF pc \in {"insert", "delete"} THEN ToSet(Head(parts).indices) ELSE {}

\* get_pending_bonsai_sessions: the local prover has none.
PendingSessions == IF Remote THEN sessions ELSE {}

\* The node stops between any two writes and starts again.
Crash ==
  /\ crashes < CrashBound
  /\ crashes' = crashes + 1
  /\ lost' = lost \cup Exposed /\ again' = again \cup Repeated
  /\ pc' = "recover" /\ recovered' = {}
  /\ recovering' = PendingSessions
  /\ writing' = NoWrite /\ setting' = NoWrite /\ l1Signal' = FALSE /\ l2Seen' = head
  /\ target' = NoTarget /\ paused' = FALSE /\ requests' = << >>
  /\ parts' = << >> /\ call' = 0
  /\ watch' = EmptyTable /\ vm' = EmptyTable /\ closing' = {} /\ submits' = EmptyTable
  /\ retry' = << >> /\ panic' = FALSE
  /\ UNCHANGED <<ledger, bitcoin, nextId, covers, fails, calls>>

\* A recovered session yields its proof, which is stored; its handler will remove it.
RecoverSession(id) ==
  /\ pc = "recover" /\ ~panic /\ id \in recovering
  /\ PutProof(id)
  /\ recovering' = recovering \ {id}
  /\ recovered' = recovered \cup {id}
  /\ closing' = closing \cup {id}
  /\ UNCHANGED <<ledgerL1, ledgerL2, jobs, jobOf, sessions, bitcoin, syncers, l2Seen, pc,
                 target, paused, requests, plan, watch, vm, submits, retry, panic, counters>>

\* Its channel closes instead: the prover panics.
RecoveryPanics ==
  /\ pc = "recover" /\ ~panic /\ recovering # {} /\ fails < FailBound
  /\ panic' = TRUE /\ fails' = fails + 1
  /\ UNCHANGED <<ledger, bitcoin, syncers, l2Seen, pc, recovery, target, paused, requests,
                 plan, tasks, retry, covers, lost, again, crashes, calls>>

\* Mutant: only the proofs collected now are submitted.
MutFinishRecovery ==
  /\ pc = "recover" /\ ~panic /\ recovering = {}
  /\ submits' = [id \in recovered |-> FALSE]
  /\ pc' = "idle" /\ recovered' = {}
  /\ UNCHANGED <<ledger, bitcoin, syncers, l2Seen, recovering, target, paused, requests,
                 plan, watch, vm, closing, retry, panic, counters>>

\* All sessions are in: what was collected and every stored proof that waits for
\* submission is submitted. A waiting proof that has a transaction is a panic.
FinishRecovery ==
  /\ pc = "recover" /\ ~panic /\ recovering = {}
  /\ panic' = (\E id \in submission \ recovered : id \notin DOMAIN proofs \/ proofs[id])
  /\ submits' = [id \in submission \cup recovered |-> FALSE]
  /\ pc' = "idle" /\ recovered' = {}
  /\ UNCHANGED <<ledger, bitcoin, syncers, l2Seen, recovering, target, paused, requests,
                 plan, watch, vm, closing, retry, counters>>
-----------------------------------------------------------------------------
(***************************************************************************)
(* The RPC server.                                                         *)
(***************************************************************************)
Request(k, m, c) == [kind |-> k, mode |-> m, cs |-> c]
HasRoom == Len(requests) < 4

\* prove, pause_proving and create_circuit_input queue a request; the latter reads the
\* known commitments of a range.
CallProver ==
  /\ calls < CallBound /\ HasRoom
  /\ \/ \E m \in {"Normal", "OneByOne"} : requests' = Append(requests, Request("prove", m, << >>))
     \/ requests' = Append(requests, Request("pause", "Normal", << >>))
     \/ \E lo, hi \in Indices, m \in {"Normal", "OneByOne"} :
          LET known == DOMAIN stored \cap (lo .. hi)
          IN /\ known # {}
             /\ requests' = Append(requests, Request("input", m, SetToSortSeq(known, <)))
  /\ calls' = calls + 1
  /\ UNCHANGED <<ledger, bitcoin, syncers, l2Seen, pc, recovery, target, paused, plan, tasks,
                 retry, panic, covers, lost, again, crashes, fails>>

\* set_commitments with one commitment: overwrites it, write by write, and asks nobody to
\* prove it.
CallSetCommitments ==
  /\ calls < CallBound /\ setting.left = << >>
  /\ \E i \in Indices : setting' = [block |-> 0, left |-> <<i>>, done |-> 1]
  /\ calls' = calls + 1
  /\ UNCHANGED <<ledger, bitcoin, writing, l1Signal, l2Seen, pc, recovery, target, paused,
                 requests, plan, tasks, retry, panic, covers, lost, again, crashes, fails>>

SetCommitment ==
  /\ setting.left # << >>
  /\ PutCommitment(Head(setting.left), setting, setting')
  /\ UNCHANGED <<scanned, ledgerL2, ledgerJob, bitcoin, writing, l1Signal, l2Seen, pc,
                 recovery, target, paused, requests, plan, tasks, retry, panic, counters>>

\* retry_proving_job: removes every record of the job ...
CallRetry(id) ==
  /\ calls < CallBound /\ retry = << >> /\ id \in DOMAIN jobs
  /\ jobs' = Delete(jobs, {id})
  /\ jobOf' = Delete(jobOf, ToSet(jobs[id]))
  /\ proofs' = Delete(proofs, {id})
  /\ submission' = submission \ {id} /\ sessions' = sessions \ {id}
  /\ retry' = jobs[id]
  /\ calls' = calls + 1
  /\ UNCHANGED <<ledgerL1, ledgerL2, bitcoin, syncers, l2Seen, pc, recovery, target, paused,
                 requests, plan, tasks, panic, covers, lost, again, crashes, fails>>

\* ... makes its commitments pending one by one, and asks for a proof behind the last.
RetryPut ==
  /\ retry # << >> /\ (Len(retry) = 1 => HasRoom)
  /\ pending' = pending \cup {Head(retry)}
  /\ retry' = Tail(retry)
  /\ requests' = IF Len(retry) = 1 THEN Append(requests, Request("prove", "Normal", << >>))
                 ELSE requests
  /\ UNCHANGED <<stored, byL1, scanned, ledgerL2, ledgerJob, bitcoin, syncers, l2Seen, pc,
                 recovery, target, paused, plan, tasks, panic, counters>>
-----------------------------------------------------------------------------
Ids == 1 .. JobBound

L1Syncer == OpenL1Block \/ SkipKnown \/ StoreCommitment \/ CloseL1Block
L2Syncer == SetL2StateDiff \/ CommitL2Block
Recovery == FinishRecovery \/ \E id \in Ids : RecoverSession(id)
ProverTask == OnL1Signal \/ OnL2Block \/ OnRequest \/ StartJob \/ InsertJob \/ DeletePending
ZkVm == \E id \in Ids : VmDone(id)
Handlers == \E id \in Ids : RemoveSession(id)
Watchers == \E c \in Ids : WatchProof(c) \/ WatchPanics(c)
Submissions == \E id \in Ids : Submit(id) \/ Finalize(id)
RpcTasks == SetCommitment \/ RetryPut
RpcCalls == CallProver \/ CallSetCommitments \/ \E id \in Ids : CallRetry(id)
Faults == \/ Crash \/ StartFails \/ RecoveryPanics
          \/ \E id \in Ids : VmFails(id) \/ SubmitFails(id)

NodeStep == L1Syncer \/ L2Syncer \/ Recovery \/ ZkVm \/ Handlers \/ Watchers \/ Submissions
              \/ RpcTasks \/ ProverTask
Next == NodeStep \/ RpcCalls \/ Faults

Spec == Init /\ [][Next]_vars

\* The node does not stop while a task of it can go on, the zkVM and the DA service
\* included. Every task comes to an end on its own, so more is not needed. Crashes,
\* failures and calls need not happen.
FairSpec == Spec /\ WF_vars(NodeStep)
-----------------------------------------------------------------------------
\* Each table and channel holds what its schema and its users expect.
TypeOK ==
  /\ IsTable(stored, Indices, 1 .. MaxHead) /\ byL1 \subseteq Indices
  /\ pending \subseteq DOMAIN stored
  /\ scanned \in 0 .. Len(l1) /\ head \in 0 .. MaxHead /\ diffs \in {head, head + 1}
  /\ IsTable(jobs, Ids, Seq(Indices)) /\ IsTable(jobOf, Indices, Ids)
  /\ IsTable(proofs, Ids, BOOLEAN) /\ submission \subseteq Ids /\ sessions \subseteq Ids
  /\ pc \in {"recover", "idle", "start", "insert", "delete"}
  /\ pc \in {"start", "insert", "delete"} <=> parts # << >>
  /\ target \in 0 .. MaxHead
  /\ IsTable(vm, Ids, {"proving", "ready", "failed"}) /\ closing \subseteq Ids
  /\ \A c \in DOMAIN watch : ToSet(watch[c]) \subseteq DOMAIN vm
  /\ Cardinality(Busy) <= Permits
  /\ lost \cup again \subseteq Indices

\* The proof is on Bitcoin, or some table or task still leads to its submission.
Alive(id) == id \in sent \cup DOMAIN proofs \cup sessions \cup DOMAIN vm \cup DOMAIN submits

\* No stored commitment is forgotten: it is pending, on its way to be, the subject of a
\* proof that some table or task will finish, or was exposed when the node stopped. The order of the
\* writes in try_proving (start, insert, delete) and in the retry is what this needs.
NothingForgotten ==
  \A i \in DOMAIN stored :
    \/ i \in pending \cup lost \cup HalfWritten(writing) \cup HalfWritten(setting) \cup ToSet(retry)
    \/ \E id \in DOMAIN covers : i \in covers[id] /\ Alive(id)

\* A commitment is proved once, unless the node stopped between the start of its proof and
\* the removal from the pending table, the chance that the TODO of recover_proving_sessions
\* (prover.rs lines 795-796) leaves open: no two started proofs are about it, and it is not
\* pending any more once the records of its job are complete. A retry is meant to prove
\* again, and so does the next call behind a watcher that has died.
ProvedOnce ==
  /\ \A a, b \in DOMAIN covers : a # b => covers[a] \cap covers[b] \subseteq again
  /\ \A a \in DOMAIN covers :
       (a = nextId - 1 /\ pc \in {"insert", "delete"}) \/ covers[a] \cap pending \subseteq again

\* A stored proof is either on Bitcoin with its transaction recorded, or marked for
\* submission in the ledger and, once the recovery is over and unless a submission has
\* failed, in the hands of a task.
ProofsGetSubmitted ==
  \A id \in DOMAIN proofs :
    IF proofs[id] THEN id \in sent
    ELSE id \in submission /\ (pc # "recover" /\ fails = 0 => id \in DOMAIN submits)

\* The L1 block a commitment is found in first.
FoundIn(i) == CHOOSE h \in DOMAIN l1 : i \in ToSet(l1[h]) /\ \A k \in 1 .. h - 1 : i \notin ToSet(l1[k])

\* Three consecutive commitments were mined in descending order, or the lowest of them not
\* at all.
Descending ==
  \E i \in Indices :
    /\ i > 2 /\ i - 1 \in Indices /\ FoundIn(i) < FoundIn(i - 1)
    /\ i - 2 \in Indices => FoundIn(i - 1) < FoundIn(i - 2)

\* None of the expectations of the prover task fails: pending commitments are stored,
\* blocks up to the head have state diffs, the commitments before a partition are known,
\* a proof that waits for submission has no transaction. The exception: of three
\* commitments in descending order the last one is pending when the one before it is stored
\* and not yet pending, a proof of the last one alone is started, and get_prev_hash_proof
\* does not find the first ("Previous commitment should exist", prover.rs line 1188).
NoPanic == panic => Descending /\ pc = "start" /\ Head(parts).indices[1] > 2

\* Nothing provable waits without something to wake the prover: when every signal has been
\* taken and both syncers are done, the next call would find nothing to prove. The exception:
\* of three commitments in descending order the middle one may be proved first, the gap it
\* leaves ends the partitions of the next call, and the last one waits for another L1 block.
Quiet ==
  /\ pc = "idle" /\ ~l1Signal /\ l2Seen = head /\ requests = << >> /\ retry = << >>
  /\ ~paused /\ writing.block = Len(l1) /\ writing.done = 0
NoLostWakeup ==
  Quiet /\ pending # {} =>
    \/ Descending
    \/ CreatePartitions(SetToSortSeq(pending, <), stored, head, "Normal", Env).parts = << >>

\* Every commitment on Bitcoin gets a finished job, unless a crash met it exposed, and
\* again and again every stored proof is on Bitcoin.
Finished(i) == \E id \in DOMAIN jobs : i \in ToSet(jobs[id]) /\ id \in DOMAIN proofs /\ proofs[id]
AllProved == \A i \in Indices : Finished(i) \/ i \in lost
CommitmentsGetProved == []<>(AllProved /\ DOMAIN proofs \subseteq sent)

\* A call always ends: a run of the zkVM that fails gives its permit back like one that
\* succeeds, so the prover does not wait for a slot for ever (up to the bound on jobs).
ProverComesBack == []<>(pc = "idle" \/ panic \/ nextId > JobBound)
-----------------------------------------------------------------------------
(***************************************************************************)
(* An operator stops the prover, rolls its ledger back and starts it       *)
(* again: BatchProverLedgerRollback over the tables above.  The sessions   *)
(* of the remote prover are in none of the tables it visits.               *)
(***************************************************************************)
CONSTANT RollBound   \* bound: number of rollbacks

RollBoundAssumption == RollBound \in Nat

VARIABLE rolls       \* number of rollbacks

rollVars == <<vars, rolls>>

RollInit == Init /\ rolls = 0

Found(h) == UNION {ToSet(l1[k]) : k \in 1 .. h}

\* The last commitment index up to the L1 height: what an operator gives with the height.
LastIndex(h) == IF Found(h) = {} THEN 0 ELSE Max(Found(h))

\* Mutant: the job of a deleted commitment is still known.
MutRollbackCommitments(last) ==
  LET gone == {i \in DOMAIN stored : i > last}
      dead == {id \in DOMAIN jobs : \A i \in ToSet(jobs[id]) : i > last}
  IN /\ stored' = Delete(stored, gone) /\ pending' = pending \ gone
     /\ jobs' = Delete(jobs, dead) /\ proofs' = Delete(proofs, dead)
     /\ submission' = submission \ dead
     /\ UNCHANGED jobOf

\* rollback_commitments: the commitments after the last one, and the jobs that are about
\* nothing else.
RollbackCommitments(last) ==
  LET gone == {i \in DOMAIN stored : i > last}
      dead == {id \in DOMAIN jobs : \A i \in ToSet(jobs[id]) : i > last}
  IN /\ stored' = Delete(stored, gone) /\ pending' = pending \ gone
     /\ jobOf' = Delete(jobOf, gone)
     /\ jobs' = Delete(jobs, dead) /\ proofs' = Delete(proofs, dead)
     /\ submission' = submission \ dead

\* rollback_slots and the last scanned height.
RollbackSlots(h) ==
  /\ byL1' = byL1 \cap Found(h)
  /\ scanned' = h

\* rollback_l2: a state diff set for a block that was not committed stays; it is set again
\* before the block is.
RollbackL2(n) == head' = n /\ diffs' = n

\* The node stops between any two writes, is rolled back and starts.
Rollback ==
  /\ rolls < RollBound /\ scanned > 0
  /\ \E h \in 1 .. scanned, n \in 0 .. head :
       /\ RollbackL2(n)
       /\ RollbackCommitments(LastIndex(h))
       /\ RollbackSlots(h)
       /\ lost' = {i \in lost \cup Exposed : i <= LastIndex(h)}
       /\ l2Seen' = n
  /\ rolls' = rolls + 1
  /\ pc' = "recover" /\ recovered' = {}
  /\ recovering' = IF Remote THEN sessions ELSE {}
  /\ writing' = NoWrite /\ setting' = NoWrite /\ l1Signal' = FALSE
  /\ target' = NoTarget /\ paused' = FALSE /\ requests' = << >>
  /\ parts' = << >> /\ call' = 0
  /\ watch' = EmptyTable /\ vm' = EmptyTable /\ closing' = {} /\ submits' = EmptyTable
  /\ retry' = << >> /\ panic' = FALSE
  /\ UNCHANGED <<sessions, bitcoin, nextId, covers, again, crashes, fails, calls>>

RollNext == (Next /\ UNCHANGED rolls) \/ Rollback

RollSpec == RollInit /\ [][RollNext]_rollVars
-----------------------------------------------------------------------------
\* The two directions of the job index agree wherever a rollback has cut them: the job a
\* commitment points to exists and is about it (rollback_commitments, lines 74-127).
JobIndexAgrees == \A i \in DOMAIN jobOf : jobOf[i] \in DOMAIN jobs /\ i \in ToSet(jobs[jobOf[i]])

\* What a rolled back node finds on Bitcoin is stored again, with the row that leads from
\* the L1 block to it.
L1IndexComplete ==
  \A i \in DOMAIN stored : i \in byL1 \cup HalfWritten(writing) \cup HalfWritten(setting) \cup lost

\* From some time on every commitment on Bitcoin has a finished job, a rollback in between
\* or not, unless the node was stopped while no table knew of it.
StaysProved == <>[]AllProved
=============================================================================
