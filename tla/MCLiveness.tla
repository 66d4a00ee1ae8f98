----------------------------- MODULE MCLiveness -----------------------------
(***************************************************************************)
(* What must eventually happen, for TLC: small instances of the commitment *)
(* service, block production, the batch prover, the DA queue, the builder  *)
(* of its transactions, the light client prover and the backup manager.  A *)
(* behaviour runs one of them, under the fairness its module justifies;    *)
(* the others rest.                                                        *)
(***************************************************************************)
EXTENDS Naturals, Sequences

VARIABLES
  system,  \* what this behaviour runs
  \* ---- the batch prover
  stored, byL1, pending, scanned, diffs, head, jobs, jobOf, proofs, submission, sessions, l1,
  sent, writing, setting, l1Signal, l2Seen, pc, recovering, recovered, target, paused, requests,
  parts, call, nextId, watch, vm, closing, submits, retry, panic, covers, lost, again, crashes,
  fails, calls, rolls,
  \* ---- the commitment service
  cChain, cDiffs, commitments, cBuilt, cPc, toStore, next, last, acc, cHead, current, producing,
  haltRx, cRequests, notified, txQueue, cMempool, cL1, stops, halts,
  \* ---- block production
  tip, clock, state, bHead, bDiffs, bProofs, rows, bSent, chan, bPc, finalized, used, missed,
  plan, block, deposits, simulated, pool, sending, notices, accepted, acked, dropped, bCalls,
  retracts, bCrashes,
  \* ---- the DA queue and monitoring
  txs, sChain, sMempool, sSent, sPc, why, taken, answered, sBuilt, queue, cursor, passIds,
  multiplier, monitored, lastTx, blockRx, tipSeen, crowded, reorgs, evictions, faults, bumps, sRestarts,
  \* ---- the backup manager
  db, present, up, mL1, l2, l1Lock, l2Lock, job, copies, dirs, meta, metaBak, restore, count,
  \* ---- the light client prover
  lcL1, jmt, slotByHash, lcProofs, lastScanned, queued, awake, phase, pos, ws, out, lcFails,
  lcRestarts,
  \* ---- the builder of inscriptions
  kind, chunks, rate, amount, prev, utxos, lastSize, iCommit, reveal, pairs, iPc

prover ==
  <<stored, byL1, pending, scanned, diffs, head, jobs, jobOf, proofs, submission, sessions, l1,
    sent, writing, setting, l1Signal, l2Seen, pc, recovering, recovered, target, paused, requests,
    parts, call, nextId, watch, vm, closing, submits, retry, panic, covers, lost, again, crashes,
    fails, calls, rolls>>
commit ==
  <<cChain, cDiffs, commitments, cBuilt, cPc, toStore, next, last, acc, cHead, current, producing,
    haltRx, cRequests, notified, txQueue, cMempool, cL1, stops, halts>>
production ==
  <<tip, clock, state, bHead, bDiffs, bProofs, rows, bSent, chan, bPc, finalized, used, missed,
    plan, block, deposits, simulated, pool, sending, notices, accepted, acked, dropped, bCalls,
    retracts, bCrashes>>
sender ==
  <<txs, sChain, sMempool, sSent, sPc, why, taken, answered, sBuilt, queue, cursor, passIds,
    multiplier, monitored, lastTx, blockRx, tipSeen, crowded, reorgs, evictions, faults, bumps, sRestarts>>
backup ==
  <<db, present, up, mL1, l2, l1Lock, l2Lock, job, copies, dirs, meta, metaBak, restore, count>>
light ==
  <<lcL1, jmt, slotByHash, lcProofs, lastScanned, queued, awake, phase, pos, ws, out, lcFails,
    lcRestarts>>
builder ==
  <<kind, chunks, rate, amount, prev, utxos, lastSize, iCommit, reveal, pairs, iPc>>
mcVars == <<system, prover, commit, production, sender, backup, light, builder>>

-----------------------------------------------------------------------------
Commit == INSTANCE Commitments WITH
  Keys <- {"k1"}, DiffLimit <- 1, MaxL2Blocks <- 2, MempoolLimit <- 1, HeadBound <- 4,
  StopBound <- 1, HaltBound <- 0, chain <- cChain, diffs <- cDiffs, built <- cBuilt, pc <- cPc,
  head <- cHead, requests <- cRequests, mempool <- cMempool, l1 <- cL1

Production == INSTANCE BlockProduction WITH
  Txs <- {}, Deposits <- {"d1", "d2"}, StartL1 <- 1, MaxL1 <- 3, FeeRates <- {1}, MaxMissed <- 2,
  MaxPerL1 <- 2, FetchLimit <- 2, ClockBound <- 0, RetractBound <- 0, CallBound <- 1, CrashBound
  <- 0, head <- bHead, diffs <- bDiffs, proofs <- bProofs, sent <- bSent, pc <- bPc, calls <-
  bCalls, crashes <- bCrashes

Prover(c) == INSTANCE BatchProver WITH
  L1Chains <- c.chains, MaxCount <- c.maxCount, Permits <- c.permits, Remote <- c.remote, Sampling
  <- c.sampling, L2Capacity <- 2, JobBound <- c.jobs, CrashBound <- c.crashes, FailBound <-
  c.fails, CallBound <- 0, RollBound <- c.rolls

\* Two commitments in two L1 blocks, two proofs at a time.
Two ==
  [name |-> "two", chains |-> {<< <<1>>, <<2>> >>}, maxCount |-> 1, permits |-> 2,
   remote |-> TRUE, sampling |-> FALSE, jobs |-> 3, crashes |-> 0, fails |-> 0,
   rolls |-> 0]
\* The node crashes.
Restarted ==
  [Two EXCEPT !.name = "restarted", !.chains = {<< <<1>> >>}, !.maxCount = 2, !.permits = 1,
              !.crashes = 1]
\* Proofs are sampled, and a zkVM run or a submission fails.
Failing ==
  [Two EXCEPT !.name = "failing", !.chains = {<< <<1, 2>> >>}, !.permits = 1,
              !.sampling = TRUE, !.jobs = 2, !.fails = 1]
\* An operator rolls the ledger of a node with a local prover back.
Rolled ==
  [Restarted EXCEPT !.name = "rolled", !.chains = {<< << >>, <<1>> >>}, !.remote = FALSE,
                    !.crashes = 0, !.rolls = 1]
Provers == {Two, Restarted, Failing, Rolled}

Sender == INSTANCE Inscriptions WITH
  Mode <- "chained", Requests <- <<2, 1>>, Funds <- 1, ChainLimit <- 2, FinalityDepth <- 2,
  HistoryLimit <- 4, MaxAttempts <- 1, RelayFee <- 2, MaxMultiplier <- 2, BlockBound <- 0,
  ReorgBound <- 0, EvictBound <- 0, FaultBound <- 0, BumpBound <- 0, RestartBound <- 0,
  ClockBound <- 0, chain <- sChain, mempool <- sMempool, sent <- sSent, pc <- sPc, built <- sBuilt, restarts <- sRestarts

Builder == INSTANCE InscriptionBuilder WITH
  Dust <- 2, Threshold <- 2, BaseSize <- 1, InputSize <- 1, RevealSize <- 2, FeeRates <- {1},
  Amounts <- {7, 40}, WalletSize <- 2, MaxChunks <- 2, commit <- iCommit, pc <- iPc

Manager == INSTANCE Backup WITH
  CatchUp <- FALSE, MaxL2 <- 1, MaxL1 <- 1, BackupBound <- 1, PurgeBound <- 1, RestoreBound <- 0,
  FailBound <- 0, CrashBound <- 0, l1 <- mL1

\* One commitment and its proof, in blocks with little in them.
A1 == [index |-> 1, end |-> 1, root |-> <<1, 1>>]
P1 == [firstIndex |-> 1, lastIndex |-> 1, hashes |-> <<A1>>, previous |-> "none",
       stateRoots |-> <<0, 1>>, lastL2Height |-> 1, lastL1Hash |-> 1, methodId |-> "m0",
       valid |-> TRUE]
Inscribed ==
  << [kind |-> "commitment", sender |-> "sequencer", body |-> A1],
     [kind |-> "complete", sender |-> "prover", body |-> <<P1>>] >>

Light == INSTANCE LightClient WITH
  SequencerCommitments <- {A1}, NoCommitment <- "none", BatchProofs <- {P1}, Decompress <- [f \in
  {<<P1>>} |-> P1], InitialMethodIds <- << [activation |-> 0, id |-> "m0"] >>,
  MaxCompressedBlobSize <- 2, QueueLimit <- 2, L1Contents <- {Inscribed, << >>}, L1Bound <- 3,
  FailBound <- 1, RestartBound <- 1, l1 <- lcL1, proofs <- lcProofs, fails <- lcFails, restarts <-
  lcRestarts

-----------------------------------------------------------------------------
BuilderRests ==
  /\ kind = "complete" /\ chunks = 0 /\ rate = 1 /\ amount = << >> /\ prev = {} /\ utxos = {}
  /\ lastSize = 0 /\ iCommit = Builder!NoCommit /\ reveal = 0 /\ pairs = << >> /\ iPc = "size"

MCInit ==
  /\ Commit!Init /\ Production!Init /\ Sender!Init /\ Manager!Init /\ Light!Init
  /\ \/ \E c \in Provers : system = c.name /\ Prover(c)!RollInit /\ BuilderRests
     \/ system = "builder" /\ Builder!Init /\ Prover(Restarted)!RollInit
     \/ /\ system \in {"commitments", "production", "sender", "backup", "light_client"}
        /\ Prover(Restarted)!RollInit /\ BuilderRests

\* A step of the component that this behaviour runs.
OfProver(c, A) ==
  system = c.name /\ A /\ UNCHANGED <<system, commit, production, sender, backup, light, builder>>
OfCommit(A) ==
  /\ system = "commitments" /\ A
  /\ UNCHANGED <<system, prover, production, sender, backup, light, builder>>
OfProduction(A) ==
  /\ system = "production" /\ A
  /\ UNCHANGED <<system, prover, commit, sender, backup, light, builder>>
OfSender(A) ==
  /\ system = "sender" /\ A
  /\ UNCHANGED <<system, prover, commit, production, backup, light, builder>>
OfManager(A) ==
  /\ system = "backup" /\ A
  /\ UNCHANGED <<system, prover, commit, production, sender, light, builder>>
OfLight(A) ==
  /\ system = "light_client" /\ A
  /\ UNCHANGED <<system, prover, commit, production, sender, backup, builder>>
OfBuilder(A) ==
  /\ system = "builder" /\ A
  /\ UNCHANGED <<system, prover, commit, production, sender, backup, light>>

MCNext ==
  \/ \E c \in Provers : OfProver(c, Prover(c)!RollNext)
  \/ OfCommit(Commit!Next)
  \/ OfProduction(Production!Next)
  \/ OfSender(Sender!Next)
  \/ OfManager(Manager!Next)
  \/ OfLight(Light!Next)
  \/ OfBuilder(Builder!Next)

MCSpec == MCInit /\ [][MCNext]_mcVars
-----------------------------------------------------------------------------
(***************************************************************************)
(* The fairness of each module's FairSpec: the tasks of a running node go  *)
(* on and Bitcoin makes blocks; crashes, failures, stops, calls and        *)
(* rollbacks need not happen.  Each property assumes that of its own       *)
(* component only.                                                         *)
(***************************************************************************)
Runs(name, A) == system = name /\ A

CommitFairness ==
  /\ WF_commit(Runs("commitments", Commit!Recovery))
  /\ WF_commit(Runs("commitments", Commit!Service))
  /\ WF_commit(Runs("commitments", Commit!ReceiveHalt))
  /\ WF_commit(Runs("commitments", Commit!SendTransaction))
  /\ WF_commit(Runs("commitments", Commit!ProcessTransactionQueue))
  /\ WF_commit(Runs("commitments", Commit!MineBlock))
ProductionFairness ==
  /\ WF_production(Runs("production", Production!MonitorPoll))
  /\ SF_production(Runs("production", Production!ReceiveL1))
  /\ WF_production(Runs("production", Production!Runner))
  /\ WF_production(Runs("production", Production!MaintainPool))
  /\ WF_production(Runs("production", Production!Answers))
ProverFairness(c) == WF_prover(Runs(c.name, Prover(c)!NodeStep /\ UNCHANGED rolls))
SenderFairness ==
  /\ WF_sender(Runs("sender", Sender!QueueTask))
  /\ WF_sender(Runs("sender", Sender!Check))
  /\ WF_sender(Runs("sender", Sender!MineAll))
BuilderFairness ==
  WF_builder(Runs("builder", Builder!Next)) /\ SF_builder(Runs("builder", Builder!Hit))
ManagerFairness ==
  /\ WF_backup(Runs("backup", Manager!L1Rows \/ Manager!L1Scanned))
  /\ WF_backup(Runs("backup", Manager!L2State \/ Manager!L2Native \/ Manager!L2Ledger))
  /\ SF_backup(Runs("backup", Manager!L1Start))
  /\ SF_backup(Runs("backup", Manager!L2Start))
  /\ SF_backup(Runs("backup", Manager!LockL1))
  /\ SF_backup(Runs("backup", Manager!LockL2))
  /\ WF_backup(Runs("backup", \/ Manager!Spawn \/ Manager!JoinFails
                              \/ Manager!Validate \/ Manager!SetMetadata))
  /\ WF_backup(Runs("backup", Manager!Threads))
  /\ WF_backup(Runs("backup", Manager!Purge))
LightFairness ==
  /\ WF_light(Runs("light_client", Light!FinalizeL1Block))
  /\ WF_light(Runs("light_client", Light!SyncL1))
  /\ WF_light(Runs("light_client", Light!Notified))
  /\ WF_light(Runs("light_client", Light!Handler))

-----------------------------------------------------------------------------
\* Every stored commitment gets into Bitcoin's mempool, although the service stops between
\* sending and storing, unless a stop meets its transactions in the in-memory queue that
\* waits for room in the mempool; and blocks do not wait for ever: the number of blocks
\* alone forces a commitment (service.rs commit, controller.rs should_commit).
CommitmentsGetOn == system = "commitments" /\ CommitFairness => Commit!CommitmentsGetOn

\* Whenever Bitcoin stands still, the light client contract catches up with it, although
\* blocks are missed and ticks compete with the monitor's messages (select! of run), and an
\* accepted deposit leaves the queue, whether it reverts or not. Several deposits in one
\* block are left out: one that reverts in front of another makes every block fail.
ProductionGetsOn == system = "production" /\ ProductionFairness => Production!ProductionGetsOn

\* Every commitment on Bitcoin gets a finished proving job, and every stored proof is sent
\* to Bitcoin, across a crash, unless the node stopped while no table knew of it.
CommitmentsGetProved ==
  \A c \in {Two, Restarted} :
    system = c.name /\ ProverFairness(c) => Prover(c)!CommitmentsGetProved

\* The prover task always returns to its select!, whatever fails.
ProverComesBack ==
  system = Failing.name /\ ProverFairness(Failing) => Prover(Failing)!ProverComesBack

\* From some time on every commitment is proved, a rollback in between or not.
StaysProved == system = Rolled.name /\ ProverFairness(Rolled) => Prover(Rolled)!StaysProved

\* Every request taken from the channel is answered, and what the DA service has built is
\* mined, after as many passes over the queue and fee multipliers as it takes
\* (process_transaction_queue), while the node runs and Bitcoin takes every reveal whose
\* commit it took.
RequestsGetMined == system = "sender" /\ SenderFairness => Sender!RequestsGetMined

\* The loop that guesses the size of a transaction comes to an end (build_commit_transaction).
BuildingEnds == system = "builder" /\ BuilderFairness => Builder!BuildingEnds

\* Every call of the backup manager returns, since it never waits for a lock whose holder
\* waits for it, and blocks are processed although backups take the locks again and again.
BackupsEnd == system = "backup" /\ ManagerFairness => Manager!BackupsEnd

\* Every finalized block gets its light client proof unless an attempt fails first:
\* sync_l1's notification is not lost, even when the queue is full.
BlocksBecomeProven == system = "light_client" /\ LightFairness => Light!BlocksBecomeProven
-----------------------------------------------------------------------------
\* The sequencer gets on: blocks are committed, commitments reach Bitcoin unless a stop
\* loses the queue they wait in, and L1 blocks and deposits get into L2 blocks unless
\* several deposits are fetched at once and one reverts.
SequencerGetsOn == CommitmentsGetOn /\ ProductionGetsOn

\* Both provers get on: what is committed is proved and stays so, proofs reach Bitcoin and
\* finalized blocks get their light client proof, over failures, crashes and rollbacks.
ProversGetOn == CommitmentsGetProved /\ ProverComesBack /\ StaysProved /\ BlocksBecomeProven

\* The services get on: requests to Bitcoin are built, answered and mined, and backups
\* end without keeping blocks from being processed. For requests the node must not stop,
\* because the queue is in memory, and no reveal may fail behind its commit: the pair would
\* be tested again as a whole and refused each time.
ServicesGetOn == RequestsGetMined /\ BuildingEnds /\ BackupsEnd
=============================================================================
