------------------------------ MODULE MCProver ------------------------------
(***************************************************************************)
(* The provers for TLC: six instances of the batch prover, one call of     *)
(* create_partitions on every input of a small universe, and the rollback  *)
(* of a light client prover.  A behaviour runs one of them; the others     *)
(* rest in their initial state.                                            *)
(***************************************************************************)
EXTENDS Partitions

VARIABLES
  system,  \* what this behaviour runs
  \* ---- the batch prover
  stored, byL1, pending, scanned, diffs, head, jobs, jobOf, proofs, submission, sessions, l1,
  sent, writing, setting, l1Signal, l2Seen, pc, recovering, recovered, target, paused, requests,
  parts, call, nextId, watch, vm, closing, submits, retry, panic, covers, lost, again, crashes,
  fails, calls, rolls,
  \* ---- the call of create_partitions
  input, output,
  \* ---- the rollback of a light client prover
  lcState, lcProofs, lcScanned, lcLedger, lcPc, lcTarget, lcVersion, lcRolls

Prover(c) == INSTANCE BatchProver WITH
  L1Chains <- c.chains, MaxCount <- c.maxCount, Permits <- c.permits, Remote <- TRUE,
  Sampling <- c.sampling, L2Capacity <- 2, JobBound <- c.jobs, CrashBound <- c.crashes,
  FailBound <- c.fails, CallBound <- c.calls, RollBound <- c.rolls

LightClient == INSTANCE LightClientRollback WITH
  First <- 6, L1Bound <- 9, Forward <- FALSE, RollBound <- 3,
  state <- lcState, proofs <- lcProofs, scanned <- lcScanned, ledger <- lcLedger, pc <- lcPc,
  target <- lcTarget, version <- lcVersion, rolls <- lcRolls

\* Bitcoin orders the commitments as it likes.
AnyOrder ==
  [name |-> "any_order",
   chains |-> {<< <<2>>, <<1>> >>, << <<1, 3>>, <<2>> >>, << <<3>>, <<1, 2>> >>, << <<3>>, <<2>>, <<1>> >>},
   maxCount |-> 2, permits |-> 1, sampling |-> FALSE, jobs |-> 3,
   crashes |-> 0, fails |-> 0, calls |-> 0, rolls |-> 0]
\* Two commitments together, or one repeated in a later block; the node crashes.
Crash ==
  [AnyOrder EXCEPT !.name = "crash", !.chains = {<< <<1, 2>> >>, << <<1>>, <<1>> >>},
                   !.maxCount = 1, !.permits = 2, !.crashes = 1]
\* Each of the RPC methods is called once.
Rpc ==
  [Crash EXCEPT !.name = "rpc", !.chains = {<< <<1, 2>> >>}, !.jobs = 2, !.crashes = 0, !.calls = 1]
\* Proofs are sampled, a zkVM run or a submission fails, the node crashes.
Fail ==
  [AnyOrder EXCEPT !.name = "fail", !.chains = {<< <<1, 2>> >>}, !.maxCount = 1,
                   !.sampling = TRUE, !.jobs = 2, !.crashes = 1, !.fails = 1]
\* An operator rolls the ledger back, between two commitments, or before one that
\* is then proved again.
Roll ==
  [AnyOrder EXCEPT !.name = "roll", !.chains = {<< <<1>>, <<2>> >>}, !.jobs = 1, !.rolls = 1]
Reprove ==
  [Roll EXCEPT !.name = "reprove", !.chains = {<< << >>, <<1>> >>}, !.jobs = 3]
Rolls == {Roll, Reprove}
Provers == {AnyOrder, Crash, Rpc, Fail} \cup Rolls

ASSUME ProversAssumption ==
  /\ \A c \in Provers : Prover(c)!BatchProverAssumption /\ Prover(c)!RollBoundAssumption
  /\ LightClient!LightClientRollbackAssumption
-----------------------------------------------------------------------------
Heights == 4               \* number of L2 blocks there can be
MaxIndex == 3              \* greatest commitment index
Keys == {"k1", "k2"}       \* state keys
MaxDiff == 1               \* keys that fit in a transaction body
MaxCounts == {0, 2}        \* configured limits tried

\* The ends of the commitments grow with their index.
Ends == {f \in [1 .. MaxIndex -> 1 .. Heights] : \A i, j \in 1 .. MaxIndex : i < j => f[i] < f[j]}

\* The gas limit keeps the diff of one block below the limit; forks do not go back.  Keys
\* are interchangeable: the first block writes the first one.
Envs ==
  [maxCount : MaxCounts, maxDiff : {MaxDiff},
   spec : {[h \in 1 .. Heights |-> IF h < f THEN 1 ELSE 2] : f \in 1 .. Heights + 1},
   diff : {d \in [1 .. Heights -> {{k} : k \in Keys}] : d[1] = {"k1"}}]

NoInput == [known |-> EmptyTable, pending |-> {}, head |-> 0, mode |-> "Normal",
            env |-> CHOOSE env \in Envs : TRUE]
NoOutput == [target |-> NoTarget, parts |-> << >>]

Inputs ==
  UNION {[known : {[i \in knownSet |-> ends[i]] : ends \in Ends}, pending : SUBSET knownSet \ {{}},
          head : 0 .. Heights, mode : {"Normal", "OneByOne"}, env : Envs] :
         knownSet \in SUBSET (1 .. MaxIndex)}

\* Before and after the call.
Call ==
  /\ output = NoOutput
  /\ output' = CreatePartitions(SetToSortSeq(input.pending, <), input.known, input.head,
                                input.mode, input.env)
  /\ UNCHANGED input
-----------------------------------------------------------------------------
prover ==
  <<stored, byL1, pending, scanned, diffs, head, jobs, jobOf, proofs, submission, sessions, l1,
    sent, writing, setting, l1Signal, l2Seen, pc, recovering, recovered, target, paused, requests,
    parts, call, nextId, watch, vm, closing, submits, retry, panic, covers, lost, again, crashes,
    fails, calls, rolls>>
partition == <<input, output>>
light == <<lcState, lcProofs, lcScanned, lcLedger, lcPc, lcTarget, lcVersion, lcRolls>>
mcVars == <<system, prover, partition, light>>

MCInit ==
  /\ LightClient!Init /\ output = NoOutput
  /\ \/ \E c \in Provers : system = c.name /\ Prover(c)!RollInit /\ input = NoInput
     \/ system = "partitions" /\ Prover(Rpc)!RollInit /\ input \in Inputs
     \/ system = "light_client" /\ Prover(Rpc)!RollInit /\ input = NoInput

MCNext ==
  \/ \E c \in Provers :
       system = c.name /\ Prover(c)!RollNext /\ UNCHANGED <<system, partition, light>>
  \/ system = "partitions" /\ Call /\ UNCHANGED <<system, prover, light>>
  \/ system = "light_client" /\ LightClient!Next /\ UNCHANGED <<system, prover, partition>>

MCSpec == MCInit /\ [][MCNext]_mcVars
-----------------------------------------------------------------------------
\* Each table and channel of a batch prover holds what its schema and its users expect.
TypeOK == \A c \in Provers : system = c.name => Prover(c)!TypeOK

\* No stored commitment is forgotten: it is pending or some table or task leads to its
\* proof, unless the node stopped when it was stored and not yet pending or when its proof
\* was in memory only (the order of try_proving's writes).
NothingForgotten ==
  \A c \in {AnyOrder, Crash, Rpc} \cup Rolls : system = c.name => Prover(c)!NothingForgotten

\* No two proofs are started about a commitment, and it is not pending any more once the
\* records of its job are complete, unless the node stopped between the start of the proof
\* and the removal from the pending table (the TODO at prover.rs line 795). A retry, which
\* is meant to prove again, a failed zkVM run and a rollback are left out.
ProvedOnce == \A c \in {AnyOrder, Crash} : system = c.name => Prover(c)!ProvedOnce

\* A stored proof is on Bitcoin with its transaction recorded, or marked for submission
\* and, once recovered and unless a submission failed, in the hands of a task.
ProofsGetSubmitted ==
  \A c \in {AnyOrder, Crash, Fail} : system = c.name => Prover(c)!ProofsGetSubmitted

\* None of the expectations of the prover task fails, also behind a crash, with the RPC
\* methods in between and behind a rollback; except that of get_prev_hash_proof, where
\* Bitcoin holds three consecutive commitments in descending order (prover.rs line 1188).
NoPanic == \A c \in {AnyOrder, Crash, Rpc} \cup Rolls : system = c.name => Prover(c)!NoPanic

\* Nothing provable waits without something to wake the prover, except where Bitcoin holds
\* three consecutive commitments in descending order: a proof of the middle one leaves a gap
\* in the pending table that ends the partitions of the next call.
NoLostWakeup == \A c \in {AnyOrder, Crash} : system = c.name => Prover(c)!NoLostWakeup

\* The two directions of the job index agree wherever a rollback has cut them: the job a
\* commitment points to exists and is about it (rollback_commitments, lines 74-127).
JobIndexAgrees == \A c \in Rolls : system = c.name => Prover(c)!JobIndexAgrees

\* What a rolled back node finds on Bitcoin is stored again, with the row that leads from
\* the L1 block to it.
L1IndexComplete == \A c \in Rolls : system = c.name => Prover(c)!L1IndexComplete

\* However the two tasks of a light client rollback interleave, the proofs end at the last
\* scanned height once the node runs again, and none is missing below it.
ProofsFollowScan == system = "light_client" => LightClient!ProofsFollowScan
-----------------------------------------------------------------------------
Parts == output.parts
Covered == UNION {ToSet(Parts[k].indices) : k \in DOMAIN Parts}

\* The partitions chain: each starts at the block and at the index after the one before,
\* the first one right behind a known commitment, and none ends beyond the L2 head. This
\* is what create_circuit_input and the circuit's previous commitment rely on.
PartitionsChain ==
  \A k \in DOMAIN Parts :
    LET p == Parts[k] IN
    /\ p.start <= p.end /\ p.end <= input.head
    /\ \A q \in 1 .. Len(p.indices) - 1 : p.indices[q + 1] = p.indices[q] + 1
    /\ p.end = input.known[Last(p.indices)]
    /\ IF p.indices[1] = 1 THEN p.start = 1
       ELSE /\ p.indices[1] - 1 \in DOMAIN input.known
            /\ p.start = input.known[p.indices[1] - 1] + 1
    /\ k > 1 => Last(Parts[k - 1].indices) + 1 = p.indices[1]

\* Nothing provable is left behind: what is not in a partition is not synced, or some
\* commitment before it is not pending and not in a partition either.
NothingProvableLeft ==
  output # NoOutput =>
    LET first == CHOOSE i \in input.pending : \A j \in input.pending : i <= j
    IN \A i \in input.pending \ Covered :
         \/ input.known[i] > input.head
         \/ i = first /\ i > 1 /\ i - 1 \notin DOMAIN input.known
         \/ i > first /\ i - 1 \notin Covered

\* The sync target is the end of the lowest pending commitment that is not synced: the
\* L2 signal that reports it is the first one that can make another commitment provable.
TargetIsNextEnd ==
  output # NoOutput =>
    LET beyond == {input.known[i] : i \in {j \in input.pending : input.known[j] > input.head}}
    IN IF beyond = {} THEN output.target = NoTarget
       ELSE output.target \in beyond /\ \A h \in beyond : output.target <= h

\* One proof, one guest program: the commitments of a partition end under the same fork,
\* because start_proving takes the ELF of the end of the last one.
OneSpecPerPartition ==
  \A k \in DOMAIN Parts, i, j \in 1 .. MaxIndex :
    i \in ToSet(Parts[k].indices) /\ j \in ToSet(Parts[k].indices)
      => input.env.spec[input.known[i]] = input.env.spec[input.known[j]]

\* A proof of several commitments fits in a transaction body and in the configured
\* count; a single commitment is proved whatever its size.
PartitionsFit ==
  \A k \in DOMAIN Parts :
    /\ \/ Len(Parts[k].indices) = 1
       \/ Cardinality(StateDiff(Parts[k].start, Parts[k].end, input.env)) <= MaxDiff
    /\ input.env.maxCount # 0 => Len(Parts[k].indices) <= input.env.maxCount

\* Greedy: in Normal mode a partition ends only where the next commitment would exceed
\* the count, change the fork or exceed the size, so no proof is paid for in vain.
PartitionsAreMaximal ==
  input.mode = "Normal" =>
    \A k \in 1 .. Len(Parts) - 1 :
      LET p == Parts[k]
          nextEnd == input.known[Parts[k + 1].indices[1]]
      IN \/ Len(p.indices) = input.env.maxCount
         \/ input.env.spec[nextEnd] # input.env.spec[p.end]
         \/ Cardinality(StateDiff(p.start, nextEnd, input.env)) > MaxDiff
-----------------------------------------------------------------------------

\* A commitment found on Bitcoin is proved and submitted once: no order of the prover's
\* writes and messages forgets it, proves it again or loses its proof, and a restart only
\* where its writes leave a gap: behind the row of a commitment and before its pending mark,
\* with a proof in memory only (both forget it), and between the start of a proof and the
\* removal from the pending table (proves it again).
ProvedExactlyOnce == NothingForgotten /\ ProvedOnce /\ ProofsGetSubmitted

\* The prover task goes on: what has become provable has something that wakes it, and no
\* expectation about its tables fails. Both exclude an L1 chain with three consecutive
\* commitments in descending order, each in a block of its own: the task may then panic, and
\* the last one wait for the signal of another L1 block.
ProverGoesOn == NoPanic /\ NoLostWakeup

\* The tables of both provers agree with each other and with the last scanned block
\* wherever an operator's rollback has cut them.
RolledBackAgrees == JobIndexAgrees /\ L1IndexComplete /\ ProofsFollowScan

\* create_partitions gives the circuit a chain that fits it, as long as possible, and
\* leaves nothing provable behind.
PartitionsExact ==
  /\ PartitionsChain /\ OneSpecPerPartition /\ PartitionsFit
  /\ NothingProvableLeft /\ PartitionsAreMaximal /\ TargetIsNextEnd
=============================================================================
