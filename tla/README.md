# Citrea in TLA+

Citrea is a rollup on Bitcoin. A sequencer produces L2 blocks and inscribes
*sequencer commitments* (the Merkle root of a range of L2 blocks) on Bitcoin. A
batch prover inscribes *batch proofs* of the committed ranges. Full nodes execute
the L2 blocks and derive from the finalized Bitcoin blocks how much of the L2
chain is *committed* (the `safe` tag) and *proven* (the `finalized` tag). A light
client prover derives the same from Bitcoin alone, inside a proof.

This directory models the nodes in TLA+, checks the models with TLC on small
instances and proves the central properties with TLAPS for all instances.
`PROJECT.json` lists the components, the runs with their properties, the source
lines behind each definition, the hazards and the theorems.

## The parts and how they interact

| Part of the system | Modules | What is hard about it | What makes it correct |
|---|---|---|---|
| Full node: L1 handler, L2 syncer, start-up | `FullNode`, `Finality` | inscriptions out of order, twice, in conflict; the L2 head moves meanwhile; a crash between two writes | stored commitments form one chain over the node's blocks; nothing is proven that is not committed; neither tag moves back |
| Full node: rollback and pruning | `FullNodeStorage` | one table forgotten; a reader of pruned data | what is left is a state the node could have been in |
| Sequencer: block production | `BlockProduction` | failing blocks, missed L1 blocks, two databases, calls that race a block | each L1 block is used once and in order; nothing accepted is lost |
| Sequencer: commitment service | `Commitments`, `SequencerRollback` | a stop after the inscription and before the record | ranges tile the chain, an index is used once |
| Batch prover | `BatchProver`, `Partitions` | a crash between start, record and deletion; blocks not synced; proofs done out of order | every commitment is proved, once, in contiguous partitions |
| Batch proof circuit and execution | `BatchCircuit`, `Replay`, `CacheLog`, `CacheMerge` | three executions of a block with different caches | the guest accepts a linked chain only, and what it executes is the state |
| Light client prover | `LightClient`, `LightClientRollback` | proofs before their predecessors; method id upgrades; three writes per block | its output is a function of Bitcoin; a stored proof is final |
| Bitcoin: sending | `Inscriptions`, `InscriptionBuilder` | reorganisation, eviction, replacement, chained transactions | an inscription is neither lost nor doubled |
| Bitcoin: reading | `Envelope`, `Extraction`, `BlockProofs`, `HeaderChain` | chunks, order, what a hash binds, difficulty arithmetic | all readers read the same, as Bitcoin's rules say |
| State storage and backup | `StateVersions`, `Backup` | three databases, commits one after the other; copies beside writes | a version reads back its own block; a backup is one state |
| EVM module and RPC | `EvmBlock`, `EvmQuery`, `GasEstimate`, `FeeHistory`, `TraceCache` | dry run against execution; caches and a pruner beside the readers | funds add up; every answer is that of one block |
| Ledger tables | `Tables` | - | - |

The sequencer's commitments and the batch prover's proofs meet the full node and
the light client prover on Bitcoin only. `FullNode` and `LightClient` therefore take
as their environment any order of any inscriptions from a given set: honest ones,
early, duplicated and conflicting ones. What they assume of a batch proof that
verifies is `BatchProofSound`; `BatchCircuit` models the circuit that asserts it.
`BatchProver` extends `Partitions`, which chooses what is proved together.
`Commitments` contains the Bitcoin service as its sender sees it, `Inscriptions` that
service itself. `Replay` and `CacheMerge` extend `CacheLog`. `FullNodeStorage` and `SequencerRollback` extend the
modules of their nodes by the operations of an operator.

## How the code is modelled

* A table of the ledger is a function on the keys present (`Tables`). A batch of writes
  is one step; two batches are two steps, and everything else of the node, and a
  crash where the module has one, may come between them.
* An action is one handler, or one piece of a handler between two durable writes,
  two messages or two awaits. Its name is that of the function where there is one.
* Hashes and roots name what they hash: a commitment is its own hash, a Merkle root is
  the range or the list of its leaves, a state root is the state or its height. Two
  different things never have the same hash.
* A definition that begins with `Mut` is a deliberate mistake. It stands before the
  definition it is a variant of and is used by no specification; `mutants` in
  `PROJECT.json` says which property it breaks.
* Deadlock is not checked: environments are bounded and stop, and a halted handler stays
  halted.

## Modules

### Full node: `FullNode`, `Finality`, `FullNodeStorage`

The variables are the ledger's tables under their own names (`commitmentByIndex`
for `SequencerCommitmentByIndex`, `committedAt` and `provenAt` for the two halves
of `L2StatusHeights`, ...), the versions of the two databases, and the handler's
program counter: the block it is on (`current`), the part of `process_l1_block` it
is in (`phase`), the message (`pos`) or pending key (`cursor`) it has reached, and
the next durable write of the item in progress (`step`, `item`).

* `StartBlock`, `SkipIndexZero`, `BlockDone`, `FinishBlock` are `process_l1_block`.
* `DiscardCommitment`, `PendCommitment`, `HaltOnMismatch`, `FailOnEmptyRange` and
  `AcceptCommitment` are the outcomes of `process_sequencer_commitment`. A success
  goes on with `PutCommitment`, `SetCommitted` and, for a pending commitment,
  `RemovePendingCommitment`, one step per write.
* `DiscardProof`, `SkipProof`, `PanicOnProven`, `PendProof` and `AcceptProof` are the
  outcomes of `process_zk_proof`, with `SetProven` and `RemovePendingProof`.
* `ApplyL2Block` and `CommitL2Block` are the L2 syncer's two commits; they interleave
  with every step of the handler.
* `StopAndStart` is a graceful restart, `CrashAndStart` a crash anywhere. Both
  include the start-up's repair and the second scan of the last block. `Spec` has
  graceful restarts only, `CrashSpec` has both.

Abstractions. The Merkle root of the node's blocks `s..e` is the pair `<<s, e>>`, the
state root after block `h` is `h`, a commitment is its own hash, a proof is the
record of the outputs the handler reads plus whether it verifies. `BatchProofSound`
says what is assumed of a proof that verifies. The batch proof circuit asserts it, except
for the order of the two ends of the index range, which comes from the batch prover. An
item is decided upon and first written in one step: nothing another task does in
between could change the decision, because the L2 syncer only raises the head.
The L1 chain is the finalized one and has no reorganisations.

`Finality` is the abstract specification: a committed and a proven position that only
move forward, the proven one never past the committed one.

`FullNodeStorage` adds the pruner and the operator's rollback. The rollback is one step of
the stopped node, after a graceful stop and followed by a start. Its targets are not below
the pruned height nor above the last scanned block. `prune_slots` does nothing, because
no node writes the table it walks. L2 heights and L1 heights share one small range.

### Light client prover: `LightClient`, `LightClientRollback`

The node makes one pass per Bitcoin block. `jmt`, `slotByHash`, `proofs` and
`lastScanned` are durable; the queue, the working set `ws` and the values `out` that
`run_l1_block` carries are lost when the process ends.

* `SyncL1` is one round of `sync_l1`. It is polled by the same `select!` as the
  handler, so it moves only while the handler is idle. `Notified` and `QueueEmpty`
  are the consumer's side.
* `StartBlock` begins `run_l1_block`; `StoreChunk`, `StoreCommitment`, `AddMethodId`,
  `AcceptProof` and `SkipBlob` are the outcomes for one blob; `ChainNext` is a round of
  the chain loop; `ChainDone` compares the JMT with the previous output.
* `PanicOnInitialize`, `PanicOnRoot` and one branch of `ChainNext` are the assertions.
* `Prove` and `ProveFails` are the prover service; `FinalizeStorage`, `InsertProof`
  and `SetLastScanned` are the three durable writes, one step each.

Abstractions. The hash of a Bitcoin block is its height and the contents of the JMT are
its root, so equal roots mean equal trees. The binary search for a method id is modelled
by its result on a sorted list. Chunks all have size one, and `MaxCompressedBlobSize`
counts them. Council signatures are a member and whether they verify. Failed fetches of
a block leave no trace and are not steps. Recursive verification of the previous proof and
the header checks are reduced to "this block follows that of the previous output".
The reference for the circuit (`Canonical`, `InForce`, `Qualified`, `ProvenUpTo`) reads
only the blobs of the finalized blocks and carries no state from block to block.

`LightClientRollback` is the operator's rollback of a node that was stopped in order. The
two tasks of `Rollback::execute` interleave; a task that a failed `execute` had not
started may never run.

### Sequencer: `Commitments`, `SequencerRollback`, `BlockProduction`

`Commitments` has one action per durable write of `run`, `commit` and
`store_commitments_from_da`, the controller that halts and resumes, and the Bitcoin
service as far as the sender sees it: a queue of requests, a queue of transactions the
mempool had no room for, and what is on Bitcoin. A stop loses both queues. L1
reorganisations are left out. `SequencerRollback` adds an operator who keeps the blocks
whose commitments are on Bitcoin and does not cut a stored commitment in two; the
recovery after it reaches Bitcoin.

`BlockProduction` has the DA monitor (`MonitorPoll`), the production loop write by write
(`Runner`), the two mempools with their RPC calls (`Calls`, `Answers`), the maintenance
task and crashes. A block request of the test mode runs the same handler as a tick. The
eviction of a full pool is left out. `txpool_remove` leaves the ledger's rows, as in the
code. The rule enforcer's two rules are operators of this module.

### Batch prover: `Partitions`, `BatchProver`

`Partitions` holds the functions that choose what is proved together, as folds over the
pending indices; the run compares them with a definition of what a good partition is.
`BatchProver` interleaves the L1 and L2 syncers, the prover, its watchers, the submission
tasks, the recovery and the RPC. With `Remote` the proofs run in Bonsai sessions that
survive a crash and are recovered; the local prover loses its running jobs. Two history
variables remember what a crash met in a gap between two writes: `lost` the commitments that
were stored and not yet pending, or whose proof was in memory only, and `again` those whose
proof was started and that were still pending. The first may be forgotten and the second
proved again; the exactly-once property makes its exceptions there and nowhere else. `Rollback` is one step of the stopped node. The operator gives
the last index of the L1 height; remote sessions are not touched, and the state diff of an
uncommitted block stays.

### Proof circuit and execution: `BatchCircuit`, `Replay`, `CacheLog`, `CacheMerge`

`BatchCircuit` builds the input of a job from a produced chain, alters it in at most two
places and runs the guest's checks commitment by commitment. A hash names one block, a
Merkle root is the sequence of its leaves; the length of an `rs_merkle` path follows from
the binary digits of the number of leaves. The module also has the fork manager.

`Replay` executes a block three times: as the sequencer's dry run, natively with a
witness, and in the guest. A state root is the state itself. The size of the cache is left
out, so any block may be the one after which it is pruned. The Jellyfish Merkle tree is
external. A hint of the wrong kind is a panic of the guest. Off-chain hints are not
verified by the guest itself. Archival working sets are left out. `CacheLog` and
`CacheMerge` are the log of reads and writes and its merge.

### Bitcoin, writing: `Inscriptions`, `InscriptionBuilder`

`Inscriptions` follows a transaction from the request through queue, mempool, blocks,
reorganisation, eviction, rebroadcast and fee bump. The wallet's `listunspent` keeps the
outputs that evicted wallet transactions spend locked. A built request that conflicts with
a replacement is rejected by the mempool test. The clock has whole seconds, and entries of one
second are pruned in any order; `crowded` remembers a history limit that could not hold what
is not final together with the last transaction's second. A replaced transaction whose
replacement is mined ends the walk of `check_transactions`. Sizes and the detection of a
reorganisation by recent block hashes are left out. `InscriptionBuilder` is
the construction of one request with its amounts: choice of inputs, fees, nonce search.

### Bitcoin, reading: `Envelope`, `Extraction`, `BlockProofs`, `HeaderChain`

* `Envelope`: opcodes are numbers, a signature is a key and a body, scripts are edited in
  at most two places. Bodies of method ids and commitments fit one push.
* `Extraction`: how chunks and aggregates become proofs again, for the node and for the
  light client. Requests for chunks may fail, chunks may lack the prefix, proofs may be under
  another key. The cache from block hashes to heights is left out, and the kind of a reveal
  transaction agrees with its body.
* `BlockProofs`: inclusion and completeness, with a host that goes wrong in the named ways of
  `Alterations`, in up to two places. The header hash
  does not bind `tx_count`, `height` and `txs_commitment`, as in the code. The property of
  the short header proof is for an honest host. Merkle leaves are never inner nodes.
* `HeaderChain`: `EPOCH` is 4 and `WINDOW` 3, where the code has 2016 and 11. The
  network's rules, with testnet4's time warp rule (`Timewarp`), are external and are what the
  verifier is compared with. No mainnet checkpoint is set.

### State and backup: `StateVersions`, `Backup`

`StateVersions` opens, fills and writes a block's storage to three databases one after the
other, with crash, repair at start, pruning and the operator's rollback. No module deletes
state values. The prover's storage at a height is an archival read. The rollback is not
interrupted and does not go below the pruned height. `prune_state_db` is dead code. The
sequencer does not run the repair at start.

`Backup` has the two processing locks, the copies of three databases in threads, purge and
restore. One permit holder makes a backup. The purge of the command line, in another
process, is left out. The numbering of backups is RocksDB's and external. With
`CatchUp` the L2 blocks are a sequencer's blocks for missed L1 blocks, which take no lock.

### EVM and RPC: `EvmBlock`, `EvmQuery`, `GasEstimate`, `FeeHistory`, `TraceCache`

* `EvmBlock`: `revm` is external; a transaction carries what it does. The check of system
  transactions is in `Replay`. A root is the accounts and slots, a header hash the fields
  that tell blocks apart. Zero-value calls to absent accounts are left out, and a write of
  the same value changes nothing. The size constants are the real ones. `db.adrift` counts
  the money that a contract destroyed at its creation leaves behind or burns.
* `EvmQuery`: a block hash is a height, a transaction hash its number in the chain, a bloom
  filter the set of logging addresses. State, records and ledger are written in three
  steps. Pruning keeps at least two blocks (`Distance`). A `u64` underflow of the range
  wraps and ends in the range error. Timestamps and overrides are left out.
* `GasEstimate`: gas is scaled; a refund is at most a quarter of what is used. A request
  beyond the block's limit is excluded, and the last block's limit equals the next one's,
  as a TODO in the code assumes. An L1 fee that cannot be paid is an execution error.
* `FeeHistory`: a header is its number; `Percent` 4 and `Resolution` 2 are scaled.
  The pruner takes one block at a time and never the newest. `suggest_tip_cap` and
  `get_block` have no caller.
* `TraceCache`: a block hash is a number; only call traces are looked into. `trace_call` and
  the reading of a `CallConfig` are not modelled.

## Runs

`tlc -config <cfg> <module>` for each row. Most runs put several small systems side by
side: the variable `system` says which one a behaviour runs, and the others rest in their
initial state. The systems do not interact; their state spaces add up.

| Run | Module and configuration | Properties | Systems |
|---|---|---|---|
| `fullnode_crash` | `MCFullNode`, `MCFullNodeCrash.cfg` | `CommittedChain`, `ProvenIsBacked`, `FinalityNeverReverts`, `CanonicalCommitmentKept`, `ScannedHistoryFrozen` | the full node with a crash or stop at any point |
| `fullnode_conflict` | `MCFullNode`, `MCFullNodeConflict.cfg` | `HighestUpToL1`, `NeverPanics`, `ImplementsFinality` | the full node with graceful restarts, two conflicting partitions of the chain |
| `fullnode_crash_panic` | `MCFullNode`, `MCFullNodeCrashPanic.cfg` | `NeverPanics`, violated | see Finding |
| `fullnode_storage` | `MCFullNodeStorage` | `TablesStayTrue`, `AllGetsFinal` | rollback to the start (`rescan`), rollback to a noted point (`point`), pruning (`prune`) |
| `lightclient` | `MCLightClient` | `OutputMatchesL1`, `GracefulGoesOn`, `StartsFromGenesisOnce`, `StoredProofKept` | `plain`, `queue` (failed attempts, a full queue, graceful restart), `crash` |
| `sequencer` | `MCSequencer` | `OneCommitmentPerIndex`, `CutsFollowDiffs`, `L1BlocksInOrder`, `StoresKeepUp` | the commitment service with and without an operator's rollback; block production with RPC calls, missed L1 blocks, reverting deposits, faults, crashes |
| `prover` | `MCProver` | `ProvedExactlyOnce`, `ProverGoesOn`, `RolledBackAgrees`, `PartitionsExact` | the batch prover in six settings, one call of `create_partitions` on every input of a small universe, the light client's rollback |
| `da_sender` | `MCDaSender` | `SentCanBeMined`, `MonitorIsTrue`, `BuiltIsSound` | the queue and monitoring in eight settings, the builder |
| `da_reader` | `MCDaReader` | `InscriptionsReadBack`, `ProofsReadAlike`, `BlockProofsExact`, `HeadersAsBitcoin` | scripts, extraction, block proofs, Merkle trees, headers, difficulty numbers |
| `state` | `MCState` | `CircuitProvesChain`, `ExecutionsAgree`, `StorageReadsBack`, `BackupsRestore` | the circuit on honest and altered input, the replay with true and corrupt witnesses, merged logs, database transactions, versions, backups |
| `evm` | `MCEvm` | `EstimateIsRight`, `BlocksAddUp`, `AnswersAgree`, `TracesAreReal` | gas estimates, block execution, queries, fee history, traces |
| `liveness` | `MCLiveness` | `SequencerGetsOn`, `ProversGetOn`, `ServicesGetOn` | one system per service, four of the batch prover |

A property of a run with several systems is a conjunction of named parts, each preceded by
its meaning in the MC module and each about the systems it names. What the properties say:

* **Full node.** The stored commitments are gapless and fit the node's blocks; every proven
  entry is backed by recorded valid proofs of stored commitments without a gap below it;
  the reported heights, a stored commitment and the history of a scanned block never go
  back or change, through crashes. With graceful restarts the answers at every L1 height
  are ordered and no assertion fails; the node implements `Finality`. After a rollback or
  pruning the tables say what the chain says, and everything inscribed becomes final again.
* **Light client prover.** The output for a block is what the Bitcoin blocks up to it say
  (`docs/auditors-guide.md`: "a Bitcoin block will always yield the same Citrea state upon
  successful proving"). A stored proof is never replaced, not even after a crash that makes
  the prover run a block again. With graceful restarts no assertion fails and the tree
  follows the stored proofs.
* **Sequencer.** An index is used for one range, whatever was sent and not recorded when the
  service stopped. A range is cut where the state diffs say. L1 blocks enter the chain once
  and in order. Accepted transactions and deposits are kept until a block has them, apart from
  those that revert, cannot pay or are refused when the pool is filled again.
* **Batch prover.** Every commitment is proved once and its proof submitted, apart from the
  gaps described above. No expectation fails and nothing provable waits without a wake-up,
  unless three consecutive commitments were mined in descending order.
  Partitions chain, fit the guest and are as long as they can be.
* **Bitcoin.** No two live transactions spend one output; chunks precede aggregates; what
  the monitor takes for final or queued is so. Scripts read back as built, and nothing else
  parses. Node and light client read the same proofs, if the node gets the chunks it asks for.
  A host that goes wrong in a named way shows no other blobs. The header check is Bitcoin's
  with two named exceptions.
* **State.** The circuit accepts honest input, and only linked chains. Dry run, native run
  and guest agree. A version reads back its block after crashes, rollbacks and pruning. A
  backup that is listed exists, and what is restored comes from one call.
* **EVM and RPC.** Funds add up and fees match the writes. An estimate works and is tight.
  Answers come from one block although blocks are written and pruned beside them. A cached
  call trace is the one that tracing without logs gives.

### Bounds

Every bound is a constant of its module. The choice in each case is the smallest instance
in which the hard cases meet.

* `FullNode`: three Bitcoin blocks (`L1Bound`), three or four L2 blocks (`L2Bound`), one
  restart. An item can become pending in one block, be overtaken in the next and be resolved
  in the third; four L2 blocks have two different partitions into three commitments; one
  restart gives every pair of a crash point and a second scan.
* `FullNodeStorage`: one rollback, pruning at distance one; the systems with pruning and
  noted points have two Bitcoin blocks (`ShortL1Bound`). Bitcoin orders three blocks with a
  commitment and its proof each as it likes, and may repeat one.
* `LightClient`: `plain` has four blocks of five possible contents and no failure: index 3 is
  reached, an upgrade comes into force between a commitment and its proof, a conflicting
  partition wins, an aggregate decides, transitions are stored out of order. `queue` has a
  queue of two for four blocks (the code's limit is ten), two failed attempts and one
  graceful restart. `crash` has three blocks and two restarts, so that a restart can follow
  a restart.
* `Commitments`: three L2 blocks, two state keys with a limit of one, two blocks per
  commitment, two stops. Both reasons to cut occur, and a stop can hit the recovery
  from a stop.
* `BlockProduction`: at most two missed L1 blocks per L2 block. `calls` has a transaction and
  a deposit offered twice, `missed` four L1 blocks beyond the first, so that a catch-up takes
  two L2 blocks, `reverts` two deposits in one block, `faults` and `crashes` failing blocks and
  two crashes.
* `BatchProver`: two or three commitments in the orders that matter, up to three jobs, one
  crash, one failure, one rollback. `Partitions`: all subsets of three indices over four L2
  blocks, all fork positions, all diffs of one key.
* `Inscriptions`: one or two requests of one or two transactions, one reorganisation, one
  eviction, up to two bumps, one restart, a history of three to six, one or two seconds. `InscriptionBuilder`: five
  amounts, three wallet outputs, two rates.
* `Envelope`: bodies of zero to two pushes, two edits. `Extraction`: four to six blocks, proofs
  of one, two and three units around the limits, in one block or over several, with one
  reorganisation, with failing requests, with chunks that lack the prefix. `BlockProofs`: blocks
  of three transactions of seven shapes, faults in two places; Merkle lists up to seventeen
  leaves. `HeaderChain`: two epochs of four headers on four networks, time steps of -11, -2, 3
  and 12 (an epoch may end before it begins, and the time warp rule, a limit of 4, bites), and
  every target and every bits of six digits.
* `BatchCircuit`: four or five heights, two alterations, forks at adjacent heights. `Replay`:
  two blocks, up to three accesses, one corrupt hint. `StateVersions`: three heights, two
  crashes, one rollback. `Backup`: one backup beside blocks under the locks or a sequencer's catch-up, or two backups, one purge and one restore with a
  crash or two failures.
* `EvmBlock` bounds blocks and calls (`MaxBlocks`, `MaxCall`, `MaxCalls`). In `EvmQuery` a
  range of logs fits in one chunk of headers (`lookups`) or takes several (`chunks`); `sparse`
  has five blocks that may be empty, more than the pruning distance. `TraceCache`: one client
  with every configuration, two with three.
* `liveness` has the smallest instance of each service in which it can get stuck: one stop of
  the commitment service with two commitments and room for one, two deposits, four settings
  of the batch prover (two blocks, a crash, a failure, a rollback), two requests on a chain
  that Bitcoin accepts two deep, one failed attempt and one restart of the light client prover.

### Fairness

No run assumes that a crash, a failure, a call or a rollback happens. What is assumed:

* `fullnode_storage` (`AllGetsFinal`, in the `rescan` system): weak fairness of the L1
  handler and of the L2 syncer, tokio tasks that are runnable whenever they have work, and
  of the growth of Bitcoin.
* Commitment service: weak fairness of its steps, of the Bitcoin service's and of mining.
* Block production: weak fairness of the monitor, the loop and the answers to calls; strong
  fairness of `ReceiveL1`, because `select!` picks a ready branch at random.
* Batch prover: weak fairness of the node's steps.
* Inscriptions: weak fairness of the queue's and monitor's tasks and of a Bitcoin that
  empties its mempool. The builder's nonce search has strong fairness of a hit: each attempt
  hits with the same positive probability.
* Backup: weak fairness of running threads; strong fairness of taking a lock, because a
  tokio `Mutex` is first in, first out.
* Light client prover: weak fairness of `sync_l1`, of the notification (`select!` is biased,
  but `sync_l1` sleeps between rounds), of the handler and of Bitcoin. `BlocksBecomeProven`
  promises that all blocks get proven or another attempt fails: a block whose attempt failed
  waits for the next notification; the code has no retry of its own.

## Finding

`fullnode_crash_panic`: a crash between `put_commitment_by_index` and
`set_l2_height_status(Committed)` (`da_block_handler.rs:509`, `:512`) leaves a stored
commitment without status; the second scan discards it. A proof can then set `Proven`
above `Committed`, and the next advancing proof reaches the `panic!` at line 662, again
after every restart. It heals only if a later commitment is committed first. With graceful
restarts this does not happen, which is proved (`NeverPanicsHolds`).

## Where the properties stop

In a number of places the code does less than a reader may expect, or than a comment says.
The modules translate the code. A property that would not hold there excludes the case, by
name, in its own definition or comment; the table says where, and which system or run reaches
the case. "without it" means that the system has the case and the property is not checked
there; where a definition in parentheses makes the exception, the run fails once it is
removed.

| What the code does | Excluded in | In a run |
|---|---|---|
| Full node: after a crash in block `h + 1` a status may be recorded under `h` beside an older, lower one | `HighestUpToL1`, `NeverPanics`: graceful restarts | `fullnode_crash` without them; `fullnode_crash_panic` |
| A status row of a block in progress at a crash survives `rollback_slots` | `TablesStayTrue`: rollback after a graceful stop | no |
| A rollback does not make pending again what waited before | `AllGetsFinal`: rollback to the start | `point`, without it |
| Light client: after a crash between its three writes the prover stops at an assertion at every start | `GracefulGoesOn`, `ProversGetOn`: graceful restarts; no wrong proof is stored (`StoredProofKept`, all restarts) | `crash`, without them |
| A stop loses the signed transactions that wait for room in the mempool | `SequencerGetsOn` (`Forgotten`) | `liveness` |
| A deposit that reverts is taken away; one in front of another fails the block; the queue is not durable | `DepositsKept`, `SequencerGetsOn` | `reverts`, `liveness` |
| The pool refuses transactions when it is filled at a start, and their rows are deleted | `TxsSurvive` (`dropped`) | `crashes` |
| The loop goes on behind a catch-up block that failed | `MissedBlocksFirst`: no failing blocks | `faults`, without it |
| Batch prover: a stored commitment that is not yet pending at a stop is not marked later; a proof in memory is lost with its session | `NothingForgotten` (`lost`) | `crash` |
| A proof that was started and whose commitments are still pending at a stop is made again | `ProvedOnce` (`again`) | `crash` |
| Three consecutive commitments mined in descending order: `get_prev_hash_proof` expects one that is not there, or the last one waits for another L1 block | `NoPanic`, `NoLostWakeup` (`Descending`) | `any_order` |
| The monitor's history: entries of one second are pruned in any order, evicted ones fill it | `MonitorIsTrue` (`crowded`) | `chained` |
| A negative number of confirmations ends the walk of `check_transactions` | `MonitorIsTrue`: a status may be out of date | `replaced` |
| A pair whose reveal failed is tested again and refused; the queue is in memory | `ServicesGetOn`: no failing reveal, no stop | `da_sender`, without it |
| A node skips a proof when its requests for a chunk fail | `ProofsReadAlike` (`Regular`) | `unanswered` |
| A chunk without the prefix counts for the node only | `ProofsReadAlike` (`Regular`) | `foreign` |
| `verify_transactions` does not tell a wtxid from an inner node of the tree | `BlockProofsExact`: leaves are digests of transactions | no |
| The verifier has no time warp rule, and subtracts timestamps without a sign | `HeadersAsBitcoin` (`Timewarp`, `EndedEarly`) | headers of `da_reader` |
| The blocks for missed L1 blocks take no lock | `QuietUnderLocks` | `backup_missed` |
| A failed purge puts the list back; a restore compares numbers of backups | `MetadataBacked`, `RestoresOneBackup`: faults | `backup_fails` |
| The locks are given back before the copies are made | `BackupsRestore` says nothing of how far apart the copies are | `backup` |
| A contract destroyed at its creation leaves an earlier row as it was | `FundsConserved` (`adrift`) | `code` |
| Pruning takes the lengths of the vectors behind a run of empty blocks | `AnswersAgree` (`LengthsKept`) | `sparse` |
| A call trace has no logs, asked for or not | `CacheInvisible` | `one_client` |
| A gas estimate's range is not capped by the funds; a last percentile above 100 is not refused | `EstimateIsRight`: answers that are given; `HistoryIsReal`: counts as 100 | `evm` |

Four more points need no exception. `docs/finality-tracking.md:7` has committed and proven
the wrong way round. `prune_l2_blocks` deletes status rows by L2 number where the key is an L1
height (`l2_blocks.rs:40`). `create_sequencer` does not call `sync_ledger_and_state_db`. In the
circuit only the index of the first commitment is compared with the previous one; the light
client checks the others.

## Proofs

TLAPS checks every theorem below to the last leaf. The theorems hold for every value of the
constants, all bounds included, and rest on the named assumptions of the modules:
types of the inscriptions, sorted initial method ids, `BatchProofSound` for a proof that
verifies, positive limits. TLC evaluates the assumptions in the runs. The modules
give the provers 40 seconds for a step (`USE SMTT(40), ZenonT(40)`), so that a slow machine
finds the same proofs.

**Full node** (`FullNodeProofs`, `FullNodeRefinement`, `FullNodeHistory`).

* `TypeCorrect`, under `CrashSpec`. `TypeInv` adds that the block in progress exists.
* `CommittedChainHolds`, `CanonicalCommitmentKeptHolds`, under `CrashSpec`. A commitment is
  written one step after it is checked, so `ChainInv` adds that the accepted item still fits:
  its index is free, its predecessor is stored, its blocks are synced and have its root. It
  also adds that pending commitments are filed under their own, positive index.
* `ProvenIsBackedHolds`, `FinalityNeverRevertsHolds`, `ScannedHistoryFrozenHolds`, under
  `CrashSpec`. After a crash the handler scans a block again, and a status may be written
  under a smaller L1 height than an older one. `HistoryInv` says what is left: the handler is
  never behind the last scanned block; the item in progress still advances the status it is
  about to write; a proof in progress is recorded, and together with the recorded proofs it
  names every commitment up to its last one. The induction step for an accepted proof splits
  at its first index: the commitments it covers it names itself, those before it are proven
  because the handler only takes contiguous proofs.
* `FullNodeImplementsFinality`, under `Spec`, with the greatest entry of each
  status table as refinement mapping. `FinalityInv` adds that no key of the status
  tables exceeds the current block, that the last committed entry is the last
  stored commitment or one write behind it, and that a proven entry is stored.
  None of these three survives a crash, as the finding shows.
* `NeverPanicsHolds`, under `Spec`, from `FinalityInv`, provided that the first commitment
  reaches the Tangerine height.
* `HighestUpToL1Holds`, `ProvenWithinCommittedHolds`, `SlotListsCanonicalHolds` and
  `ProofRecordedOnceHolds`, under `Spec`. Heights and indices do not decrease along the L1
  heights of a status table (`Ascending`), because a status is written under the greatest key
  and advances. A recorded proof does not reach beyond the proven status, or it is the one in
  progress (`RecordedSettled`), so an accepted proof is a new one. The last three are
  proved only; no run lists them.

**Light client prover** (`LightClientProofs`).

* `ProofsAreFinal` and `GenesisOnce`, under `CrashSpec`. `HashInv` counts: the block hashes
  in the JMT are those up to `lastScanned` or one more, the hashes in the root of proof `h`
  are `1..h`, and a proof above `lastScanned` means one more. So a block that already has a
  proof fails the root check and is not proven again.
* `ProverNeverPanics` and `JmtIsProven`, under `Spec`. `LinkInv` adds that every stored
  transition leads from the state of the canonical commitment before its index to that of
  its own, and that the output is at such a state. The chain loop then always finds the root
  it expects. Only these two theorems about the light client need `BatchProofSound`.

**Sequencer** (`CommitmentsRecovery`, `CommitmentsProofs`, `BlockProductionProofs`).

* `OneCommitmentTheorem`, `CutsTheorem` and `DiffsKeptTheorem`, about `Commitments!Spec`: on
  every chain, with every limit, however often the service stops with a queue that is lost.
  Where a range ends is a function of the chain and of where it starts (`CutUnique`), and
  where it starts follows from the stored predecessor; so a range that is cut a second time
  after a restart is cut in the same place. Diffs are deleted only after the commitment that
  covers them is stored. The run `sequencer` checks the same properties, `CutsFollowDiffs`
  being the conjunction `CutsStayMaximal /\ UncommittedDiffsKept`, and also together with an
  operator's rollback, which the theorems leave out.
* `L1BlocksInOrderTheorem` and `StoresTheorem`, about `BlockProduction!Spec`: with every set of
  transactions, every limit, however often the DA node goes back, blocks fail and the node
  crashes. `Contract` says where the loop stands when the counter and the contract differ:
  from the dry run on, the block's L1 blocks come right behind the contract's, and once
  the storage is finalized the counter about to be set is the contract's last block. A crash
  in between reads the counter from the contract. `Stores` places the heights of the state,
  the ledger and the diffs at each step of the loop, and `Kept` says that the transactions of
  a finalized block are mined before their rows are deleted.
  The run `sequencer` checks both, `StoresTheorem` as part of `StoresKeepUp`, on the five instances of
  `BlockProduction` in `MCSequencer`.

**Gas estimate** (`GasEstimateProofs`).

* `EstimateTheorem` and `NarrowsTheorem`, for all calls and all numbers. The invariant is that
  the range of the search holds the smallest limit that works, that this limit is at most
  what the first execution was given, and that the next limit to try lies strictly inside
  the range.

### Only model-checked

* Liveness: `AllGetsFinal`, `SequencerGetsOn`, `ProversGetOn`, `ServicesGetOn`. Fairness and
  `ENABLED` are outside what TLAPS proves.
* Properties over recursive definitions or folds over data (chains of blobs, Merkle trees,
  witnesses, partitions, difficulty numbers, sums of fees): `OutputMatchesL1`,
  `PartitionsExact`, the properties of `da_reader`, `state` and, apart from the gas estimate,
  `evm`. What a recursive definition computes for every input needs an induction over data
  that the installed provers cannot do.
* Of `StoresKeepUp`, `StoresAgree` and `TxsSurvive` are proved. `DepositsKept` needs an
  induction over the queue that is filtered, and `StoredFitsChain` and `MissedBlocksFirst` are
  only checked.
* Safety of the other services: `TablesStayTrue`, `ProvedExactlyOnce`, `ProverGoesOn`,
  `RolledBackAgrees`, `SentCanBeMined`, `MonitorIsTrue`, `BuiltIsSound`. These are in reach of
  the prover and not proved.

## Not modelled

* The EVM interpreter, hash functions and signatures, the zkVMs, the guests' entry points
  and the internals of the Jellyfish Merkle tree. They are external: modelled by what the
  code in `src/` relies on.
* Downloading and checking the signatures of L2 blocks in the full node and the prover, the
  block cache, and the download queue of these two nodes, which take the next finalized
  block instead. The light client has the queue.
* RPC formatting, the fan-out of subscriptions, forwarding to the sequencer, the command
  line, metrics and logging.
* In the Bitcoin service, `get_pending_sequencer_commitments` and `get_block_at`, which only
  read; in the rule enforcer, the calls by which the authority changes the limits.
