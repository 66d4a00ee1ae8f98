-------------------------- MODULE BlockProduction ---------------------------
(***************************************************************************)
(* The sequencer: the DA monitor, the block production loop, the two       *)
(* mempools with the calls that fill them, and the rule enforcer that can  *)
(* refuse a block.                                                         *)
(*                                                                         *)
(* Every tick produces an L2 block.  The block starts with system          *)
(* transactions: one per L1 block that is new to the Bitcoin light client  *)
(* contract, then the deposits fetched from the deposit mempool; the user  *)
(* transactions follow.  L1 blocks the sequencer missed are taken first, a *)
(* bounded number per L2 block.  A block is dry run, executed, written to  *)
(* the state database, and then to the ledger; a failure before the first  *)
(* of these writes is only logged.                                         *)
(*                                                                         *)
(* An L1 block is its height.  Which user transactions fit, fail for good  *)
(* or have to wait is left open, and so are the deposits that revert and   *)
(* the transactions a restarted pool refuses.  A crash loses everything    *)
(* that is not in one of the two databases.                                *)
(***************************************************************************)
EXTENDS Integers, Sequences, Functions

CONSTANTS
  Txs,           \* user transactions, of different senders
  Deposits,      \* deposits, each known by its Bitcoin transaction
  StartL1,       \* finalized L1 height when the sequencer is started first
  MaxL1,         \* bound: the highest finalized L1 height
  FeeRates,      \* L1 fee rates
  MaxMissed,     \* MAX_MISSED_DA_BLOCKS_PER_L2_BLOCK
  MaxPerL1,      \* max_l2_blocks_per_l1
  FetchLimit,    \* deposit_mempool_fetch_limit
  ClockBound,    \* bound: seconds on the clock
  RetractBound,  \* bound: times the finalized height goes down
  CallBound,     \* bound: calls per transaction or deposit
  CrashBound     \* bound: number of crashes

BlockProductionAssumption ==
  /\ StartL1 \in 1 .. MaxL1 /\ MaxL1 \in Nat
  /\ FeeRates \subseteq Nat /\ FeeRates # {}
  /\ MaxMissed \in Nat \ {0} /\ MaxPerL1 \in Nat \ {0} /\ FetchLimit \in Nat
  /\ {ClockBound, RetractBound, CallBound, CrashBound} \subseteq Nat

VARIABLES
  \* ---- the DA layer and the clock
  tip,       \* the finalized L1 height and the fee rate
  clock,     \* the local time
  \* ---- state database
  state,     \* the latest state: see Genesis
  \* ---- ledger database
  head,      \* head of L2BlockByNumber
  diffs,     \* last height in StateDiffByBlockNumber
  proofs,    \* ShortHeaderProofBySlotHash
  rows,      \* MempoolTxs
  \* ---- the monitor
  sent,      \* last_l1_data
  chan,      \* da_height_update: one message, and one more being sent
  \* ---- the production loop
  pc,        \* what it is doing
  finalized, \* last_finalized_l1_height
  used,      \* last_used_l1_height
  missed,    \* missed_da_blocks_count
  plan,      \* the da_blocks of each block this tick still has to produce
  block,     \* the block in production
  \* ---- the mempools and their callers
  deposits,  \* accepted_deposit_txs
  simulated, \* send_raw_deposit_transaction: simulated and not added yet
  pool,      \* the transaction pool
  sending,   \* eth_send_raw_transaction: in the pool and not in the ledger yet
  notices,   \* canonical state notifications for the pool's maintenance
  \* ---- history and bounds
  accepted,  \* deposits a caller was told are accepted
  acked,     \* transactions whose hash was returned
  dropped,   \* transactions that could not pay the L1 fee or that the pool refused at a
             \* start, and deposits that reverted
  calls, retracts, crashes

da == <<tip, clock>>
ledger == <<head, diffs, proofs, rows>>
monitor == <<sent, chan>>
view == <<finalized, used, missed>>
loop == <<pc, view, plan, block>>
mempools == <<deposits, simulated, pool, sending, notices>>
history == <<accepted, acked, dropped, calls>>
counters == <<retracts, crashes>>
vars == <<da, state, ledger, monitor, loop, mempools, history, counters>>

\* The state after genesis: the L1 blocks in the light client contract, the rule enforcer's
\* data (hash of the last L1 block, counter, timestamp), the deposits the bridge contract
\* has seen and the transactions whose nonces are spent.
Genesis == [height |-> 0, l1 |-> << >>, root |-> 0, count |-> 0, ts |-> 0,
            deposited |-> {}, mined |-> {}]

NoBlock == [l1 |-> << >>, ts |-> 0, fetched |-> << >>, deposited |-> {}, txs |-> {}, failed |-> {}]

\* The last element of a sequence that is not empty.
LastOf(seq) == seq[Len(seq)]

\* get_last_l1_height_in_light_client; 0 before the contract is initialized.
LastL1(s) == IF s.l1 = << >> THEN 0 ELSE LastOf(s.l1)
-----------------------------------------------------------------------------
(***************************************************************************)
(* What a block does to the state.                                         *)
(***************************************************************************)
\* Mutant: the parent of an L1 block is not checked.
MutL1Accepted(s, shp, l2, l1) == Range(l1) \subseteq shp

\* The system transactions about L1 blocks succeed: the first block of the chain
\* initializes the contract, which works once; any other must have a proof and come
\* right behind the last one.
L1Accepted(s, shp, l2, l1) ==
  \A i \in DOMAIN l1 :
    /\ l1[i] \in shp
    /\ IF l2 = 1 /\ i = 1 THEN s.l1 = << >>
       ELSE LET before == s.l1 \o SubSeq(l1, 1, i - 1)
            IN before # << >> /\ l1[i] = LastOf(before) + 1

\* The deposits that the bridge contract refuses because it has seen them; any other may
\* revert as well, one to a contract for example.
Seen(s, ds) == {i \in DOMAIN ds : ds[i] \in s.deposited}

\* A deposit that reverts is left out of the block. The nonces were given away beforehand,
\* so one that is not the last system transaction makes the next one fail, and the block.
DepositsAccepted(reverted, ds) == reverted \subseteq {Len(ds)}

\* apply_block_count_rule.
CountRule(s, l1) ==
  LET root == LastL1([s EXCEPT !.l1 = @ \o l1])
  IN IF root = s.root THEN [root |-> root, count |-> s.count + 1, ok |-> s.count < MaxPerL1]
     ELSE [root |-> root, count |-> 1, ok |-> TRUE]

\* apply_timestamp_rule.
TimestampRule(s, now) == now >= s.ts

\* The state after the block b.
After(s, b) ==
  [height |-> s.height + 1, l1 |-> s.l1 \o b.l1, root |-> CountRule(s, b.l1).root,
   count |-> CountRule(s, b.l1).count, ts |-> b.ts,
   deposited |-> s.deposited \cup b.deposited, mined |-> s.mined \cup b.txs]
-----------------------------------------------------------------------------
(***************************************************************************)
(* Start and the DA monitor.                                               *)
(***************************************************************************)
DaBlocksMissed(last, u) == IF last <= u THEN 0 ELSE last - u - 1

\* last_used_l1_height of a sequencer that starts.
StartUsed == IF state.l1 = << >> THEN tip.height - 1 ELSE LastL1(state)

Init ==
  /\ tip \in [height : {StartL1}, fee : FeeRates]
  /\ clock = 0
  /\ state = Genesis
  /\ head = 0 /\ diffs = 0 /\ proofs = {} /\ rows = {}
  /\ sent = << >> /\ chan = << >>
  /\ pc = "idle" /\ finalized = StartL1 /\ used = StartL1 - 1 /\ missed = 0
  /\ plan = << >> /\ block = NoBlock
  /\ deposits = << >> /\ simulated = {} /\ pool = {} /\ sending = {} /\ notices = << >>
  /\ accepted = {} /\ acked = {} /\ dropped = {}
  /\ calls = [x \in Txs \cup Deposits |-> 0]
  /\ retracts = 0 /\ crashes = 0

\* Bitcoin finalizes blocks while the monitor sleeps.
L1Advances ==
  /\ \E h \in tip.height + 1 .. MaxL1 : tip' = [tip EXCEPT !.height = h]
  /\ UNCHANGED <<clock, state, ledger, monitor, loop, mempools, history, counters>>

FeeChanges ==
  /\ \E f \in FeeRates \ {tip.fee} : tip' = [tip EXCEPT !.fee = f]
  /\ UNCHANGED <<clock, state, ledger, monitor, loop, mempools, history, counters>>

\* The DA node answers with a lower height than before.
L1Retracts ==
  /\ retracts < RetractBound /\ tip.height > 1
  /\ tip' = [tip EXCEPT !.height = @ - 1]
  /\ retracts' = retracts + 1
  /\ UNCHANGED <<clock, state, ledger, monitor, loop, mempools, history, crashes>>

ClockMoves ==
  /\ \E t \in {clock - 1, clock + 1} \cap (0 .. ClockBound) : clock' = t
  /\ UNCHANGED <<tip, state, ledger, monitor, loop, mempools, history, counters>>

\* da_block_monitor: what is new is sent; with the channel full the monitor waits.
MonitorPoll ==
  /\ pc \notin {"stopped", "panicked"} /\ Len(chan) < 2 /\ sent # <<tip>>
  /\ sent' = <<tip>>
  /\ chan' = Append(chan, tip)
  /\ UNCHANGED <<da, state, ledger, loop, mempools, history, counters>>

ReceiveL1 ==
  /\ pc = "idle" /\ chan # << >>
  /\ finalized' = Head(chan).height
  /\ missed' = DaBlocksMissed(finalized', used)
  /\ chan' = Tail(chan)
  /\ UNCHANGED <<da, state, ledger, sent, pc, used, plan, block, mempools, history, counters>>
-----------------------------------------------------------------------------
\* process_missed_da_blocks: the heights in chunks.
Chunks ==
  [i \in 1 .. (missed + MaxMissed - 1) \div MaxMissed |->
     [j \in 1 .. IF i * MaxMissed <= missed THEN MaxMissed ELSE missed % MaxMissed |->
        used + (i - 1) * MaxMissed + j]]

\* The production tick: missed blocks first, then the last finalized one.
Tick ==
  /\ pc = "idle"
  /\ plan' = Append(Chunks, <<finalized>>)
  /\ missed' = 0
  /\ pc' = "dry"
  /\ UNCHANGED <<da, state, ledger, monitor, finalized, used, block, mempools, history, counters>>

\* A missed block cannot be fetched for long enough: run returns an error.
FetchFails ==
  /\ pc = "idle" /\ missed > 0 /\ crashes < CrashBound
  /\ crashes' = crashes + 1
  /\ pc' = "stopped"
  /\ UNCHANGED <<da, state, ledger, monitor, view, plan, block, mempools, history, retracts>>

\* produce_l2_block is over.
NextPlanned ==
  /\ plan' = Tail(plan)
  /\ pc' = IF Len(plan) = 1 THEN "idle" ELSE "dry"
  /\ block' = NoBlock

\* The da_blocks of the block to produce: none when the only one was used before.
NewL1 == IF Head(plan) = <<used>> THEN << >> ELSE Head(plan)

\* save_short_header_proofs.
SaveShortHeaderProofs == proofs' = proofs \cup Range(NewL1)

\* DepositDataMempool::fetch_deposits: the oldest ones; they stay in the mempool.
FetchDeposits == SubSeq(deposits, 1, IF FetchLimit < Len(deposits) THEN FetchLimit ELSE Len(deposits))

\* Saves the proofs, fetches deposits, get_best_transactions, dry_run_transactions.
\* A transaction that is mined already, or does not fit now, is skipped.
DryRun ==
  /\ pc = "dry"
  /\ SaveShortHeaderProofs
  /\ LET ds == FetchDeposits
         ok == L1Accepted(state, proofs', head + 1, NewL1)
     IN \E reverts \in SUBSET DOMAIN ds :
          LET reverted == Seen(state, ds) \cup reverts
          IN IF ~(ok /\ DepositsAccepted(reverted, ds))
             THEN NextPlanned
             ELSE /\ \E txs \in SUBSET (pool \ state.mined) :
                     \E failed \in SUBSET (pool \ (txs \cup state.mined)) :
                       block' = [l1 |-> NewL1, ts |-> clock, fetched |-> ds,
                                 deposited |-> {ds[i] : i \in DOMAIN ds \ reverted},
                                 txs |-> txs, failed |-> failed]
                  /\ pc' = "execute"
                  /\ UNCHANGED plan
  /\ UNCHANGED <<da, state, head, diffs, rows, monitor, view, mempools, history, counters>>

\* begin_l2_block, apply_l2_block_txs and end_l2_block: only the rules can refuse a block
\* whose transactions were dry run.
BlockApplies == CountRule(state, block.l1).ok /\ TimestampRule(state, block.ts)

\* The block is executed and its state diff set. The rules may refuse it.
Execute ==
  /\ pc = "execute"
  /\ CASE state.height # head -> pc' = "panicked" /\ UNCHANGED <<diffs, plan, block>>
       [] state.height = head /\ ~BlockApplies ->
            NextPlanned /\ UNCHANGED diffs
       [] OTHER -> pc' = "finalize" /\ diffs' = head + 1 /\ UNCHANGED <<plan, block>>
  /\ UNCHANGED <<da, state, head, proofs, rows, monitor, view, mempools, history, counters>>

\* ProverStorageManager::finalize_storage.
FinalizeStorage ==
  /\ pc = "finalize"
  /\ state' = After(state, block)
  /\ pc' = "commit"
  /\ UNCHANGED <<da, ledger, monitor, view, plan, block, mempools, history, counters>>

\* LedgerDB::commit_l2_block.
CommitL2Block ==
  /\ pc = "commit"
  /\ head' = head + 1
  /\ pc' = "cleanup"
  /\ UNCHANGED <<da, state, diffs, proofs, rows, monitor, view, plan, block, mempools,
                 history, counters>>

\* DepositDataMempool::remove_deposits: all that were fetched, those that reverted too.
RemoveDeposits ==
  /\ pc = "cleanup"
  /\ deposits' = SelectSeq(deposits, LAMBDA d : d \notin Range(block.fetched))
  /\ dropped' = dropped \cup (Range(block.fetched) \ state.deposited)
  /\ pc' = "maintain"
  /\ UNCHANGED <<da, state, ledger, monitor, view, plan, block, simulated, pool, sending,
                 notices, accepted, acked, calls, counters>>

\* create_chain_notification, sent to the pool's maintenance.
NotifyPool == notices' = Append(notices, block.txs)

\* last_used_l1_height after the block.
LastUsed == IF block.l1 = << >> THEN used ELSE LastOf(block.l1)

\* Mutant: the rows of all pooled transactions are removed.
MutMaintainMempool ==
  /\ pc = "maintain"
  /\ NotifyPool
  /\ pool' = pool \ block.failed
  /\ rows' = rows \ (pool \cup block.failed)
  /\ dropped' = dropped \cup block.failed
  /\ used' = LastUsed
  /\ NextPlanned
  /\ UNCHANGED <<da, state, head, diffs, proofs, monitor, finalized, missed, deposits,
                 simulated, sending, accepted, acked, calls, counters>>

\* The notification is sent, the transactions that cannot pay leave the pool and, with the
\* included ones, the ledger; last_used_l1_height follows.
MaintainMempool ==
  /\ pc = "maintain"
  /\ NotifyPool
  /\ pool' = pool \ block.failed
  /\ rows' = rows \ (block.txs \cup block.failed)
  /\ dropped' = dropped \cup block.failed
  /\ used' = LastUsed
  /\ NextPlanned
  /\ UNCHANGED <<da, state, head, diffs, proofs, monitor, finalized, missed, deposits,
                 simulated, sending, accepted, acked, calls, counters>>

\* The pool's maintenance task removes what was mined.
MaintainPool ==
  /\ notices # << >>
  /\ pool' = pool \ Head(notices)
  /\ notices' = Tail(notices)
  /\ UNCHANGED <<da, state, ledger, monitor, loop, deposits, simulated, sending, history, counters>>
-----------------------------------------------------------------------------
(***************************************************************************)
(* Calls.                                                                  *)
(***************************************************************************)
Alive == pc \notin {"stopped", "panicked"}

Called(x) == calls[x] < CallBound /\ calls' = [calls EXCEPT ![x] = @ + 1]

\* eth_send_raw_transaction: the pool takes the transaction ...
SendRawTransaction(t) ==
  /\ Alive /\ Called(t) /\ t \notin state.mined \cup pool \cup sending
  /\ pool' = pool \cup {t}
  /\ sending' = sending \cup {t}
  /\ UNCHANGED <<da, state, ledger, monitor, loop, deposits, simulated, notices, accepted,
                 acked, dropped, counters>>

\* ... then the ledger keeps it, and the hash is returned.
InsertMempoolTx(t) ==
  /\ Alive /\ t \in sending
  /\ rows' = rows \cup {t}
  /\ sending' = sending \ {t}
  /\ acked' = acked \cup {t}
  /\ UNCHANGED <<da, state, head, diffs, proofs, monitor, loop, deposits, simulated, pool,
                 notices, accepted, dropped, calls, counters>>

\* txpool_remove_txs_by_hash and _by_sender.
RemoveTxs(t) ==
  /\ Alive /\ t \in pool /\ t \notin sending /\ Called(t)
  /\ pool' = pool \ {t}
  /\ UNCHANGED <<da, state, ledger, monitor, loop, deposits, simulated, sending, notices,
                 accepted, acked, dropped, counters>>

\* send_raw_deposit_transaction: the deposit is simulated on the latest state ...
SimulateDeposit(d) ==
  /\ Alive /\ Called(d) /\ d \notin state.deposited \cup simulated
  /\ simulated' = simulated \cup {d}
  /\ UNCHANGED <<da, state, ledger, monitor, loop, deposits, pool, sending, notices,
                 accepted, acked, dropped, counters>>

\* ... and added unless it is pending.
AddDeposit(d) ==
  /\ Alive /\ d \in simulated
  /\ simulated' = simulated \ {d}
  /\ deposits' = IF d \in Range(deposits) THEN deposits ELSE Append(deposits, d)
  /\ accepted' = accepted \cup {d}
  /\ UNCHANGED <<da, state, ledger, monitor, loop, pool, sending, notices, acked, dropped,
                 calls, counters>>
-----------------------------------------------------------------------------
(***************************************************************************)
(* Crash, and the start after it (create_sequencer, then run).             *)
(***************************************************************************)
Crash ==
  /\ pc # "stopped" /\ crashes < CrashBound
  /\ crashes' = crashes + 1
  /\ pc' = "stopped"
  /\ UNCHANGED <<da, state, ledger, monitor, view, plan, block, mempools, history, retracts>>

\* restore_mempool gives the pool its transactions back, except for those it refuses: the
\* mined ones, and any other that is not valid on the present state. Their rows are deleted.
Restart ==
  /\ pc = "stopped"
  /\ pc' = "idle" /\ finalized' = tip.height /\ used' = StartUsed
  /\ missed' = DaBlocksMissed(tip.height, StartUsed)
  /\ plan' = << >> /\ block' = NoBlock
  /\ sent' = << >> /\ chan' = << >>
  /\ \E refused \in SUBSET (rows \ state.mined) :
       /\ pool' = rows \ (state.mined \cup refused)
       /\ rows' = rows \ (state.mined \cup refused)
       /\ dropped' = dropped \cup refused
  /\ deposits' = << >> /\ simulated' = {} /\ sending' = {} /\ notices' = << >>
  /\ UNCHANGED <<da, state, head, diffs, proofs, accepted, acked, calls, counters>>
-----------------------------------------------------------------------------
Runner == Tick \/ DryRun \/ Execute \/ FinalizeStorage \/ CommitL2Block \/ RemoveDeposits
            \/ MaintainMempool
Answers == \/ \E t \in Txs : InsertMempoolTx(t)
           \/ \E d \in Deposits : AddDeposit(d)
Calls == \/ \E t \in Txs : SendRawTransaction(t) \/ RemoveTxs(t)
         \/ \E d \in Deposits : SimulateDeposit(d)
World == L1Advances \/ FeeChanges \/ L1Retracts \/ ClockMoves \/ FetchFails \/ Crash \/ Restart
Next == World \/ MonitorPoll \/ ReceiveL1 \/ Runner \/ MaintainPool \/ Calls \/ Answers

Spec == Init /\ [][Next]_vars

\* The node's tasks go on; the loop's select! polls its branches in random order, so that a
\* message is taken although ticks keep coming. L1 blocks, calls and faults need not happen.
FairSpec ==
  /\ Spec
  /\ WF_vars(MonitorPoll) /\ SF_vars(ReceiveL1) /\ WF_vars(Runner)
  /\ WF_vars(MaintainPool) /\ WF_vars(Answers)
-----------------------------------------------------------------------------
\* The databases and the variables of the loop have the shape the code gives them.
TypeOK ==
  /\ tip \in [height : 1 .. MaxL1, fee : FeeRates] /\ clock \in 0 .. ClockBound
  /\ state.height \in Nat /\ Range(state.l1) \subseteq proofs /\ state.ts \in 0 .. ClockBound
  /\ state.count \in 0 .. MaxPerL1 /\ state.deposited \subseteq Deposits /\ state.mined \subseteq Txs
  /\ {head, diffs} \subseteq Nat /\ proofs \subseteq 1 .. MaxL1 /\ rows \subseteq Txs
  /\ pc \in {"idle", "dry", "execute", "finalize", "commit", "cleanup", "maintain", "stopped",
             "panicked"}
  /\ finalized \in 1 .. MaxL1 /\ used \in 0 .. MaxL1 /\ missed \in 0 .. MaxL1
  /\ pc = "idle" => plan = << >>
  /\ \A i \in DOMAIN plan : Len(plan[i]) \in 1 .. MaxMissed
  /\ IsInjective(deposits) /\ Range(deposits) \subseteq Deposits
  /\ sending \subseteq Txs /\ pool \subseteq Txs

\* The light client contract holds consecutive L1 blocks, whatever the DA node, the clock
\* and the failures of the loop do: a block produced after a failed one is refused.
LightClientContiguous ==
  \A i \in 2 .. Len(state.l1) : state.l1[i] = state.l1[i - 1] + 1

\* Between two ticks last_used_l1_height is what the contract holds, also behind a block
\* that failed and behind a restart.
UsedIsInContract ==
  pc = "idle" /\ state.l1 # << >> => used = LastL1(state)

\* The contract and the runner's counter agree about L1: every block is used once and in
\* order, through missed blocks, failures and restarts.
L1BlocksInOrder == LightClientContiguous /\ UsedIsInContract

\* A crash finds the state at most one block ahead of the ledger, never behind, and the
\* diff of every ledger block set: the commitment service reads them.
StoresAgree ==
  /\ state.height \in {head, head + 1}
  /\ head <= diffs

\* A transaction whose hash was returned is kept until it is mined, cannot pay or is refused
\* by the pool of a node that starts: the row is written before the answer and removed
\* after the block is, across crashes and with calls that race the block which mines it.
TxsSurvive ==
  acked \subseteq rows \cup state.mined \cup dropped

\* While the node runs, an accepted deposit is queued until the bridge contract has it or it
\* has reverted in a dry run whose block was made, although blocks fail after the deposit
\* was fetched. A deposit that reverts is not tried again (remove_deposits takes all).
DepositsKept ==
  accepted \subseteq Range(deposits) \cup state.deposited \cup dropped

\* The last finalized block is used only when none before it is missing. It holds while no
\* block fails and the finalized height does not go down: the loop goes on behind a block
\* that failed, and the contract refuses what follows (L1BlocksInOrder).
MissedBlocksFirst ==
  pc \in {"dry", "execute", "finalize", "commit"} /\ Len(plan) = 1 => finalized <= used + 1

\* A crash does not leave databases the sequencer refuses.
NoPanic == pc # "panicked"

\* Again and again the light client contract has caught up with the finalized L1 chain and
\* the deposit mempool is empty, unless the L1 block has all the L2 blocks it may have or
\* several deposits are fetched at once. One of those that reverts in front of another fails
\* every block it is fetched for, those of missed L1 blocks included, and stays queued.
ProductionGetsOn ==
  []<>(\/ LastL1(state) = tip.height /\ (deposits = << >> \/ state.count = MaxPerL1)
       \/ Len(FetchDeposits) > 1)
=============================================================================
