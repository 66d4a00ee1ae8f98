---------------------------- MODULE Inscriptions ----------------------------
(***************************************************************************)
(* The Bitcoin service: from a request to confirmed transactions.          *)
(*                                                                         *)
(* A request becomes a chain of commit/reveal pairs, one per chunk and one *)
(* for the aggregate.  The pairs are tested against the mempool, monitored,*)
(* queued in memory and sent, commit first; what the mempool has no room   *)
(* for is retried on every new block.  The monitoring task follows every   *)
(* transaction through the mempool, blocks, reorganisations and evictions, *)
(* sends evicted ones again and prunes old ones.  An operator may bump the *)
(* fee of a transaction with a child or a replacement.                     *)
(*                                                                         *)
(* Transactions are numbered in the order they are made; 0 stands for the  *)
(* wallet's funds.  An outpoint is a pair <<transaction, output>>: output  *)
(* 0 of a commit is its inscription, output 1 its change, output 0 of any  *)
(* other transaction goes back to the wallet.  Amounts are those of        *)
(* InscriptionBuilder; here a commit spends the previous reveal, if there  *)
(* is one, and one more output that pays for the pair.                     *)
(***************************************************************************)
EXTENDS Tables, Sequences, FiniteSets

CONSTANTS
  Mode,          \* UtxoSelectionMode: "chained" or "oldest"
  Requests,      \* the requests to come, each as its number of pairs (1 or 2)
  Funds,         \* number of finalized outputs the wallet starts with
  ChainLimit,    \* longest chain of unconfirmed transactions Bitcoin accepts
  FinalityDepth, \* confirmations that finalize a transaction
  HistoryLimit,  \* history_limit of the monitoring service
  MaxAttempts,   \* max_rebroadcast_attempts
  RelayFee,      \* smallest fee multiplier the mempool accepts
  MaxMultiplier, \* MAX_FEE_RATE_MULTIPLIER, in steps of FEE_RATE_MULTIPLIER_FACTOR
  BlockBound, ReorgBound, EvictBound, FaultBound, BumpBound, RestartBound, \* bounds
  ClockBound     \* bound: seconds that pass between the first and the last transaction

InscriptionsAssumption ==
  /\ Mode \in {"chained", "oldest"}
  /\ Requests \in Seq({1, 2})
  /\ {Funds, ChainLimit, FinalityDepth, MaxMultiplier} \subseteq Nat \ {0}
  /\ RelayFee \in 1 .. MaxMultiplier
  /\ {HistoryLimit, MaxAttempts, BlockBound, ReorgBound, EvictBound, FaultBound,
      BumpBound, RestartBound, ClockBound} \subseteq Nat

VARIABLES
  \* ---- Bitcoin and the wallet
  txs,       \* every transaction accepted for sending, by number
  chain,     \* the transactions of each block
  mempool,
  sent,      \* transactions the node has seen
  \* ---- the queue task
  pc,        \* "idle", "build", "built", "process", "reveal"
  why,       \* what started the pass over the queue: "block", "request", "retry"
  taken,     \* number of requests taken from the channel
  answered,  \* number of requests answered
  built,     \* signed transactions of the current request
  queue,     \* tx_queue: pairs <<commit, reveal>>
  cursor,    \* pairs the current pass has left behind
  passIds,   \* transactions sent in the current pass
  multiplier,
  \* ---- the monitoring task
  monitored, \* monitored_txs
  lastTx,    \* last_tx; 0 for none
  blockRx,   \* a new tip has been announced to the queue task
  tipSeen,   \* current_tip: number and content of the last block seen
  \* ---- bookkeeping
  crowded,   \* the history was too short for the transactions of the last one's second
  reorgs, evictions, faults, bumps, restarts

bitcoin    == <<txs, chain, mempool, sent>>
queueTask  == <<pc, why, taken, answered, built, queue, cursor, passIds, multiplier>>
monitoring == <<monitored, lastTx, blockRx, tipSeen, crowded>>
counters   == <<reorgs, evictions, faults, bumps, restarts>>
vars == <<bitcoin, queueTask, monitoring, counters>>

Init ==
  /\ txs = << >> /\ chain = << >> /\ mempool = {} /\ sent = {}
  /\ pc = "idle" /\ why = "block" /\ taken = 0 /\ answered = 0
  /\ built = << >> /\ queue = << >> /\ cursor = 0 /\ passIds = {} /\ multiplier = 1
  /\ monitored = EmptyTable /\ lastTx = 0 /\ blockRx = FALSE /\ tipSeen = <<0, {}>>
  /\ crowded = FALSE
  /\ reorgs = 0 /\ evictions = 0 /\ faults = 0 /\ bumps = 0 /\ restarts = 0

-----------------------------------------------------------------------------
(***************************************************************************)
(* Bitcoin.                                                                *)
(***************************************************************************)
Mined == UNION {chain[h] : h \in DOMAIN chain}
Seen  == Mined \cup mempool

Confirmations(i) ==
  IF i = 0 THEN Len(chain) + FinalityDepth
  ELSE IF \E h \in DOMAIN chain : i \in chain[h]
       THEN Len(chain) + 1 - (CHOOSE h \in DOMAIN chain : i \in chain[h])
       ELSE 0

WalletOutputs(i) ==
  IF i = 0 THEN {<<0, v>> : v \in 1 .. Funds}
  ELSE IF txs[i].kind = "commit" THEN {<<i, 1>>} ELSE {<<i, 0>>}

Spent   == UNION {txs[i].ins : i \in Seen}

\* listunspent: what a transaction of the wallet spends is not offered again, even while
\* that transaction is evicted.
Unspent == UNION {WalletOutputs(i) : i \in Seen \cup {0}} \ UNION {txs[i].ins : i \in sent}

\* The transactions of pool that i cannot be mined without, itself included.
UnconfirmedAncestors(ts, i, pool) ==
  LET anc[j \in 0 .. i] ==
        IF j \notin pool \cup {i} THEN {}
        ELSE {j} \cup UNION {anc[o[1]] : o \in ts[j].ins}
  IN anc[i]

\* testmempoolaccept of the new transactions of ts, in their order.
InputsAvailable(ts, new) ==
  \A i \in new : \A o \in ts[i].ins :
    /\ o[1] \in Seen \cup {0} \cup {j \in new : j < i}
    /\ o \notin Spent
RoomFor(ts, new) ==
  \A i \in new : Cardinality(UnconfirmedAncestors(ts, i, mempool \cup new)) <= ChainLimit

Descendants(i) == {j \in mempool : i \in UnconfirmedAncestors(txs, j, mempool)}
ClosedIn(S, pool) == \A j \in S : UnconfirmedAncestors(txs, j, pool) \subseteq S

MineBlock ==
  /\ \E S \in SUBSET mempool :
       /\ ClosedIn(S, mempool)
       /\ S = {} => Cardinality({h \in DOMAIN chain : chain[h] = {}}) < BlockBound
       /\ chain' = Append(chain, S)
       /\ mempool' = mempool \ S
  /\ UNCHANGED <<txs, sent, queueTask, monitoring, counters>>

\* The last block is replaced by an empty one; its transactions go back to the mempool.
Reorganise ==
  /\ reorgs < ReorgBound /\ chain # << >> /\ chain[Len(chain)] # {}
  /\ chain' = [chain EXCEPT ![Len(chain)] = {}]
  /\ mempool' = mempool \cup chain[Len(chain)]
  /\ reorgs' = reorgs + 1
  /\ UNCHANGED <<txs, sent, queueTask, monitoring, evictions, faults, bumps, restarts>>

Evict ==
  /\ evictions < EvictBound
  /\ \E i \in mempool : mempool' = mempool \ Descendants(i)
  /\ evictions' = evictions + 1
  /\ UNCHANGED <<txs, chain, sent, queueTask, monitoring, reorgs, faults, bumps, restarts>>

-----------------------------------------------------------------------------
(***************************************************************************)
(* Status of a monitored transaction.                                      *)
(***************************************************************************)
Status(s, n) == [is |-> s, attempts |-> n]

\* A transaction of the wallet that a mined one excludes, directly or through an ancestor:
\* the node reports a negative number of confirmations and no block.
Conflicted(i) ==
  /\ i \in sent \ Seen
  /\ \E a \in UnconfirmedAncestors(txs, i, sent \ Mined), j \in Mined : txs[a].ins \cap txs[j].ins # {}

\* determine_tx_status. The confirmations are cast to u64: a negative number is taken for a
\* great one, the block is missing, and the call fails (BlockHashNotSet).
CanDetermine(i) == ~Conflicted(i)

DetermineTxStatus(i, current) ==
  IF Confirmations(i) >= FinalityDepth THEN Status("finalized", 0)
  ELSE IF Confirmations(i) > 0 THEN Status("confirmed", 0)
  ELSE IF i \in mempool THEN Status("mempool", 0)
  ELSE IF current.is \in {"queued", "evicted"} THEN current
  ELSE Status("evicted", 0)

\* to_utxos: an evicted or replaced transaction has none.
HasUtxos(i) == i \in DOMAIN monitored /\ monitored[i].status.is \notin {"evicted", "replaced"}

\* get_prev_utxo: the last transaction's first output, if it can be spent.
GetPrevUtxo ==
  IF /\ HasUtxos(lastTx)
     /\ lastTx \in Seen /\ <<lastTx, 0>> \notin Spent
  THEN {<<lastTx, 0>>} ELSE {}

-----------------------------------------------------------------------------
(***************************************************************************)
(* The queue task.                                                         *)
(***************************************************************************)
\* run_da_queue is biased: new blocks first.
NewBlock ==
  /\ pc = "idle" /\ blockRx
  /\ blockRx' = FALSE
  /\ pc' = "process" /\ why' = "block"
  /\ UNCHANGED <<bitcoin, taken, answered, built, queue, cursor, passIds, multiplier,
                 monitored, lastTx, tipSeen, crowded, counters>>

TakeRequest ==
  /\ pc = "idle" /\ ~blockRx
  /\ taken < Len(Requests)
  /\ taken' = taken + 1
  /\ pc' = "build"
  /\ UNCHANGED <<bitcoin, why, answered, built, queue, cursor, passIds, multiplier,
                 monitoring, counters>>

GetUtxos ==
  IF Mode = "chained" THEN Unspent
  ELSE LET used == {o[1] : o \in UNION {txs[queue[n][1]].ins : n \in DOMAIN queue}} IN
       {o \in Unspent : /\ o[1] \notin used
                        /\ o[2] = 0 \/ Confirmations(o[1]) >= FinalityDepth}

HighestConfirmationUtxos ==
  {o \in GetUtxos : \A p \in GetUtxos : Confirmations(p[1]) <= Confirmations(o[1])}

\* Mutant: a chained request is built on the last transaction although it is queued.
MutSelectPrevUtxo ==
  IF queue = << >> \/ GetPrevUtxo # {} \/ Mode = "chained" THEN {GetPrevUtxo}
  ELSE {{o} : o \in HighestConfirmationUtxos}

\* select_prev_utxo: the choices for the output the first commit must spend; none when
\* a chained request finds the queue not empty.
SelectPrevUtxo ==
  IF queue = << >> THEN {GetPrevUtxo}
  ELSE IF Mode = "chained" THEN {}
  ELSE IF GetPrevUtxo # {} THEN {GetPrevUtxo}
  ELSE {{o} : o \in HighestConfirmationUtxos}

\* Mutant: a request waits for the queue without working on it.
MutQueueNotEmpty ==
  /\ pc = "build" /\ SelectPrevUtxo = {}
  /\ UNCHANGED vars

QueueNotEmpty ==
  /\ pc = "build" /\ SelectPrevUtxo = {}
  /\ pc' = "process" /\ why' = "retry"
  /\ UNCHANGED <<bitcoin, taken, answered, built, queue, cursor, passIds, multiplier,
                 monitoring, counters>>

Tx(kind, ins) == [kind |-> kind, ins |-> ins, of |-> taken]

\* create_da_transactions_with_fee_rate and sign_da_txs.  The second commit spends the
\* first reveal, and what is left of the outputs or the first commit's change.
Build ==
  /\ pc = "build"
  /\ \E prev \in SelectPrevUtxo, first \in GetUtxos :
       /\ first \notin prev
       /\ LET n  == Len(txs)
              p1 == <<Tx("commit", prev \cup {first}), Tx("reveal", {<<n + 1, 0>>})>>
              left == (GetUtxos \ (prev \cup {first})) \cup {<<n + 1, 1>>} IN
          IF Requests[taken] = 1 THEN built' = p1
          ELSE \E second \in left :
                 built' = p1 \o <<Tx("commit", {<<n + 2, 0>>, second}), Tx("reveal", {<<n + 3, 0>>})>>
  /\ pc' = "built"
  /\ UNCHANGED <<bitcoin, why, taken, answered, queue, cursor, passIds, multiplier,
                 monitoring, counters>>

New == (Len(txs) + 1) .. (Len(txs) + Len(built))

\* get_next_fee_rate_multiplier
NextMultiplier == IF multiplier = MaxMultiplier THEN multiplier ELSE multiplier + 1

\* Rejected for another reason than room, or the predecessor is not monitored: the
\* request is built again, with a higher fee if that was the reason.
Rejected ==
  /\ pc = "built"
  /\ \/ /\ ~InputsAvailable(txs \o built, New) \/ (lastTx # 0 /\ lastTx \notin DOMAIN monitored)
        /\ UNCHANGED multiplier
     \/ /\ multiplier < RelayFee
        /\ multiplier' = NextMultiplier
  /\ built' = << >>
  /\ pc' = "build"
  /\ UNCHANGED <<bitcoin, why, taken, answered, queue, cursor, passIds, monitoring, counters>>

Max0(S) == IF S = {} THEN 0 ELSE CHOOSE i \in S : \A j \in S : j <= i

\* get_timestamp, in whole seconds: the second of the last monitored transaction, or a later one.
Now ==
  LET latest == Max0({monitored[i].at : i \in DOMAIN monitored})
  IN {latest} \cup {t \in {latest + 1} : monitored # EmptyTable /\ t <= ClockBound}

\* monitor_transaction_chain: each transaction is linked to the one before it.
MonitorChain(now) ==
  [i \in DOMAIN monitored \cup New |->
     IF i \in New THEN [status |-> Status("queued", 0),
                        kind   |-> built[i - Len(txs)].kind,
                        prev   |-> IF i = Len(txs) + 1 THEN lastTx ELSE i - 1,
                        at     |-> now]
     ELSE monitored[i]]

\* Accepted by the mempool, or to be queued for lack of room.
QueueTransactions ==
  /\ pc = "built"
  /\ InputsAvailable(txs \o built, New)
  /\ lastTx # 0 => lastTx \in DOMAIN monitored
  /\ multiplier >= RelayFee
  /\ txs' = txs \o built
  /\ \E now \in Now : monitored' = MonitorChain(now)
  /\ lastTx' = Len(txs) + Len(built)
  /\ queue' = queue \o [n \in 1 .. (Len(built) \div 2) |-> <<Len(txs) + 2 * n - 1, Len(txs) + 2 * n>>]
  /\ built' = << >>
  /\ pc' = "process" /\ why' = "request"
  /\ UNCHANGED <<chain, mempool, sent, taken, answered, cursor, passIds, multiplier,
                 blockRx, tipSeen, crowded, counters>>

\* process_transaction_queue: one pass.
Trying == IF cursor < Len(queue) THEN {queue[cursor + 1][1], queue[cursor + 1][2]} ELSE {}
Acceptable == InputsAvailable(txs, Trying) /\ RoomFor(txs, Trying) /\ Trying \cap Seen = {}

SendCommit ==
  /\ pc = "process" /\ Trying # {} /\ Acceptable
  /\ mempool' = mempool \cup {queue[cursor + 1][1]}
  /\ sent' = sent \cup {queue[cursor + 1][1]}
  /\ pc' = "reveal"
  /\ UNCHANGED <<txs, chain, why, taken, answered, built, queue, cursor, passIds, multiplier,
                 monitoring, counters>>

Without(s, n) == SubSeq(s, 1, n - 1) \o SubSeq(s, n + 1, Len(s))

SendReveal ==
  /\ pc = "reveal"
  /\ LET pair == queue[cursor + 1] IN
     /\ InputsAvailable(txs, {pair[2]})
     /\ mempool' = mempool \cup {pair[2]}
     /\ sent' = sent \cup {pair[2]}
     /\ passIds' = passIds \cup {pair[1], pair[2]}
  /\ queue' = Without(queue, cursor + 1)
  /\ pc' = "process"
  /\ UNCHANGED <<txs, chain, why, taken, answered, built, cursor, multiplier, monitoring, counters>>

\* The reveal is refused, or the call to the node fails: the pair stays in the queue.
RevealFails ==
  /\ pc = "reveal"
  /\ \/ ~InputsAvailable(txs, {queue[cursor + 1][2]}) /\ UNCHANGED faults
     \/ faults < FaultBound /\ faults' = faults + 1
  /\ cursor' = IF Mode = "chained" THEN Len(queue) ELSE cursor + 1
  /\ pc' = "process"
  /\ UNCHANGED <<bitcoin, why, taken, answered, built, queue, passIds, multiplier, monitoring,
                 reorgs, evictions, bumps, restarts>>

\* A chained pass ends at the first pair that is rejected, the other tries them all.
SkipPair ==
  /\ pc = "process" /\ Trying # {} /\ ~Acceptable
  /\ cursor' = IF Mode = "chained" THEN Len(queue) ELSE cursor + 1
  /\ UNCHANGED <<bitcoin, pc, why, taken, answered, built, queue, passIds, multiplier,
                 monitoring, counters>>

\* update_txs_status ends at the first transaction whose status cannot be determined.
UpdateStatus(ids) ==
  [i \in DOMAIN monitored |->
     IF i \in ids /\ \A j \in ids : j <= i => CanDetermine(j) THEN [monitored[i] EXCEPT !.status = DetermineTxStatus(i, @)] ELSE monitored[i]]

EndPass ==
  /\ pc = "process" /\ Trying = {}
  /\ monitored' = UpdateStatus(passIds)
  /\ passIds' = {} /\ cursor' = 0
  /\ pc' = IF why = "retry" THEN "build" ELSE "idle"
  /\ IF why = "request" THEN answered' = answered + 1 /\ multiplier' = 1
     ELSE UNCHANGED <<answered, multiplier>>
  /\ UNCHANGED <<bitcoin, why, taken, built, queue, lastTx, blockRx, tipSeen,
                 crowded, counters>>

-----------------------------------------------------------------------------
(***************************************************************************)
(* The monitoring task.                                                    *)
(***************************************************************************)
\* What check_transactions looks at: finalized transactions, and evicted ones that were not
\* sent again yet, are left alone.
Checkable ==
  {i \in DOMAIN monitored :
     LET st == monitored[i].status IN ~(st.is = "finalized" \/ (st.is = "evicted" /\ st.attempts = 0))}

\* check_transactions: the map is walked in no particular order, and the walk ends at the
\* first transaction whose status cannot be determined.
CheckTransactions ==
  {[i \in DOMAIN monitored |->
      IF i \in seen THEN [monitored[i] EXCEPT !.status = DetermineTxStatus(i, @)] ELSE monitored[i]] :
   seen \in IF \A i \in Checkable : CanDetermine(i) THEN {Checkable}
            ELSE SUBSET {i \in Checkable : CanDetermine(i)}}

Finalized(m) == {i \in DOMAIN m : m[i].status.is = "finalized"}
Excess(m) == IF Cardinality(DOMAIN m) > HistoryLimit THEN Cardinality(DOMAIN m) - HistoryLimit ELSE 0

\* Mutant: any transaction may be pruned.
MutPruned(m) == {Delete(m, gone) : gone \in {S \in SUBSET DOMAIN m : Cardinality(S) = Excess(m)}}

\* prune_old_transactions: finalized ones go until the limit is met, those of the earliest
\* second first and those of one second in no particular order.
Pruned(m) ==
  {Delete(m, gone) : gone \in
     {S \in SUBSET Finalized(m) :
        /\ Cardinality(S) = Excess(m) \/ (S = Finalized(m) /\ Cardinality(S) < Excess(m))
        /\ \A i \in S, j \in Finalized(m) \ S : m[i].at <= m[j].at}}

\* What is not final and what was monitored with the last transaction or later exceed the
\* limit when the last one is final: it may be pruned.
Crowds(m) ==
  /\ lastTx \in Finalized(m)
  /\ Cardinality({i \in DOMAIN m : i \in Finalized(m) => m[i].at >= m[lastTx].at}) > HistoryLimit

Tip == <<Len(chain), IF chain = << >> THEN {} ELSE chain[Len(chain)]>>

\* One tick of the check interval.  What handle_reorg does to a status check_transactions
\* does as well, and sending again what is in the mempool changes nothing.
Check ==
  /\ tipSeen' = Tip
  /\ blockRx' = (blockRx \/ Tip # tipSeen)
  /\ \E m \in CheckTransactions : monitored' \in Pruned(m) /\ crowded' = (crowded \/ Crowds(m))
  /\ UNCHANGED <<bitcoin, queueTask, lastTx, counters>>

\* The transactions rebroadcast_last_txs visits: back from the last one to a finalized one.
LastTxs ==
  LET back[i \in 0 .. Len(txs)] ==
        IF i \notin DOMAIN monitored \/ monitored[i].status.is = "finalized" THEN {}
        ELSE {i} \cup back[monitored[i].prev]
  IN back[lastTx]

RetriedEvicted ==
  {i \in DOMAIN monitored : monitored[i].status.is = "evicted" /\ monitored[i].status.attempts < MaxAttempts}

\* One tick of the rebroadcast interval.  The node takes back those it knows whose inputs
\* are there, in whatever order they are sent, if it wants them.
Rebroadcast ==
  /\ \E S \in SUBSET (((RetriedEvicted \cup LastTxs) \cap sent) \ Seen) :
       /\ \A i \in S : \A o \in txs[i].ins : o[1] \in Seen \cup {0} \cup S /\ o \notin Spent
       /\ \A i, j \in S : i # j => txs[i].ins \cap txs[j].ins = {}
       /\ mempool' = mempool \cup S
  /\ monitored' = [i \in DOMAIN monitored |->
       IF i \in RetriedEvicted THEN [monitored[i] EXCEPT !.status.attempts = @ + 1] ELSE monitored[i]]
  /\ UNCHANGED <<txs, chain, sent, queueTask, lastTx, blockRx, tipSeen,
                 crowded, counters>>

-----------------------------------------------------------------------------
(***************************************************************************)
(* The operator, and a restart.                                            *)
(***************************************************************************)
InMempool(i) == i \in DOMAIN monitored /\ monitored[i].status.is = "mempool"

\* The transactions of a request being built are numbered after the one made now.
Renumbered ==
  [n \in DOMAIN built |-> [built[n] EXCEPT !.ins =
     {IF o[1] > Len(txs) THEN <<o[1] + 1, o[2]>> ELSE o : o \in @}]]

\* What bump_fee_cpfp, unless it is forced, and bump_fee_rbf agree to.
MayCpfp(i) == InMempool(i) /\ monitored[i].kind # "commit"
MayRbf(i) == InMempool(i) /\ monitored[i].kind = "cpfp" /\ i \in mempool

\* bump_fee with a child: whatever the transaction, the child spends the last one's output.
BumpFeeCpfp ==
  /\ bumps < BumpBound
  /\ \E i \in DOMAIN monitored, prev \in GetPrevUtxo, pay \in Unspent :
       LET id == Len(txs) + 1 IN
       /\ MayCpfp(i) /\ pay # prev
       /\ txs' = Append(txs, Tx("cpfp", {prev, pay}))
       /\ mempool' = mempool \cup {id} /\ sent' = sent \cup {id}
       /\ \E now \in Now :
            monitored' = Put(monitored, id, [status |-> Status("mempool", 0), kind |-> "cpfp",
                                             prev |-> i, at |-> now])
       /\ lastTx' = id
  /\ built' = Renumbered
  /\ bumps' = bumps + 1
  /\ UNCHANGED <<chain, pc, why, taken, answered, queue, cursor, passIds, multiplier,
                 blockRx, tipSeen, crowded, reorgs, evictions, faults, restarts>>

\* bump_fee with a replacement: only of a child made by bump_fee.
BumpFeeRbf ==
  /\ bumps < BumpBound
  /\ \E i \in DOMAIN monitored :
       LET id == Len(txs) + 1 IN
       /\ MayRbf(i) /\ GetPrevUtxo # {}
       /\ txs' = Append(txs, Tx("cpfp", txs[i].ins))
       /\ mempool' = (mempool \ Descendants(i)) \cup {id} /\ sent' = sent \cup {id}
       /\ \E now \in Now :
            monitored' = Put([monitored EXCEPT ![i].status = Status("replaced", 0)],
                             id, [monitored[i] EXCEPT !.status = Status("mempool", 0), !.at = now])
       /\ lastTx' = IF lastTx = i THEN id ELSE lastTx
  /\ built' = Renumbered
  /\ bumps' = bumps + 1
  /\ UNCHANGED <<chain, pc, why, taken, answered, queue, cursor, passIds, multiplier,
                 blockRx, tipSeen, crowded, reorgs, evictions, faults, restarts>>

\* The reveals the wallet still holds an output of, with their commits, oldest first.
Restored ==
  {i \in Seen : txs[i].kind = "reveal" /\ <<i, 0>> \in Unspent /\ Confirmations(i) <= FinalityDepth}

\* The process stops and starts: restore_from_utxos rebuilds what it can.
Restart ==
  /\ restarts < RestartBound
  /\ pc' = "idle" /\ built' = << >> /\ queue' = << >> /\ cursor' = 0 /\ passIds' = {}
  /\ multiplier' = 1 /\ blockRx' = FALSE /\ tipSeen' = Tip
  /\ answered' = taken
  /\ monitored' = [i \in Restored \cup {r - 1 : r \in Restored} |->
       [status |-> DetermineTxStatus(i, Status("queued", 0)), kind |-> txs[i].kind,
        prev |-> IF txs[i].kind = "reveal" THEN i - 1 ELSE Max0({r \in Restored : r < i}),
        at |-> 0]]
  /\ lastTx' = Max0(Restored)
  /\ restarts' = restarts + 1
  /\ UNCHANGED <<bitcoin, why, taken, crowded, reorgs, evictions, faults, bumps>>

QueueTask ==
  \/ NewBlock \/ TakeRequest \/ QueueNotEmpty \/ Build \/ Rejected \/ QueueTransactions
  \/ SendCommit \/ SendReveal \/ SkipPair \/ EndPass

Next ==
  \/ QueueTask \/ RevealFails
  \/ Check \/ Rebroadcast
  \/ BumpFeeCpfp \/ BumpFeeRbf \/ Restart
  \/ MineBlock \/ Reorganise \/ Evict

Spec == Init /\ [][Next]_vars

MineAll == MineBlock /\ mempool # {} /\ mempool' = {}

\* Both tasks run, and Bitcoin goes on making blocks.
FairSpec ==
  /\ Spec
  /\ WF_vars(QueueTask) /\ WF_vars(Check) /\ WF_vars(MineAll)

-----------------------------------------------------------------------------
(***************************************************************************)
(* Properties.                                                             *)
(***************************************************************************)
Queued == UNION {{queue[n][1], queue[n][2]} : n \in DOMAIN queue}

TypeOK ==
  /\ mempool \cup Mined \cup Queued \cup DOMAIN monitored \subseteq DOMAIN txs
  /\ mempool \cap Mined = {}
  /\ mempool \cup Mined \subseteq sent
  /\ lastTx \in 0 .. Len(txs)
  /\ \A i \in DOMAIN monitored :
       /\ monitored[i].prev \in 0 .. Len(txs)
       /\ monitored[i].status.is \in
            {"queued", "mempool", "confirmed", "finalized", "evicted", "replaced"}
  /\ pc \in {"idle", "build", "built", "process", "reveal"}
  /\ multiplier \in 1 .. MaxMultiplier
  /\ answered <= taken /\ cursor <= Len(queue)

\* No two transactions that are queued, in the mempool or mined spend the same output:
\* none of the parallel chains can make another one invalid (get_utxos, lines 449-480).
NoConflictingSpends ==
  \A i, j \in Queued \cup Seen : i # j => txs[i].ins \cap txs[j].ins = {}

\* The pairs of one request reach Bitcoin in order: nobody sees an aggregate before its
\* chunks, whichever mode skips over what is rejected (lines 574-650).
ChunksBeforeAggregate ==
  \A i \in Queued \ sent, j \in sent :
    (txs[i].of = txs[j].of /\ txs[j].kind # "cpfp") => j < i

\* The last transaction stays monitored, and so does everything it stands on that is not
\* finalized: otherwise no further request is accepted (monitor_transaction, line 491) and
\* the walk back of rebroadcast_last_txs fails (line 849). The exception: the history limit
\* does not hold what is not final and what was monitored in the second of the last one.
\* prune_old_transactions sorts by whole seconds, so that it may then take the last one.
ChainStaysMonitored ==
  lastTx # 0 /\ ~crowded =>
    /\ lastTx \in DOMAIN monitored
    /\ \A i \in LastTxs : monitored[i].prev # 0 =>
         monitored[i].prev \in DOMAIN monitored \/ monitored[i].prev \in Mined

\* A transaction once finalized in the monitor's eyes stays in the chain, and what is
\* queued is never taken for sent (determine_tx_status). A status need not be up to date:
\* a replaced transaction whose replacement is mined ends the walk of check_transactions
\* at every tick, wherever it comes in the map.
StatusIsTrue ==
  \A i \in DOMAIN monitored :
    /\ monitored[i].status.is = "finalized" => i \in Mined
    /\ i \in Queued \ sent => monitored[i].status.is = "queued"

\* Again and again every request taken from the channel is answered, whatever is queued
\* before it, and everything built is in a block: the queue is tried on every block until
\* the mempool takes it (run_da_queue, lines 277-286).
RequestsGetMined == []<>(taken = answered /\ DOMAIN txs \subseteq Mined)
=============================================================================
