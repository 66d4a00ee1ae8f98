------------------------------- MODULE MCEvm --------------------------------
(***************************************************************************)
(* The EVM module and its RPC for TLC: the estimate of gas, the execution  *)
(* of blocks by a sequencer and by a node, the answers from the databases, *)
(* the fee history and the cache of traces.  A behaviour runs one of them; *)
(* the others rest.                                                        *)
(***************************************************************************)
EXTENDS GasEstimate, Sequences, TLC

CONSTANTS c1, c2  \* two clients of the RPC

VARIABLES
  system,  \* what this behaviour runs
  \* ---- the execution of blocks
  db, base, mem, phase, plan, tried, dry, calls,
  \* ---- the answers from the databases
  chain, stateHead, native, ledgerHead, safe, final, pending, up, notified, pruned, stored, rpc,
  \* ---- the fee history and the cache of traces
  bodies, oldest, entries, numbers, blocks, answer, hashes, cache, requests, stream
-----------------------------------------------------------------------------
\* Gas amounts are scaled: a transfer costs 21, a block holds 200. What a call does with gas:
GasUses ==
  {b \in [intrinsic : {21, 30}, used : {21, 30, 57, 120, 196, 200}, refund : {0, 5, 14},
          need : {21, 22, 30, 31, 57, 58, 64, 75, 120, 133, 150, 196, 200, 201},
          fail : {"revert", "out_of_gas"}] :
     /\ b.intrinsic =< b.used /\ b.used + b.refund =< b.need /\ b.need =< 2 * b.used
     /\ 4 * b.refund =< b.used}

Requested ==
  {q \in [request : {<< >>, <<30>>, <<100>>, <<200>>, <<280>>}, priced : BOOLEAN,
          allowance : {-1, 64, 120, 133, 300}] : q.priced \/ q.allowance \in {-1, 300}}

MCCases ==
  {[block |-> 200, base_fee |-> 3, l1 |-> 7, l1_reverted |-> 2, l1_eoa |-> 4,
    intrinsic |-> b.intrinsic, used |-> b.used, refund |-> b.refund, need |-> b.need, fail |-> b.fail,
    request |-> q.request, priced |-> q.priced, allowance |-> q.allowance,
    transfer |-> t, zero |-> t, block_check |-> k] :
     b \in GasUses, q \in Requested, t \in BOOLEAN, k \in BOOLEAN}
-----------------------------------------------------------------------------
Alice == 4
Bob == 5
Contract == 6
Bridge == 7
Fresh == 8

\* Two senders, a contract and a bridge behind the four reserved addresses.
Accounts ==
  [a \in {0, 1, 2, Alice, Bob, Contract, Bridge} |->
     [bal  |-> CASE a = Alice -> 120 [] a = Bob -> 40 [] a = Bridge -> 9 [] OTHER -> 0,
      nonce |-> IF a \in {Contract, Bridge} THEN 1 ELSE 0,
      code |-> IF a \in {Contract, Bridge} THEN "code" ELSE "none"]]

\* A transaction that uses two units of the three it pays for.
Tx(id, from, nonce, kind, to, value) ==
  [id |-> id, from |-> from, nonce |-> nonce, kind |-> kind, to |-> to, value |-> value,
   gasLimit |-> 3, gas |-> 2, price |-> 2, logs |-> 1, key |-> 1,
   heir |-> Bob, code |-> "delegate", authNonce |-> 0, bridge |-> Bridge]

Pay == Tx(<<"pay", 0>>, Bob, 0, "transfer", Alice, 1)
New == Tx(<<"new", 0>>, Alice, 0, "transfer", Fresh, 5)
Store == Tx(<<"store", 0>>, Alice, 1, "store", Contract, 0)

\* The sequencer: deposits, one of which reverts, transfers to an account and to none,
\* storage, a transaction that takes all the gas there is, and one whose sender is left
\* too poor for the L1 fee.
Sequenced ==
  [name |-> "sequencer", sequencing |-> TRUE, rates |-> {1}, call |-> 1, blocks |-> 3,
   system |-> UNION {{Tx(<<"dep", n>>, 0, n, "deposit", Bob, 3),
                      Tx(<<"bad", n>>, 0, n, "revert", Bob, 0)} : n \in 0..2},
   pool |-> {New, Store, Pay, Tx(<<"poor", 0>>, Bob, 0, "transfer", Alice, 30),
             [Tx(<<"big", 0>>, Alice, 0, "revert", Bob, 0) EXCEPT !.gasLimit = 5, !.gas = 4, !.logs = 0]}]

\* Creation, destruction at once, with an heir or with none but itself and at an address
\* that may have been paid before, and authorizations, on a chain without an L1 fee or with
\* one.
Coded ==
  [Sequenced EXCEPT !.name = "code", !.blocks = 2, !.rates = {0, 1}, !.system = {},
     !.pool = {Tx(<<"create", 0>>, Alice, 0, "create", Fresh, 4),
               Tx(<<"flash", 0>>, Alice, 0, "destroy", Fresh, 4),
               Tx(<<"flash2", 0>>, Alice, 1, "destroy", Fresh + 1, 0),
               [Tx(<<"burn", 0>>, Alice, 1, "destroy", Fresh, 3) EXCEPT !.heir = Fresh],
               Tx(<<"auth", 0>>, Alice, 1, "auth", Bob, 0),
               [Tx(<<"clear", 0>>, Alice, 1, "auth", Bob, 0) EXCEPT !.code = "none"],
               Tx(<<"fund", 0>>, Bob, 0, "transfer", Fresh, 5)}]

\* A node, and the transactions of the blocks it receives.
Received ==
  [Sequenced EXCEPT !.name = "node", !.sequencing = FALSE, !.rates = {0}, !.call = 2,
     !.system = {Tx(<<"dep", n>>, 0, n, "deposit", Bob, 3) : n \in 0..1},
     !.pool = {New, Store, Pay, Tx(<<"blob", 0>>, Bob, 0, "blob", Alice, 0),
               [Tx(<<"again", 0>>, Bob, 1, "transfer", Alice, 1) EXCEPT !.gas = 1, !.logs = 2, !.price = 4]}]
Executions == {Sequenced, Coded, Received}

Evm(e) == INSTANCE EvmBlock WITH
  Sequencing <- e.sequencing, Pool <- e.pool, SystemTxs <- e.system, Genesis <- Accounts,
  BlockGasLimit <- 5, MinGas <- 2, MinBaseFee <- 1, Elasticity <- 2, ChangeDenominator <- 8,
  L1FeeRates <- e.rates, History <- 2, MaxBalance <- 1000, MaxCall <- e.call, MaxCalls <- 2,
  MaxBlocks <- e.blocks
-----------------------------------------------------------------------------
\* Blocks of one or two transactions, by the addresses that log in them.
Busy == {<< <<"a">> >>, << <<"a", "b">>, <<"a">> >>}
OneBody == {<< <<"a", "b">>, << >> >>}

Lookups == [name |-> "lookups", bodies |-> Busy, methods |-> {}, filter |-> 4, headers |-> 4,
            height |-> 4, safe |-> 0]
Chunks == [Lookups EXCEPT !.name = "chunks", !.headers = 1]
Sparse == [Lookups EXCEPT !.name = "sparse", !.bodies = {<< >>, << <<"a">> >>}, !.headers = 1,
                          !.height = 5]
Flight == [Lookups EXCEPT !.name = "flight", !.bodies = OneBody, !.filter = 3, !.headers = 1,
                          !.height = 3, !.safe = 1,
                          !.methods = {"call", "access_list", "estimate", "trace_call", "proof",
                                       "trace", "block"}]
Queries == {Lookups, Chunks, Sparse, Flight}

Query(q) == INSTANCE EvmQuery WITH
  Bodies <- q.bodies, Addresses <- {"a", "b"}, Distance <- 2, Methods <- q.methods,
  MaxBlocksPerFilter <- q.filter, MaxHeadersRange <- q.headers, MaxLogsPerResponse <- 3,
  MaxHeight <- q.height, MaxSafe <- q.safe
-----------------------------------------------------------------------------
Paid(gas, tip) == [gas |-> gas, tip |-> tip]

\* Many percentiles of a short chain, few of one that outgrows the caches.
Percentiles ==
  [name |-> "percentiles", height |-> 2, blocks |-> 2, history |-> 1,
   kinds |-> {<<Paid(2, 3), Paid(1, 1), Paid(3, 2)>>, <<Paid(1, 2), Paid(2, 2)>>},
   requests |-> {<< >>, <<<<0, 3, 5, 8, 16>>>>, <<<<4, 3>>>>, <<<<17, 17>>>>}]
Caches ==
  [name |-> "caches", height |-> 3, blocks |-> 3, history |-> 2,
   kinds |-> {<<Paid(1, 2), Paid(2, 2)>>}, requests |-> {<<<<3, 8>>>>}]
Histories == {Percentiles, Caches}

Fees(h) == INSTANCE FeeHistory WITH
  Kinds <- h.kinds, Requests <- h.requests, Percent <- 4, Resolution <- 2, MaxBlocks <- h.blocks,
  MaxHeaderHistory <- 2, MaxBlockHistory <- h.history, MaxHeight <- h.height,
  chain <- bodies, first <- oldest
-----------------------------------------------------------------------------
Frame(typ, selector, logs, subcalls) ==
  [typ |-> typ, selector |-> selector, logs |-> logs, calls |-> subcalls]
Nested ==
  Frame("call", "set", 1,
        <<Frame("create", "", 0, <<Frame("call", "get", 1, << >>), Frame("call", "set", 0, << >>)>>),
          Frame("call", "get", 0, << >>)>>)
Traced == <<Nested, Frame("call", "", 0, << >>)>>

Ask(tracer, config) == [tracer |-> tracer, config |-> config]
NoConfig == [k \in {} |-> FALSE]
Top == "onlyTopCall" :> TRUE
Logs == "withLog" :> TRUE
Wrong == "invalid" :> TRUE

\* One client asks for everything; two clients share the cache; a subscription.
OneClient ==
  [name |-> "one_client", clients |-> {c1}, blocks |-> {Traced, << >>}, height |-> 2, streams |-> {},
   asks |-> {Ask(t, NoConfig) : t \in {"call", "flat", "fourbyte", "noop", "prestate", "js", "none"}}
              \cup {Ask("call", Top), Ask("call", Logs), Ask("call", Top @@ Logs), Ask("call", Wrong),
                    Ask("prestate", Wrong)}]
TwoClients ==
  [OneClient EXCEPT !.name = "two_clients", !.clients = {c1, c2}, !.blocks = {Traced},
                    !.asks = {Ask("call", Top), Ask("call", NoConfig), Ask("prestate", NoConfig)}]
Subscribed ==
  [OneClient EXCEPT !.name = "subscribed", !.blocks = {<<Frame("call", "set", 1, << >>)>>}, !.height = 3,
                    !.asks = {Ask("fourbyte", NoConfig), Ask("prestate", NoConfig)},
                    !.streams = {Ask("fourbyte", NoConfig), Ask("prestate", NoConfig)}]
Tracers == {OneClient, TwoClients, Subscribed}

Traces(t) == INSTANCE TraceCache WITH
  Clients <- t.clients, Blocks <- t.blocks, Asks <- t.asks, StreamAsks <- t.streams,
  JsEnabled <- FALSE, MaxTraceBlock <- 1, BlockHashHistory <- 2, TraceChainLimit <- 2,
  MaxHeight <- t.height, chain <- bodies, first <- oldest, rpc <- requests
-----------------------------------------------------------------------------
ASSUME EvmAssumption ==
  /\ \A e \in Executions : Evm(e)!EvmConstants
  /\ \A q \in Queries : Query(q)!EvmQueryAssumption
  /\ \A h \in Histories : Fees(h)!FeeHistoryAssumption
  /\ \A t \in Tracers : Traces(t)!TraceCacheAssumption

execution == <<db, base, mem, phase, plan, tried, dry, calls>>
query == <<chain, stateHead, native, ledgerHead, safe, final, pending, up, notified, pruned, stored, rpc>>
fees == <<entries, numbers, blocks, answer>>
traces == <<hashes, cache, requests, stream>>
mcVars == <<system, vars, execution, query, bodies, oldest, fees, traces>>

Rest ==
  /\ system # "gas" =>
       /\ c = 0 /\ pc = "off" /\ lowest = 0 /\ highest = 0 /\ mid = 0 /\ l1_fee = 0 /\ error = 0
  /\ system \notin {e.name : e \in Executions} =>
       /\ db = 0 /\ base = 0 /\ mem = 0 /\ phase = 0 /\ plan = 0 /\ tried = 0 /\ dry = 0 /\ calls = 0
  /\ system \notin {q.name : q \in Queries} =>
       /\ chain = 0 /\ stateHead = 0 /\ native = 0 /\ ledgerHead = 0 /\ safe = 0 /\ final = 0
       /\ pending = 0 /\ up = 0 /\ notified = 0 /\ pruned = 0 /\ stored = 0 /\ rpc = 0
  /\ system \notin {h.name : h \in Histories} =>
       /\ entries = 0 /\ numbers = 0 /\ blocks = 0 /\ answer = 0
       /\ system \notin {t.name : t \in Tracers} => bodies = 0 /\ oldest = 0
  /\ system \notin {t.name : t \in Tracers} => hashes = 0 /\ cache = 0 /\ requests = 0 /\ stream = 0

MCInit ==
  /\ \/ system = "gas" /\ Init
     \/ \E e \in Executions : system = e.name /\ Evm(e)!Init
     \/ \E q \in Queries : system = q.name /\ Query(q)!Init
     \/ \E h \in Histories : system = h.name /\ Fees(h)!Init
     \/ \E t \in Tracers : system = t.name /\ Traces(t)!Init
  /\ Rest

MCNext ==
  /\ UNCHANGED system
  /\ \/ /\ system = "gas" /\ Next
        /\ UNCHANGED <<execution, query, bodies, oldest, fees, traces>>
     \/ /\ \E e \in Executions : system = e.name /\ Evm(e)!Next
        /\ UNCHANGED <<vars, query, bodies, oldest, fees, traces>>
     \/ /\ \E q \in Queries : system = q.name /\ Query(q)!Next
        /\ UNCHANGED <<vars, execution, bodies, oldest, fees, traces>>
     \/ /\ \E h \in Histories : system = h.name /\ Fees(h)!Next
        /\ UNCHANGED <<vars, execution, query, traces>>
     \/ /\ \E t \in Tracers : system = t.name /\ Traces(t)!Next
        /\ UNCHANGED <<vars, execution, query, fees>>

MCSpec == MCInit /\ [][MCNext]_mcVars
-----------------------------------------------------------------------------
\* No transaction makes or loses money, over dry runs, failed calls and dropped blocks
\* (CitreaHandler's deduct_caller, reimburse_caller, reward_beneficiary, EvmDb::commit), but
\* for what a contract destroyed at its creation had before or leaves to itself.
FundsConserved == \A e \in {Sequenced, Coded} : system = e.name => Evm(e)!FundsConserved

\* What the dry run kept goes through as one call message, with the receipts of the dry
\* run (dry_run_transactions against apply_l2_block_txs).
DryRunFaithful == system = Sequenced.name => Evm(Sequenced)!DryRunFaithful

\* The hash sealed for the RPC after the root was computed is the one the next block's
\* header names and BLOCKHASH reads (finalize_hook, begin_l2_block_hook).
HashesAgree == system = Sequenced.name => Evm(Sequenced)!HashesAgree

\* Every account row that a user's transaction writes, the three that fees are paid to
\* apart, is in the diff it pays the L1 fee of (calc_diff_size against EvmDb::commit).
DiffCoversWrites == system = Coded.name => Evm(Coded)!DiffCoversWrites

\* The receipts of every block add up: gas and logs of a receipt start where the one
\* before it ends, over the call messages of the block (execute_call, end_l2_block_hook).
ReceiptsAddUp == system = Received.name => Evm(Received)!ReceiptsAddUp

\* No block has a system transaction after a user's, whatever call messages it is made of
\* (should_be_end_of_sys_txs).
SystemFirst == system = Received.name => Evm(Received)!SystemFirst

\* However a transaction of a recorded block is looked up, by its hash or by its place,
\* the answers agree with each other and with the chain, until the pruner takes the lengths
\* of the vectors behind a run of empty blocks.
LookupsAgree == \A q \in {Lookups, Sparse} : system = q.name => Query(q)!LookupsAgree

\* The range the error of too many logs suggests starts where the request did, and asking
\* for it gives every log of it.
RetryContinues == system = Lookups.name => Query(Lookups)!RetryContinues

\* A block whose hash is known is known by its number too, and both lead to the state the
\* block left, whatever was pruned before.
IdsAgree == \A q \in {Lookups, Sparse} : system = q.name => Query(q)!IdsAgree

\* The pending block can be described whenever there is a latest one.
PendingAnswered == system = Lookups.name => Query(Lookups)!PendingAnswered

\* A range of recorded blocks gives all its matching logs, once each, in order, however
\* the walk is cut into chunks; the limits on blocks and logs are the only errors, while
\* the vectors have their lengths.
LogsComplete == \A q \in {Chunks, Sparse} : system = q.name => Query(q)!LogsComplete

\* A call, a trace or a proof for one particular block runs in the environment and on the
\* state of that block, even when blocks are committed and pruned between its reads.
CallSeesOneBlock == system = Flight.name => Query(Flight)!CallSeesOneBlock

\* An answer of fee_history gives every block of the range its own header and its rewards
\* by definition, unless its records are deleted, whatever the caches kept and forgot.
HistoryIsReal == \A h \in Histories : system = h.name => Fees(h)!HistoryIsReal

\* The two maps of the block cache hold the same blocks whatever was used and evicted
\* (get_block_by_number unwraps the block a cached number leads to).
NumbersLeadToBlocks == system = Caches.name => Fees(Caches)!NumbersLeadToBlocks

\* An answer of debug_trace_by_block_number has the traces of the transactions it was asked
\* about, each on the state the earlier ones of its block left, cached or not.
OwnTransactions ==
  \A t \in {OneClient, TwoClients} : system = t.name => Traces(t)!OwnTransactions

\* An answer of the call tracer is what tracing with the requested configuration but without
\* logs gives, whatever was cached before and by whom; a request withLog gets none either.
CacheInvisible ==
  \A t \in {OneClient, TwoClients} : system = t.name => Traces(t)!CacheInvisible

\* A flat trace lists every frame of the transaction's call tree once, at its address, a
\* parent before its calls.
FlatIsPreorder == system = OneClient.name => Traces(OneClient)!FlatIsPreorder

\* A 4byte trace counts the frames of the transaction's call tree by selector.
SelectorsCounted == system = OneClient.name => Traces(OneClient)!SelectorsCounted

\* A subscription to traceChain gets the blocks after its start in order, each with a trace
\* for every transaction, up to its end or to an error.
StreamInOrder == system = Subscribed.name => Traces(Subscribed)!StreamInOrder
-----------------------------------------------------------------------------

\* A block of the EVM adds up: no money is made or lost, what is written is paid for, and
\* dry run, receipts, hashes and the order of system transactions agree with each other. For
\* money there is one exception, a contract that destroys itself in the transaction that
\* creates it: db_commit.rs lines 23-25 leave the row of an address that held money before as
\* it was, though the heir gets that money, and what it leaves to itself is burnt.
BlocksAddUp ==
  /\ FundsConserved /\ DryRunFaithful /\ HashesAgree
  /\ DiffCoversWrites /\ ReceiptsAddUp /\ SystemFirst

\* Every way to ask about a recorded block gives the answer of that block, while blocks
\* are committed, cached and pruned between the reads. Excluded are the transactions that
\* follow a run of empty blocks longer than the pruning distance: the pruner
\* (prune_native_db) deletes the last rows that hold the lengths of the vectors with the rows
\* of old blocks, and what is pushed afterwards is stored at the wrong places.
AnswersAgree ==
  /\ LookupsAgree /\ RetryContinues /\ IdsAgree /\ PendingAnswered /\ LogsComplete
  /\ CallSeesOneBlock /\ HistoryIsReal /\ NumbersLeadToBlocks

\* A trace is that of the transaction asked about, in the form asked for but for the logs of a
\* call trace, whether it is made now, taken from the cache or streamed. No call trace has
\* logs, asked for or not: trace.rs line 496 says that blocks are cached withlog true, and the
\* options below it have no effect.
TracesAreReal ==
  OwnTransactions /\ CacheInvisible /\ FlatIsPreorder /\ SelectorsCounted /\ StreamInOrder
=============================================================================
