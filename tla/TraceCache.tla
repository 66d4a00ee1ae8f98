----------------------------- MODULE TraceCache -----------------------------
(***************************************************************************)
(* debug_traceBlockByNumber, debug_traceBlockByHash, debug_traceTransaction *)
(* and the subscription debug_traceChain: blocks are traced once with the  *)
(* call tracer, the traces are kept in a cache that forgets the block used *)
(* longest ago, and an answer for another tracer is converted from them.   *)
(* Requests run on threads of their own; they hold the lock of the cache   *)
(* for a lookup with its conversion, and for an insertion.  The hash of a  *)
(* block is its number.                                                    *)
(***************************************************************************)
EXTENDS Integers, Sequences, FiniteSets, TLC, SequencesExt

CONSTANTS
  Clients,          \* requests that may be under way at once
  Blocks,           \* what a block may hold: sequences of call frames
  Asks,             \* [tracer, config] of requests; tracer "none" for the default
  StreamAsks,       \* [tracer, config] of subscriptions
  JsEnabled,        \* enable_js_tracer
  MaxTraceBlock,    \* MAX_TRACE_BLOCK: blocks of the cache
  BlockHashHistory, \* BLOCK_HASH_HISTORY
  TraceChainLimit,  \* trace_chain_block_limit
  MaxHeight         \* bound: L2 height

TraceCacheAssumption ==
  /\ {MaxTraceBlock, BlockHashHistory, TraceChainLimit, MaxHeight} \subseteq Nat \ {0}
  /\ JsEnabled \in BOOLEAN

VARIABLES
  chain,   \* what the blocks hold, block n at n + 1
  first,   \* the first block with records: those before are pruned
  hashes,  \* Evm::latest_block_hashes: << >> or <<hash>> for every slot
  cache,   \* trace_cache: <<number, traces>>, the one used longest ago first
  rpc,     \* requests: their step, and their answer when done
  stream   \* a subscription to traceChain

vars == <<chain, first, hashes, cache, rpc, stream>>

Newest == Len(chain) - 1
Body(n) == chain[n + 1]

-----------------------------------------------------------------------------
(* Configurations and tracers. *)

Optional(map, name) == IF name \in DOMAIN map THEN <<map[name]>> ELSE << >>

\* into_call_config: names that are not the structure's are ignored.
CallConfig(map) ==
  [only_top_call |-> Optional(map, "onlyTopCall"), with_log |-> Optional(map, "withLog")]

NoConfig == [k \in {} |-> FALSE]
IsInvalid(config) == "invalid" \in DOMAIN config
Configured == {"call", "flat", "prestate", "mux"}
Cached == {"call", "flat", "fourbyte", "noop"}

create_trace_cache_opts ==
  [tracer |-> "call", config |-> "only_top_call" :> FALSE @@ "with_log" :> TRUE]

RECURSIVE WithoutLogs(_)
WithoutLogs(frame) ==
  [frame EXCEPT !.logs = 0, !.calls = [i \in DOMAIN frame.calls |-> WithoutLogs(frame.calls[i])]]

\* geth_call_traces of an inspector that records logs or not.
CallTraces(frame, config) ==
  LET logged == IF config.with_log = <<TRUE>> THEN frame ELSE WithoutLogs(frame)
  IN  IF config.only_top_call = <<TRUE>> THEN [logged EXCEPT !.calls = << >>] ELSE logged

\* trace_transaction: the trace of a transaction after those of `before`, and
\* what it changed.  Only call traces are looked into.
trace_transaction(ask, frame, id, before) ==
  [error |-> ask.tracer \in Configured /\ IsInvalid(ask.config),
   changes |-> IF ask.tracer = "noop" THEN << >> ELSE <<id>>,
   trace |-> [kind |-> ask.tracer, tx |-> id, before |-> before,
              frame |-> IF ask.tracer = "call" THEN CallTraces(frame, CallConfig(ask.config)) ELSE frame]]

\* The loop of trace_block_transactions_by_number; `stop` is << >> or <<index>>.
TraceLoop(n, ask, stop) ==
  LET step(acc, i) ==
        IF acc.error \/ (stop # << >> /\ i > stop[1]) THEN acc
        ELSE LET t == trace_transaction(ask, Body(n)[i], <<n, i>>, acc.before) IN
             IF t.error THEN [acc EXCEPT !.error = TRUE]
             ELSE [acc EXCEPT !.traces = Append(@, t.trace), !.before = @ \o t.changes]
  IN  FoldLeftDomain(step, [error |-> FALSE, traces |-> << >>, before |-> << >>], Body(n))

\* trace_block_transactions_by_number
TraceBlock(n, ask, stop) ==
  IF n \notin first .. Newest THEN [error |-> TRUE, traces |-> << >>, before |-> << >>]
  ELSE TraceLoop(n, ask, stop)

-----------------------------------------------------------------------------
(* Conversions of cached call traces. *)

\* Mutant: the calls of a frame stay.
MutApplyCallConfig(frame, config) == frame

\* apply_call_config: the logs are removed from a copy.
apply_call_config(frame, config) ==
  IF config.only_top_call = <<TRUE>> THEN [frame EXCEPT !.calls = << >>] ELSE frame

RECURSIVE Flatten(_, _)
RECURSIVE FlattenCalls(_, _, _)

\* The frame, then those of its calls; every type the interpreter has is known.
Flatten(frame, address) ==
  <<[typ |-> frame.typ, subtraces |-> Len(frame.calls), address |-> address]>>
    \o FlattenCalls(frame.calls, address, 1)
FlattenCalls(calls, address, i) ==
  IF i > Len(calls) THEN << >>
  ELSE Flatten(calls[i], Append(address, i - 1)) \o FlattenCalls(calls, address, i + 1)

convert_call_trace_into_flatcall_frame(frame) == Flatten(frame, << >>)

RECURSIVE Selectors(_)

\* convert_call_trace_into_4byte_map: the keys of the frames in turn.
Selectors(frames) ==
  IF frames = << >> THEN << >>
  ELSE (IF Head(frames).selector = "" THEN << >> ELSE <<Head(frames).selector>>)
         \o Selectors(Head(frames).calls) \o Selectors(Tail(frames))

Counted(keys) == [k \in ToSet(keys) |-> Cardinality({i \in DOMAIN keys : keys[i] = k})]

convert_call_trace_into_4byte_frame(frames) == Counted(Selectors(frames))

\* get_traces_with_requested_tracer_and_config; `index` is << >> or <<i>>.
Converted(traces, ask, n, hash, index) ==
  CASE ask.tracer = "call" ->
         [i \in DOMAIN traces |->
            [traces[i] EXCEPT !.frame =
               LET config == CallConfig(IF IsInvalid(ask.config) THEN NoConfig ELSE ask.config) IN
               IF config.with_log = <<TRUE>> /\ config.only_top_call # <<TRUE>> THEN @
               ELSE apply_call_config(@, config)]]
    [] ask.tracer = "flat" ->
         [i \in DOMAIN traces |->
            [kind |-> "flat", tx |-> traces[i].tx, block |-> n, hash |-> hash,
             position |-> IF index = << >> THEN i ELSE index[1],
             frames |-> convert_call_trace_into_flatcall_frame(traces[i].frame)]]
    [] ask.tracer = "fourbyte" ->
         [i \in DOMAIN traces |->
            [kind |-> "fourbyte", tx |-> traces[i].tx,
             counts |-> convert_call_trace_into_4byte_frame(<<traces[i].frame>>)]]
    [] ask.tracer = "noop" -> <<[kind |-> "noop"]>>

-----------------------------------------------------------------------------
(* The cache. *)

Holds(n) == \E i \in DOMAIN cache : cache[i][1] = n
Lookup(n) == cache[CHOOSE i \in DOMAIN cache : cache[i][1] = n][2]
Others(n) == SelectSeq(cache, LAMBDA e : e[1] # n)
Touched(n) == Append(Others(n), <<n, Lookup(n)>>)
Inserted(n, traces) ==
  Append(IF Len(Others(n)) < MaxTraceBlock THEN Others(n) ELSE Tail(Others(n)), <<n, traces>>)

\* blockhash_get and blockhash_set go by the remainder.
blockhash_get(n) == hashes[n % BlockHashHistory]

Picked(traces, index) == IF index = << >> THEN traces ELSE <<traces[index[1]]>>

\* What debug_trace_by_block_number inserts.
ToCache(traces, index) == traces

Idle == [step |-> "idle"]
Done(ask, n, index, error, traces) ==
  [step |-> "done", ask |-> ask, n |-> n, index |-> index, error |-> error, traces |-> traces]

\* debug_trace_by_block_number up to its result, or up to a miss.
Begin(ask, n, index) ==
  IF ask.tracer = "js" /\ ~JsEnabled THEN Done(ask, n, index, TRUE, << >>)
  ELSE IF ask.tracer \notin Cached
  THEN LET r == TraceBlock(n, ask, index) IN
       Done(ask, n, index, r.error, IF r.error THEN << >> ELSE Picked(r.traces, index))
  ELSE IF Holds(n) THEN Done(ask, n, index, FALSE, Converted(Picked(Lookup(n), index), ask, n, blockhash_get(n), index))
  ELSE [step |-> "missed", ask |-> ask, n |-> n, index |-> index, hash |-> blockhash_get(n)]

UsesCache(ask, n) == ask.tracer \in Cached /\ Holds(n)

\* debug_trace_by_block_number from a miss to its result, r the traced block.
Finish(q, r) ==
  Done(q.ask, q.n, q.index, r.error,
       IF r.error THEN << >> ELSE Converted(Picked(r.traces, q.index), q.ask, q.n, q.hash, q.index))

Init ==
  /\ chain = <<<< >>>> /\ first = 0
  /\ hashes = [s \in 0 .. BlockHashHistory - 1 |-> << >>]
  /\ cache = << >>
  /\ rpc = [c \in Clients |-> Idle]
  /\ stream = Idle

\* A block is produced or synced; its hook stores the hash of its parent.
NewBlock ==
  /\ Newest < MaxHeight
  /\ \E txs \in Blocks : chain' = Append(chain, txs)
  /\ hashes' = [hashes EXCEPT ![Newest % BlockHashHistory] = <<Newest>>]
  /\ UNCHANGED <<first, cache, rpc, stream>>

Prune ==
  /\ first < Newest
  /\ first' = first + 1
  /\ UNCHANGED <<chain, hashes, cache, rpc, stream>>

\* debug_trace_transaction finds the block and the index of a transaction in
\* the records; the other two trace a whole block.
Targets ==
  {<<n, << >>>> : n \in 0 .. Newest + 1}
    \cup UNION {{<<n, <<i>>>> : i \in DOMAIN Body(n)} : n \in first .. Newest}

Request(c) ==
  /\ rpc[c].step = "idle"
  /\ \E ask \in Asks, t \in Targets :
       /\ rpc' = [rpc EXCEPT ![c] = Begin(ask, t[1], t[2])]
       /\ cache' = IF UsesCache(ask, t[1]) THEN Touched(t[1]) ELSE cache
  /\ UNCHANGED <<chain, first, hashes, stream>>

Miss(c) ==
  /\ rpc[c].step = "missed"
  /\ \E r \in {TraceBlock(rpc[c].n, create_trace_cache_opts, << >>)} :
       /\ rpc' = [rpc EXCEPT ![c] = Finish(rpc[c], r)]
       /\ cache' = IF r.error THEN cache ELSE Inserted(rpc[c].n, ToCache(r.traces, rpc[c].index))
  /\ UNCHANGED <<chain, first, hashes, stream>>

\* The client has its answer.
Reply(c) ==
  /\ rpc[c].step = "done"
  /\ rpc' = [rpc EXCEPT ![c] = Idle]
  /\ UNCHANGED <<chain, first, hashes, cache, stream>>

-----------------------------------------------------------------------------
(* debug_traceChain *)

\* handle_debug_trace_chain up to the task.
Subscribe ==
  /\ stream.step = "idle"
  /\ \E ask \in StreamAsks, start \in 0 .. Newest, end \in 0 .. Newest + 1 :
       stream' = IF end > Newest \/ start >= end \/ end - start > TraceChainLimit
                 THEN [step |-> "rejected"]
                 ELSE [step |-> "open", ask |-> ask, start |-> start, end |-> end,
                       inner |-> Idle, sent |-> << >>]
  /\ UNCHANGED <<chain, first, hashes, cache, rpc>>

\* The range begins after its first block.
StreamNext == stream.start + Len(stream.sent) + 1

\* The message of a traced block; the task ends after the last one, after an
\* error, and when the client is gone.
Message(q) ==
  IF q.error THEN [stream EXCEPT !.step = "ended", !.inner = Idle, !.sent = Append(@, "error")]
  ELSE [stream EXCEPT !.step = IF StreamNext = stream.end THEN "ended" ELSE "open",
                      !.inner = Idle, !.sent = Append(@, <<q.n, Len(q.traces)>>)]

StreamRequest ==
  /\ stream.step = "open" /\ stream.inner = Idle
  /\ \E q \in {Begin(stream.ask, StreamNext, << >>)} :
       stream' = IF q.step = "done" THEN Message(q) ELSE [stream EXCEPT !.inner = q]
  /\ cache' = IF UsesCache(stream.ask, StreamNext) THEN Touched(StreamNext) ELSE cache
  /\ UNCHANGED <<chain, first, hashes, rpc>>

StreamMiss ==
  /\ stream.step = "open" /\ stream.inner # Idle
  /\ \E r \in {TraceBlock(StreamNext, create_trace_cache_opts, << >>)} :
       /\ stream' = Message(Finish(stream.inner, r))
       /\ cache' = IF r.error THEN cache ELSE Inserted(StreamNext, ToCache(r.traces, << >>))
  /\ UNCHANGED <<chain, first, hashes, rpc>>

\* The next send of the task fails.
StreamClosed ==
  /\ stream.step = "open"
  /\ stream' = [step |-> "closed"]
  /\ UNCHANGED <<chain, first, hashes, cache, rpc>>

Next ==
  \/ NewBlock \/ Prune
  \/ \E c \in Clients : Request(c) \/ Miss(c) \/ Reply(c)
  \/ Subscribe \/ StreamRequest \/ StreamMiss \/ StreamClosed

Spec == Init /\ [][Next]_vars

-----------------------------------------------------------------------------
(* Properties. *)

\* The answers so far.
Answered(c, tracer) == rpc[c].step = "done" /\ ~rpc[c].error /\ rpc[c].ask.tracer = tracer

\* The transactions of a block up to an index, and those a request is about.
Txs(n, i) == [j \in 1 .. i |-> <<n, j>>]
Asked(q) == IF q.index = << >> THEN Txs(q.n, Len(Body(q.n))) ELSE <<<<q.n, q.index[1]>>>>

\* An answer of debug_trace_by_block_number has the traces of the transactions
\* it was asked about, each on the state the earlier ones of its block left,
\* whether they were traced for it, for a single transaction or for the cache.
OwnTransactions ==
  \A c \in Clients : \A tracer \in {"call", "prestate", "none"} :
    Answered(c, tracer) =>
      /\ [i \in DOMAIN rpc[c].traces |-> rpc[c].traces[i].tx] = Asked(rpc[c])
      /\ \A i \in DOMAIN rpc[c].traces :
           rpc[c].traces[i].before = Txs(rpc[c].n, rpc[c].traces[i].tx[2] - 1)

\* An answer of the call tracer is what tracing with the requested
\* configuration but without logs gives, whatever was cached before and by
\* whom; an invalid configuration counts as none.  A request withLog gets no
\* logs either: create_trace_cache_opts means to trace with logs, but names
\* the option in a way that is not read.
CacheInvisible ==
  \A c \in Clients :
    Answered(c, "call") =>
      \A config \in {IF IsInvalid(rpc[c].ask.config) THEN NoConfig ELSE rpc[c].ask.config} :
        \A i \in DOMAIN rpc[c].traces :
          LET t == rpc[c].traces[i] IN
          t.frame = CallTraces(Body(t.tx[1])[t.tx[2]], [CallConfig(config) EXCEPT !.with_log = << >>])

\* The frames of a call tree with their addresses.
RECURSIVE Nodes(_)
Nodes(frame) ==
  {<<<< >>, frame>>}
    \cup UNION {{<<<<i - 1>> \o node[1], node[2]>> : node \in Nodes(frame.calls[i])} : i \in DOMAIN frame.calls}

\* Does address a come before b: a parent before its calls, these in order?
Before(a, b) ==
  \/ IsStrictPrefix(a, b)
  \/ \E k \in 1 .. Len(a) : k =< Len(b) /\ SubSeq(a, 1, k - 1) = SubSeq(b, 1, k - 1) /\ a[k] < b[k]

\* A flat trace lists every frame of the transaction's call tree once, at its
\* address, with the number of its calls, a parent before its calls, and names
\* the transaction's place in the block.
FlatIsPreorder ==
  \A c \in Clients : Answered(c, "flat") =>
    \A i \in DOMAIN rpc[c].traces :
      LET t == rpc[c].traces[i]
          nodes == Nodes(Body(t.tx[1])[t.tx[2]])
      IN  /\ <<t.block, t.position>> = t.tx
          /\ Len(t.frames) = Cardinality(nodes)
          /\ {<<f.address, f.typ, f.subtraces>> : f \in ToSet(t.frames)}
               = {<<node[1], node[2].typ, Len(node[2].calls)>> : node \in nodes}
          /\ \A j \in 1 .. Len(t.frames) - 1 : Before(t.frames[j].address, t.frames[j + 1].address)

\* A 4byte trace counts the frames of the transaction's call tree by selector.
SelectorsCounted ==
  \A c \in Clients : Answered(c, "fourbyte") =>
    \A i \in DOMAIN rpc[c].traces :
      LET t == rpc[c].traces[i]
          nodes == Nodes(Body(t.tx[1])[t.tx[2]])
      IN  \A s \in {node[2].selector : node \in nodes} \ {""} :
            t.counts[s] = Cardinality({node \in nodes : node[2].selector = s})

\* A subscription to traceChain gets the blocks after its start in order, each
\* with a trace for every transaction, up to its end or to an error.
StreamInOrder ==
  stream.step \in {"open", "ended"} =>
    /\ \A i \in DOMAIN stream.sent :
         \/ i = Len(stream.sent) /\ stream.sent[i] = "error" /\ stream.step = "ended"
         \/ /\ stream.sent[i][1] = stream.start + i
            /\ stream.ask.tracer # "noop" => stream.sent[i][2] = Len(Body(stream.start + i))
    /\ stream.step = "ended" =>
         Last(stream.sent) = "error" \/ Len(stream.sent) = stream.end - stream.start
=============================================================================
