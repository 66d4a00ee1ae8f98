------------------------------ MODULE EvmQuery ------------------------------
(***************************************************************************)
(* The Ethereum queries of a node and the records they read.  A block is   *)
(* executed on the state database, its records (block, hash, transactions, *)
(* receipts) are pushed to vectors and maps of the native database, and    *)
(* the ledger follows; a pruner deletes old rows of the native database,   *)
(* whatever they hold.  Queries run on other threads: the answers that     *)
(* take one look are operators, the ones that read, rewind the state and   *)
(* read again are steps.                                                   *)
(* A block's hash is its height and a transaction's hash its number in the *)
(* chain; the state is named by the height of the block that left it.      *)
(***************************************************************************)
EXTENDS Integers, Sequences, FiniteSets, SequencesExt, FiniteSetsExt, TLC

CONSTANTS
  Bodies,             \* block bodies: sequences of transactions, each the
                      \* sequence of the addresses that log in it
  Addresses,          \* addresses of filters
  Distance,           \* pruning distance
  Methods,            \* the requests in flight that are explored
  MaxBlocksPerFilter, MaxHeadersRange, MaxLogsPerResponse,
  MaxHeight,          \* bound: L2 height
  MaxSafe             \* bound: heights that become committed

EvmQueryAssumption ==
  /\ {Distance, MaxBlocksPerFilter, MaxLogsPerResponse, MaxHeight} \subseteq Nat \ {0}
  /\ {MaxHeadersRange, MaxSafe} \subseteq Nat
  /\ Methods \subseteq {"call", "access_list", "estimate", "trace_call", "proof", "trace", "block"}

VARIABLES
  chain,      \* history: the bodies of the blocks, genesis excluded
  stateHead,  \* state database: height of the newest state
  native,     \* native database: <<table, index, version>> to value
  ledgerHead, \* ledger: head L2 height
  safe,       \* ledger: highest committed height (0 for none)
  final,      \* ledger: highest proven height (0 for none)
  pending,    \* rows of the block whose state is written, not its records
  up,         \* is the node running?
  notified,   \* the last height the pruner heard of
  pruned,     \* PrunerService: last_pruned_block
  stored,     \* LastPrunedL2Height of the native database, LastPrunedBlock of the ledger
  rpc         \* the request in flight

store == <<chain, stateHead, native, ledgerHead, pending>>
vars == <<store, safe, final, up, notified, pruned, stored, rpc>>

-----------------------------------------------------------------------------
(* Rows by version. *)

Newest == MaxHeight + 2

\* Block h is committed at version h + 1.
VersionOfBlock(h) == h + 1

\* NativeDB::get_value_option: the newest row up to the version.
Read(table, i, version) ==
  LET vs == {v \in 0 .. version : <<table, i, v>> \in DOMAIN native} IN
  IF vs = {} THEN << >> ELSE <<native[table, i, Max(vs)]>>

\* StateVecAccessor::len
Length(table) ==
  LET row == Read("len", table, Newest) IN IF row = << >> THEN 0 ELSE row[1]

\* StateVecAccessor::last, of the blocks.
LastBlock == Read("block", Length("block") - 1, Newest)

-----------------------------------------------------------------------------
(* Blocks. *)

Genesis == [number |-> 0, first |-> 0, end |-> 0, bloom |-> {}]

NoRows == [k \in {} |-> 0]

Init ==
  /\ chain = << >> /\ stateHead = 0 /\ ledgerHead = 0 /\ safe = 0 /\ final = 0
  /\ native = (<<"block", 0, 1>> :> Genesis @@ <<"hash", 0, 1>> :> 0 @@ <<"len", "block", 1>> :> 1)
  /\ pending = NoRows
  /\ up = TRUE /\ notified = 0 /\ pruned = 0 /\ stored = << >>
  /\ rpc = [step |-> "idle"]

\* log_index_start: the logs of the block's earlier transactions.
LogStart(body, i) == FoldSeq(LAMBDA tx, n : n + Len(tx), 0, SubSeq(body, 1, i - 1))

\* tx_index counts from the end of the parent's range.
TxIndex(parent, i) == parent.end + i - 1

\* The rows end_l2_block_hook and finalize_hook write: pushes go to the end of
\* the vectors.
Records(h, body, parent) ==
  LET v == VersionOfBlock(h)
      n == Len(body)
      block == [number |-> h, first |-> parent.end, end |-> parent.end + n,
                bloom |-> UNION {ToSet(body[i]) : i \in 1 .. n}]
      rows(table, at, value(_)) ==
        [k \in {<<table, at + i, v>> : i \in 1 .. n} |-> value(k[2] - at)]
  IN  (<<"block", h, v>> :> block @@ <<"hash", h, v>> :> h @@ <<"len", "block", v>> :> Length("block") + 1)
      @@ rows("tx", Length("tx") - 1, LAMBDA i : [hash |-> parent.end + i, block |-> h])
      @@ rows("receipt", Length("receipt") - 1,
              LAMBDA i : [logs |-> body[i], log_start |-> LogStart(body, i)])
      @@ rows("tx_hash", parent.end, LAMBDA i : TxIndex(parent, i))
      @@ [k \in IF n = 0 THEN {} ELSE {<<"len", "tx", v>>, <<"len", "receipt", v>>} |->
            Length(k[2]) + n]

\* The next block is executed, and its state written.
WriteState ==
  /\ up /\ pending = NoRows /\ stateHead = ledgerHead /\ ledgerHead < MaxHeight
  /\ \E body \in Bodies :
       /\ chain' = Append(chain, body)
       /\ pending' = Records(ledgerHead + 1, body, LastBlock[1])
  /\ stateHead' = ledgerHead + 1
  /\ UNCHANGED <<native, ledgerHead, safe, final, up, notified, pruned, stored, rpc>>

WriteRecords ==
  /\ up /\ pending # NoRows
  /\ native' = pending @@ native
  /\ pending' = NoRows
  /\ UNCHANGED <<chain, stateHead, ledgerHead, safe, final, up, notified, pruned, stored, rpc>>

\* The head moves and the block is broadcast.
CommitLedger ==
  /\ up /\ pending = NoRows /\ ledgerHead < stateHead
  /\ ledgerHead' = stateHead /\ notified' = stateHead
  /\ UNCHANGED <<chain, stateHead, native, pending, safe, final, up, pruned, stored, rpc>>

\* Commitments and proofs of synced blocks arrive.
Finality ==
  /\ up
  /\ \/ safe < Min({ledgerHead, MaxSafe}) /\ safe' = safe + 1 /\ UNCHANGED final
     \/ final < safe /\ final' = final + 1 /\ UNCHANGED safe
  /\ UNCHANGED <<store, up, notified, pruned, stored, rpc>>

-----------------------------------------------------------------------------
(* Pruning, by the running node's service or by the command line tool. *)

prune_native_db(rows, upTo) ==
  LET kept == {k \in DOMAIN rows : k[3] > upTo + 1} IN [k \in kept |-> rows[k]]

Prune ==
  /\ up /\ notified >= pruned + 2 * Distance
  /\ native' = prune_native_db(native, pruned + Distance)
  /\ pruned' = pruned + Distance
  /\ UNCHANGED <<chain, stateHead, ledgerHead, pending, safe, final, up, notified, stored, rpc>>

\* The height is stored when the service stops, and only then.
Shutdown ==
  /\ up /\ pending = NoRows /\ stateHead = ledgerHead
  /\ up' = FALSE /\ stored' = <<pruned>> /\ rpc' = [step |-> "idle"]
  /\ UNCHANGED <<store, safe, final, notified, pruned>>

\* citrea-cli prune stores no height.
CliPrune ==
  /\ ~up /\ ledgerHead >= stored[1] + 2 * Distance
  /\ native' = prune_native_db(native, stored[1] + Distance)
  /\ UNCHANGED <<chain, stateHead, ledgerHead, pending, safe, final, up, notified, pruned, stored, rpc>>

Start ==
  /\ ~up
  /\ up' = TRUE /\ notified' = 0 /\ pruned' = stored[1]
  /\ UNCHANGED <<store, safe, final, stored, rpc>>

-----------------------------------------------------------------------------
(* Answers. *)

Ok(x) == <<"ok", x>>
Err(e) == <<"error", e>>
Null == <<"null">>
Panic == <<"panic">>

Tags == {"none", "latest", "pending", "earliest", "safe", "finalized"}
Tag(t) == [kind |-> t, n |-> 0]
Number(n) == [kind |-> "number", n |-> n]
Hash(n) == [kind |-> "hash", n |-> n]
BlockIds == {Tag(t) : t \in Tags} \cup {Number(n) : n \in 0 .. MaxHeight + 1}
                                  \cup {Hash(n) : n \in 0 .. MaxHeight + 1}

Latest == LastBlock[1].number

\* Mutant: the check is off by one.
MutIsPruned(n) == stored # << >> /\ n # 0 /\ n =< stored[1] + 1

\* check_if_l2_block_pruned
IsPruned(n) == stored # << >> /\ n # 0 /\ n =< stored[1]

Found(row) == IF row = << >> THEN Null ELSE Ok(row[1])
Expect(row) == IF row = << >> THEN Panic ELSE Ok(row[1])

\* get_sealed_block_by_number, reading at a version.
SealedBlock(id, version) ==
  CASE id.kind = "number" -> IF IsPruned(id.n) THEN Err("pruned") ELSE Found(Read("block", id.n, version))
    [] id.kind = "earliest" -> Expect(Read("block", 0, version))
    [] id.kind \in {"latest", "none"} -> Expect(LastBlock)
    [] id.kind = "safe" -> Found(Read("block", safe, version))
    [] id.kind = "finalized" -> Found(Read("block", final, version))
    [] id.kind = "pending" -> Err("pending_not_supported")

\* get_block_number_by_block_hash
HashNumber(id) == Read("hash", id.n, Newest)

\* The answer that follows a successful one.
Then(r, f(_)) == IF r[1] = "ok" THEN f(r[2]) ELSE r

\* The block of an id; what an unknown hash gives depends on the method.
BlockOfId(id, unknown) ==
  IF id.kind = "hash" /\ HashNumber(id) = << >> THEN unknown
  ELSE SealedBlock(IF id.kind = "hash" THEN Number(HashNumber(id)[1]) ELSE id, Newest)

\* A block by hash where the number is not checked for pruning.
BlockOfHash(n) ==
  IF Read("hash", n, Newest) = << >> THEN Null
  ELSE Expect(Read("block", Read("hash", n, Newest)[1], Newest))

\* The numbers of the transactions of a block.
TxIds(b) == [i \in 1 .. b.end - b.first |-> b.first + i - 1]
Has(table, b) == \A i \in DOMAIN TxIds(b) : Read(table, TxIds(b)[i], Newest) # << >>
TxAt(id) == Read("tx", id, Newest)[1]
ReceiptAt(id) == Read("receipt", id, Newest)[1]

\* TransactionInfo
TxInfo(id, index) == [hash |-> TxAt(id).hash, block |-> TxAt(id).block, index |-> index]

\* The body of get_block_by_number, once the block is read.
FullBlock(b) ==
  IF ~Has("tx", b) THEN Panic ELSE Ok([i \in DOMAIN TxIds(b) |-> TxInfo(TxIds(b)[i], i - 1)])

get_block_by_hash(n) == Then(BlockOfId(Hash(n), Null), FullBlock)

\* The transaction at an index of a block: its own block is read again.
TxOfBlock(b, index) ==
  IF index >= b.end - b.first THEN Null
  ELSE IF Read("tx", b.first + index, Newest) = << >> THEN Panic
  ELSE Then(Expect(Read("block", TxAt(b.first + index).block, Newest)),
            LAMBDA c : Ok(TxInfo(b.first + index, b.first + index - c.first)))

get_transaction_by_block_hash_and_index(n, index) ==
  Then(BlockOfHash(n), LAMBDA b : TxOfBlock(b, index))

get_transaction_by_block_number_and_index(id, index) ==
  Then(SealedBlock(id, Newest), LAMBDA b : TxOfBlock(b, index))

build_rpc_receipt(b, id) ==
  [hash |-> TxAt(id).hash, block |-> b.number, index |-> id - b.first,
   logs |-> [j \in DOMAIN ReceiptAt(id).logs |->
               [address |-> ReceiptAt(id).logs[j], index |-> ReceiptAt(id).log_start + j - 1]]]

get_block_receipts(id) ==
  Then(IF id.kind = "hash" THEN BlockOfHash(id.n) ELSE SealedBlock(id, Newest),
       LAMBDA b : IF ~(Has("tx", b) /\ Has("receipt", b)) THEN Panic
                  ELSE Ok([i \in DOMAIN TxIds(b) |-> build_rpc_receipt(b, TxIds(b)[i])]))

\* What the hash of a transaction leads to: its number and its block.
TxOfHash(t, f(_, _)) ==
  LET row == Read("tx_hash", t, Newest) IN
  IF row = << >> THEN Null
  ELSE IF Read("tx", row[1], Newest) = << >> THEN Panic
  ELSE Then(Expect(Read("block", TxAt(row[1]).block, Newest)), LAMBDA b : f(row[1], b))

get_transaction_by_hash(t) ==
  TxOfHash(t, LAMBDA id, b : Ok([TxInfo(id, id - b.first) EXCEPT !.block = b.number]))

get_transaction_receipt(t) ==
  TxOfHash(t, LAMBDA id, b : IF Read("receipt", id, Newest) = << >> THEN Panic
                             ELSE Ok(build_rpc_receipt(b, id)))

-----------------------------------------------------------------------------
(* Logs. *)

\* BlockRangeInclusiveIter
Chunks(from, to) ==
  [i \in 1 .. ((to - from) \div (MaxHeadersRange + 1)) + 1 |->
     LET start == from + (i - 1) * (MaxHeadersRange + 1) IN
     <<start, Min({start + MaxHeadersRange, to})>>]

\* append_matching_block_logs
BlockLogs(b, a) ==
  LET all == FlattenSeq([i \in DOMAIN TxIds(b) |->
               [j \in DOMAIN ReceiptAt(TxIds(b)[i]).logs |->
                  [address |-> ReceiptAt(TxIds(b)[i]).logs[j], hash |-> TxAt(TxIds(b)[i]).hash]]])
  IN  SelectSeq([k \in DOMAIN all |-> [l |-> all[k], block |-> b.number, index |-> k - 1]],
                LAMBDA e : e.l.address = a)

\* QueryExceedsMaxResults suggests the blocks of the chunk walked before this one.
Retry(from, idx) == <<"max_results", from, idx - 1>>

\* One block of the walk: the logs so far, or the error that ended it.
LogStep(acc, from, idx, a, multi) ==
  IF acc[1] # "ok" THEN acc
  ELSE IF Read("block", idx, Newest) = << >> THEN Err("block_not_found")
  ELSE LET b == Read("block", idx, Newest)[1] IN
       IF a \notin b.bloom THEN acc
       ELSE IF ~(Has("tx", b) /\ Has("receipt", b)) THEN Panic
       ELSE LET logs == acc[2] \o BlockLogs(b, a) IN
            IF multi /\ Len(logs) > MaxLogsPerResponse
            THEN Retry(from, idx) ELSE Ok(logs)

\* Subtraction of u64: a range the wrong way round wraps beyond every limit.
TooWide(from, to) == from > to \/ to - from >= MaxBlocksPerFilter

get_logs_in_block_range(a, from, to) ==
  IF TooWide(from, to) THEN Err("max_blocks")
  ELSE FoldLeft(LAMBDA acc, c : FoldLeft(LAMBDA x, idx : LogStep(x, c[1], idx, a, from # to), acc,
                                         [k \in 1 .. c[2] - c[1] + 1 |-> c[1] + k - 1]),
                Ok(<< >>), Chunks(from, to))

\* convert_block_number and get_filter_block_range: one end of the range.
FilterEnd(id, head) ==
  CASE id.kind = "number" -> Min({id.n, head})
    [] id.kind = "earliest" -> 0
    [] OTHER -> head

\* logs_for_filter
logs_for_filter(a, from, to) ==
  get_logs_in_block_range(a, FilterEnd(from, Latest), FilterEnd(to, Latest))

logs_at_hash(a, n) ==
  IF Read("hash", n, Newest) = << >> THEN Err("unknown_hash")
  ELSE Then(BlockOfHash(n), LAMBDA b : IF ~(Has("tx", b) /\ Has("receipt", b)) THEN Panic
                                       ELSE Ok(BlockLogs(b, a)))

-----------------------------------------------------------------------------
(* State at a block. *)

block_number_for_id(id) ==
  CASE id.kind = "earliest" -> Ok(0)
    [] id.kind = "latest" -> Ok(Latest)
    [] id.kind = "pending" -> Err("header_not_found")
    [] id.kind = "number" -> IF id.n =< Latest THEN Ok(id.n) ELSE Err("header_not_found")
    [] id.kind = "safe" -> Ok(safe)
    [] id.kind = "finalized" -> Ok(final)

block_number_from_state(id) ==
  IF id.kind = "hash" /\ HashNumber(id) = << >> THEN Err("unknown_block")
  ELSE CASE id.kind = "hash" -> block_number_for_id(Number(HashNumber(id)[1]))
         [] id.kind = "none" -> Ok(Latest)
         [] id.kind = "pending" -> Ok(Latest + 1)
         [] OTHER -> block_number_for_id(id)

\* The ids that are answered from the newest state without rewinding.
NotRewound == {"none", "latest", "pending"}

\* set_state_to_end_of_evm_block_by_block_id: the version, none for the newest.
set_state(id) ==
  IF id.kind \in NotRewound THEN Ok(<< >>)
  ELSE IF id.kind = "hash"
  THEN IF HashNumber(id) = << >> THEN Err("unknown_block")
       ELSE Ok(<<VersionOfBlock(HashNumber(id)[1])>>)
  ELSE Then(block_number_for_id(id),
            LAMBDA n : IF IsPruned(n) THEN Err("pruned") ELSE Ok(<<VersionOfBlock(n)>>))

\* The state a working set reads.
StateAt(version) == IF version = << >> THEN stateHead ELSE version[1] - 1

\* eth_getBalance, eth_getStorageAt, eth_getTransactionCount, eth_getCode
state_query(id) == Then(set_state(id), LAMBDA version : Ok(StateAt(version)))

-----------------------------------------------------------------------------
(* Requests in flight. *)

\* get_pending_block_env: the block before the latest is read for its timestamp.
PendingEnv ==
  IF Latest > 0 /\ Read("block", Latest - 1, Newest) = << >> THEN Panic ELSE Ok(Latest + 1)

\* The block environment of an id, by its number: the same lines open
\* eth_call, eth_createAccessList, the estimates and debug_traceCall.
CallEnv(id) ==
  IF id.kind = "pending" THEN PendingEnv
  ELSE LET r == BlockOfId(id, Err("unknown_block")) IN
       IF r = Null THEN Err("header_not_found") ELSE Then(r, LAMBDA b : Ok(b.number))

\* eth_get_proof: the version of the proofs, for an id whose state is available.
ProofVersion(id) ==
  Then(block_number_from_state(id),
       LAMBDA n : Then(set_state(id),
                       LAMBDA v : Ok(IF id.kind = "pending" THEN n ELSE VersionOfBlock(n))))

\* trace_block_transactions_by_number reads the block and its transactions.
TraceEnv(id) ==
  LET r == SealedBlock(id, Newest) IN
  IF r = Null THEN Err("header_not_found")
  ELSE Then(r, LAMBDA b : IF ~Has("tx", b) THEN Panic
                          ELSE IF b.first = b.end THEN Err("no_transactions") ELSE Ok(b.number))

\* The requests explored: the block environment first for the ones that execute
\* (access lists and estimates take no hash), the block or the version for others.
FirstRead(method, id) ==
  CASE method \in {"call", "access_list", "estimate", "trace_call"} -> CallEnv(id)
    [] method = "proof" -> ProofVersion(id)
    [] method = "trace" -> TraceEnv(id)
    [] method = "block" -> BlockOfId(id, Null)

IdsOf(method) ==
  {id \in BlockIds : /\ method = "trace" => id.kind = "number"
                     /\ method = "block" => id.kind # "pending"
                     /\ method \in {"access_list", "estimate"} => id.kind # "hash"}

\* A request leaves nothing behind but its answer: one of them between two starts is enough.
Request(method, id) ==
  /\ up /\ rpc.step = "idle"
  /\ \E r \in {FirstRead(method, id)} :
       rpc' = [step |-> IF r[1] = "ok" THEN "begun" ELSE "done", method |-> method, id |-> id,
               first |-> r, second |-> Null]
  /\ UNCHANGED <<store, safe, final, up, notified, pruned, stored>>

\* set_state_to_end_of_evm_block, unless the id is answered from the newest state.
EndOfBlock(id, n) == IF id.kind \in NotRewound THEN << >> ELSE <<VersionOfBlock(n)>>

\* An execution on the state of a version, with the L1 fee rate of block n.
Executed(version, n) == Ok([state |-> StateAt(version), fee_of |-> n])

get_call(id, n) == Executed(EndOfBlock(id, n), n)

create_access_list(id, n) == Executed(EndOfBlock(id, n), n)

\* eth_estimateGas and eth_estimateDiffSize are never rewound.
estimate_tx_expenses(id, n) == Executed(<< >>, n)

\* debug_traceCall reads the block again for its fee rate, at the rewound version.
debug_trace_call(id, n) ==
  LET version == EndOfBlock(id, n)
      block == IF id.kind = "hash" THEN Number(n) ELSE id
      r == SealedBlock(block, IF version = << >> THEN Newest ELSE version[1])
  IN  IF r = Null THEN Err("header_not_found")
      ELSE Then(r, LAMBDA b : Executed(version, b.number))

\* generate_eth_proof: the account is read from the working set.
generate_eth_proof(id, version) == Executed(EndOfBlock(id, version - 1), version - 1)

\* A block is executed again on the state of its parent.
trace_block(n) == Executed(<<VersionOfBlock(n - 1)>>, n)

\* The rest of the request.
Answer ==
  /\ rpc.step = "begun"
  /\ \E x \in {rpc.first[2]} :
       rpc' = [rpc EXCEPT !.step = "done",
                 !.second = CASE rpc.method = "call" -> get_call(rpc.id, x)
                              [] rpc.method = "access_list" -> create_access_list(rpc.id, x)
                              [] rpc.method = "estimate" -> estimate_tx_expenses(rpc.id, x)
                              [] rpc.method = "trace_call" -> debug_trace_call(rpc.id, x)
                              [] rpc.method = "proof" -> generate_eth_proof(rpc.id, x)
                              [] rpc.method = "trace" -> trace_block(x)
                              [] rpc.method = "block" -> FullBlock(x)]
  /\ UNCHANGED <<store, safe, final, up, notified, pruned, stored>>

Next ==
  \/ WriteState \/ WriteRecords \/ CommitLedger \/ Finality
  \/ Prune \/ Shutdown \/ CliPrune \/ Start
  \/ \E method \in Methods : \E id \in IdsOf(method) : Request(method, id)
  \/ Answer

Spec == Init /\ [][Next]_vars

-----------------------------------------------------------------------------
(* Properties. *)

\* The number in the chain of the first transaction of block h.
Ordinal(h) == FoldSeq(LAMBDA body, n : n + Len(body), 0, SubSeq(chain, 1, h - 1))

\* The blocks whose record is in the database, genesis apart.
Recorded == {h \in 1 .. Len(chain) : Read("block", h, Newest) # << >>}

\* The vectors of transactions and receipts are as long as the chain's blocks
\* say.  Their length is a row like any other, written by a block that has
\* transactions: when the pruner takes the last of them and only empty blocks
\* follow, they start again from 0, and every later transaction is stored at
\* another place than its block says.
LengthsKept == \A table \in {"tx", "receipt"} : Length(table) = LastBlock[1].end

\* However a transaction of a recorded block is looked up, by its hash or by
\* its place, alone or with its block, the answers agree with each other and
\* with the chain, and no handler meets a missing row it expects, until the
\* pruner takes the lengths of the vectors behind a run of empty blocks.
LookupsAgree ==
  LengthsKept => \A h \in Recorded :
    LET body == chain[h]
        info(i) == [hash |-> Ordinal(h) + i, block |-> h, index |-> i - 1]
        receipt(i) == [hash |-> Ordinal(h) + i, block |-> h, index |-> i - 1,
                       logs |-> [j \in DOMAIN body[i] |->
                          [address |-> body[i][j],
                           index |-> j - 1 + FoldSeq(LAMBDA tx, n : n + Len(tx), 0, SubSeq(body, 1, i - 1))]]]
    IN  /\ get_block_by_hash(h) = Ok([i \in DOMAIN body |-> info(i)])
        /\ \A id \in {Number(h), Hash(h)} :
             get_block_receipts(id) = Ok([i \in DOMAIN body |-> receipt(i)])
        /\ \A i \in DOMAIN body :
             /\ get_transaction_by_hash(Ordinal(h) + i) = Ok(info(i))
             /\ get_transaction_receipt(Ordinal(h) + i) = Ok(receipt(i))
             /\ get_transaction_by_block_hash_and_index(h, i - 1) = Ok(info(i))
             /\ get_transaction_by_block_number_and_index(Number(h), i - 1) = Ok(info(i))

\* The logs of address a in blocks from .. to, straight from the chain.
ChainLogs(a, from, to) ==
  LET of(h) ==
        LET all == FlattenSeq([i \in DOMAIN chain[h] |->
                     [j \in DOMAIN chain[h][i] |->
                        [address |-> chain[h][i][j], hash |-> Ordinal(h) + i]]])
        IN  SelectSeq([k \in DOMAIN all |-> [l |-> all[k], block |-> h, index |-> k - 1]],
                      LAMBDA e : e.l.address = a)
  IN  FlattenSeq([k \in 1 .. to - from + 1 |-> IF from + k = 1 THEN << >> ELSE of(from + k - 1)])

\* A range of recorded blocks gives all its matching logs, once each, in order
\* and numbered within their block, however the walk is cut into chunks; the
\* limits on blocks and logs are errors, and the only ones.  It holds, as
\* LookupsAgree does, until the pruner takes the lengths of the vectors.
LogsComplete ==
  LengthsKept => \A a \in Addresses, from, to \in {Tag("none"), Tag("earliest")} \cup {Number(n) : n \in 1 .. Latest} :
    \A f \in {FilterEnd(from, Latest)}, t \in {FilterEnd(to, Latest)} :
      f =< t /\ (\A h \in f .. t : Read("block", h, Newest) # << >>) =>
        \A r \in {logs_for_filter(a, from, to)}, logs \in {ChainLogs(a, f, t)} :
          IF t - f >= MaxBlocksPerFilter THEN r = Err("max_blocks")
          ELSE IF f # t /\ Len(logs) > MaxLogsPerResponse THEN r[1] = "max_results"
          ELSE r = Ok(logs) /\ (f = t => logs_at_hash(a, f) = r)

\* When the logs are too many and those of the first block alone are not, the
\* range the error suggests starts where the request did, and asking for it
\* gives every log of it, while the vectors have their lengths.
RetryContinues ==
  LengthsKept => \A a \in Addresses, f, t \in 0 .. Latest :
    f =< t =>
      \A r \in {get_logs_in_block_range(a, f, t)} :
        r[1] = "max_results" /\ Len(ChainLogs(a, f, f)) =< MaxLogsPerResponse =>
          r[2] = f /\ get_logs_in_block_range(a, r[2], r[3]) = Ok(ChainLogs(a, f, r[3]))

\* A block whose hash is known is known by its number too, and both lead to
\* the state the block left, whatever was pruned before.
IdsAgree ==
  \A h \in 0 .. Latest :
    HashNumber(Hash(h)) # << >> =>
      state_query(Hash(h)) = Ok(h) /\ state_query(Number(h)) = Ok(h)

\* The pending block can be described whenever there is a latest one.
PendingAnswered == PendingEnv = Ok(Latest + 1)

\* A call, a trace or a proof for one particular block runs in the environment
\* and on the state of that block, even when blocks are committed and pruned
\* between its reads; a block is traced on the state its parent left.
CallSeesOneBlock ==
  rpc.step = "done" /\ rpc.second[1] = "ok" /\ rpc.id.kind \notin NotRewound =>
    /\ rpc.method \in {"call", "access_list", "trace_call"} =>
         rpc.second[2] = [state |-> rpc.first[2], fee_of |-> rpc.first[2]]
    /\ rpc.method = "proof" => rpc.second[2].state + 1 = rpc.first[2]
    /\ rpc.method = "trace" => rpc.second[2] = [state |-> rpc.first[2] - 1, fee_of |-> rpc.first[2]]
=============================================================================
