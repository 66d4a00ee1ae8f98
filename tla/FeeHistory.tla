----------------------------- MODULE FeeHistory -----------------------------
(***************************************************************************)
(* eth_feeHistory: the oracle's answer for a range of blocks, made from a  *)
(* cache of fee entries that is filled from a cache of blocks, which is    *)
(* filled from the node's records, which a pruner deletes.  Both caches    *)
(* forget what was used longest ago.  A request holds the lock of the      *)
(* caches from start to end.  The header of a block (its base fee, gas     *)
(* limit and hash) is represented by the number of the block.              *)
(***************************************************************************)
EXTENDS Integers, Sequences, FiniteSets, SequencesExt, FiniteSetsExt

CONSTANTS
  Kinds,             \* what a block may hold: sequences of [gas, tip]
  Requests,          \* reward percentiles of a request: << >> for none, or
                     \* <<s>> with s counted in halves of a point
  Percent,           \* the 100 of percentiles
  Resolution,        \* FeeHistoryCacheConfig: points per percent
  MaxBlocks,         \* FeeHistoryCacheConfig: entries of the cache
  MaxHeaderHistory,  \* GasPriceOracleConfig, and blocks of the block cache
  MaxBlockHistory,   \* GasPriceOracleConfig: blocks of an answer with rewards
  MaxHeight          \* bound: L2 height

FeeHistoryAssumption ==
  /\ {Percent, Resolution, MaxBlocks, MaxHeaderHistory, MaxBlockHistory, MaxHeight} \subseteq Nat \ {0}
  /\ MaxHeaderHistory =< MaxBlocks /\ MaxBlockHistory =< MaxBlocks

VARIABLES
  chain,    \* what the blocks hold, block n at n + 1
  first,    \* the first block with records: those before are pruned
  entries,  \* FeeHistoryCache: LRU of fee entries
  numbers,  \* BlockCache: LRU from number to hash
  blocks,   \* BlockCache: LRU from hash to block
  answer    \* the last request and its answer

vars == <<chain, first, entries, numbers, blocks, answer>>

Newest == Len(chain) - 1
Body(n) == chain[n + 1]

-----------------------------------------------------------------------------
(* LruMap: a sequence of pairs, the one used longest ago first. *)

Holds(lru, k) == \E i \in DOMAIN lru : lru[i][1] = k
Lookup(lru, k) == lru[CHOOSE i \in DOMAIN lru : lru[i][1] = k][2]
Without(lru, k) == SelectSeq(lru, LAMBDA e : e[1] # k)

\* get
Touch(lru, k) == IF Holds(lru, k) THEN Append(Without(lru, k), <<k, Lookup(lru, k)>>) ELSE lru

\* insert, with the limiter ByLength.
Insert(lru, k, v, size) ==
  Append(IF Len(Without(lru, k)) < size THEN Without(lru, k) ELSE Tail(Without(lru, k)), <<k, v>>)

-----------------------------------------------------------------------------
(* Rewards of a block. *)

Gas(txs) == FoldSeq(LAMBDA t, sum : sum + t.gas, 0, txs)

\* predefined_percentiles, in points.
Points == [i \in 1 .. (Percent * Resolution) + 1 |-> i - 1]

\* The loop over the percentiles; `at` is the transaction reached.
Reach(sorted, threshold, at) ==
  CHOOSE i \in at .. Len(sorted) :
    /\ i = Len(sorted) \/ Gas(SubSeq(sorted, 1, i)) >= threshold
    /\ \A j \in at .. i - 1 : Gas(SubSeq(sorted, 1, j)) < threshold

\* sort_by_key, which is stable.
SortByReward(txs) ==
  LET before(i, j) == txs[i].tip < txs[j].tip \/ (txs[i].tip = txs[j].tip /\ i < j)
      place(i) == 1 + Cardinality({j \in DOMAIN txs : before(j, i)})
  IN  [p \in DOMAIN txs |-> txs[CHOOSE i \in DOMAIN txs : place(i) = p]]

RewardsOfSorted(sorted, gas_used) ==
  LET step(acc, p) ==
        LET at == Reach(sorted, (gas_used * p) \div (Percent * Resolution), acc.at)
        IN  [at |-> at, out |-> Append(acc.out, sorted[at].tip)]
  IN  FoldLeft(step, [at |-> 1, out |-> << >>], Points).out

calculate_reward_percentiles_for_block(txs) ==
  IF txs = << >> THEN [i \in DOMAIN Points |-> 0]
  ELSE RewardsOfSorted(SortByReward(txs), Gas(txs))

\* FeeHistoryEntry
Entry(n, txs) == [header |-> <<n>>, rewards |-> calculate_reward_percentiles_for_block(txs)]
DefaultEntry == [header |-> << >>, rewards |-> << >>]

approximate_percentile(entry, halves) ==
  LET index == Min({(halves + 1) \div 2, Percent * Resolution})
  IN  IF index < Len(entry.rewards) THEN entry.rewards[index + 1] ELSE 0

-----------------------------------------------------------------------------
(* The caches. *)

Caches == [entries |-> entries, numbers |-> numbers, blocks |-> blocks, found |-> << >>, panic |-> FALSE]

\* get_block_by_number: errors of the provider are taken for an absent block.
get_block_by_number(c, n) ==
  IF Holds(c.numbers, n)
  THEN IF Holds(c.blocks, n)
       THEN [c EXCEPT !.numbers = Touch(@, n), !.blocks = Touch(@, n),
                      !.found = Append(@, <<n, Lookup(c.blocks, n)>>)]
       ELSE [c EXCEPT !.panic = TRUE]
  ELSE IF n < first THEN c
  ELSE [c EXCEPT !.numbers = Insert(@, n, n, MaxHeaderHistory),
                 !.blocks = Insert(@, n, Body(n), MaxHeaderHistory),
                 !.found = Append(@, <<n, Body(n)>>)]

\* get_block_with_receipts: the receipts of a block's transactions are in the
\* records or nowhere.
get_block_with_receipts(c, n) ==
  IF c.panic THEN c
  ELSE LET d == get_block_by_number(c, n) IN
       IF d.found # c.found /\ n < first /\ Last(d.found)[2] # << >>
       THEN [d EXCEPT !.panic = TRUE] ELSE d

insert_blocks(lru, found) ==
  FoldLeft(LAMBDA l, b : Insert(l, b[1], Entry(b[1], b[2]), MaxBlocks), lru, found)

TouchAll(lru, range) == FoldLeft(Touch, lru, range)
Missing(range) == SelectSeq(range, LAMBDA n : ~Holds(entries, n))

\* The entries of the range as the last loop leaves them.
Result(range, lru) ==
  [i \in DOMAIN range |->
     IF Holds(entries, range[i]) THEN Lookup(entries, range[i])
     ELSE IF Holds(lru, range[i]) THEN Lookup(lru, range[i]) ELSE DefaultEntry]

\* get_history: a panic unwinds out of the second loop.
GetHistory(c, range, lru) ==
  /\ numbers' = c.numbers /\ blocks' = c.blocks
  /\ entries' = IF c.panic THEN c.entries ELSE TouchAll(lru, Missing(range))

-----------------------------------------------------------------------------
(* The oracle. *)

NoAnswer == [status |-> "none"]

Init ==
  /\ chain = <<<< >>>> /\ first = 0
  /\ entries = << >> /\ numbers = << >> /\ blocks = << >>
  /\ answer = NoAnswer

NewBlock ==
  /\ Newest < MaxHeight
  /\ \E txs \in Kinds : chain' = Append(chain, txs)
  /\ answer' = NoAnswer
  /\ UNCHANGED <<first, entries, numbers, blocks>>

\* The pruner never deletes the newest block.
Prune ==
  /\ first < Newest
  /\ first' = first + 1
  /\ answer' = NoAnswer
  /\ UNCHANGED <<chain, entries, numbers, blocks>>

\* The windows of two neighbours.
InvalidPercentiles(s) ==
  \E i \in 1 .. Len(s) - 1 : s[i] > s[i + 1] \/ s[i] > 2 * Percent * Resolution

BlockCount(count, end, percentiles) ==
  Min({count, IF percentiles = << >> THEN MaxHeaderHistory ELSE MaxBlockHistory, end + 1})

Answer(status, asked, fetched) ==
  [status |-> status, end |-> asked[1], percentiles |-> asked[2],
   headers |-> [i \in DOMAIN fetched |-> fetched[i].header],
   rewards |-> IF asked[2] = << >> THEN << >>
               ELSE [i \in DOMAIN fetched |->
                       [j \in DOMAIN asked[2][1] |-> approximate_percentile(fetched[i], asked[2][1][j])]]]

\* fee_history up to the lock.
Refused(count, end, percentiles) ==
  \/ count = 0
  \/ end > Newest
  \/ percentiles # << >> /\ InvalidPercentiles(percentiles[1])

Refuse ==
  /\ answer = NoAnswer
  /\ \E count \in 0 .. MaxHeaderHistory, end \in 0 .. Newest + 1, percentiles \in Requests :
       /\ Refused(count, end, percentiles)
       /\ answer' = Answer(IF count = 0 THEN "empty" ELSE "error", <<end, percentiles>>, << >>)
  /\ UNCHANGED <<chain, first, entries, numbers, blocks>>

Serve ==
  /\ answer = NoAnswer
  /\ \E count \in 1 .. MaxHeaderHistory + 1, end \in 0 .. Newest, percentiles \in Requests :
       /\ ~Refused(count, end, percentiles)
       /\ \E size \in {BlockCount(count, end, percentiles)} :
          \E range \in {[i \in 1 .. size |-> end + 1 - size + i - 1]} :
          \E c \in {FoldLeft(get_block_with_receipts,
                             [Caches EXCEPT !.entries = TouchAll(entries, range)], Missing(range))} :
          \E lru \in {insert_blocks(c.entries, c.found)} :
            /\ GetHistory(c, range, lru)
            /\ answer' = IF c.panic THEN Answer("panic", <<end, percentiles>>, << >>)
                         ELSE Answer("ok", <<end, percentiles>>, Result(range, lru))
  /\ UNCHANGED <<chain, first>>

\* The client has its answer.
Reply ==
  /\ answer # NoAnswer
  /\ answer' = NoAnswer
  /\ UNCHANGED <<chain, first, entries, numbers, blocks>>

Next == NewBlock \/ Prune \/ Refuse \/ Serve \/ Reply

Spec == Init /\ [][Next]_vars

-----------------------------------------------------------------------------
(* Properties. *)

\* get_block_by_number unwraps the block a cached number leads to: the two maps
\* of the block cache hold the same blocks whatever was used and evicted.
NumbersLeadToBlocks ==
  \A i \in DOMAIN numbers : Holds(blocks, numbers[i][2]) /\ Lookup(blocks, numbers[i][2]) = Body(numbers[i][1])

\* The reward at a point, as eth_feeHistory defines it: the least tip such that
\* the transactions that paid no more used at least that share of the gas.
RewardAt(txs, point) ==
  LET share == (Gas(txs) * point) \div (Percent * Resolution)
      upTo(tip) == Gas(SelectSeq(txs, LAMBDA t : t.tip =< tip))
  IN  IF txs = << >> THEN 0 ELSE Min({txs[i].tip : i \in {j \in DOMAIN txs : upTo(txs[j].tip) >= share}})

\* The point nearest to a percentile, halves away from zero, of those up to 100.
Nearest(halves) == Min({(halves + (halves % 2)) \div 2, Percent * Resolution})

\* An answer of fee_history ends at the newest block asked for, and gives every
\* block of the range its own header and its rewards by definition, unless the
\* block's records are deleted, whatever the caches kept and forgot.  A last
\* percentile above 100, which is not refused, counts as 100.
HistoryIsReal ==
  answer.status = "ok" =>
    LET oldest == answer.end + 1 - Len(answer.headers) IN
    /\ answer.headers # << >> /\ oldest >= 0
    /\ \A i \in DOMAIN answer.headers :
         LET n == oldest + i - 1 IN
         \/ n < first /\ answer.headers[i] = << >>
         \/ /\ answer.headers[i] = <<n>>
            /\ answer.percentiles # << >> =>
                 answer.rewards[i] = [j \in DOMAIN answer.percentiles[1] |->
                                        RewardAt(Body(n), Nearest(answer.percentiles[1][j]))]
=============================================================================
