----------------------------- MODULE MCDaSender -----------------------------
(***************************************************************************)
(* The sending half of the Bitcoin DA service for TLC: the builder of the  *)
(* transactions of one request, and the queue of requests with the         *)
(* monitoring of what was sent, under several settings.  A behaviour runs  *)
(* one of them; the other rests in its initial state.                      *)
(***************************************************************************)
EXTENDS Integers, Sequences

VARIABLES
  system,  \* what this behaviour runs
  \* ---- the queue and the monitoring
  txs, chain, mempool, sent, pc, why, taken, answered, built, queue, cursor, passIds, multiplier,
  monitored, lastTx, blockRx, tipSeen, crowded, reorgs, evictions, faults, bumps, restarts,
  \* ---- the builder
  kind, chunks, rate, amount, prev, utxos, lastSize, commit, reveal, pairs, builderPc

Service(c) == INSTANCE Inscriptions WITH
  Mode <- c.mode, Requests <- c.requests, Funds <- c.funds, ChainLimit <- c.chain,
  FinalityDepth <- 2, HistoryLimit <- c.history, MaxAttempts <- 1, RelayFee <- c.relay,
  MaxMultiplier <- 2, BlockBound <- c.blocks, ReorgBound <- c.reorgs, EvictBound <- c.evictions,
  FaultBound <- c.faults, BumpBound <- c.bumps, RestartBound <- c.restarts,
  ClockBound <- c.clock

Builder == INSTANCE InscriptionBuilder WITH
  Dust <- 2, Threshold <- 2, BaseSize <- 1, InputSize <- 1, RevealSize <- 2, FeeRates <- {1, 2},
  Amounts <- {3, 6, 9, 14, 40}, WalletSize <- 3, MaxChunks <- 2, pc <- builderPc

\* A chunked proof and a commitment, in one second or two, on a chain that Bitcoin accepts
\* two deep; the mempool wants twice the fee, and one RPC request fails.
Chained ==
  [name |-> "chained", mode |-> "chained", requests |-> <<2, 1>>, funds |-> 1, chain |-> 2,
   history |-> 4, relay |-> 2, blocks |-> 1, reorgs |-> 0, evictions |-> 0, faults |-> 1,
   bumps |-> 0, restarts |-> 0, clock |-> 1]
\* A chunked proof and a commitment on parallel chains.
Oldest ==
  [Chained EXCEPT !.name = "oldest", !.mode = "oldest", !.requests = <<2, 1>>, !.funds = 2,
                  !.history = 6, !.relay = 1, !.blocks = 0, !.faults = 0, !.clock = 0]
\* A reorganisation, an eviction or a restart between two requests, or all three of them
\* around one.
Reorganised ==
  [Chained EXCEPT !.name = "reorganised", !.requests = <<1, 1>>, !.chain = 4, !.history = 3, !.relay = 1,
                  !.blocks = 1, !.reorgs = 1, !.faults = 0]
Evicted == [Reorganised EXCEPT !.name = "evicted", !.reorgs = 0, !.evictions = 1, !.clock = 0]
Restarted == [Reorganised EXCEPT !.name = "restarted", !.reorgs = 0, !.restarts = 1]
AllAtOnce ==
  [Reorganised EXCEPT !.name = "all_at_once", !.requests = <<1>>, !.evictions = 1, !.restarts = 1]
Disturbed == {Reorganised, Evicted, Restarted, AllAtOnce}
\* The fee is bumped by a child around two requests, or by a child that is then replaced:
\* once the replacement is mined, the child has a negative number of confirmations.
Bumped ==
  [Chained EXCEPT !.name = "bumped", !.requests = <<1, 1>>, !.chain = 6, !.history = 6,
                  !.relay = 1, !.blocks = 1, !.faults = 0, !.bumps = 1, !.clock = 0]
Replaced == [Bumped EXCEPT !.name = "replaced", !.requests = <<1>>, !.bumps = 2]
Bumps == {Bumped, Replaced}
Services == {Chained, Oldest} \cup Disturbed \cup Bumps

ASSUME SenderAssumption ==
  (\A c \in Services : Service(c)!InscriptionsAssumption) /\ Builder!BuilderAssumption

service ==
  <<txs, chain, mempool, sent, pc, why, taken, answered, built, queue, cursor, passIds, multiplier,
    monitored, lastTx, blockRx, tipSeen, crowded, reorgs, evictions, faults, bumps, restarts>>
builder == <<kind, chunks, rate, amount, prev, utxos, lastSize, commit, reveal, pairs, builderPc>>
mcVars == <<system, service, builder>>

BuilderRests ==
  /\ kind = "complete" /\ chunks = 0 /\ rate = 1 /\ amount = << >> /\ prev = {} /\ utxos = {}
  /\ lastSize = 0 /\ commit = Builder!NoCommit /\ reveal = 0 /\ pairs = << >> /\ builderPc = "size"

MCInit ==
  \/ \E c \in Services : system = c.name /\ Service(c)!Init /\ BuilderRests
  \/ system = "builder" /\ Service(Chained)!Init /\ Builder!Init

MCNext ==
  \/ \E c \in Services : system = c.name /\ Service(c)!Next /\ UNCHANGED <<system, builder>>
  \/ system = "builder" /\ Builder!Next /\ UNCHANGED <<system, service>>

MCSpec == MCInit /\ [][MCNext]_mcVars
-----------------------------------------------------------------------------
\* The types of the service's and of the builder's state; no amount is ever negative.
TypeOK ==
  /\ \A c \in Services : system = c.name => Service(c)!TypeOK
  /\ system = "builder" => Builder!TypeOK

\* No two transactions that are queued, in the mempool or mined spend the same output:
\* none of the parallel chains can make another one invalid (get_utxos, lines 449-480).
NoConflictingSpends ==
  \A c \in Services \ Disturbed : system = c.name => Service(c)!NoConflictingSpends

\* The pairs of one request reach Bitcoin in order: nobody sees an aggregate before its
\* chunks, whichever mode skips over what is rejected (lines 574-650).
ChunksBeforeAggregate == system = Oldest.name => Service(Oldest)!ChunksBeforeAggregate

\* The last transaction stays monitored, and so does everything it stands on that is not
\* finalized: otherwise no further request is accepted (monitor_transaction, line 491) and
\* the walk back of rebroadcast_last_txs fails (line 849). It is about chained requests
\* without bumped fees, and excludes a history limit that does not hold what is not final
\* and what was monitored in the same whole second as the last one.
ChainStaysMonitored ==
  \A c \in {Chained} \cup Disturbed : system = c.name => Service(c)!ChainStaysMonitored

\* A transaction once finalized in the monitor's eyes stays in the chain, and what is
\* queued is never taken for sent (determine_tx_status). A status may be out of date: behind
\* a replaced transaction whose replacement is mined check_transactions looks at no other.
StatusIsTrue == \A c \in Bumps \cup Disturbed : system = c.name => Service(c)!StatusIsTrue

\* No output is spent twice in a request, although the leftovers of one commit are offered
\* to the next (build_commit_transaction line 91, create_inscription_type_1 line 456).
NoOutputSpentTwice == system = "builder" => Builder!NoOutputSpentTwice

\* Every commit of a chunked request spends the reveal before it, so the aggregate cannot
\* be mined before the chunks it lists (line 442).
PairsInOrder == system = "builder" => Builder!PairsInOrder

\* Each transaction pays for its size at the rate asked for, and no output is dust.
FeesArePaid == system = "builder" => Builder!FeesArePaid

\* What the builder makes passes the fee check before it is queued, and the signer can
\* describe every input (fee.rs line 263, tx_signer.rs line 189).
BuiltIsAccepted == system = "builder" => Builder!BuiltIsAccepted

\* "not enough UTXOs" is reported only if no choice of outputs would pay for itself.
FailsOnlyWhenPoor == system = "builder" => Builder!FailsOnlyWhenPoor
-----------------------------------------------------------------------------

\* What is queued or sent can be mined, in an order its readers accept: no two of the
\* transactions exclude each other, and chunks come before their aggregate.
SentCanBeMined == NoConflictingSpends /\ ChunksBeforeAggregate

\* The monitor knows the chain it builds on: what it takes for final or for queued is so, and
\* the last transaction of a chain of requests and what it stands on are not forgotten too
\* early, if the history limit holds what is not final and the last one's second.
MonitorIsTrue == ChainStaysMonitored /\ StatusIsTrue

\* A built request spends each output once, in order, pays its fees without dust and is
\* accepted by the checks that follow; it fails only where no choice of outputs would do.
BuiltIsSound ==
  NoOutputSpentTwice /\ PairsInOrder /\ FeesArePaid /\ BuiltIsAccepted /\ FailsOnlyWhenPoor
=============================================================================
