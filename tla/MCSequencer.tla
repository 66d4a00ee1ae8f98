---------------------------- MODULE MCSequencer -----------------------------
(***************************************************************************)
(* The sequencer for TLC: its commitment service, with and without an      *)
(* operator who rolls the ledger back, and five instances of its block     *)
(* production.  A behaviour runs one of them; the others rest in their     *)
(* initial state, so that the state spaces stand side by side.             *)
(***************************************************************************)
EXTENDS SequencerRollback

VARIABLES
  system,  \* what this behaviour runs
  \* ---- block production; head, diffs and pc are those of its own module
  tip, clock, state, blockHead, blockDiffs, proofs, rows, sent, chan, loopPc, finalized, used,
  missed, plan, block, deposits, simulated, pool, sending, notices, accepted, acked, dropped,
  calls, retracts, crashes

\* The operator's rollback between two starts of a sequencer that is not halted.
Rolled == INSTANCE SequencerRollback WITH StopBound <- 1, HaltBound <- 0

Production(c) == INSTANCE BlockProduction WITH
  head <- blockHead, diffs <- blockDiffs, pc <- loopPc,
  Txs <- c.txs, Deposits <- c.deposits, StartL1 <- c.startL1, MaxL1 <- c.maxL1,
  FeeRates <- c.rates, MaxMissed <- 2, MaxPerL1 <- 1, FetchLimit <- 2,
  ClockBound <- c.clock, RetractBound <- c.retracts, CallBound <- c.calls, CrashBound <- c.crashes

\* A transaction and a deposit, called twice each.
Calls == [name |-> "calls", txs |-> {"t1"}, deposits |-> {"d1"}, startL1 |-> 1, maxL1 |-> 3, rates |-> {1},
          clock |-> 0, retracts |-> 0, calls |-> 2, crashes |-> 0]
\* More L1 blocks are missed than one L2 block takes.
Missed == [Calls EXCEPT !.name = "missed", !.txs = {}, !.maxL1 = 5, !.calls = 1]
\* Two deposits in one block, either of which may revert.
Reverts == [Missed EXCEPT !.name = "reverts", !.deposits = {"d1", "d2"}, !.maxL1 = 2]
\* The fee rate changes, the finalized height goes down, the clock stands still or moves.
Faults == [name |-> "faults", txs |-> {}, deposits |-> {"d1"}, startL1 |-> 2, maxL1 |-> 3, rates |-> {1, 2},
           clock |-> 1, retracts |-> 1, calls |-> 1, crashes |-> 0]
\* The node crashes twice.
Crashes == [name |-> "crashes", txs |-> {"t1"}, deposits |-> {}, startL1 |-> 1, maxL1 |-> 3, rates |-> {1},
            clock |-> 0, retracts |-> 0, calls |-> 2, crashes |-> 2]
Productions == {Calls, Missed, Reverts, Faults, Crashes}

ASSUME ProductionsAssumption == \A c \in Productions : Production(c)!BlockProductionAssumption

production ==
  <<tip, clock, state, blockHead, blockDiffs, proofs, rows, sent, chan, loopPc, finalized, used,
    missed, plan, block, deposits, simulated, pool, sending, notices, accepted, acked, dropped,
    calls, retracts, crashes>>
mcVars == <<system, rollVars, production>>

MCInit ==
  /\ RollInit
  /\ \/ system \in {"commitments", "rollback"} /\ Production(Calls)!Init
     \/ \E c \in Productions : system = c.name /\ Production(c)!Init

MCNext ==
  \/ system = "commitments" /\ Next /\ UNCHANGED <<system, rolls, production>>
  \/ system = "rollback" /\ Rolled!RollNext /\ UNCHANGED <<system, production>>
  \/ \E c \in Productions : system = c.name /\ Production(c)!Next /\ UNCHANGED <<system, rollVars>>

MCSpec == MCInit /\ [][MCNext]_mcVars
-----------------------------------------------------------------------------
\* Without an operator who takes blocks away, every commitment covers the blocks from its
\* predecessor's end on and ends only where should_commit must cut.
CutsStayMaximal == system = "commitments" => CutsAreMaximal

\* A crash finds the state at most one block ahead of the ledger, never behind, and the
\* diff of every ledger block set (finalize, save_l2_block).
StoresAgree == \A c \in Productions : system = c.name => Production(c)!StoresAgree

\* A transaction whose hash eth_sendRawTransaction returned is kept until it is mined,
\* cannot pay or is refused by the pool of a node that starts (restore_mempool deletes its
\* row), across crashes and with calls that race the block which mines it.
TxsSurvive == \A c \in Productions : system = c.name => Production(c)!TxsSurvive

\* While the node runs, an accepted deposit is queued until the bridge contract has it or it
\* has reverted (process_sys_txs leaves it out and remove_deposits takes it away), although
\* blocks fail after the deposit was fetched. The queue is not durable: a crash forgets it,
\* and the instance with crashes is left out.
DepositsKept == \A c \in {Calls, Missed, Reverts, Faults} : system = c.name => Production(c)!DepositsKept

\* The last finalized L1 block is used only when none before it is missing, while the
\* finalized height does not go down and no block fails: produce_l2_block only logs the error
\* of a block that fails, and the loop goes on to L1 blocks that the contract then refuses,
\* so the instances with two deposits, with faults and with crashes are left out.
MissedBlocksFirst ==
  \A c \in {Calls, Missed} : system = c.name => Production(c)!MissedBlocksFirst
-----------------------------------------------------------------------------

\* A commitment is cut where the diffs of the blocks say, because the diffs of blocks
\* without a commitment are still there whenever should_commit adds them up.
CutsFollowDiffs == CutsStayMaximal /\ UncommittedDiffsKept

\* The light client contract holds consecutive L1 blocks, and between two ticks
\* last_used_l1_height is the last of them, whatever the DA node, the clock, failed blocks
\* and restarts do (produce_l2_block; runner.rs run, maintain_mempool, new).
L1BlocksInOrder == \A c \in Productions : system = c.name => Production(c)!L1BlocksInOrder

\* Behind every crash, failed block and rollback the stores fit the chain; a transaction that
\* was accepted is in a block or waiting for one unless it cannot pay or a starting pool
\* refuses it, and so is a deposit unless it reverts or the node crashes; and while no block
\* fails, no finalized L1 block is used before a missed one.
StoresKeepUp == StoredFitsChain /\ StoresAgree /\ TxsSurvive /\ DepositsKept /\ MissedBlocksFirst
=============================================================================
