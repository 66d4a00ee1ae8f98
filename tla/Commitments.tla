---------------------------- MODULE Commitments -----------------------------
(***************************************************************************)
(* The sequencer's commitment service.                                     *)
(*                                                                         *)
(* The service cuts the L2 chain into consecutive ranges, hands each range *)
(* to the Bitcoin service's queue as a commitment with the next index,     *)
(* waits to be told that it was sent, and only then stores it and deletes  *)
(* the state diffs of the range.  At start-up it takes over from Bitcoin   *)
(* what it had sent and not stored, and resumes behind the last stored     *)
(* commitment.  The Bitcoin service (queue of requests, queue of signed    *)
(* transactions the mempool had no room for) is part of the same process   *)
(* and forgets both when it stops.                                         *)
(*                                                                         *)
(* A state diff is the set of state keys a block wrote, its size their     *)
(* number.  The Merkle root of the blocks start..end is the pair.          *)
(***************************************************************************)
EXTENDS Tables, Sequences, FiniteSets

CONSTANTS
  Keys,         \* state keys
  DiffLimit,    \* most keys whose compressed diff fits in one transaction body
  MaxL2Blocks,  \* max_l2_blocks_per_commitment
  MempoolLimit, \* longest chain of unconfirmed transactions Bitcoin accepts
  HeadBound,    \* bound: number of L2 blocks
  StopBound,    \* bound: number of times the sequencer stops
  HaltBound     \* bound: number of halt and resume requests

ASSUME CommitmentsAssumption ==
  /\ IsFiniteSet(Keys)
  /\ DiffLimit \in Nat
  /\ MaxL2Blocks \in Nat \ {0}
  /\ MempoolLimit \in Nat \ {0}
  /\ HeadBound \in Nat
  /\ StopBound \in Nat
  /\ HaltBound \in Nat

\* get_tangerine_activation_height_non_zero on a chain started under Tangerine.
FirstHeight == 1

\* What one block may write.  The gas limit of a block keeps the compressed diff of a
\* single block below the size of a transaction body.
BlockDiffs == {d \in SUBSET Keys : Cardinality(d) <= DiffLimit}

VARIABLES
  \* ---- durable
  chain,       \* L2BlockByNumber: of each block, its diff and the L1 height it knows
  diffs,       \* StateDiffByBlockNumber
  commitments, \* SequencerCommitmentByIndex
  \* ---- volatile
  built,       \* the block production has set the diff of the block after the head
  pc,          \* what the service is doing
  toStore,     \* commitments_to_store of the recovery
  next,        \* next_commitment_index and next_commitment_start_height
  last,        \* last_l2_height
  acc,         \* accumulated state diff
  head,        \* head_l2_height read at the last tick
  current,     \* the commitment being sent or stored
  producing,   \* is_producing_commitments
  haltRx,      \* halt_rx: signals not yet received
  requests,    \* the Bitcoin service's request channel
  notified,    \* the answer to the pending request has been sent
  txQueue,     \* signed transactions the mempool has not accepted
  \* ---- Bitcoin
  mempool,     \* unconfirmed commitments, in the order of their UTXO chain
  l1,          \* the commitments in each Bitcoin block
  \* ---- bookkeeping
  stops, halts

durable  == <<chain, diffs, commitments>>
control  == <<next, last, acc, head, current>>
halting  == <<producing, haltRx, halts>>
queues   == <<requests, notified, txQueue>>
bitcoin  == <<mempool, l1>>
vars == <<durable, built, pc, toStore, control, halting, queues, bitcoin, stops>>

Nothing == [index |-> 0, start |-> 1, end |-> 0]

Init ==
  /\ chain = << >> /\ diffs = EmptyTable /\ commitments = EmptyTable
  /\ built = FALSE
  /\ pc = "stopped"
  /\ toStore = {}
  /\ next = [index |-> 1, start |-> FirstHeight]
  /\ last = 0 /\ acc = {} /\ head = 0 /\ current = Nothing
  /\ producing = TRUE /\ haltRx = << >> /\ halts = 0
  /\ requests = << >> /\ notified = FALSE /\ txQueue = << >>
  /\ mempool = << >> /\ l1 = << >>
  /\ stops = 0

Up == pc # "stopped"
Elements(s) == {s[i] : i \in DOMAIN s}
Mined(from) == UNION {Elements(l1[h]) : h \in from .. Len(l1)}

-----------------------------------------------------------------------------
(***************************************************************************)
(* Block production: the diff of a block is stored before the block is.    *)
(***************************************************************************)
SetStateDiff ==
  /\ Up /\ ~built
  /\ Len(chain) < HeadBound
  /\ \E d \in BlockDiffs : diffs' = Put(diffs, Len(chain) + 1, d)
  /\ built' = TRUE
  /\ UNCHANGED <<chain, commitments, pc, toStore, control, halting, queues, bitcoin, stops>>

\* The block knows the last finalized L1 block, one the block before it may have known.
CommitL2Block ==
  /\ Up /\ built
  /\ LET known == IF chain = << >> THEN 0 ELSE chain[Len(chain)].l1 IN
     \E h \in known .. Len(l1) :
       chain' = Append(chain, [diff |-> diffs[Len(chain) + 1], l1 |-> h])
  /\ built' = FALSE
  /\ UNCHANGED <<diffs, commitments, pc, toStore, control, halting, queues, bitcoin, stops>>

-----------------------------------------------------------------------------
(***************************************************************************)
(* Start-up: commitments found on Bitcoin and not in the ledger.           *)
(***************************************************************************)
\* get_last_commitment: the commitment with the highest index.
LastCommitment ==
  IF commitments = EmptyTable THEN Nothing
  ELSE commitments[CHOOSE i \in DOMAIN commitments : \A j \in DOMAIN commitments : j <= i]

\* The process starts.  The monitoring service restores, of the chain of unconfirmed
\* transactions, the last one: the wallet holds no output of the others.
Start ==
  /\ pc = "stopped"
  /\ pc' = IF chain = << >> THEN "load" ELSE "pending"
  /\ UNCHANGED <<durable, built, toStore, control, halting, queues, bitcoin, stops>>

GetPendingMempoolCommitments ==
  /\ pc = "pending"
  /\ toStore' = IF mempool = << >> THEN {} ELSE {mempool[Len(mempool)]}
  /\ pc' = "mined"
  /\ UNCHANGED <<durable, built, control, halting, queues, bitcoin, stops>>

\* The L1 height after the one known to the last committed block, or to block 1.
StartScanningL1From ==
  chain[IF LastCommitment = Nothing THEN 1 ELSE LastCommitment.end].l1 + 1

ConsecutiveFrom(cs, i) ==
  /\ {c.index : c \in cs} = i .. (i + Cardinality(cs) - 1)

\* Mined commitments join the pending ones; those already stored are dropped, and the
\* rest must follow the last stored one without a gap.
GetMinedCommitments ==
  /\ pc = "mined"
  /\ toStore' = {c \in toStore \cup Mined(StartScanningL1From) : c.index > LastCommitment.index}
  /\ pc' = IF ConsecutiveFrom(toStore', LastCommitment.index + 1) THEN "store" ELSE "panicked"
  /\ UNCHANGED <<durable, built, control, halting, queues, bitcoin, stops>>

\* A request to the Bitcoin node fails: the error is logged and nothing is recovered.
RecoveryFails ==
  /\ pc = "mined"
  /\ toStore' = {}
  /\ pc' = "load"
  /\ UNCHANGED <<durable, built, control, halting, queues, bitcoin, stops>>

FirstToStore == CHOOSE c \in toStore : \A d \in toStore : c.index <= d.index

StoreFromDa ==
  /\ pc = "store" /\ toStore # {}
  /\ current' = FirstToStore
  /\ commitments' = Put(commitments, FirstToStore.index, FirstToStore)
  /\ pc' = "storedFromDa"
  /\ UNCHANGED <<chain, diffs, built, toStore, next, last, acc, head, halting, queues, bitcoin, stops>>

\* The range starts where the predecessor, now the last but one, ended.
DiffsOfStored(c) ==
  (IF c.index = 1 THEN FirstHeight ELSE commitments[c.index - 1].end + 1) .. c.end

DeleteDiffsFromDa ==
  /\ pc = "storedFromDa"
  /\ diffs' = Delete(diffs, DiffsOfStored(current))
  /\ toStore' = toStore \ {current}
  /\ current' = Nothing
  /\ pc' = "store"
  /\ UNCHANGED <<chain, commitments, built, next, last, acc, head, halting, queues, bitcoin, stops>>

RecoveryDone ==
  /\ pc = "store" /\ toStore = {}
  /\ pc' = "load"
  /\ UNCHANGED <<durable, built, toStore, control, halting, queues, bitcoin, stops>>

\* Mutant: the index of the last commitment is used again.
MutLoadSameIndex == [index |-> IF LastCommitment = Nothing THEN 1 ELSE LastCommitment.index,
                     start |-> IF LastCommitment = Nothing THEN FirstHeight ELSE LastCommitment.end + 1]

\* Mutant: the next commitment starts at the end of the last one.
MutLoadNext == [index |-> LastCommitment.index + 1,
                start |-> IF LastCommitment = Nothing THEN FirstHeight ELSE LastCommitment.end]

\* load_next_commitment_index_and_start_height
LoadNext == [index |-> LastCommitment.index + 1,
             start |-> IF LastCommitment = Nothing THEN FirstHeight ELSE LastCommitment.end + 1]

\* CommitmentController::new
LoadController ==
  /\ pc = "load"
  /\ next' = LoadNext
  /\ last' = next'.start - 1
  /\ acc' = {}
  /\ pc' = "idle"
  /\ UNCHANGED <<durable, built, toStore, head, current, halting, queues, bitcoin, stops>>

-----------------------------------------------------------------------------
(***************************************************************************)
(* The loop: a tick walks from the last height seen to the head.           *)
(***************************************************************************)
Tick ==
  /\ pc = "idle"
  /\ haltRx = << >> /\ producing
  /\ Len(chain) > last
  /\ head' = Len(chain)
  /\ pc' = "check"
  /\ UNCHANGED <<durable, built, toStore, next, last, acc, current, halting, queues, bitcoin, stops>>

\* get_state_diff: a height without an entry has the empty diff.
StateDiff(h) == IF h \in DOMAIN diffs THEN diffs[h] ELSE {}
OverLimit(d) == Cardinality(d) > DiffLimit

\* CommitmentService::commit up to the await.  An empty range has no Merkle root.
Commit(first, end) ==
  LET c == [index |-> next.index, start |-> first, end |-> end] IN
  /\ current' = c
  /\ next' = [index |-> next.index + 1, start |-> end + 1]
  /\ last' = last + 1
  /\ IF end < first
     THEN pc' = "panicked" /\ UNCHANGED <<requests, notified>>
     ELSE /\ pc' = "sending"
          /\ requests' = Append(requests, c)
          /\ notified' = FALSE
  /\ UNCHANGED <<durable, built, toStore, head, halting, txQueue, bitcoin, stops>>

\* The block that exceeds the limit is left to the next commitment.
CommitOnStateDiff ==
  /\ pc = "check" /\ last < head
  /\ OverLimit(acc \cup StateDiff(last + 1))
  /\ acc' = StateDiff(last + 1)
  /\ Commit(next.start, last)

\* Mutant: waits for one block more than the maximum.
MutCommitOnMaxL2Blocks ==
  /\ pc = "check" /\ last < head
  /\ ~OverLimit(acc \cup StateDiff(last + 1))
  /\ (last + 1) - next.start > MaxL2Blocks
  /\ acc' = {}
  /\ Commit(next.start, last + 1)

CommitOnMaxL2Blocks ==
  /\ pc = "check" /\ last < head
  /\ ~OverLimit(acc \cup StateDiff(last + 1))
  /\ 1 + (last + 1) - next.start >= MaxL2Blocks
  /\ acc' = {}
  /\ Commit(next.start, last + 1)

NoCommit ==
  /\ pc = "check" /\ last < head
  /\ ~OverLimit(acc \cup StateDiff(last + 1))
  /\ 1 + (last + 1) - next.start < MaxL2Blocks
  /\ acc' = acc \cup StateDiff(last + 1)
  /\ last' = last + 1
  /\ UNCHANGED <<durable, built, pc, toStore, next, head, current, halting, queues, bitcoin, stops>>

TickDone ==
  /\ pc = "check" /\ last = head
  /\ pc' = "idle"
  /\ head' = 0
  /\ UNCHANGED <<durable, built, toStore, next, last, acc, current, halting, queues, bitcoin, stops>>

PutCommitment ==
  /\ pc = "sending" /\ notified
  /\ commitments' = Put(commitments, current.index, current)
  /\ pc' = "stored"
  /\ UNCHANGED <<chain, diffs, built, toStore, control, halting, queues, bitcoin, stops>>

DeleteStateDiffs ==
  /\ pc = "stored"
  /\ diffs' = Delete(diffs, current.start .. current.end)
  /\ current' = Nothing
  /\ pc' = "check"
  /\ UNCHANGED <<chain, commitments, built, toStore, next, last, acc, head, halting, queues, bitcoin, stops>>

\* haltCommitments and resumeCommitments, forwarded by the runner.
RequestHalt ==
  /\ Up /\ halts < HaltBound
  /\ \E s \in BOOLEAN : haltRx' = Append(haltRx, s)
  /\ halts' = halts + 1
  /\ UNCHANGED <<durable, built, pc, toStore, control, producing, queues, bitcoin, stops>>

ReceiveHalt ==
  /\ pc = "idle" /\ haltRx # << >>
  /\ producing' = ~Head(haltRx)
  /\ haltRx' = Tail(haltRx)
  /\ UNCHANGED <<durable, built, pc, toStore, control, halts, queues, bitcoin, stops>>

-----------------------------------------------------------------------------
(***************************************************************************)
(* The Bitcoin service, and Bitcoin.                                       *)
(***************************************************************************)
\* run_da_queue handles a request once its own queue is empty, and reports success
\* whether the mempool accepted the transactions or had no room for them.
SendTransaction ==
  /\ Up /\ requests # << >> /\ txQueue = << >>
  /\ requests' = Tail(requests)
  /\ notified' = TRUE
  /\ IF Len(mempool) < MempoolLimit
     THEN mempool' = Append(mempool, Head(requests)) /\ UNCHANGED txQueue
     ELSE txQueue' = << Head(requests) >> /\ UNCHANGED mempool
  /\ UNCHANGED <<durable, built, pc, toStore, control, halting, l1, stops>>

ProcessTransactionQueue ==
  /\ Up /\ txQueue # << >>
  /\ Len(mempool) < MempoolLimit
  /\ mempool' = Append(mempool, Head(txQueue))
  /\ txQueue' = Tail(txQueue)
  /\ UNCHANGED <<durable, built, pc, toStore, control, halting, requests, notified, l1, stops>>

\* A block with none of the commitments would change nothing for the service.
MineBlock ==
  /\ \E n \in 1 .. Len(mempool) :
       /\ l1' = Append(l1, SubSeq(mempool, 1, n))
       /\ mempool' = SubSeq(mempool, n + 1, Len(mempool))
  /\ UNCHANGED <<durable, built, pc, toStore, control, halting, queues, stops>>

\* The process ends, in order or not, between any two steps.
Stop ==
  /\ Up /\ stops < StopBound
  /\ pc' = "stopped"
  /\ built' = FALSE
  /\ producing' = TRUE /\ haltRx' = << >>
  /\ requests' = << >> /\ notified' = FALSE /\ txQueue' = << >>
  /\ toStore' = {} /\ current' = Nothing
  /\ next' = [index |-> 1, start |-> FirstHeight]
  /\ last' = 0 /\ acc' = {} /\ head' = 0
  /\ stops' = stops + 1
  /\ UNCHANGED <<durable, halts, bitcoin>>

Recovery ==
  \/ Start \/ GetPendingMempoolCommitments \/ GetMinedCommitments
  \/ StoreFromDa \/ DeleteDiffsFromDa \/ RecoveryDone \/ LoadController

Service ==
  \/ Tick \/ CommitOnStateDiff \/ CommitOnMaxL2Blocks \/ NoCommit \/ TickDone
  \/ PutCommitment \/ DeleteStateDiffs

Next ==
  \/ SetStateDiff \/ CommitL2Block
  \/ Recovery \/ RecoveryFails
  \/ Service
  \/ RequestHalt \/ ReceiveHalt
  \/ SendTransaction \/ ProcessTransactionQueue
  \/ MineBlock
  \/ Stop

Spec == Init /\ [][Next]_vars

\* The service's task and the queue's task are scheduled, and Bitcoin makes blocks that
\* include what pays for it.  Nothing is assumed of block production, halts or stops.
FairSpec ==
  /\ Spec
  /\ WF_vars(Recovery) /\ WF_vars(Service) /\ WF_vars(ReceiveHalt)
  /\ WF_vars(SendTransaction) /\ WF_vars(ProcessTransactionQueue)
  /\ WF_vars(MineBlock)

-----------------------------------------------------------------------------
(***************************************************************************)
(* Properties.                                                             *)
(***************************************************************************)
Stored == {commitments[i] : i \in DOMAIN commitments}
OnDa   == Elements(mempool) \cup Mined(1)
Everywhere == Stored \cup OnDa \cup Elements(requests) \cup Elements(txQueue)

AllCommitments == [index : 1 .. HeadBound, start : 1 .. HeadBound, end : 1 .. HeadBound]

TypeOK ==
  /\ \A h \in DOMAIN chain : chain[h].diff \in BlockDiffs /\ chain[h].l1 \in 0 .. Len(l1)
  /\ IsTable(diffs, 1 .. HeadBound, BlockDiffs)
  /\ IsTable(commitments, 1 .. HeadBound, AllCommitments)
  /\ Everywhere \cup toStore \subseteq AllCommitments
  /\ pc \in {"stopped", "pending", "mined", "store", "storedFromDa", "load", "idle", "check",
             "sending", "stored", "panicked"}
  /\ next.index \in 1 .. (HeadBound + 1) /\ next.start \in 1 .. (HeadBound + 1)
  /\ last \in 0 .. HeadBound /\ head \in 0 .. HeadBound
  /\ acc \in SUBSET Keys
  /\ built \in BOOLEAN /\ producing \in BOOLEAN /\ notified \in BOOLEAN
  /\ Len(requests) + Len(txQueue) <= 2

\* However often the sequencer stops, forgets what it had queued and cuts the chain
\* again, it never puts two different commitments under one index: full nodes and the
\* light client keep the first they see and drop the other (commit, lines 198-258).
OneCommitmentPerIndex ==
  \A c, d \in Everywhere : c.index = d.index => c = d

UnionDiff(from, to) == UNION {chain[h].diff : h \in from .. to}

\* Every commitment covers the blocks from its predecessor's end on, its diff fits in one
\* transaction body, and it ends only where one more block would break that or where
\* max_l2_blocks is reached (should_commit, controller.rs 64-152).
CutsAreMaximal ==
  \A c \in Everywhere :
    /\ c.start = IF c.index = 1 THEN FirstHeight
                 ELSE (CHOOSE d \in Everywhere : d.index = c.index - 1).end + 1
    /\ c.start <= c.end /\ c.end <= Len(chain)
    /\ ~OverLimit(UnionDiff(c.start, c.end))
    /\ \/ c.end - c.start + 1 = MaxL2Blocks
       \/ /\ c.end < Len(chain)
          /\ OverLimit(UnionDiff(c.start, c.end + 1))

\* The ledger still has the state diff of every block that no stored commitment covers:
\* without it the chain would be cut elsewhere after a restart (commit, line 253).
UncommittedDiffsKept ==
  \A h \in (LastCommitment.end + 1) .. Len(chain) :
    h \in DOMAIN diffs /\ diffs[h] = chain[h].diff

\* Neither the assertions of the recovery (lines 308-322) nor the empty Merkle tree
\* (line 362) ever stop the service: what is on Bitcoin is at most one commitment ahead.
NeverPanics == pc # "panicked"

\* What no queue holds any more: it was stored when it was queued, and the process stopped
\* before the mempool had room for it (txQueue is not durable, and nothing sends it again).
Forgotten ==
  {c \in Stored : stops > 0 /\ c \notin OnDa \cup Elements(requests) \cup Elements(txQueue)}

\* Again and again every stored commitment is in Bitcoin's mempool or chain, except for one
\* whose signed transactions a stop has met in the queue (commit sends and then stores,
\* 225-253), and, with commitments not halted, fewer than max_l2_blocks blocks wait for a
\* commitment (run, 139-183).
CommitmentsGetOn ==
  []<>(/\ Stored \subseteq OnDa \cup Forgotten
       /\ Len(chain) < LastCommitment.end + MaxL2Blocks)
=============================================================================
