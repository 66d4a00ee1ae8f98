----------------------- MODULE BlockProductionProofs ------------------------
(***************************************************************************)
(* Theorems about BlockProduction, for every set of transactions and       *)
(* deposits, every limit of the sequencer and every bound.                 *)
(*                                                                         *)
(* The inductive invariant has four parts.  Types says that the plan, the  *)
(* block and the contract hold lists of heights.  Contract adds to the     *)
(* theorem where the loop stands: from the dry run on, the block's L1      *)
(* blocks come right behind the contract's, and behind the finalized       *)
(* storage the counter to be set is the contract's last block.  Stores     *)
(* places the three heights at each step of the loop, and Kept the         *)
(* transactions of a finalized block.                                      *)
(***************************************************************************)
EXTENDS BlockProduction, TLAPS

\* How long the provers may take for a step, so that a slow machine finds the proofs too.
USE SMTT(40), ZenonT(40)

Heights == Seq(Int)
Tip == [height : Int, fee : FeeRates]

\* The loop has a block to produce.
Producing == pc \in {"dry", "execute", "finalize", "commit", "cleanup", "maintain"}

Types ==
  /\ tip \in Tip /\ chan \in Seq(Tip)
  /\ finalized \in Int /\ used \in Int /\ missed \in Nat
  /\ plan \in Seq(Heights) /\ block.l1 \in Heights
  /\ state.l1 \in Heights /\ state.height \in Nat /\ head \in Nat /\ diffs \in Nat
  /\ Producing => plan # << >>

\* The blocks b come right behind the blocks a.
Follows(a, b) ==
  \A i \in 1 .. Len(b) : IF i = 1 THEN a = << >> \/ b[1] = LastOf(a) + 1 ELSE b[i] = b[i - 1] + 1

\* Consecutive heights.
Consecutive(a) == \A i \in 2 .. Len(a) : a[i] = a[i - 1] + 1

Contract ==
  /\ LightClientContiguous
  /\ pc \in {"execute", "finalize"} => Follows(state.l1, block.l1)
  /\ pc \in {"idle", "dry", "execute", "finalize"} /\ state.l1 # << >> => used = LastOf(state.l1)
  /\ pc \in {"commit", "cleanup", "maintain"} /\ state.l1 # << >> => LastUsed = LastOf(state.l1)

Stores ==
  /\ StoresAgree
  /\ pc \in {"finalize", "commit"} => diffs = head + 1
  /\ pc = "finalize" => state.height = head
  /\ pc = "commit" => state.height = head + 1

Kept ==
  /\ TxsSurvive
  /\ pc \in {"commit", "cleanup", "maintain"} => block.txs \subseteq state.mined

LEMMA LastOfConcat ==
  ASSUME NEW a \in Heights, NEW b \in Heights, b # << >>
  PROVE  a \o b # << >> /\ LastOf(a \o b) = LastOf(b)
  <1>1. Len(a) \in Nat /\ Len(b) \in Nat /\ Len(b) # 0 /\ Len(a \o b) = Len(a) + Len(b)
    BY DEF Heights
  <1>2. (a \o b)[Len(a) + Len(b)] = b[Len(b)]
    BY <1>1 DEF Heights
  <1>. QED  BY <1>1, <1>2 DEF LastOf

\* Consecutive heights with what follows them are consecutive.
LEMMA FollowsExtends ==
  ASSUME NEW a \in Heights, NEW b \in Heights, Consecutive(a), Follows(a, b)
  PROVE  /\ a \o b \in Heights /\ Consecutive(a \o b)
         /\ b = << >> => a \o b = a
         /\ b # << >> => a \o b # << >> /\ LastOf(a \o b) = LastOf(b)
  <1>1. /\ Len(a) \in Nat /\ Len(b) \in Nat /\ a \o b \in Heights /\ Len(a \o b) = Len(a) + Len(b)
        /\ \A i \in 1 .. Len(a) : (a \o b)[i] = a[i]
        /\ \A i \in 1 .. Len(b) : (a \o b)[Len(a) + i] = b[i]
        /\ a = << >> <=> Len(a) = 0
        /\ b = << >> <=> Len(b) = 0
    BY DEF Heights
  <1>2. ASSUME NEW i \in 2 .. Len(a \o b)
        PROVE  (a \o b)[i] = (a \o b)[i - 1] + 1
    <2>1. CASE i <= Len(a)
      <3>1. i \in 2 .. Len(a) /\ i \in 1 .. Len(a) /\ i - 1 \in 1 .. Len(a)
        BY <1>1, <2>1
      <3>. QED  BY <1>1, <3>1 DEF Consecutive
    <2>2. CASE i = Len(a) + 1
      <3>1. 1 \in 1 .. Len(b) /\ i - 1 \in 1 .. Len(a) /\ Len(a) # 0 /\ i - 1 = Len(a)
        BY <1>1, <2>2
      <3>2. b[1] = LastOf(a) + 1
        BY <1>1, <3>1 DEF Follows
      <3>. QED  BY <1>1, <2>2, <3>1, <3>2 DEF LastOf
    <2>3. CASE i > Len(a) + 1
      <3>. DEFINE j == i - Len(a)
      <3>1. j \in 2 .. Len(b) /\ j \in 1 .. Len(b) /\ j - 1 \in 1 .. Len(b) /\ j # 1
            /\ i = Len(a) + j /\ i - 1 = Len(a) + (j - 1)
        BY <1>1, <2>3
      <3>2. b[j] = b[j - 1] + 1
        BY <3>1 DEF Follows
      <3>. QED  BY <1>1, <3>1, <3>2
    <2>. QED  BY <1>1, <2>1, <2>2, <2>3
  <1>3. b = << >> => a \o b = a
    BY DEF Heights
  <1>4. b # << >> => a \o b # << >> /\ LastOf(a \o b) = LastOf(b)
    BY LastOfConcat
  <1>. QED  BY <1>1, <1>2, <1>3, <1>4 DEF Consecutive

\* What the system transactions about L1 blocks accept comes right behind the contract's blocks.
LEMMA AcceptedFollows ==
  ASSUME NEW s, NEW shp, NEW l2, NEW b \in Heights, s.l1 \in Heights, L1Accepted(s, shp, l2, b)
  PROVE  Follows(s.l1, b)
  <1>. SUFFICES ASSUME NEW i \in 1 .. Len(b)
                PROVE  IF i = 1 THEN s.l1 = << >> \/ b[1] = LastOf(s.l1) + 1 ELSE b[i] = b[i - 1] + 1
    BY DEF Follows
  <1>. DEFINE front == SubSeq(b, 1, i - 1)
  <1>1. /\ Len(b) \in Nat /\ DOMAIN b = 1 .. Len(b) /\ i \in Nat /\ i >= 1
        /\ front \in Heights /\ Len(front) = i - 1
        /\ \A j \in 1 .. i - 1 : front[j] = b[j]
    BY DEF Heights
  <1>2. \/ l2 = 1 /\ i = 1 /\ s.l1 = << >>
        \/ b[i] = LastOf(s.l1 \o front) + 1
    BY <1>1 DEF L1Accepted
  <1>3. CASE i = 1
    <2>1. s.l1 \o front = s.l1
      BY <1>1, <1>3 DEF Heights
    <2>. QED  BY <1>2, <1>3, <2>1
  <1>4. CASE i # 1
    <2>1. front # << >> /\ LastOf(front) = b[i - 1]
      BY <1>1, <1>4 DEF LastOf
    <2>2. LastOf(s.l1 \o front) = LastOf(front)
      BY <1>1, <2>1, LastOfConcat
    <2>. QED  BY <1>2, <1>4, <2>1, <2>2
  <1>. QED  BY <1>3, <1>4

LEMMA AppendFacts ==
  ASSUME NEW S, NEW p \in Seq(S), NEW e \in S
  PROVE  Append(p, e) \in Seq(S) /\ Append(p, e) # << >>
  <1>1. Append(p, e) \in Seq(S) /\ Len(Append(p, e)) = Len(p) + 1 /\ Len(p) \in Nat
    OBVIOUS
  <1>2. Len(<< >>) = 0
    OBVIOUS
  <1>. QED  BY <1>1, <1>2

\* What a tick plans are lists of heights, and it plans one at least.
LEMMA TickPlans ==
  ASSUME BlockProductionAssumption, Types
  PROVE  Append(Chunks, <<finalized>>) \in Seq(Heights) /\ Append(Chunks, <<finalized>>) # << >>
  <1>. DEFINE n == (missed + MaxMissed - 1) \div MaxMissed
              size(i) == IF i * MaxMissed <= missed THEN MaxMissed ELSE missed % MaxMissed
              chunk(i) == [j \in 1 .. size(i) |-> used + (i - 1) * MaxMissed + j]
  <1>1. /\ MaxMissed \in Nat /\ MaxMissed > 0 /\ missed \in Nat /\ used \in Int /\ finalized \in Int
        /\ missed + MaxMissed - 1 \in Nat
    BY DEF BlockProductionAssumption, Types
  <1>2. n \in Nat /\ missed % MaxMissed \in Nat
    BY <1>1
  <1>3. ASSUME NEW i \in 1 .. n
        PROVE  chunk(i) \in Heights
    <2>1. size(i) \in Nat /\ (i - 1) * MaxMissed \in Int
      BY <1>1, <1>2
    <2>. HIDE DEF size
    <2>2. \A j \in 1 .. size(i) : used + (i - 1) * MaxMissed + j \in Int
      BY <1>1, <2>1
    <2>. QED  BY <2>1, <2>2 DEF Heights
  <1>4. Chunks = [i \in 1 .. n |-> chunk(i)]
    BY DEF Chunks
  <1>. HIDE DEF n, chunk
  <1>5. Chunks \in Seq(Heights)
    BY <1>2, <1>3, <1>4
  <1>6. <<finalized>> \in Heights
    BY <1>1 DEF Heights
  <1>. QED  BY <1>5, <1>6, AppendFacts, Zenon

\* The steps that leave alone what the invariant is about, but for the pool's rows.
Quiet == UNCHANGED <<state, pc, used, block, head, diffs, plan>>

Idle == L1Advances \/ FeeChanges \/ L1Retracts \/ ClockMoves \/ MonitorPoll \/ ReceiveL1
          \/ MaintainPool \/ Calls \/ Answers

LEMMA IdleQuiet ==
  ASSUME Idle PROVE Quiet
  <1>1. CASE L1Advances \/ FeeChanges \/ L1Retracts \/ ClockMoves
    BY <1>1, Zenon DEF L1Advances, FeeChanges, L1Retracts, ClockMoves, Quiet, loop, view, ledger
  <1>2. CASE MonitorPoll \/ ReceiveL1 \/ MaintainPool
    BY <1>2, Zenon DEF MonitorPoll, ReceiveL1, MaintainPool, Quiet, loop, view, ledger
  <1>3. CASE Calls
    BY <1>3, Zenon DEF Calls, SendRawTransaction, RemoveTxs, SimulateDeposit, Quiet, loop, view, ledger
  <1>4. CASE Answers
    BY <1>4, Zenon DEF Answers, InsertMempoolTx, AddDeposit, Quiet, loop, view, ledger
  <1>. QED  BY <1>1, <1>2, <1>3, <1>4 DEF Idle

LEMMA NextCases ==
  ASSUME Next
  PROVE  Idle \/ FetchFails \/ Crash \/ Restart \/ Runner
  BY Zenon DEF Next, World, Idle

LEMMA TailFacts ==
  ASSUME NEW S, NEW p \in Seq(S), p # << >>
  PROVE  /\ Head(p) \in S /\ Tail(p) \in Seq(S)
         /\ (Len(p) # 1 => Tail(p) # << >>)
  <1>1. Head(p) \in S /\ Tail(p) \in Seq(S)
    OBVIOUS
  <1>2. Len(Tail(p)) = Len(p) - 1
    OBVIOUS
  <1>3. ASSUME Tail(p) = << >> PROVE Len(p) = 1
    <2>1. Len(<< >>) = 0
      OBVIOUS
    <2>2. Len(p) - 1 = 0
      BY <1>2, <1>3, <2>1, Zenon
    <2>3. Len(p) \in Nat
      OBVIOUS
    <2>. QED  BY <2>2, <2>3
  <1>. QED  BY <1>1, <1>3, Zenon

\* What NextPlanned does to the plan.
LEMMA NextPlannedFacts ==
  ASSUME Types, Producing, NextPlanned
  PROVE  /\ plan' \in Seq(Heights) /\ (Producing' => plan' # << >>)
         /\ pc' \in {"idle", "dry"} /\ block' = NoBlock /\ block'.l1 = << >> /\ block'.l1 \in Heights
  <1>1. plan \in Seq(Heights) /\ plan # << >>
    BY DEF Types
  <1>2. Tail(plan) \in Seq(Heights) /\ (Len(plan) # 1 => Tail(plan) # << >>)
    BY <1>1, TailFacts
  <1>3. << >> \in Heights
    BY DEF Heights
  <1>. QED  BY <1>1, <1>2, <1>3 DEF NextPlanned, NoBlock, Producing

LEMMA NewL1Type ==
  ASSUME Types, Producing PROVE NewL1 \in Heights
  <1>1. Head(plan) \in Heights
    BY TailFacts, Zenon DEF Types
  <1>2. << >> \in Heights
    BY DEF Heights
  <1>. QED  BY <1>1, <1>2 DEF NewL1

LEMMA HeightTypes ==
  ASSUME Types PROVE state.height \in Nat /\ head \in Nat /\ diffs \in Nat
  BY DEF Types

\* The dry run refuses the block, or accepts its L1 blocks.
LEMMA DryRunCases ==
  ASSUME DryRun
  PROVE  \/ NextPlanned
         \/ /\ L1Accepted(state, proofs', head + 1, NewL1)
            /\ block'.l1 = NewL1 /\ pc' = "execute" /\ UNCHANGED plan
  BY DEF DryRun

\* The execution panics, refuses the block or goes on to write it.
LEMMA ExecuteCases ==
  ASSUME Execute
  PROVE  \/ NextPlanned /\ UNCHANGED diffs
         \/ pc' = "panicked" /\ UNCHANGED <<diffs, plan, block>>
         \/ pc' = "finalize" /\ diffs' = head + 1 /\ state.height = head /\ UNCHANGED <<plan, block>>
  BY DEF Execute

\* Every step keeps the types.
LEMMA TypesStep ==
  ASSUME BlockProductionAssumption, Types, [Next]_vars
  PROVE  Types'
  <1>1. CASE UNCHANGED vars
    BY <1>1 DEF vars, da, ledger, monitor, loop, view, Types, Producing
  <1>2. CASE Idle
    <2>1. Quiet
      BY <1>2, IdleQuiet
    <2>2. tip' \in Tip /\ chan' \in Seq(Tip) /\ finalized' \in Int /\ missed' \in Nat
      <3>1. CASE L1Advances \/ FeeChanges \/ L1Retracts \/ ClockMoves
        BY <3>1 DEF L1Advances, FeeChanges, L1Retracts, ClockMoves, loop, view, monitor, Types, Tip
      <3>2. CASE MonitorPoll
        BY <3>2 DEF MonitorPoll, da, loop, view, Types
      <3>3. CASE ReceiveL1
        <4>1. Head(chan) \in Tip /\ Tail(chan) \in Seq(Tip)
          BY <3>3, TailFacts, Zenon DEF ReceiveL1, Types
        <4>2. Head(chan).height \in Int
          BY <4>1 DEF Tip
        <4>. QED  BY <3>3, <4>1, <4>2 DEF ReceiveL1, DaBlocksMissed, da, Types
      <3>4. CASE MaintainPool
        BY <3>4 DEF MaintainPool, da, loop, view, monitor, Types
      <3>5. CASE Calls
        BY <3>5, Zenon DEF Calls, SendRawTransaction, RemoveTxs, SimulateDeposit, da, loop, view, monitor, Types
      <3>6. CASE Answers
        BY <3>6, Zenon DEF Answers, InsertMempoolTx, AddDeposit, da, loop, view, monitor, Types
      <3>. QED  BY <1>2, <3>1, <3>2, <3>3, <3>4, <3>5, <3>6 DEF Idle
    <2>. QED  BY <2>1, <2>2 DEF Quiet, Types, Producing
  <1>3. CASE FetchFails \/ Crash
    BY <1>3 DEF FetchFails, Crash, da, ledger, monitor, view, Types, Producing
  <1>4. CASE Restart
    <2>1. StartUsed \in Int /\ tip.height \in Int
      BY DEF StartUsed, LastL1, LastOf, Types, Tip, Heights
    <2>2. DaBlocksMissed(tip.height, StartUsed) \in Nat
      BY <2>1 DEF DaBlocksMissed
    <2>3. << >> \in Heights /\ << >> \in Seq(Tip) /\ << >> \in Seq(Heights)
      BY DEF Heights
    <2>. QED  BY <1>4, <2>1, <2>2, <2>3 DEF Restart, NoBlock, da, Types, Producing
  <1>5. CASE Tick
    <2>1. plan' \in Seq(Heights) /\ plan' # << >>
      BY <1>5, TickPlans DEF Tick
    <2>. QED  BY <1>5, <2>1 DEF Tick, da, ledger, monitor, Types, Producing
  <1>6. CASE DryRun
    <2>1. Producing
      BY <1>6 DEF DryRun, Producing
    <2>2. UNCHANGED <<tip, chan, finalized, used, missed, state, head, diffs>>
      BY <1>6, Zenon DEF DryRun, da, monitor, view
    <2>3. CASE NextPlanned
      BY <2>1, <2>2, <2>3, NextPlannedFacts DEF Types
    <2>4. CASE UNCHANGED plan /\ block'.l1 = NewL1
      BY <2>1, <2>2, <2>4, NewL1Type DEF Types
    <2>. QED  BY <1>6, <2>3, <2>4, DryRunCases, Zenon
  <1>7. CASE Execute
    <2>1. Producing
      BY <1>7 DEF Execute, Producing
    <2>2. UNCHANGED <<tip, chan, finalized, used, missed, state, head>>
      BY <1>7, Zenon DEF Execute, da, monitor, view
    <2>3. CASE NextPlanned /\ UNCHANGED diffs
      BY <2>1, <2>2, <2>3, NextPlannedFacts DEF Types
    <2>4. CASE UNCHANGED <<plan, block>> /\ (UNCHANGED diffs \/ diffs' = head + 1)
      <3>1. diffs' \in Nat
        BY <2>2, <2>4, HeightTypes
      <3>. QED  BY <2>1, <2>2, <2>4, <3>1, Zenon DEF Types
    <2>. QED  BY <1>7, <2>3, <2>4, ExecuteCases, Zenon
  <1>8. CASE FinalizeStorage
    <2>1. state'.l1 \in Heights /\ state'.height \in Nat
      <3>1. state'.l1 = state.l1 \o block.l1 /\ state'.height = state.height + 1
        BY <1>8, Zenon DEF FinalizeStorage, After
      <3>2. state.l1 \o block.l1 \in Heights
        BY DEF Types, Heights
      <3>. QED  BY <3>1, <3>2, HeightTypes
    <2>. QED  BY <1>8, <2>1 DEF FinalizeStorage, da, ledger, monitor, view, Types, Producing
  <1>9. CASE CommitL2Block \/ RemoveDeposits
    <2>1. /\ UNCHANGED <<tip, chan, finalized, used, missed, plan, block, state, diffs>>
          /\ (UNCHANGED head \/ head' = head + 1)
      BY <1>9, Zenon DEF CommitL2Block, RemoveDeposits, da, ledger, monitor, view
    <2>2. Producing
      BY <1>9, Zenon DEF CommitL2Block, RemoveDeposits, Producing
    <2>. QED  BY <2>1, <2>2 DEF Types
  <1>10. CASE MaintainMempool
    <2>1. Producing /\ NextPlanned
      BY <1>10 DEF MaintainMempool, Producing
    <2>2. UNCHANGED <<tip, chan, finalized, missed, state, head, diffs>> /\ used' = LastUsed
      BY <1>10, Zenon DEF MaintainMempool, da, monitor
    <2>3. LastUsed \in Int
      BY DEF LastUsed, LastOf, Types, Heights
    <2>. QED  BY <2>1, <2>2, <2>3, NextPlannedFacts DEF Types
  <1>. QED  BY <1>1, <1>2, <1>3, <1>4, <1>5, <1>6, <1>7, <1>8, <1>9, <1>10, NextCases, Zenon DEF Runner

\* Every step keeps the contract's blocks consecutive and the counter on the last one.
LEMMA ContractStep ==
  ASSUME Types, Contract, [Next]_vars
  PROVE  Contract'
  <1>1. CASE Quiet \/ UNCHANGED vars
    BY <1>1, Zenon
       DEF Quiet, vars, ledger, loop, view, Contract, LightClientContiguous, Follows, LastUsed, LastOf
  <1>2. CASE FetchFails \/ Crash
    BY <1>2 DEF FetchFails, Crash, ledger, Contract, LightClientContiguous
  <1>3. CASE Restart
    BY <1>3 DEF Restart, StartUsed, LastL1, Contract, LightClientContiguous
  <1>4. CASE Tick
    BY <1>4 DEF Tick, ledger, Contract, LightClientContiguous
  <1>5. CASE DryRun
    <2>1. /\ UNCHANGED <<state, used>> /\ Producing
          /\ state.l1 # << >> => used = LastOf(state.l1)
      BY <1>5 DEF DryRun, view, Contract, Producing
    <2>2. CASE NextPlanned
      BY <2>1, <2>2, NextPlannedFacts DEF Contract, LightClientContiguous
    <2>3. CASE /\ L1Accepted(state, proofs', head + 1, NewL1)
               /\ block'.l1 = NewL1 /\ pc' = "execute"
      <3>1. Follows(state.l1, NewL1)
        BY <2>1, <2>3, NewL1Type, AcceptedFollows DEF Types
      <3>. QED  BY <2>1, <2>3, <3>1 DEF Contract, LightClientContiguous
    <2>. QED  BY <1>5, <2>2, <2>3, DryRunCases, Zenon
  <1>6. CASE Execute
    <2>1. /\ UNCHANGED <<state, used>> /\ Producing
          /\ Follows(state.l1, block.l1)
          /\ state.l1 # << >> => used = LastOf(state.l1)
      BY <1>6 DEF Execute, view, Contract, Producing
    <2>2. CASE NextPlanned
      BY <2>1, <2>2, NextPlannedFacts DEF Contract, LightClientContiguous
    <2>3. CASE UNCHANGED block /\ (pc' = "panicked" \/ pc' = "finalize")
      BY <2>1, <2>3 DEF Contract, LightClientContiguous
    <2>. QED  BY <1>6, <2>2, <2>3, ExecuteCases, Zenon
  <1>7. CASE FinalizeStorage
    <2>1. /\ Follows(state.l1, block.l1) /\ Consecutive(state.l1)
          /\ state.l1 # << >> => used = LastOf(state.l1)
      BY <1>7 DEF FinalizeStorage, Contract, LightClientContiguous, Consecutive
    <2>2. state'.l1 = state.l1 \o block.l1 /\ pc' = "commit" /\ UNCHANGED <<used, block>>
      BY <1>7, Zenon DEF FinalizeStorage, After, view
    <2>3. state.l1 \in Heights /\ block.l1 \in Heights
      BY DEF Types
    <2>4. /\ Consecutive(state.l1 \o block.l1)
          /\ block.l1 = << >> => state.l1 \o block.l1 = state.l1
          /\ block.l1 # << >> => LastOf(state.l1 \o block.l1) = LastOf(block.l1)
      BY <2>1, <2>3, FollowsExtends
    <2>5. state'.l1 # << >> => LastUsed' = LastOf(state'.l1)
      BY <2>1, <2>2, <2>4, Zenon DEF LastUsed
    <2>. QED  BY <2>2, <2>4, <2>5, Zenon DEF Contract, LightClientContiguous, Consecutive
  <1>8. CASE CommitL2Block \/ RemoveDeposits
    BY <1>8 DEF CommitL2Block, RemoveDeposits, view, Contract, LightClientContiguous, LastUsed, LastOf
  <1>9. CASE MaintainMempool
    <2>1. /\ UNCHANGED state /\ used' = LastUsed /\ Producing /\ NextPlanned
          /\ state.l1 # << >> => LastUsed = LastOf(state.l1)
      BY <1>9 DEF MaintainMempool, Contract, Producing
    <2>. QED  BY <2>1, NextPlannedFacts DEF Contract, LightClientContiguous
  <1>. QED  BY <1>1, <1>2, <1>3, <1>4, <1>5, <1>6, <1>7, <1>8, <1>9, NextCases, IdleQuiet, Zenon DEF Runner

\* Every step keeps the state database at most one block ahead of the ledger.
LEMMA StoresStep ==
  ASSUME Types, Stores, [Next]_vars
  PROVE  Stores'
  <1>1. CASE Quiet \/ UNCHANGED vars
    BY <1>1, Zenon DEF Quiet, vars, ledger, loop, Stores, StoresAgree
  <1>2. CASE FetchFails \/ Crash \/ Restart \/ Tick
    BY <1>2 DEF FetchFails, Crash, Restart, Tick, ledger, Stores, StoresAgree
  <1>3. CASE DryRun
    <2>1. UNCHANGED <<state, head, diffs>> /\ pc' \in {"idle", "dry", "execute"}
      BY <1>3 DEF DryRun, NextPlanned
    <2>. QED  BY <2>1 DEF Stores, StoresAgree
  <1>4. CASE Execute
    <2>1. UNCHANGED <<state, head>>
      BY <1>4 DEF Execute
    <2>2. CASE UNCHANGED diffs /\ pc' \in {"idle", "dry", "panicked"}
      BY <2>1, <2>2 DEF Stores, StoresAgree
    <2>3. CASE diffs' = head + 1 /\ pc' = "finalize" /\ state.height = head
      BY <2>1, <2>3, HeightTypes DEF Stores, StoresAgree
    <2>. QED  BY <1>4, <2>2, <2>3, ExecuteCases DEF NextPlanned
  <1>5. CASE FinalizeStorage
    <2>1. /\ state'.height = state.height + 1 /\ UNCHANGED <<head, diffs>>
          /\ pc = "finalize" /\ pc' = "commit"
      BY <1>5 DEF FinalizeStorage, After, ledger
    <2>. QED  BY <2>1, HeightTypes DEF Stores, StoresAgree
  <1>6. CASE CommitL2Block
    <2>1. head' = head + 1 /\ UNCHANGED <<state, diffs>> /\ pc = "commit" /\ pc' = "cleanup"
      BY <1>6, Zenon DEF CommitL2Block
    <2>. QED  BY <2>1, HeightTypes DEF Stores, StoresAgree
  <1>7. CASE RemoveDeposits
    BY <1>7 DEF RemoveDeposits, ledger, Stores, StoresAgree
  <1>8. CASE MaintainMempool
    <2>1. UNCHANGED <<state, head, diffs>> /\ pc' \in {"idle", "dry"}
      BY <1>8 DEF MaintainMempool, NextPlanned
    <2>. QED  BY <2>1 DEF Stores, StoresAgree
  <1>. QED  BY <1>1, <1>2, <1>3, <1>4, <1>5, <1>6, <1>7, <1>8, NextCases, IdleQuiet, Zenon DEF Runner

\* Every step keeps an acknowledged transaction in the ledger's rows until it is mined,
\* cannot pay or is refused by a pool that is restored.
LEMMA KeptStep ==
  ASSUME Kept, [Next]_vars
  PROVE  Kept'
  <1>. DEFINE keeps == UNCHANGED <<state, block, pc, dropped>>
  <1>1. CASE Idle
    <2>1. CASE \E t \in Txs : InsertMempoolTx(t)
      <3>1. PICK t \in Txs : InsertMempoolTx(t)
        BY <2>1
      <3>2. rows' = rows \cup {t} /\ acked' = acked \cup {t} /\ keeps
        BY <3>1, Zenon DEF InsertMempoolTx, loop
      <3>. QED  BY <3>2 DEF Kept, TxsSurvive
    <2>2. CASE ~ \E t \in Txs : InsertMempoolTx(t)
      <3>1. keeps /\ UNCHANGED <<rows, acked>>
        <4>1. CASE L1Advances \/ FeeChanges \/ L1Retracts \/ ClockMoves
          BY <4>1, Zenon DEF L1Advances, FeeChanges, L1Retracts, ClockMoves, loop, ledger, history
        <4>2. CASE MonitorPoll \/ ReceiveL1 \/ MaintainPool
          BY <4>2, Zenon DEF MonitorPoll, ReceiveL1, MaintainPool, loop, ledger, history
        <4>3. CASE Calls
          BY <4>3, Zenon DEF Calls, SendRawTransaction, RemoveTxs, SimulateDeposit, loop, ledger
        <4>4. CASE \E d \in Deposits : AddDeposit(d)
          BY <4>4, Zenon DEF AddDeposit, loop, ledger
        <4>. QED  BY <1>1, <2>2, <4>1, <4>2, <4>3, <4>4, Zenon DEF Idle, Answers
      <3>. QED  BY <3>1, Zenon DEF Kept, TxsSurvive
    <2>. QED  BY <2>1, <2>2
  <1>2. CASE FetchFails \/ Crash \/ Tick
    <2>1. UNCHANGED <<state, rows, acked, dropped>> /\ pc' \in {"stopped", "dry"}
      BY <1>2 DEF FetchFails, Crash, Tick, ledger, history
    <2>. QED  BY <2>1 DEF Kept, TxsSurvive
  <1>3. CASE Restart
    <2>1. PICK refused \in SUBSET (rows \ state.mined) :
            rows' = rows \ (state.mined \cup refused) /\ dropped' = dropped \cup refused
      BY <1>3, Zenon DEF Restart
    <2>2. UNCHANGED <<state, acked>> /\ pc' = "idle"
      BY <1>3, Zenon DEF Restart
    <2>. QED  BY <2>1, <2>2 DEF Kept, TxsSurvive
  <1>4. CASE DryRun \/ Execute
    <2>1. UNCHANGED <<state, rows, acked, dropped>>
      BY <1>4, Zenon DEF DryRun, Execute, history
    <2>2. pc' \in {"idle", "dry", "execute", "panicked", "finalize"}
      BY <1>4 DEF DryRun, Execute, NextPlanned
    <2>. QED  BY <2>1, <2>2 DEF Kept, TxsSurvive
  <1>5. CASE FinalizeStorage
    <2>1. state'.mined = state.mined \cup block.txs /\ UNCHANGED <<block, rows, acked, dropped>>
      BY <1>5 DEF FinalizeStorage, After, ledger, history
    <2>. QED  BY <2>1 DEF Kept, TxsSurvive
  <1>6. CASE CommitL2Block \/ RemoveDeposits
    <2>1. UNCHANGED <<state, block, rows, acked>> /\ pc \in {"commit", "cleanup"}
      BY <1>6, Zenon DEF CommitL2Block, RemoveDeposits, ledger, history
    <2>2. dropped \subseteq dropped'
      BY <1>6, Zenon DEF CommitL2Block, RemoveDeposits, history
    <2>. QED  BY <2>1, <2>2 DEF Kept, TxsSurvive
  <1>7. CASE MaintainMempool
    <2>1. /\ rows' = rows \ (block.txs \cup block.failed) /\ dropped' = dropped \cup block.failed
          /\ UNCHANGED <<state, acked>> /\ pc = "maintain" /\ pc' \in {"idle", "dry"}
      BY <1>7 DEF MaintainMempool, NextPlanned
    <2>. QED  BY <2>1 DEF Kept, TxsSurvive
  <1>8. CASE UNCHANGED vars
    <2>1. keeps /\ UNCHANGED <<rows, acked>>
      BY <1>8, Zenon DEF vars, loop, ledger, history
    <2>. QED  BY <2>1, Zenon DEF Kept, TxsSurvive
  <1>. QED  BY <1>1, <1>2, <1>3, <1>4, <1>5, <1>6, <1>7, <1>8, NextCases, Zenon DEF Runner

LEMMA ProductionInit ==
  ASSUME BlockProductionAssumption, Init
  PROVE  Types /\ Contract /\ Stores /\ Kept
  <1>1. << >> \in Heights /\ << >> \in Seq(Tip) /\ << >> \in Seq(Heights)
    BY DEF Heights
  <1>2. /\ pc = "idle" /\ plan = << >> /\ chan = << >> /\ finalized = StartL1 /\ used = StartL1 - 1
        /\ missed = 0 /\ head = 0 /\ diffs = 0 /\ acked = {}
    BY DEF Init
  <1>3. state.l1 = << >> /\ state.height = 0 /\ block.l1 = << >>
    BY DEF Init, Genesis, NoBlock
  <1>4. StartL1 \in Int /\ StartL1 - 1 \in Int
    BY DEF BlockProductionAssumption
  <1>5. tip \in Tip
    BY <1>4 DEF Init, Tip
  <1>6. Types
    <2>1. ~Producing
      BY <1>2 DEF Producing
    <2>2. 0 \in Nat
      OBVIOUS
    <2>. QED  BY <1>1, <1>2, <1>3, <1>4, <1>5, <2>1, <2>2, ZenonT(40) DEF Types
  <1>7. Contract
    <2>1. LightClientContiguous
      BY <1>3 DEF LightClientContiguous
    <2>. QED  BY <1>2, <1>3, <2>1 DEF Contract
  <1>8. Stores /\ Kept
    <2>1. StoresAgree
      BY <1>2, <1>3 DEF StoresAgree
    <2>2. TxsSurvive
      BY <1>2 DEF TxsSurvive
    <2>. QED  BY <1>2, <2>1, <2>2 DEF Stores, Kept
  <1>. QED  BY <1>6, <1>7, <1>8

\* The light client contract holds consecutive L1 blocks and, between two ticks, the runner's
\* last_used_l1_height is the last of them, whatever L1, the clock, failed blocks and crashes do.
THEOREM L1BlocksInOrderTheorem ==
  ASSUME BlockProductionAssumption
  PROVE  Spec => []L1BlocksInOrder
  <1>1. Init => Types /\ Contract
    BY ProductionInit
  <1>2. Types /\ Contract /\ [Next]_vars => (Types /\ Contract)'
    BY TypesStep, ContractStep
  <1>3. Contract => L1BlocksInOrder
    BY DEF Contract, L1BlocksInOrder, UsedIsInContract, LastL1
  <1>. QED  BY <1>1, <1>2, <1>3, PTL DEF Spec

\* A crash finds the state at most one block ahead of the ledger, the diff of every ledger block
\* is set, and a transaction whose hash was returned is mined, has its row, cannot pay or was
\* refused by the pool that restore_mempool filled.
THEOREM StoresTheorem ==
  ASSUME BlockProductionAssumption
  PROVE  Spec => [](StoresAgree /\ TxsSurvive)
  <1>1. Init => Types /\ Stores /\ Kept
    BY ProductionInit
  <1>2. Types /\ Stores /\ Kept /\ [Next]_vars => (Types /\ Stores /\ Kept)'
    BY TypesStep, StoresStep, KeptStep
  <1>3. Stores /\ Kept => StoresAgree /\ TxsSurvive
    BY DEF Stores, Kept
  <1>. QED  BY <1>1, <1>2, <1>3, PTL DEF Spec
=============================================================================
