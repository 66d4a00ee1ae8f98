------------------------- MODULE GasEstimateProofs -------------------------
(***************************************************************************)
(* Proofs about the gas estimator for every set of cases: the range of the *)
(* search always holds the smallest limit that works and gets narrower in  *)
(* every round, the estimate is that limit up to the allowed error, works, *)
(* and a revert is reported only of what reverts anyway.                   *)
(***************************************************************************)
EXTENDS GasEstimate, TLAPS

\* How long the provers may take for a step, so that a slow machine finds the proofs too.
USE SMTT(40), ZenonT(40)

(***************************************************************************)
(* The inductive invariant.  A search is under way only after an execution *)
(* within the block worked, so the block has room for the smallest limit   *)
(* and the sender could pay for it; the point tried next is strictly       *)
(* inside the range unless the range is closed.                            *)
(***************************************************************************)
Searching ==
  /\ lowest < c.need /\ c.need =< highest /\ c.need =< c.block
  /\ c.allowance >= 0 /\ highest =< HighestGasLimit(c)

Inv ==
  /\ c \in Cases
  /\ lowest \in Int /\ highest \in Int /\ mid \in Int /\ l1_fee \in Int
  /\ pc \in {"optimistic", "search"} => Searching
  /\ pc = "optimistic" => lowest = c.used - 1
  /\ pc = "search" /\ highest - lowest > 1 => lowest < mid /\ mid < highest
  /\ pc = "done" => /\ c.need =< highest /\ c.allowance >= 0
                    /\ c.block_check => highest =< HighestGasLimit(c)
  /\ EstimateTight
  /\ RevertIsFinal

\* The middle of an open range is strictly inside it, and so is the first point that is
\* tried when the lower end is below three times the gas used.
LEMMA MiddleInside ==
  ASSUME NEW lo \in Int, NEW hi \in Int
  PROVE  /\ (hi + lo) \div 2 \in Int
         /\ hi - lo > 1 => lo < (hi + lo) \div 2 /\ (hi + lo) \div 2 < hi
  <1>1. \E m \in Int : m = (hi + lo) \div 2 /\ 2 * m =< hi + lo /\ hi + lo =< 2 * m + 1
    OBVIOUS
  <1>. QED  BY <1>1

LEMMA FirstMidInside ==
  ASSUME NEW x, x.used \in Nat, NEW lo \in Int, NEW hi \in Int, lo < 3 * x.used
  PROVE  /\ FirstMid(x, lo, hi) \in Int
         /\ hi - lo > 1 => lo < FirstMid(x, lo, hi) /\ FirstMid(x, lo, hi) < hi
  BY MiddleInside DEF FirstMid, Least

\* The optimistic limit is below three times the gas used, because at most a fourth of
\* the gas used is refunded.
LEMMA OptimisticBelow ==
  ASSUME NEW used \in Nat, used # 0, NEW refund \in Nat, 4 * refund =< used
  PROVE  ((used + refund) * 64) \div 63 \in Int /\ ((used + refund) * 64) \div 63 < 3 * used
  <1>1. \E m \in Int : m = ((used + refund) * 64) \div 63 /\ 63 * m =< (used + refund) * 64
    OBVIOUS
  <1>. QED  BY <1>1

(***************************************************************************)
(* What an outcome of inspect_with_citrea_handler says about the gas limit *)
(* it was executed with.                                                   *)
(***************************************************************************)
LEMMA ExecFacts ==
  ASSUME NEW x \in Cases, NEW g \in Int
  PROVE  /\ Exec(x, g) = "success" => g >= x.need
         /\ Exec(x, g) \in {"revert", "out_of_gas"} => g < x.need
         /\ Exec(x, g) = "more_than_block" => g > x.block
         /\ Exec(x, g) = "cost_more_than_limit" => g < x.need
         /\ Exec(x, g) = "success" => x.allowance >= 0 /\ ~(x.block_check /\ g > x.block)
  <1>1. /\ {x.intrinsic, x.need, x.used, x.block} \subseteq Nat /\ x.intrinsic =< x.need
        /\ x.allowance \in Int /\ x.block_check \in BOOLEAN
        /\ x.fail \in {"revert", "out_of_gas", "halt"}
    <2>1. CaseFits(x)
      BY CasesAssumption
    <2>2. /\ {x.block, x.intrinsic, x.used, x.need} \subseteq Nat \ {0} /\ x.refund \in Nat
          /\ x.allowance \in Nat \cup {-1} /\ x.block_check \in BOOLEAN
          /\ x.fail \in {"revert", "out_of_gas", "halt"}
          /\ x.intrinsic =< x.used /\ x.used + x.refund =< x.need
      BY <2>1 DEF CaseFits
    <2>. QED  BY <2>2
  <1>. QED  BY <1>1 DEF Exec

(***************************************************************************)
(* The first execution of create_txn_env's limit stays within the block    *)
(* and within the range the search starts from.                            *)
(***************************************************************************)
LEMMA FirstLimit ==
  ASSUME NEW x \in Cases
  PROVE  /\ TxGasLimit(x) \in Int /\ HighestGasLimit(x) \in Int
         /\ TxGasLimit(x) =< x.block /\ x.block =< HighestGasLimit(x)
  <1>1. x.block \in Nat /\ x.allowance \in Int
        /\ (x.request # << >> => x.request[1] \in Nat)
    BY CasesAssumption DEF CaseFits
  <1>. QED  BY <1>1 DEF TxGasLimit, HighestGasLimit, Least, Most

(***************************************************************************)
(* The invariant holds of every reachable state.                           *)
(***************************************************************************)
THEOREM Invariance == Spec => []Inv
  <1>1. Init => Inv
    BY DEF Init, Inv, EstimateTight, RevertIsFinal
  <1>2. Inv /\ [Next]_vars => Inv'
    <2>. SUFFICES ASSUME Inv, [Next]_vars  PROVE Inv'
      OBVIOUS
    <2>. USE DEF Inv
    <2>0. /\ {c.intrinsic, c.need, c.used, c.refund, c.block, c.l1, c.l1_reverted, c.l1_eoa} \subseteq Nat
          /\ MinTransactionGas =< c.need /\ c.used =< c.need /\ c.used # 0 /\ 4 * c.refund =< c.used
          /\ MinTransactionGas \in Nat
      <3>1. CaseFits(c)
        BY CasesAssumption
      <3>2. /\ {c.block, c.intrinsic, c.used, c.need} \subseteq Nat \ {0}
            /\ {c.refund, c.l1, c.l1_reverted, c.l1_eoa} \subseteq Nat
            /\ MinTransactionGas =< c.intrinsic /\ c.intrinsic =< c.used
            /\ c.used + c.refund =< c.need /\ 4 * c.refund =< c.used
        BY <3>1 DEF CaseFits
      <3>. QED  BY <3>2, MinAssumption
    <2>f. ASSUME NEW e, Fail(e), e # "revert" \/ c.need > c.block  PROVE Inv'
      BY <2>f DEF Fail, EstimateTight, RevertIsFinal, Searching
    <2>s. ASSUME pc' = "search", c' = c, Searching', lowest' \in Int, highest' \in Int,
                 mid' \in Int, l1_fee' \in Int,
                 highest' - lowest' > 1 => lowest' < mid' /\ mid' < highest'
          PROVE  Inv'
      <3>1. EstimateTight' /\ RevertIsFinal'
        BY <2>s DEF EstimateTight, RevertIsFinal
      <3>2. c' \in Cases
        BY <2>s
      <3>. QED  BY <2>s, <3>1, <3>2, Zenon
    <2>1. CASE Begin
      <3>1. CASE pc' = "done"
        <4>1. /\ highest' = MinTransactionGas /\ Exec(c, MinTransactionGas) = "success"
              /\ l1_fee' \in Int /\ UNCHANGED <<c, lowest, mid>>
          BY <2>0, <2>1, <3>1 DEF Begin, Fail
        <4>2. highest' = c.need /\ c.allowance >= 0 /\ (c.block_check => highest' =< HighestGasLimit(c))
          BY <2>0, <4>1, ExecFacts, FirstLimit
        <4>. QED  BY <2>0, <4>1, <4>2, <3>1 DEF EstimateTight, RevertIsFinal
      <3>2. CASE pc' = "first"
        BY <2>1, <3>2 DEF Begin, Fail, EstimateTight, RevertIsFinal
      <3>3. CASE pc' = "failed"
        <4>1. Fail("insufficient_funds")
          BY <2>1, <3>3 DEF Begin
        <4>. QED  BY <4>1, <2>f
      <3>. QED  BY <2>1, <3>1, <3>2, <3>3 DEF Begin, Fail
    <2>2. CASE First
      <3>. DEFINE o == Exec(c, TxGasLimit(c))
      <3>0. TxGasLimit(c) \in Int /\ c.block \in Int
        BY <2>0, FirstLimit
      <3>1. CASE o = "success"
        <4>1. /\ lowest' = c.used - 1 /\ highest' = HighestGasLimit(c) /\ l1_fee' = c.l1
              /\ pc' = "optimistic" /\ UNCHANGED <<c, mid>>
          BY <2>2, <3>1 DEF First
        <4>2. c.need =< TxGasLimit(c) /\ c.allowance >= 0
          BY <3>0, <3>1, ExecFacts
        <4>. QED  BY <2>0, <4>1, <4>2, FirstLimit DEF EstimateTight, RevertIsFinal, Searching
      <3>2. CASE o \in {"revert", "more_than_block"}
        <4>1. Fail(IF c.request # << >> \/ c.priced THEN MapOutOfGas(c, o) ELSE o)
          BY <2>2, <3>2 DEF First
        <4>2. CASE c.request # << >> \/ c.priced
          <5>1. MapOutOfGas(c, o) = "revert" => c.need > c.block
            BY <2>0, <3>0, ExecFacts DEF MapOutOfGas
          <5>. QED  BY <4>1, <4>2, <5>1, <2>f
        <4>3. CASE ~(c.request # << >> \/ c.priced)
          <5>1. TxGasLimit(c) = c.block
            BY <4>3 DEF TxGasLimit
          <5>2. o = "revert" => c.need > c.block
            BY <2>0, <3>0, <5>1, ExecFacts
          <5>. QED  BY <4>1, <4>3, <5>2, <2>f
        <4>. QED  BY <4>2, <4>3
      <3>3. CASE o \notin {"success", "revert", "more_than_block"}
        <4>1. Fail("gas_required_exceeds_allowance") \/ Fail(o)
          BY <2>2, <3>3 DEF First
        <4>. QED  BY <3>3, <4>1, <2>f
      <3>. QED  BY <3>1, <3>2, <3>3
    <2>3. CASE Optimistic
      <3>. DEFINE g == OptimisticGasLimit(c)
      <3>0. pc = "optimistic" /\ Searching /\ lowest = c.used - 1
        BY <2>3 DEF Optimistic
      <3>1. g \in Int /\ g < 3 * c.used
        BY <2>0, OptimisticBelow DEF OptimisticGasLimit
      <3>2. CASE g >= highest
        <4>1. /\ mid' = FirstMid(c, lowest, highest) /\ pc' = "search"
              /\ UNCHANGED <<c, lowest, highest, l1_fee, error>>
          BY <2>3, <3>2 DEF Optimistic
        <4>2. mid' \in Int /\ (highest - lowest > 1 => lowest < mid' /\ mid' < highest)
          BY <2>0, <3>0, <4>1, FirstMidInside
        <4>. QED  BY <3>0, <4>1, <4>2 DEF EstimateTight, RevertIsFinal, Searching
      <3>3. CASE ~(g >= highest) /\ Exec(c, g) \in {"success", "revert", "out_of_gas"}
        <4>1. UpdateRange(g, Exec(c, g)) /\ pc' = "search" /\ UNCHANGED c
          BY <2>3, <3>3 DEF Optimistic
        <4>m. mid' = FirstMid(c, lowest', highest')
          BY <2>3, <3>3 DEF Optimistic
        <4>2. /\ lowest' \in Int /\ highest' \in Int /\ lowest' < c.need /\ c.need =< highest'
              /\ lowest' < 3 * c.used /\ highest' =< highest /\ l1_fee' \in Int
          BY <2>0, <3>0, <3>1, <3>3, <4>1, ExecFacts DEF UpdateRange, L1FeeOf, Searching
        <4>3. mid' \in Int /\ (highest' - lowest' > 1 => lowest' < mid' /\ mid' < highest')
          <5>. HIDE DEF Inv
          <5>. QED  BY <2>0, <4>m, <4>2, FirstMidInside, Zenon
        <4>4. highest' =< HighestGasLimit(c)
          BY <3>0, <4>2, FirstLimit DEF Searching
        <4>5. Searching'
          BY <3>0, <4>1, <4>2, <4>4 DEF Searching
        <4>. QED  BY <3>0, <4>1, <4>2, <4>3, <4>5, <2>s, Zenon
      <3>4. CASE ~(g >= highest) /\ Exec(c, g) \notin {"success", "revert", "out_of_gas"}
        <4>1. Fail(Exec(c, g))
          BY <2>3, <3>4 DEF Optimistic
        <4>. QED  BY <3>4, <4>1, <2>f
      <3>. QED  BY <3>2, <3>3, <3>4
    <2>4. CASE Search
      <3>. DEFINE o == Exec(c, mid)
      <3>0. pc = "search" /\ Searching
        BY <2>4 DEF Search
      <3>1. CASE highest - lowest =< 1 \/ CloseEnough
        <4>1. pc' = "done" /\ UNCHANGED <<c, lowest, highest, mid, l1_fee, error>>
          BY <2>4, <3>1 DEF Search
        <4>2. highest = c.need \/ (highest - c.need) * 1000 < 15 * highest
          BY <2>0, <3>0, <3>1 DEF CloseEnough, Searching
        <4>. QED  BY <3>0, <4>1, <4>2 DEF EstimateTight, RevertIsFinal, Searching
      <3>2. CASE ~(highest - lowest =< 1 \/ CloseEnough) /\ o \in {"more_than_block", "cost_more_than_limit"}
        <4>1. /\ highest' = IF o = "more_than_block" THEN mid ELSE highest
              /\ lowest' = IF o = "more_than_block" THEN lowest ELSE mid
              /\ mid' = (highest' + lowest') \div 2
              /\ UNCHANGED <<c, pc, l1_fee>>
          BY <2>4, <3>2 DEF Search
        <4>2. /\ lowest' \in Int /\ highest' \in Int /\ lowest' < c.need /\ c.need =< highest'
              /\ highest' =< highest
          BY <2>0, <3>0, <3>2, <4>1, ExecFacts DEF Searching
        <4>3. mid' \in Int /\ (highest' - lowest' > 1 => lowest' < mid' /\ mid' < highest')
          BY <4>1, <4>2, MiddleInside
        <4>4. highest' =< HighestGasLimit(c)
          BY <3>0, <4>2, FirstLimit DEF Searching
        <4>5. Searching'
          BY <3>0, <4>1, <4>2, <4>4 DEF Searching
        <4>. QED  BY <3>0, <4>1, <4>2, <4>3, <4>5, <2>s
      <3>3. CASE ~(highest - lowest =< 1 \/ CloseEnough) /\ o \in {"success", "revert", "out_of_gas"}
        <4>1. UpdateRange(mid, o) /\ UNCHANGED <<c, pc>>
          BY <2>4, <3>3 DEF Search
        <4>m. mid' = (highest' + lowest') \div 2
          BY <2>4, <3>3 DEF Search
        <4>2. /\ lowest' \in Int /\ highest' \in Int /\ lowest' < c.need /\ c.need =< highest'
              /\ highest' =< highest /\ l1_fee' \in Int
          BY <2>0, <3>0, <3>3, <4>1, ExecFacts DEF UpdateRange, L1FeeOf, Searching
        <4>3. mid' \in Int /\ (highest' - lowest' > 1 => lowest' < mid' /\ mid' < highest')
          <5>. HIDE DEF Inv
          <5>. QED  BY <4>m, <4>2, MiddleInside, Zenon
        <4>4. highest' =< HighestGasLimit(c)
          BY <3>0, <4>2, FirstLimit DEF Searching
        <4>5. Searching'
          BY <3>0, <4>1, <4>2, <4>4 DEF Searching
        <4>. QED  BY <3>0, <4>1, <4>2, <4>3, <4>5, <2>s, Zenon
      <3>4. CASE /\ ~(highest - lowest =< 1 \/ CloseEnough)
                 /\ o \notin {"success", "revert", "out_of_gas", "more_than_block", "cost_more_than_limit"}
        <4>1. Fail(o)
          BY <2>4, <3>4 DEF Search
        <4>. QED  BY <3>4, <4>1, <2>f
      <3>. QED  BY <3>1, <3>2, <3>3, <3>4
    <2>5. CASE UNCHANGED vars
      BY <2>5 DEF vars, EstimateTight, RevertIsFinal, Searching
    <2>. QED  BY <2>1, <2>2, <2>3, <2>4, <2>5 DEF Next, Finished
  <1>. QED  BY <1>1, <1>2, PTL DEF Spec

(***************************************************************************)
(* eth_estimateGas, for every call and every set of limits: no limit that  *)
(* works is ever discarded, the answer is the smallest such limit up to    *)
(* 1.5 percent and works itself, L1 overhead included, and what is called  *)
(* a revert reverts with all the gas of a block too.                       *)
(***************************************************************************)
THEOREM EstimateTheorem == Spec => []EstimateIsRight
  <1>1. Inv => RangeHoldsNeed
    BY DEF Inv, RangeHoldsNeed, Searching
  <1>2. Inv => EstimateSucceeds
    <2>. SUFFICES ASSUME Inv, pc = "done", HighestGasLimit(c) = c.block, ~c.priced
                  PROVE  Exec(c, GasLimitToReturn(c, highest, l1_fee)) = "success"
      BY DEF EstimateSucceeds
    <2>1. /\ {c.intrinsic, c.need, c.block} \subseteq Nat /\ c.intrinsic =< c.need
          /\ c.base_fee \in Nat \ {0} /\ c.block_check \in BOOLEAN /\ c.allowance \in Int
      <3>1. CaseFits(c)
        BY CasesAssumption DEF Inv
      <3>2. /\ {c.block, c.base_fee, c.intrinsic, c.used, c.need} \subseteq Nat \ {0}
            /\ c.refund \in Nat /\ c.allowance \in Nat \cup {-1} /\ c.block_check \in BOOLEAN
            /\ c.intrinsic =< c.used /\ c.used + c.refund =< c.need
        BY <3>1 DEF CaseFits
      <3>. QED  BY <3>2
    <2>. DEFINE overhead == Most(1, (l1_fee + c.base_fee - 1) \div c.base_fee)
                ret == GasLimitToReturn(c, highest, l1_fee)
    <2>2. highest \in Int /\ l1_fee \in Int /\ c.need =< highest /\ c.allowance >= 0
          /\ (c.block_check => highest =< c.block)
      BY DEF Inv
    <2>3. (l1_fee + c.base_fee - 1) \div c.base_fee \in Int
      BY <2>1, <2>2
    <2>4. overhead \in Int /\ overhead >= 1
      BY <2>3 DEF Most
    <2>5. ret = IF highest > c.block THEN highest + overhead
                ELSE Least(highest + overhead, c.block)
      BY DEF GasLimitToReturn
    <2>6. ret \in Int /\ c.need =< ret /\ (c.block_check => ret =< c.block)
      BY <2>1, <2>2, <2>4, <2>5 DEF Least
    <2>. QED  BY <2>1, <2>2, <2>6 DEF Exec
  <1>3. Inv => EstimateTight /\ RevertIsFinal
    BY DEF Inv
  <1>. QED  BY <1>1, <1>2, <1>3, Invariance, PTL DEF EstimateIsRight

(***************************************************************************)
(* Every round of the loop of estimate_gas_with_env narrows its range, so  *)
(* that it ends after at most as many rounds as the range is wide.         *)
(***************************************************************************)
THEOREM NarrowsTheorem == Spec => SearchNarrows
  <1>1. Inv /\ [Next]_vars => [pc = "search" /\ pc' = "search" => highest' - lowest' < highest - lowest]_vars
    <2>. SUFFICES ASSUME Inv, Next, pc = "search", pc' = "search", vars' # vars
                  PROVE  highest' - lowest' < highest - lowest
      OBVIOUS
    <2>1. Search
      BY DEF Next, Begin, First, Optimistic, Finished
    <2>2. ~(highest - lowest =< 1 \/ CloseEnough)
      BY <2>1 DEF Search
    <2>3. /\ lowest \in Int /\ highest \in Int /\ mid \in Int
          /\ lowest < mid /\ mid < highest
      BY <2>2 DEF Inv
    <2>4. \/ highest' = mid /\ lowest' = lowest
          \/ highest' = highest /\ lowest' = mid
      BY <2>1, <2>2 DEF Search, UpdateRange, Fail
    <2>. QED  BY <2>3, <2>4
  <1>. QED  BY <1>1, Invariance, PTL DEF Spec, SearchNarrows
=============================================================================
