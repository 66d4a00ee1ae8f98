---------------------------- MODULE GasEstimate ----------------------------
(***************************************************************************)
(* The estimator behind eth_estimateGas, eth_estimateDiffSize and          *)
(* eth_createAccessList (crates/evm/src/query.rs).  It executes the call   *)
(* once, then narrows the range of gas limits by executing it again and    *)
(* again, and adds the L1 fee, expressed in gas, to the limit it found.    *)
(*                                                                         *)
(* What one execution does is a function of the gas limit, and of the case *)
(* being estimated: the call works from some limit on, fails below it, and *)
(* is refused when the limit is beyond the block or the sender's funds.    *)
(***************************************************************************)
EXTENDS Integers

CONSTANTS MinTransactionGas,  \* gas of a plain transfer
          Cases               \* the calls being estimated, see CaseFits

(***************************************************************************)
(* A case: the block's gas limit and base fee, the limit and the price of  *)
(* the request, the gas the sender can pay for at that price (-1 when the  *)
(* balance does not even cover the value), and the behaviour of the call:  *)
(* intrinsic gas, gas used, gas refunded, the smallest limit it needs, how *)
(* it fails below, and the L1 fee of a run that works or that reverts.     *)
(***************************************************************************)
CaseFits(c) ==
  /\ {c.block, c.base_fee, c.intrinsic, c.used, c.need} \subseteq Nat \ {0}
  /\ {c.refund, c.l1, c.l1_reverted, c.l1_eoa} \subseteq Nat
  /\ c.allowance \in Nat \cup {-1}
  /\ c.request # << >> => c.request = <<c.request[1]>> /\ c.request[1] \in Nat \ {0}
  /\ {c.priced, c.transfer, c.zero, c.block_check} \subseteq BOOLEAN
  /\ c.fail \in {"revert", "out_of_gas", "halt"}
  /\ MinTransactionGas =< c.intrinsic /\ c.intrinsic =< c.used
  /\ c.used + c.refund =< c.need /\ 4 * c.refund =< c.used

ASSUME MinAssumption == MinTransactionGas \in Nat \ {0}

ASSUME CasesAssumption == \A c \in Cases : CaseFits(c)

VARIABLES c,        \* the case
          pc,       \* the stage of estimate_gas_with_env
          lowest,   \* lowest_gas_limit: a limit known to be too low
          highest,  \* highest_gas_limit
          mid,      \* mid_gas_limit
          l1_fee,   \* the L1 fee reported with the estimate
          error     \* the error returned, when pc = "failed"

vars == <<c, pc, lowest, highest, mid, l1_fee, error>>

Least(a, b) == IF a =< b THEN a ELSE b

Most(a, b) == IF a >= b THEN a ELSE b

(***************************************************************************)
(* inspect_with_citrea_handler: one execution with gas limit g.            *)
(***************************************************************************)
Exec(x, g) ==
  IF x.block_check /\ g > x.block THEN "more_than_block"
  ELSE IF x.allowance < 0 \/ (x.priced /\ g > x.allowance) THEN "no_funds"
  ELSE IF g < x.intrinsic THEN "cost_more_than_limit"
  ELSE IF g < x.need THEN x.fail ELSE "success"

\* The L1 fee execution reports: TxInfo of the handler's output().
L1FeeOf(x, outcome) == IF outcome = "success" THEN x.l1 ELSE x.l1_reverted

\* create_txn_env: the gas limit of the first execution.
TxGasLimit(x) ==
  IF x.request # << >> THEN Least(x.request[1], x.block)
  ELSE IF x.priced THEN Least(x.block, x.allowance)
  ELSE x.block

HighestGasLimit(x) == IF x.request # << >> THEN Most(x.request[1], x.block) ELSE x.block

Init ==
  /\ c \in Cases
  /\ pc = "begin"
  /\ lowest = 0 /\ highest = 0 /\ mid = 0 /\ l1_fee = 0
  /\ error = "none"

Fail(e) == /\ pc' = "failed" /\ error' = e
           /\ UNCHANGED <<c, lowest, highest, mid, l1_fee>>

(***************************************************************************)
(* A plain transfer is tried with the gas of a transfer; a transfer of     *)
(* nothing is charged as if it moved a balance.                            *)
(***************************************************************************)
Begin ==
  /\ pc = "begin"
  /\ IF c.request = << >> /\ c.priced /\ c.allowance < 0
     THEN Fail("insufficient_funds")
     ELSE IF c.transfer /\ Exec(c, MinTransactionGas) = "success"
     THEN /\ highest' = MinTransactionGas
          /\ l1_fee' = c.l1 + (IF c.zero THEN c.l1_eoa ELSE 0)
          /\ pc' = "done"
          /\ UNCHANGED <<c, lowest, mid, error>>
     ELSE /\ pc' = "first"
          /\ UNCHANGED <<c, lowest, highest, mid, l1_fee, error>>

\* map_out_of_gas_err: is the failure one of gas?
MapOutOfGas(x, outcome) ==
  IF Exec(x, x.block) = "success" THEN "basic_out_of_gas" ELSE Exec(x, x.block)

(***************************************************************************)
(* The first execution, and what becomes of its failures.                  *)
(***************************************************************************)
First ==
  /\ pc = "first"
  /\ \E outcome \in {Exec(c, TxGasLimit(c))} :
       CASE outcome = "success" ->
              /\ lowest' = c.used - 1
              /\ highest' = HighestGasLimit(c)
              /\ l1_fee' = c.l1
              /\ pc' = "optimistic"
              /\ UNCHANGED <<c, mid, error>>
         [] outcome = "cost_more_than_limit" -> Fail("gas_required_exceeds_allowance")
         [] outcome \in {"revert", "more_than_block"} ->
              Fail(IF c.request # << >> \/ c.priced THEN MapOutOfGas(c, outcome) ELSE outcome)
         [] OTHER -> Fail(outcome)

\* update_estimated_gas_range, for the outcomes it accepts.
UpdateRange(g, outcome) ==
  /\ highest' = IF outcome = "success" THEN g ELSE highest
  /\ lowest' = IF outcome = "success" THEN lowest ELSE g
  /\ l1_fee' = IF outcome \in {"success", "revert"} THEN L1FeeOf(c, outcome) ELSE l1_fee

OptimisticGasLimit(x) == ((x.used + x.refund) * 64) \div 63

FirstMid(x, lo, hi) == Least(x.used * 3, (hi + lo) \div 2)

(***************************************************************************)
(* The limit that is likely to do, and the first point of the search.      *)
(***************************************************************************)
Optimistic ==
  /\ pc = "optimistic"
  /\ \E g \in {OptimisticGasLimit(c)} :
       IF g >= highest
       THEN /\ mid' = FirstMid(c, lowest, highest)
            /\ pc' = "search"
            /\ UNCHANGED <<c, lowest, highest, l1_fee, error>>
       ELSE \E outcome \in {Exec(c, g)} :
              IF outcome \in {"success", "revert", "out_of_gas"}
              THEN /\ UpdateRange(g, outcome)
                   /\ mid' = FirstMid(c, lowest', highest')
                   /\ pc' = "search"
                   /\ UNCHANGED <<c, error>>
              ELSE Fail(outcome)

\* Mutant: the search stops while the range is ten times as wide.
MutCloseEnough == (highest - lowest) * 100 < 15 * highest

\* ESTIMATE_GAS_ERROR_RATIO: the range is below 1.5 percent of its upper end.
CloseEnough == (highest - lowest) * 1000 < 15 * highest

(***************************************************************************)
(* One round of the binary search.                                         *)
(***************************************************************************)
Search ==
  /\ pc = "search"
  /\ IF highest - lowest =< 1 \/ CloseEnough
     THEN /\ pc' = "done"
          /\ UNCHANGED <<c, lowest, highest, mid, l1_fee, error>>
     ELSE \E outcome \in {Exec(c, mid)} :
            CASE outcome \in {"more_than_block", "cost_more_than_limit"} ->
                   /\ highest' = IF outcome = "more_than_block" THEN mid ELSE highest
                   /\ lowest' = IF outcome = "more_than_block" THEN lowest ELSE mid
                   /\ mid' = (highest' + lowest') \div 2
                   /\ UNCHANGED <<c, pc, l1_fee, error>>
              [] outcome \in {"success", "revert", "out_of_gas"} ->
                   /\ UpdateRange(mid, outcome)
                   /\ mid' = (highest' + lowest') \div 2
                   /\ UNCHANGED <<c, pc, error>>
              [] OTHER -> Fail(outcome)

Finished == pc \in {"done", "failed"} /\ UNCHANGED vars

Next == Begin \/ First \/ Optimistic \/ Search \/ Finished

Spec == Init /\ [][Next]_vars

\* gas_with_l1_overhead and gas_limit_to_return: the number the caller sees.
GasLimitToReturn(x, gas, fee) ==
  LET with_l1_overhead == gas + Most(1, (fee + x.base_fee - 1) \div x.base_fee)
  IN  IF gas > x.block THEN with_l1_overhead ELSE Least(with_l1_overhead, x.block)

-----------------------------------------------------------------------------
(***************************************************************************)
(* While estimate_gas_with_env searches, the smallest limit that works is  *)
(* above the lower end and not above the upper end of its range: no limit  *)
(* that works is ever discarded, whatever the gas used, the refund and the *)
(* way the call fails below it.                                            *)
(***************************************************************************)
RangeHoldsNeed == pc \in {"optimistic", "search"} => lowest < c.need /\ c.need =< highest

(***************************************************************************)
(* The number eth_estimateGas returns is a gas limit with which the call   *)
(* works: enough gas and not more than a block takes.  (For a request      *)
(* beyond the block's limit the range starts beyond it as well and the     *)
(* estimate may stay there; for a request with a price the range starts    *)
(* beyond the sender's funds.)                                             *)
(***************************************************************************)
EstimateSucceeds ==
  pc = "done" /\ HighestGasLimit(c) = c.block /\ ~c.priced
    => Exec(c, GasLimitToReturn(c, highest, l1_fee)) = "success"

(***************************************************************************)
(* The estimate before the L1 overhead is the smallest limit that works,   *)
(* up to ESTIMATE_GAS_ERROR_RATIO.                                         *)
(***************************************************************************)
EstimateTight ==
  pc = "done" => highest = c.need \/ (highest - c.need) * 1000 < 15 * highest

(***************************************************************************)
(* estimate_gas_with_env answers with a plain revert only when the call    *)
(* reverts with all the gas of the block too: a call that only lacks gas   *)
(* is reported as out of gas, or for want of funds.                        *)
(***************************************************************************)
RevertIsFinal == pc = "failed" /\ error = "revert" => c.need > c.block

(***************************************************************************)
(* The search never loses the smallest limit that works, and the answer    *)
(* made of it works, is tight, and calls a revert what reverts anyway.     *)
(* It is about answers that are given: a round of the search may end the   *)
(* estimation with an error where the sender cannot pay for that much gas. *)
(***************************************************************************)
EstimateIsRight == RangeHoldsNeed /\ EstimateTight /\ EstimateSucceeds /\ RevertIsFinal

(***************************************************************************)
(* Every round of the loop narrows the range, so that the search ends: the *)
(* limit tried next is strictly inside the range, also the first one,      *)
(* which is three times the gas used or the middle, behind an optimistic   *)
(* step that may have moved either end.                                    *)
(***************************************************************************)
SearchNarrows ==
  [][pc = "search" /\ pc' = "search" => highest' - lowest' < highest - lowest]_vars
=============================================================================
