------------------------- MODULE InscriptionBuilder -------------------------
(***************************************************************************)
(* Building the transactions of one request.                               *)
(*                                                                         *)
(* A proof, a sequencer commitment or a method id is one commit/reveal     *)
(* pair; a proof too large for one transaction is a pair per chunk and one *)
(* more for the aggregate.  A commit's inputs are chosen for a fee that    *)
(* depends on how many there are, so the choice is repeated until the size *)
(* no longer changes.  The amounts are then shifted one by one until the   *)
(* reveal's hash has the wanted prefix; when the slack is used up the      *)
(* whole pair is built again with another nonce.                           *)
(*                                                                         *)
(* An outpoint is <<pair, output>>: <<0, n>> is an output the wallet has,  *)
(* <<k, "reveal">> the reveal's output of pair k, <<k, "change">> the      *)
(* change of its commit.  Sizes are in vbytes, amounts in satoshis.        *)
(***************************************************************************)
EXTENDS Integers, Sequences, FiniteSets, FiniteSetsExt, Functions

CONSTANTS
  Dust,        \* REVEAL_OUTPUT_AMOUNT, which is also the smallest change
  Threshold,   \* REVEAL_OUTPUT_THRESHOLD: the slack for finding the prefix
  BaseSize,    \* size of a commit without its inputs
  InputSize,   \* size of one input of a commit
  RevealSize,  \* size of a reveal
  FeeRates,    \* the fee rates tried
  Amounts,     \* amounts of the wallet's outputs
  WalletSize,  \* number of the wallet's outputs
  MaxChunks    \* most chunks of a proof

BuilderAssumption ==
  /\ {Dust, Threshold, BaseSize, InputSize, RevealSize} \subseteq Nat \ {0}
  /\ FeeRates \subseteq Nat \ {0} /\ Amounts \subseteq Nat
  /\ WalletSize \in Nat /\ MaxChunks \in Nat

VARIABLES
  kind,     \* the request: "complete", "methodId", "commitment" or "chunked"
  chunks,   \* number of chunks of a chunked request
  rate,     \* fee rate, of commit and reveal
  amount,   \* amount of every outpoint known so far
  prev,     \* prev_utxo: none or one outpoint
  utxos,    \* outputs the next commit may spend
  lastSize, \* last_size of the loop that looks for the commit's size
  commit,   \* inputs and the two outputs of the commit being built
  reveal,   \* output of the reveal being built
  pairs,    \* the pairs that are finished
  pc        \* "size", "mine", "done", "failed"

vars == <<kind, chunks, rate, amount, prev, utxos, lastSize, commit, reveal, pairs, pc>>

NoCommit == [ins |-> {}, out |-> 0, change |-> 0]
Total(S) == MapThenSumSet(LAMBDA o : amount[o], S)

CommitSize(n) == BaseSize + n * InputSize
RevealFee == RevealSize * rate
RevealInputValue == RevealFee + Dust + Threshold

Wallet == {<<0, n>> : n \in 1 .. WalletSize}

Init ==
  /\ kind \in {"complete", "methodId", "commitment", "chunked"}
  /\ chunks \in IF kind = "chunked" THEN 1 .. MaxChunks ELSE {0}
  /\ rate \in FeeRates
  /\ amount \in [Wallet -> Amounts]
  /\ prev \in {{}} \cup {{o} : o \in Wallet}
  /\ utxos = {o \in Wallet : amount[o] > Dust}
  /\ lastSize = CommitSize(1)
  /\ commit = NoCommit /\ reveal = 0 /\ pairs = << >> /\ pc = "size"

-----------------------------------------------------------------------------
\* The choices of choose_utxos: the required output, and if that is not enough the smallest
\* single one that is, or else as many of the largest as it takes.  Equal amounts may come
\* in any order.
ChooseUtxos(required, from, target) ==
  LET missing == target - Total(required)
      bigger  == {o \in from : amount[o] >= missing} IN
  IF missing <= 0 THEN {{}}
  ELSE IF bigger # {} THEN {{o} : o \in {b \in bigger : \A c \in bigger : amount[b] <= amount[c]}}
  ELSE {S \in SUBSET from :
          /\ Total(S) >= missing
          /\ \A o \in S : Total(S \ {o}) < missing \/ \E p \in S : amount[p] < amount[o]
          /\ \A o \in S, p \in from \ S : amount[o] >= amount[p]}

Target == RevealInputValue + lastSize * rate + Dust

\* build_commit_transaction never chooses the required output twice.
Spendable == utxos \ prev

\* Mutant: what is left over is what was there before.
MutLeftOver(chosen) == utxos

LeftOver(chosen) == Spendable \ chosen

\* The change takes the surplus only if that is worth it; otherwise it goes to the fee.
Change(sum) == IF sum - Target >= Dust THEN sum - Target + Dust ELSE Dust

SizeSettled(n) == CommitSize(n) = lastSize

\* One iteration of the loop.  When the size is the one the fee was computed for, the
\* commit is built and the reveal, which needs no choice, with it.
BuildCommit ==
  /\ pc = "size"
  /\ \E chosen \in ChooseUtxos(prev, Spendable, Target) :
       LET ins == prev \cup chosen
           size == Cardinality(prev) + Cardinality(chosen) IN
       IF SizeSettled(size)
       THEN /\ commit' = [ins |-> ins, out |-> RevealInputValue,
                          change |-> Change(Total(prev) + Total(chosen))]
            /\ reveal' = Dust + Threshold
            /\ pc' = "mine"
            /\ UNCHANGED lastSize
       ELSE /\ lastSize' = CommitSize(size)
            /\ UNCHANGED <<commit, reveal, pc>>
  /\ UNCHANGED <<kind, chunks, rate, amount, prev, utxos, pairs>>

NotEnoughUtxos ==
  /\ pc = "size"
  /\ ChooseUtxos(prev, Spendable, Target) = {}
  /\ pc' = "failed"
  /\ UNCHANGED <<kind, chunks, rate, amount, prev, utxos, lastSize, commit, reveal, pairs>>

-----------------------------------------------------------------------------
InSlack == commit.out >= RevealFee + Dust /\ reveal > Dust

Miss ==
  /\ pc = "mine" /\ InSlack
  /\ commit' = [commit EXCEPT !.out = @ - 1, !.change = @ + 1]
  /\ reveal' = reveal - 1
  /\ UNCHANGED <<kind, chunks, rate, amount, prev, utxos, lastSize, pairs, pc>>

\* The slack is used up: another nonce, and everything again.
NextNonce ==
  /\ pc = "mine" /\ ~InSlack
  /\ pc' = "size" /\ lastSize' = CommitSize(1)
  /\ commit' = NoCommit /\ reveal' = 0
  /\ UNCHANGED <<kind, chunks, rate, amount, prev, utxos, pairs>>

Pair == [commit |-> commit, reveal |-> reveal]

\* The hash has the prefix and this was the last pair.
Finish ==
  /\ pc = "mine" /\ InSlack
  /\ pairs' = Append(pairs, Pair)
  /\ pc' = "done"
  /\ commit' = NoCommit /\ reveal' = 0
  /\ UNCHANGED <<kind, chunks, rate, amount, prev, utxos, lastSize>>

CreateInscriptionType0 == kind = "complete" /\ Finish
CreateInscriptionType3 == kind = "methodId" /\ Finish
CreateInscriptionType4 == kind = "commitment" /\ Finish

NextPrev(k) == {<<k, "reveal">>}

\* The hash of a chunk has the prefix: the next pair stands on this one.
FinishChunk ==
  /\ kind = "chunked" /\ Len(pairs) < chunks
  /\ pc = "mine" /\ InSlack
  /\ LET k == Len(pairs) + 1 IN
     /\ prev' = NextPrev(k)
     /\ utxos' = LeftOver(commit.ins) \cup {<<k, "change">>}
     /\ amount' = [o \in DOMAIN amount \cup {<<k, "reveal">>, <<k, "change">>} |->
                     IF o = <<k, "reveal">> THEN reveal
                     ELSE IF o = <<k, "change">> THEN commit.change ELSE amount[o]]
  /\ pairs' = Append(pairs, Pair)
  /\ pc' = "size" /\ lastSize' = CommitSize(1)
  /\ commit' = NoCommit /\ reveal' = 0
  /\ UNCHANGED <<kind, chunks, rate>>

FinishAggregate == kind = "chunked" /\ Len(pairs) = chunks /\ Finish

Hit ==
  \/ CreateInscriptionType0 \/ CreateInscriptionType3 \/ CreateInscriptionType4
  \/ FinishChunk \/ FinishAggregate

Next == BuildCommit \/ NotEnoughUtxos \/ Miss \/ NextNonce \/ Hit

Spec == Init /\ [][Next]_vars

\* The builder runs on, and a prefix is found sooner or later.
FairSpec == Spec /\ WF_vars(Next) /\ SF_vars(Hit)

-----------------------------------------------------------------------------
(***************************************************************************)
(* What is done with the result.                                           *)
(***************************************************************************)
Sum(S, f) == MapThenSumSet(LAMBDA o : f[o], S)

\* The amounts validate_txs_fee_rate knows at pair k, and its verdict on the pair.
KnownAt(k) == Wallet \cup {<<j, v>> : j \in 1 .. (k - 1), v \in {"reveal", "change"}}
ValidFeeRate(k) ==
  LET c == pairs[k].commit
      known == c.ins \cap KnownAt(k) IN
  /\ Sum(known, amount) - c.out - c.change >= CommitSize(Cardinality(c.ins))
  /\ c.out - pairs[k].reveal >= RevealSize

\* The inputs sign_chunked_transaction has to describe to the wallet, because their
\* transactions are not known to the node: those of the request itself.
InputsToDescribe(k) == {o \in pairs[k].commit.ins : o[1] # 0}
Describable(k) == \A o \in InputsToDescribe(k) : o[1] \in 1 .. Len(pairs)

-----------------------------------------------------------------------------
(***************************************************************************)
(* Properties.                                                             *)
(***************************************************************************)
\* The types of the builder's state; no amount is ever negative.
TypeOK ==
  /\ pc \in {"size", "mine", "done", "failed"}
  /\ Range(amount) \subseteq Nat
  /\ utxos \cup prev \subseteq DOMAIN amount
  /\ commit.out \in Nat /\ commit.change \in Nat /\ reveal \in Nat
  /\ reveal # 0 => pc = "mine" /\ reveal >= Dust
  /\ Len(pairs) <= chunks + 1

\* No output is spent twice in a request, although the leftovers of one commit are offered
\* to the next (build_commit_transaction line 91, create_inscription_type_1 line 456).
NoOutputSpentTwice ==
  \A j, k \in DOMAIN pairs : j # k => pairs[j].commit.ins \cap pairs[k].commit.ins = {}

\* Every commit of a chunked request spends the reveal before it, so the aggregate cannot
\* be mined before the chunks it lists (line 442).
PairsInOrder ==
  \A k \in DOMAIN pairs : k > 1 => <<k - 1, "reveal">> \in pairs[k].commit.ins

\* Each transaction pays for its size at the rate asked for, and no output is dust.
FeesArePaid ==
  \A k \in DOMAIN pairs :
    LET p == pairs[k]
        fee == Sum(p.commit.ins, amount) - p.commit.out - p.commit.change IN
    /\ fee >= rate * CommitSize(Cardinality(p.commit.ins))
    /\ p.commit.out - p.reveal = RevealFee
    /\ p.commit.change >= Dust /\ p.reveal > Dust

\* What the builder makes passes the fee check before it is queued, and the signer can
\* describe every input (fee.rs line 263, tx_signer.rs line 189).
BuiltIsAccepted ==
  pc = "done" => \A k \in DOMAIN pairs : ValidFeeRate(k) /\ Describable(k)

\* "not enough UTXOs" is reported only if no choice of outputs would pay for itself.
FailsOnlyWhenPoor ==
  pc = "failed" =>
    \A S \in SUBSET Spendable :
      Total(prev) + Total(S) < RevealInputValue + Dust + rate * CommitSize(Cardinality(prev \cup S))

\* Building ends, with transactions or with an error: neither the search for the size nor
\* the one for the prefix goes on for ever.
BuildingEnds == <>(pc \in {"done", "failed"})
=============================================================================
