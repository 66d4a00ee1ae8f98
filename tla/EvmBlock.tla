------------------------------ MODULE EvmBlock ------------------------------
(***************************************************************************)
(* The EVM module: what one transaction does to the accounts, what it pays *)
(* (the fee of its gas, the L1 fee of the state diff it causes), and how   *)
(* the hooks of a block turn the pending transactions into a block.        *)
(*                                                                         *)
(* A sequencer first runs every candidate on state it discards, then runs  *)
(* the ones it kept again as one call message.  The module's memory (the   *)
(* pending transactions, the block environment, the flag that ends the     *)
(* system transactions) outlives the discarded state.  A node runs the     *)
(* call messages of a received block, and discards the state when one      *)
(* fails.                                                                  *)
(*                                                                         *)
(* Addresses are numbers, in the order of the bytes.  The interpreter is   *)
(* external: what a transaction does is part of the transaction.           *)
(***************************************************************************)
EXTENDS Integers, Sequences, FiniteSets, FiniteSetsExt, SequencesExt, Tables

CONSTANTS
  Sequencing,     \* TRUE: the blocks are the sequencer's own; FALSE: received
  Pool,           \* the user transactions there are
  SystemTxs,      \* the system transactions there are, for every nonce
  Genesis,        \* the accounts at genesis
  BlockGasLimit,  \* EvmChainConfig::block_gas_limit
  MinGas,         \* MIN_TRANSACTION_GAS
  MinBaseFee,     \* min_base_fee_per_gas
  Elasticity,     \* BaseFeeParams::elasticity_multiplier
  ChangeDenominator, \* BaseFeeParams::max_change_denominator
  L1FeeRates,     \* the L1 fee rates a block may carry
  History,        \* BLOCK_HASH_HISTORY
  MaxBalance,     \* the largest balance, U256::MAX
  MaxCall,        \* bound: transactions of one received call message
  MaxCalls,       \* bound: call messages of one received block
  MaxBlocks       \* bound: blocks

EvmConstants ==
  /\ Sequencing \in BOOLEAN
  /\ {BlockGasLimit, Elasticity, ChangeDenominator, History} \subseteq Nat \ {0}

\* The reserved addresses.
System == 0
BaseFeeVault == 1
L1FeeVault == 2
Coinbase == 3

NoCode == "none"

VARIABLES
  db,      \* the working set: accounts, storage, head, and what the RPC serves
  base,    \* the state the block started from
  mem,     \* the memory of the module: env, pending, sysEnd
  phase,   \* where the block is
  plan,    \* the transactions the dry run kept
  tried,   \* the candidates the dry run has seen
  dry,     \* the pending transactions at the end of the dry run
  calls    \* call messages run so far in the block

vars == <<db, base, mem, phase, plan, tried, dry, calls>>

-----------------------------------------------------------------------------
(* The accounts, as one transaction sees them: rows, with what it touched, *)
(* destroyed, stored and journaled.                                        *)

\* EvmDb::basic of an absent account.
NoAccount == [bal |-> 0, nonce |-> 0, code |-> NoCode]

Account(rows, a) == IF a \in DOMAIN rows THEN rows[a] ELSE NoAccount

\* change_balance with positive = true, which saturates.
Credit(rows, a, n) ==
  LET old == Account(rows, a)
  IN Put(rows, a, [old EXCEPT !.bal = Min({old.bal + n, MaxBalance})])

\* change_balance with positive = false, where the balance is enough.
Debit(rows, a, n) == Put(rows, a, [Account(rows, a) EXCEPT !.bal = @ - n])

Move(rows, a, b, n) == Credit(Debit(rows, a, n), b, n)

BumpNonce(rows, a) == Put(rows, a, [Account(rows, a) EXCEPT !.nonce = @ + 1])

\* The handler's checks of the sender, by error.  A system transaction is
\* only checked for its nonce.
ValidSender(rows, env, tx) ==
  /\ tx.nonce = Account(rows, tx.from).nonce
  /\ tx.from = System \/
       /\ tx.price >= env.basefee
       /\ tx.gasLimit <= env.gasLimit
       /\ Account(rows, tx.from).bal >= tx.gasLimit * tx.price + tx.value

\* The price of the gas a sender pays up front and is reimbursed.
GasPrice(tx) == IF tx.from = System THEN 0 ELSE tx.price

\* What the interpreter does after the sender has paid: the rows, the slots,
\* the destroyed accounts and the journal it leaves, and what it burns.
Unchanged(rows) ==
  [rows |-> rows, slots |-> {}, gone |-> {}, journal |-> {}, burnt |-> 0, ok |-> TRUE]

Transfer(rows, a, b, n) ==
  [Unchanged(IF n = 0 THEN rows ELSE Move(rows, a, b, n)) EXCEPT
     !.journal = IF n = 0 THEN {} ELSE {[t |-> "transfer", from |-> a, to |-> b]}]

\* The creation of a contract at tx.to, refused where there is one already.
Created(sent, tx) ==
  [sent EXCEPT !.rows = Put(sent.rows, tx.to, [Account(sent.rows, tx.to) EXCEPT !.nonce = 1, !.code = "code"]),
               !.journal = @ \cup {[t |-> "created", a |-> tx.to], [t |-> "code", a |-> tx.to]}]

Create(rows, tx) ==
  IF Account(rows, tx.to) = [NoAccount EXCEPT !.bal = Account(rows, tx.to).bal]
  THEN Created(Transfer(rows, tx.from, tx.to, tx.value), tx)
  ELSE [Unchanged(rows) EXCEPT !.ok = FALSE]

\* A contract that destroys itself in the transaction that creates it, its
\* balance had going to tx.heir; left to itself the balance is burnt.
Destroyed(made, tx, had) ==
  [made EXCEPT !.rows = Put(Credit(made.rows, tx.heir, had), tx.to, NoAccount),
               !.gone = {tx.to}, !.burnt = IF tx.heir = tx.to THEN had ELSE 0,
               !.journal = @ \cup {[t |-> "destroyed", a |-> tx.to, heir |-> tx.heir, was |-> FALSE, had |-> had]}]

\* Its constructor ends with the destruction.
CreateAndDestroy(made, tx) ==
  IF made.ok THEN Destroyed(made, tx, Account(made.rows, tx.to).bal) ELSE made

\* The effect of a transaction whose authorization list names tx.to; the
\* authorization counts when its nonce is the one of the account.
Authorize(rows, tx) ==
  IF tx.authNonce # Account(rows, tx.to).nonce THEN Unchanged(rows)
  ELSE Unchanged(Put(rows, tx.to, [Account(rows, tx.to) EXCEPT !.nonce = @ + 1, !.code = tx.code]))

Interpret(rows, tx) ==
  CASE tx.kind = "transfer" -> Transfer(rows, tx.from, tx.to, tx.value)
    [] tx.kind = "store"    -> [Unchanged(rows) EXCEPT !.slots = {<<tx.to, tx.key>>},
                                 !.journal = {[t |-> "storage", a |-> tx.to, k |-> tx.key]}]
    [] tx.kind = "create"   -> Create(rows, tx)
    [] tx.kind = "destroy"  -> CreateAndDestroy(Create(rows, tx), tx)
    [] tx.kind = "auth"     -> Authorize(rows, tx)
    [] tx.kind = "deposit"  -> Transfer(rows, tx.bridge, tx.to, tx.value)
    [] OTHER                -> [Unchanged(rows) EXCEPT !.ok = FALSE]

-----------------------------------------------------------------------------
(* The L1 fee: the size of the state diff, read off the journal.           *)

\* The size of the row and of the key of an account, of an account index and
\* of a storage slot, and the percentages the sizes are discounted to.
EoaSize == 41
ContractSize == 73
AccountKeySize == 12
IndexSize == 32
SlotSize == 68
AccountPercent == 32
StoragePercent == 66
BrotliPercent == 48
FeeOverhead == 2

\* The authority of an authorization whose code is the one delegated to; a
\* delegation to the zero address leaves no code.
AuthCharged(tx, out) ==
  IF tx.kind = "auth" /\ Account(out.rows, tx.to).code = tx.code THEN {tx.to} ELSE {}

\* The accounts whose row is charged for: the caller, the authorities, and
\* what the journal says of the others.
Charged(tx, out) ==
  {tx.from} \cup AuthCharged(tx, out)
  \cup {e.a : e \in {f \in out.journal : f.t \in {"created", "code"}}}
  \cup UNION {{e.from, e.to} : e \in {f \in out.journal : f.t = "transfer"}}
  \cup {e.heir : e \in {f \in out.journal : f.t = "destroyed" /\ ~f.was /\ f.a # f.heir /\ f.had # 0}}

ChargedSlots(out) == {<<e.a, e.k>> : e \in {f \in out.journal : f.t = "storage"}}

\* calc_diff_size
DiffSize(rows, out, accounts, slots) ==
  LET Size(a) == AccountKeySize + IF Account(out.rows, a).code = NoCode THEN EoaSize ELSE ContractSize
  IN (MapThenSumSet(Size, accounts) * AccountPercent) \div 100
     + (SlotSize * Cardinality(slots) * StoragePercent) \div 100
     + IndexSize * Cardinality((accounts \cup {s[1] : s \in slots}) \ DOMAIN rows)

\* The size the receipt carries and the L1 fee is taken of.
L1DiffSize(rows, tx, out) ==
  (DiffSize(rows, out, Charged(tx, out), ChargedSlots(out)) * BrotliPercent) \div 100 + FeeOverhead
-----------------------------------------------------------------------------
(* One transaction through the handler.                                    *)

Err(e) == [err |-> e, rows |-> EmptyTable, slots |-> {}, gone |-> {}, ok |-> FALSE, gas |-> 0,
           burnt |-> 0, diff |-> 0, charged |-> {}]

\* reward_beneficiary: the base fee has a vault, the tip goes to the coinbase.
Rewarded(rows, env, tx) ==
  IF tx.from = System THEN rows
  ELSE Credit(Credit(rows, BaseFeeVault, env.basefee * tx.gas),
              Coinbase, (tx.price - env.basefee) * tx.gas)

\* Mutant: the L1 fee is credited to the vault and not taken from the sender.
MutTakeL1Fee(rows, tx, fee) == IF tx.from = System THEN rows ELSE Credit(rows, L1FeeVault, fee)

\* The L1 fee goes from the sender to its vault.
TakeL1Fee(rows, tx, fee) == IF tx.from = System THEN rows ELSE Move(rows, tx.from, L1FeeVault, fee)

\* The end of CitreaHandler::output: the sender, who has been reimbursed and
\* has rewarded, pays the L1 fee out of what is left.
Settle(tx, out, rows, size, fee) ==
  IF tx.from # System /\ Account(rows, tx.from).bal < fee THEN Err("l1fee")
  ELSE [err |-> "none", rows |-> TakeL1Fee(rows, tx, fee), slots |-> out.slots,
        gone |-> out.gone, burnt |-> out.burnt, ok |-> out.ok, gas |-> tx.gas, diff |-> size,
        charged |-> Charged(tx, out)]

Output(rows, env, tx, rate, out) ==
  LET back == Credit(out.rows, tx.from, (tx.gasLimit - tx.gas) * GasPrice(tx))
      size == L1DiffSize(rows, tx, out)
  IN Settle(tx, out, Rewarded(back, env, tx), size, rate * size)

\* CitreaEvm::transact: validate, deduct, interpret, reimburse, reward, output.
Transact(rows, env, tx, rate) ==
  IF ~ValidSender(rows, env, tx) THEN Err("execution")
  ELSE LET paid == Debit(BumpNonce(rows, tx.from), tx.from, tx.gasLimit * GasPrice(tx))
       IN Output(rows, env, tx, rate, Interpret(paid, tx))

\* The rows commit changes: new or changed ones, unless destroyed.  It also
\* sets some touched accounts and slots to the value they have.
Written(rows, res) ==
  {a \in DOMAIN res.rows : a \notin res.gone /\ (a \notin DOMAIN rows \/ rows[a] # res.rows[a])}

\* account_set of accounts without an index, in the order of their addresses.
AddIndexes(idx, new) ==
  [a \in DOMAIN idx \cup new |->
     IF a \in new THEN Cardinality(DOMAIN idx) + Cardinality({b \in new : b < a}) ELSE idx[a]]

\* EvmDb::commit.  It skips a destroyed account, whose row stays as it was
\* although its balance has been passed on; adrift, as history, is what that
\* adds to the balances, less what was burnt.
CommitTx(d, res, new, tx) ==
  [d EXCEPT
        !.adrift = @ + MapThenSumSet(LAMBDA a : Account(d.rows, a).bal, res.gone) - res.burnt,
        !.rows = [a \in DOMAIN d.rows \cup new |-> IF a \in new THEN res.rows[a] ELSE d.rows[a]],
        !.idx  = AddIndexes(@, new \ DOMAIN d.rows),
        !.slots = [s \in DOMAIN @ \cup res.slots |-> IF s \in res.slots THEN tx.id ELSE @[s]]]

-----------------------------------------------------------------------------
(* The transactions of a call message.                                     *)

\* The gas the block has used, with this transaction, is within the limit.
WithinLimit(start, cum, gas, limit) == cum + gas <= limit

\* The flag execute_call hands to the executor.
SysEndAt(m) == m.sysEnd

\* One turn of the loop of execute_multiple_tx; the first error ends it.
Commits(s, tx, sysEnd, res, new) ==
  [s EXCEPT !.d = CommitTx(s.d, res, new, tx), !.cum = @ + res.gas, !.sysEnd = sysEnd,
            !.results = Append(@, [ok |-> res.ok, gas |-> res.gas, diff |-> res.diff,
                                   charged |-> res.charged, written |-> new])]

AfterTransact(env, start, s, tx, sysEnd, res) ==
  CASE res.err # "none" -> [s EXCEPT !.err = res.err]
    [] res.err = "none" /\ ~sysEnd /\ ~res.ok -> [s EXCEPT !.err = "system"]
    [] res.err = "none" /\ (sysEnd \/ res.ok) ->
         IF WithinLimit(start, s.cum, res.gas, env.gasLimit)
         THEN Commits(s, tx, sysEnd, res, Written(s.d.rows, res))
         ELSE [s EXCEPT !.err = "gas"]

ExecuteTx(env, rate, start, s, tx) ==
  CASE s.err # "none" -> s
    [] s.err = "none" /\ tx.from = System /\ s.sysEnd -> [s EXCEPT !.err = "misplaced"]
    [] s.err = "none" /\ ~(tx.from = System /\ s.sysEnd) ->
         IF tx.kind = "blob" THEN [s EXCEPT !.err = "type"]
         ELSE AfterTransact(env, start, s, tx, s.sysEnd \/ tx.from # System, Transact(s.d.rows, env, tx, rate))

\* The gas used and the number of logs before the transaction at the end.
CumulativeGas(pending) == IF pending = << >> THEN 0 ELSE Last(pending).cum
NextLog(pending) == IF pending = << >> THEN 0 ELSE Last(pending).logStart + Last(pending).tx.logs

\* The pending transaction of a result, after the ones already pending.
AddPending(pending, tx, r) ==
  Append(pending, [tx |-> tx, ok |-> r.ok, gas |-> r.gas, cum |-> CumulativeGas(pending) + r.gas,
                   logStart |-> NextLog(pending), diff |-> r.diff,
                   charged |-> r.charged, written |-> r.written])

\* execute_call: nothing of the memory changes when a transaction fails.
AfterExecution(d, m, txs, end) ==
  LET Add(p, i) == AddPending(p, txs[i], end.results[i])
  IN IF end.err # "none" THEN [err |-> end.err, cum |-> end.cum, d |-> d, m |-> m]
     ELSE [err |-> "none", cum |-> end.cum, d |-> end.d,
           m |-> [m EXCEPT !.sysEnd = end.sysEnd,
                           !.pending = FoldLeft(Add, m.pending, [i \in 1..Len(txs) |-> i])]]

ExecuteCall(d, m, txs, rate) ==
  LET start == CumulativeGas(m.pending)
      Turn(s, tx) == ExecuteTx(m.env, rate, start, s, tx)
      first == [d |-> d, cum |-> start, sysEnd |-> SysEndAt(m), err |-> "none", results |-> << >>]
  IN AfterExecution(d, m, txs, FoldLeft(Turn, first, txs))

-----------------------------------------------------------------------------
(* The hooks of a block.                                                   *)

\* The state root, as the authenticated accounts and slots; a header's hash,
\* as what tells the blocks of one chain apart.
StateRoot(d) == <<d.rows, d.slots>>
Hash(b) == [number |-> b.number, root |-> b.root, gasUsed |-> b.gasUsed, basefee |-> b.basefee, txs |-> b.txs]

\* calc_next_block_base_fee
NextBaseFee(used, limit, fee) ==
  LET target == limit \div Elasticity
  IN CASE used = target -> fee
       [] used > target -> fee + Max({1, ((fee * (used - target)) \div target) \div ChangeDenominator})
       [] used < target -> fee - ((fee * (target - used)) \div target) \div ChangeDenominator

\* calculate_next_block_base_fee
BaseFee(parent) == Max({MinBaseFee, NextBaseFee(parent.gasUsed, parent.gasLimit, parent.basefee)})

\* The parent, once its state root is known.
Parent(d, root) == [d.head EXCEPT !.root = root]

\* The state after begin_l2_block_hook: the parent's hash enters the ring.
BeginState(d, root) ==
  [d EXCEPT !.head = Parent(d, root), !.ring = Put(@, d.head.number % History, Hash(Parent(d, root)))]

\* The memory after begin_l2_block_hook.
BeginMemory(d, m) ==
  [pending |-> << >>, sysEnd |-> FALSE,
   env |-> [number |-> d.head.number + 1, basefee |-> BaseFee(d.head), gasLimit |-> BlockGasLimit]]

\* end_l2_block_hook, on the state: the new head, and what the RPC serves.
NewHead(d, m, r) ==
  [number |-> m.env.number, parent |-> d.ring[d.head.number % History], root |-> <<>>,
   gasUsed |-> CumulativeGas(m.pending), gasLimit |-> m.env.gasLimit, basefee |-> m.env.basefee, rate |-> r,
   txs |-> [i \in DOMAIN m.pending |-> m.pending[i].tx.id],
   first |-> d.head.end, end |-> d.head.end + Len(m.pending)]

EndState(d, m, r) ==
  LET head == NewHead(d, m, r)
      at   == [i \in {m.pending[j].tx.id : j \in DOMAIN m.pending} |->
                 d.head.end + Max({j \in DOMAIN m.pending : m.pending[j].tx.id = i}) - 1]
  IN [d EXCEPT !.head = head, !.pendingHead = <<head>>, !.receipts = @ \o m.pending,
               !.hashes = [i \in DOMAIN @ \cup DOMAIN at |-> IF i \in DOMAIN at THEN at[i] ELSE @[i]]]

\* finalize_hook: the sealed block, with the root just computed.
FinalState(d) ==
  LET sealed == [d.pendingHead[1] EXCEPT !.root = StateRoot(d)]
  IN [d EXCEPT !.blocks = Append(@, sealed), !.pendingHead = << >>]

-----------------------------------------------------------------------------
(* The steps.                                                              *)

GenesisBlock ==
  [number |-> 0, parent |-> << >>, root |-> << >>, gasUsed |-> 0, gasLimit |-> BlockGasLimit,
   basefee |-> MinBaseFee, rate |-> 0, txs |-> << >>, first |-> 0, end |-> 0]

GenesisState ==
  LET d == [rows |-> Genesis, idx |-> AddIndexes(EmptyTable, DOMAIN Genesis), slots |-> EmptyTable,
            head |-> GenesisBlock, ring |-> EmptyTable, pendingHead |-> <<GenesisBlock>>,
            blocks |-> << >>, receipts |-> << >>, hashes |-> EmptyTable, adrift |-> 0]
  IN FinalState(d)

NoEnv == [number |-> 0, basefee |-> 0, gasLimit |-> 0]

Init ==
  /\ db = GenesisState
  /\ base = [d |-> GenesisState, rate |-> 0]
  /\ mem = [pending |-> << >>, sysEnd |-> FALSE, env |-> NoEnv]
  /\ phase = "idle"
  /\ plan = << >> /\ tried = {} /\ dry = << >> /\ calls = 0

Rate == base.rate

\* The dry run opens the block on a working set that will be discarded.
DryBegin ==
  /\ Sequencing /\ phase = "idle" /\ db.head.number < MaxBlocks
  /\ \E r \in L1FeeRates : base' = [d |-> db, rate |-> r]
  /\ db' = BeginState(db, StateRoot(db))
  /\ mem' = BeginMemory(db, mem)
  /\ phase' = "system"
  /\ plan' = << >> /\ tried' = {} /\ dry' = << >> /\ calls' = 0

\* process_sys_txs: a system event of the block, or none; a deposit that
\* fails is left out.
DrySystem ==
  /\ phase = "system"
  /\ phase' = "dry"
  /\ \/ UNCHANGED <<db, mem, plan>>
     \/ \E tx \in {t \in SystemTxs : t.nonce = Account(db.rows, System).nonce} :
          \E r \in {ExecuteCall(db, mem, <<tx>>, Rate)} :
             /\ db' = r.d /\ mem' = r.m
             /\ plan' = IF r.err = "none" THEN Append(plan, tx) ELSE plan
  /\ UNCHANGED <<base, tried, dry, calls>>

\* One candidate of the pool.  When it does not fit and the gas that is left
\* is less than any transaction needs, the dry run stops.
DryTx ==
  /\ phase = "dry"
  /\ \E tx \in Pool \ tried :
       /\ tried' = tried \cup {tx}
       /\ \E r \in {ExecuteCall(db, mem, <<tx>>, Rate)} :
            IF r.err = "gas" /\ BlockGasLimit - r.cum < MinGas
            THEN /\ phase' = "stop"
                 /\ UNCHANGED <<db, mem, plan>>
            ELSE /\ db' = r.d /\ mem' = r.m
                 /\ plan' = IF r.err = "none" THEN Append(plan, tx) ELSE plan
                 /\ UNCHANGED phase
  /\ UNCHANGED <<base, dry, calls>>

\* The dry run ends when it stopped or has no more candidates; the pool may
\* offer fewer than there are.  The state is dropped, the memory is not.
DryStop ==
  /\ phase \in {"dry", "stop"}
  /\ phase' = "ready"
  /\ db' = base.d
  /\ dry' = mem.pending
  /\ UNCHANGED <<base, mem, plan, tried, calls>>

\* begin_l2_block, of the sequencer's block or of a received one.
BeginBlock ==
  /\ IF Sequencing THEN phase = "ready" /\ UNCHANGED base
     ELSE /\ phase = "idle" /\ db.head.number < MaxBlocks
          /\ \E r \in L1FeeRates : base' = [d |-> db, rate |-> r]
  /\ db' = BeginState(db, StateRoot(db))
  /\ mem' = BeginMemory(db, mem)
  /\ phase' = "open"
  /\ calls' = 0
  /\ UNCHANGED <<plan, tried, dry>>

\* The call messages a block may hold: the plan, or any of the received ones.
CallMessages ==
  IF Sequencing THEN IF plan = << >> \/ calls > 0 THEN {} ELSE {plan}
  ELSE IF calls = MaxCalls THEN {}
       ELSE {s \in SeqOf(Pool \cup SystemTxs, MaxCall) : s # << >>}

\* apply_l2_block_txs: a call message that fails makes the block invalid, and
\* the working set is dropped.
Call ==
  /\ phase = "open"
  /\ \E txs \in CallMessages : \E r \in {ExecuteCall(db, mem, txs, Rate)} :
       IF r.err = "none"
       THEN db' = r.d /\ mem' = r.m /\ calls' = calls + 1 /\ UNCHANGED phase
       ELSE /\ db' = base.d
            /\ phase' = IF Sequencing THEN "failed" ELSE "idle"
            /\ UNCHANGED <<mem, calls>>
  /\ UNCHANGED <<base, plan, tried, dry>>

\* end_l2_block_hook
EndBlock ==
  /\ phase = "open"
  /\ Sequencing => (calls > 0 \/ plan = << >>)
  /\ db' = EndState(db, mem, Rate)
  /\ mem' = [mem EXCEPT !.pending = << >>, !.sysEnd = FALSE]
  /\ phase' = "ended"
  /\ UNCHANGED <<base, plan, tried, dry, calls>>

\* finalize_hook
Finalize ==
  /\ phase = "ended"
  /\ db' = FinalState(db)
  /\ phase' = "idle"
  /\ UNCHANGED <<base, mem, plan, tried, dry, calls>>

Next == DryBegin \/ DrySystem \/ DryTx \/ DryStop \/ BeginBlock \/ Call \/ EndBlock \/ Finalize

Spec == Init /\ [][Next]_vars

-----------------------------------------------------------------------------
(* Properties.                                                             *)

Supply(rows) == LET Bal(a) == rows[a].bal IN MapThenSumSet(Bal, DOMAIN rows)

\* No transaction makes or loses money: what the sender pays up front, gets
\* back, and pays for L1 is what the vaults, the coinbase and the receiver
\* get, over dry runs, failed calls and dropped blocks (CitreaHandler's
\* deduct_caller, reimburse_caller, reward_beneficiary and output, and
\* EvmDb::commit).  A contract that destroys itself in the transaction that
\* creates it is the exception: what it leaves to itself is burnt, and what
\* its address held before stays in its row and goes to its heir as well.
FundsConserved == Supply(db.rows) = Supply(Genesis) + db.adrift

\* What the dry run kept goes through as one call message, with the receipts
\* of the dry run: gas, logs, diff sizes and outcomes (dry_run_transactions
\* against apply_l2_block_txs, over the same module memory).
DryRunFaithful ==
  /\ phase # "failed"
  /\ Sequencing /\ phase = "open" /\ calls > 0 => mem.pending = dry

\* The receipts of every block add up: within the gas limit, the gas and the
\* logs of a receipt start where the one before it ends, over the call
\* messages of the block (execute_call, end_l2_block_hook).
ReceiptsAddUp ==
  \A n \in DOMAIN db.blocks :
    LET b  == db.blocks[n]
        rs == SubSeq(db.receipts, b.first + 1, b.end)
    IN /\ b.gasUsed <= b.gasLimit
       /\ b.txs = [i \in DOMAIN rs |-> rs[i].tx.id]
       /\ b.gasUsed = FoldLeft(LAMBDA x, r : x + r.gas, 0, rs)
       /\ n > 1 => b.first = db.blocks[n - 1].end
       /\ \A i \in DOMAIN rs :
            rs[i].logStart = FoldLeft(LAMBDA x, r : x + r.tx.logs, 0, SubSeq(rs, 1, i - 1))

\* No block has a system transaction after a user's, whatever call messages
\* it is made of (should_be_end_of_sys_txs).
SystemFirst ==
  \A i, j \in DOMAIN mem.pending :
    i < j /\ mem.pending[j].tx.from = System => mem.pending[i].tx.from = System

\* The hash sealed for the RPC after the root was computed is the one the
\* next block's header names and the BLOCKHASH opcode reads, though the two
\* set the root in different places (finalize_hook, begin_l2_block_hook).
HashesAgree ==
  /\ \A n \in DOMAIN db.blocks : n > 1 => db.blocks[n].parent = Hash(db.blocks[n - 1])
  /\ phase = "open" =>
       \A k \in 1..Min({History, Len(db.blocks)}) :
         LET n == Len(db.blocks) - k + 1
         IN db.ring[(n - 1) % History] = Hash(db.blocks[n])

\* Every account row that a user's transaction writes, the three that fees
\* are paid to apart, is in the diff it pays the L1 fee of (calc_diff_size
\* against EvmDb::commit).
DiffCoversWrites ==
  \A i \in DOMAIN mem.pending :
    LET p == mem.pending[i]
    IN p.tx.from # System =>
         p.written \ {BaseFeeVault, L1FeeVault, Coinbase} \subseteq p.charged
=============================================================================
