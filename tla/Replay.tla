------------------------------- MODULE Replay -------------------------------
(***************************************************************************)
(* One L2 block executed three times: by the sequencer, by the batch       *)
(* prover that records a witness of what was read, and by the guest that   *)
(* has nothing but that witness.                                           *)
(*                                                                         *)
(* The sequencer tries transactions on a working set it throws away,       *)
(* keeping or reverting each, and then executes the kept ones on a fresh   *)
(* one.  The batch prover executes the blocks of several commitments       *)
(* again, handing the cache of one block to the next, so that a key is     *)
(* read from the storage, and enters the witness, once; when the cache     *)
(* grows too large half of it is dropped and the guest is told after       *)
(* which blocks.  The guest executes the blocks with the same cache and    *)
(* takes what is not in it from the witness, checking it against the state *)
(* roots.                                                                  *)
(*                                                                         *)
(* A transaction is a sequence of accesses to the storage.  A state root   *)
(* is the state itself: two states never have the same root.  The size of  *)
(* the cache is left out: any block may be the one after which it is       *)
(* pruned.                                                                 *)
(***************************************************************************)
EXTENDS CacheLog, Sequences, SequencesExt

CONSTANTS
  HeadKey, NextKey,  \* the EVM's head block; the next L1 height of the light client contract
  HashSlots,         \* the keys of its L1 hashes, by height + 1
  Slots,             \* the other keys of the state
  CodeKey,           \* the key of the offchain state
  Vals,              \* the values the transactions write
  MaxBlocks,         \* bound: number of L2 blocks
  OpBound,           \* bound: accesses tried in all blocks
  CorruptBound       \* bound: hints of the witness that are altered

ReplayAssumption ==
  /\ {HeadKey, NextKey, CodeKey} \cup Slots \cup ToSet(HashSlots) \cup Vals \subseteq Nat
  /\ {MaxBlocks, OpBound, CorruptBound} \subseteq Nat
  /\ None \notin Nat

VARIABLES
  phase,       \* "sequence", "witness", "prove" or "done"
  versions,    \* the storage after every block: state, offchain and accessory values
  blocks,      \* the blocks of the chain
  \* ---- the block in the making
  discard,     \* the working set to discard
  tx,          \* the accesses of the transaction that is tried
  accepted,    \* those of the transactions that were kept
  \* ---- the batch prover
  host,
  \* ---- the guest
  guest,
  count        \* accesses and corruptions so far, for the bounds

making == <<discard, tx, accepted>>
vars == <<phase, versions, blocks, making, host, guest, count>>

MaxL1 == Len(HashSlots) - 1
L1Hash(n) == 10 + n
HashSlot(n) == HashSlots[n + 1]
SatSub(n) == IF n = 0 THEN 0 ELSE n - 1
OrZero(v) == IF v = None THEN 0 ELSE v

\* The value of a key in a storage or a table of writes.
At(t, k) == IF k \in DOMAIN t THEN t[k] ELSE None

\* The storage after the writes; a key written None is deleted.
ApplyWrites(t, w) ==
  LET new(k) == IF k \in DOMAIN w THEN w[k] ELSE t[k]
  IN [k \in {x \in DOMAIN t \cup DOMAIN w : new(x) # None} |-> new(k)]

-----------------------------------------------------------------------------
(* The deltas of a working set.                                            *)

\* StateDelta and OffchainDelta (whose ordered reads nobody uses).
Delta(wit, log) ==
  [log |-> log, writes |-> EmptyTable, reads |-> <<>>, wit |-> wit, fail |-> FALSE]

\* Storage::get and get_offchain: ProverStorage adds the value to the witness,
\* ZkStorage takes it from there and panics when there is no such hint.
Fetch(zk, d, t, k) ==
  CASE ~zk -> [d EXCEPT !.wit = Append(@, [t |-> "value", k |-> k, v |-> At(t, k)])]
    [] zk /\ d.wit # <<>> /\ Head(d.wit).t = "value" -> [d EXCEPT !.wit = Tail(@)]
    [] OTHER -> [d EXCEPT !.fail = TRUE]
Fetched(zk, d, t, k) ==
  CASE ~zk -> At(t, k)
    [] zk /\ d.wit # <<>> /\ Head(d.wit).t = "value" -> Head(d.wit).v
    [] OTHER -> None

\* StateDelta::get, what it does to the delta: a key that is neither written
\* nor cached is read from the storage.
Get(zk, d, t, k) ==
  IF k \in DOMAIN d.writes \/ Cached(d.log, k) THEN d
  ELSE LET v == Fetched(zk, d, t, k)
       IN [Fetch(zk, d, t, k) EXCEPT
             !.log = AddRead(@, k, v),
             !.reads = Append(@, <<k, v>>)]

\* StateDelta::get, the value it returns.
Got(zk, d, t, k) ==
  CASE k \in DOMAIN d.writes -> d.writes[k]
    [] k \notin DOMAIN d.writes /\ Cached(d.log, k) -> GetValue(d.log, k)
    [] OTHER -> Fetched(zk, d, t, k)

\* StateDelta::set and delete
Set(d, k, v) == [d EXCEPT !.writes = Put(@, k, v)]

\* StateDelta::commit
Commit(d) ==
  [d EXCEPT !.log = [k \in DOMAIN d.log \cup DOMAIN d.writes |->
                       IF k \in DOMAIN d.writes THEN AddWrite(d.log, k, d.writes[k])[k]
                       ELSE d.log[k]],
            !.writes = EmptyTable]

\* StateDelta::revert: only the writes go; what was read stays in the cache.
Revert(d) == [d EXCEPT !.writes = EmptyTable]

\* AccessoryDelta: get, commit and revert.
Accessory == [committed |-> EmptyTable, writes |-> EmptyTable]
AccGet(a, t, k) ==
  CASE k \in DOMAIN a.writes -> a.writes[k]
    [] k \notin DOMAIN a.writes /\ k \in DOMAIN a.committed -> a.committed[k]
    [] OTHER -> At(t, k)
AccSet(a, k, v) == [a EXCEPT !.writes = Put(@, k, v)]
AccCommit(a) ==
  [committed |-> [k \in DOMAIN a.committed \cup DOMAIN a.writes |->
                    IF k \in DOMAIN a.writes THEN a.writes[k] ELSE a.committed[k]],
   writes |-> EmptyTable]

-----------------------------------------------------------------------------
(* Working sets and the execution of a block.                              *)

\* WorkingSet::with_witness_and_log; seen is what the execution has read.
\* shps: the proofs the guest's provider has left, or the hashes the prover's
\* provider was asked for; last: take_last_queried_hash.
WorkingSet(swit, owit, slog, olog, shps) ==
  [s |-> Delta(swit, slog), o |-> Delta(owit, olog), a |-> Accessory,
   seen |-> <<>>, shps |-> shps, last |-> None, fail |-> FALSE]
NewWorkingSet == WorkingSet(<<>>, <<>>, EmptyTable, EmptyTable, <<>>)

\* WorkingSet::checkpoint and WorkingSet::revert, back in a working set.
Checkpoint(ws) == [ws EXCEPT !.s = Commit(@), !.o = Commit(@), !.a = AccCommit(@)]
RevertAll(ws) == [ws EXCEPT !.s = Revert(@), !.o = Revert(@), !.a.writes = EmptyTable]

\* A read of the state and one of the offchain state.
ReadState(zk, ws, pre, k) ==
  [ws EXCEPT !.s = Get(zk, @, pre.state, k), !.seen = Append(@, Got(zk, ws.s, pre.state, k))]
ReadCode(zk, ws, pre) ==
  [ws EXCEPT !.o = Get(zk, @, pre.offchain, CodeKey),
             !.seen = Append(@, Got(zk, ws.o, pre.offchain, CodeKey))]
LastSeen(ws) == ws.seen[Len(ws.seen)]
WriteState(ws, k, v) == [ws EXCEPT !.s = Set(@, k, v)]

\* get_and_verify_short_header_proof_by_l1_hash: the prover looks the proof up
\* and notes the hash, the guest takes the next proof; both compare.
ShpMatches(proof, hash, prev, height) ==
  /\ hash = L1Hash(proof)
  /\ prev \in {None, L1Hash(proof - 1)}
  /\ height = proof
VerifyShp(zk, ws, hash, prev, height) ==
  LET have == ~zk \/ ws.shps # <<>>
      proof == IF ~zk THEN hash - 10 ELSE Head(ws.shps)
      good == have /\ ShpMatches(proof, hash, prev, height)
  IN [ws EXCEPT !.shps = IF zk THEN (IF have THEN Tail(@) ELSE @)
                         ELSE (IF good THEN Append(@, hash) ELSE @),
                !.last = IF good THEN hash ELSE @,
                !.fail = @ \/ ~good]

\* verify_system_tx and the setBlockInfo call of the light client contract.
SetBlockInfo(zk, ws, pre, hash) ==
  LET w1 == ReadState(zk, ws, pre, NextKey)
      next == OrZero(LastSeen(w1))
      w2 == ReadState(zk, w1, pre, HashSlot(SatSub(next)))
      w3 == VerifyShp(zk, w2, hash, LastSeen(w2), next)
  IN IF w3.fail THEN w3
     ELSE WriteState(WriteState(w3, HashSlot(next), hash), NextKey, next + 1)

\* One access of a transaction.
Exec(zk, ws, pre, op) ==
  CASE op.op = "get" -> ReadState(zk, ws, pre, op.k)
    [] op.op = "set" -> WriteState(ws, op.k, op.v)
    [] op.op = "code" -> ReadCode(zk, ws, pre)
    [] op.op = "deploy" -> [ws EXCEPT !.o = Set(@, CodeKey, op.v)]
    [] op.op = "l1" -> SetBlockInfo(zk, ws, pre, op.v)
ExecAll(zk, ws, pre, ops) ==
  FoldLeft(LAMBDA w, op : IF w.fail THEN w ELSE Exec(zk, w, pre, op), ws, ops)

\* The keys of the accessory state: pending_head and the length of blocks.
PendingHead == 0
BlocksLen == 1

\* begin_l2_block_hook of the EVM: the head block gets its state root.
BeginBlock(zk, ws, pre) ==
  LET w == ReadState(zk, ws, pre, HeadKey)
  IN WriteState(w, HeadKey, OrZero(LastSeen(w)) + 1)

\* end_l2_block_hook: the block becomes the head, natively also pending_head.
EndBlock(zk, ws, pre, h) ==
  LET w == ReadState(zk, ws, pre, HeadKey)
      w1 == WriteState(w, HeadKey, OrZero(LastSeen(w)) + 1)
  IN IF zk THEN w1 ELSE [w1 EXCEPT !.a = AccSet(@, PendingHead, h)]

\* finalize_hook (native only): moves pending_head to the blocks and panics
\* when it is not the next of them.
FinalizeHook(ws, pre) ==
  LET len == AccGet(ws.a, pre.acc, BlocksLen)
      good == AccGet(ws.a, pre.acc, PendingHead) = len
  IN [ws EXCEPT !.a = IF good THEN AccSet(AccSet(@, BlocksLen, len + 1), PendingHead, None) ELSE @,
                !.fail = @ \/ ~good]

-----------------------------------------------------------------------------
(* compute_state_update and finalize_l2_block.                             *)

ProofHint(k, root) == [t |-> "proof", k |-> k, v |-> root]
RootHint(root) == [t |-> "root", k |-> 0, v |-> root]
UpdateHint(batch, root) == [t |-> "update", k |-> DOMAIN batch, v |-> root]

\* ProverStorage::compute_state_update: adds the previous root, a proof of
\* every ordered read, the proof of the update and the new root.
ProverUpdate(d, state) ==
  LET new == ApplyWrites(state, Writes(d.log))
  IN [init |-> state, root |-> new,
      ok |-> \A i \in DOMAIN d.reads : At(state, d.reads[i][1]) = d.reads[i][2],
      wit |-> d.wit \o <<RootHint(state)>>
                \o [i \in DOMAIN d.reads |-> ProofHint(d.reads[i][1], state)]
                \o <<UpdateHint(Writes(d.log), state), RootHint(new)>>]

\* ZkStorage::compute_state_update: takes the same hints and verifies them.
ZkUpdate(d) ==
  LET n == Len(d.reads)
      batch == Writes(d.log)
      shape == /\ Len(d.wit) >= n + 3
               /\ d.wit[1].t = "root"
               /\ \A i \in 1..n : d.wit[i + 1].t = "proof"
               /\ d.wit[n + 2].t = "update"
               /\ d.wit[n + 3].t = "root"
      prev == d.wit[1].v
      reads == \A i \in 1..n : /\ d.wit[i + 1] = ProofHint(d.reads[i][1], prev)
                               /\ At(prev, d.reads[i][1]) = d.reads[i][2]
      new == d.wit[n + 3].v
      update == d.wit[n + 2] = UpdateHint(batch, prev) /\ new = ApplyWrites(prev, batch)
  IN IF ~shape THEN [init |-> EmptyTable, root |-> EmptyTable, ok |-> FALSE, wit |-> <<>>]
     ELSE [init |-> prev, root |-> new, ok |-> reads /\ update,
           wit |-> SubSeq(d.wit, n + 4, Len(d.wit))]

\* apply_l2_block_txs and finalize_l2_block on a working set that has begun.
Apply(zk, ws, pre, h, ops) ==
  LET w1 == Checkpoint(EndBlock(zk, ExecAll(zk, BeginBlock(zk, ws, pre), pre, ops), pre, h))
      up == IF zk THEN ZkUpdate(w1.s) ELSE ProverUpdate(w1.s, pre.state)
      w2 == Checkpoint(IF zk THEN w1 ELSE FinalizeHook(w1, pre))
  IN [ok |-> ~w2.fail /\ ~w2.s.fail /\ ~w2.o.fail /\ up.ok,
      init |-> up.init, root |-> up.root,
      slog |-> w1.s.log, olog |-> w2.o.log, swit |-> up.wit, owit |-> w2.o.wit,
      acc |-> w2.a.committed, seen |-> w2.seen, shps |-> w2.shps, last |-> w2.last]

\* ProverStorage::commit: the storage after the block.
NextVersion(pre, r) ==
  [state |-> r.root,
   offchain |-> ApplyWrites(pre.offchain, Writes(r.olog)),
   acc |-> ApplyWrites(pre.acc, r.acc)]

-----------------------------------------------------------------------------
(* The last L1 hash on the light client contract.                          *)

\* A value of the state from the cache, or from the storage with a proof for
\* the final root (get_and_prove); carried through is the witness.
ProvenValue(zk, log, state, root, r, k) ==
  LET hinted == ~zk \/ (Len(r.wit) >= 2 /\ r.wit[1].t = "value" /\ r.wit[2].t = "proof")
      v == CASE Cached(log, k) -> GetValue(log, k)
             [] ~Cached(log, k) /\ ~zk -> At(state, k)
             [] ~Cached(log, k) /\ zk -> IF hinted THEN r.wit[1].v ELSE None
  IN [v |-> v,
      ok |-> /\ r.ok
             /\ v # None
             /\ (~Cached(log, k) /\ zk) => /\ hinted
                                           /\ r.wit[2] = ProofHint(k, root)
                                           /\ At(root, k) = v,
      wit |-> CASE Cached(log, k) -> r.wit
                [] ~Cached(log, k) /\ ~zk ->
                     r.wit \o <<[t |-> "value", k |-> k, v |-> v], ProofHint(k, state)>>
                [] ~Cached(log, k) /\ zk -> IF hinted THEN SubSeq(r.wit, 3, Len(r.wit)) ELSE r.wit]

\* get_last_l1_hash_on_contract: the next L1 height, then the hash below it.
LastL1HashOnContract(zk, log, state, root, wit) ==
  LET next == ProvenValue(zk, log, state, root, [ok |-> TRUE, wit |-> wit], NextKey)
  IN IF ~next.ok THEN next
     ELSE ProvenValue(zk, log, state, root, next, HashSlot(SatSub(next.v)))

-----------------------------------------------------------------------------
(* The sequencer.                                                          *)

\* begin_l2_block on the working set to discard.
FreshDiscard(pre) == BeginBlock(FALSE, NewWorkingSet, pre)

\* init_chain: the state after genesis, the first L1 block set.
Genesis ==
  [state |-> [k \in {HeadKey, NextKey, HashSlot(0)} |->
                IF k = HashSlot(0) THEN L1Hash(0) ELSE 1],
   offchain |-> EmptyTable,
   acc |-> [k \in {BlocksLen} |-> 1]]

Init ==
  /\ phase = "sequence"
  /\ versions = <<Genesis>>
  /\ blocks = <<>>
  /\ discard = FreshDiscard(Genesis)
  /\ tx = <<>>
  /\ accepted = <<>>
  /\ host = [h |-> 1, slog |-> EmptyTable, olog |-> EmptyTable, wits |-> EmptyTable, prunes |-> <<>>,
             shps |-> <<>>, hashes |-> EmptyTable, seen |-> EmptyTable, last |-> <<>>, ok |-> TRUE]
  /\ guest = [h |-> 1, slog |-> EmptyTable, olog |-> EmptyTable, root |-> Genesis.state,
              prunes |-> <<>>, shps |-> <<>>, seen |-> EmptyTable, left |-> 0, last |-> None,
              out |-> None, ok |-> TRUE]
  /\ count = [ops |-> 0, corrupt |-> 0]

Pre(h) == versions[h]
Height == Len(blocks) + 1

\* The accesses a transaction may make next: a system transaction comes before
\* the others and carries the hash of the L1 block after the last.
Ops ==
  [op : {"get"}, k : Slots, v : {None}] \cup [op : {"set"}, k : Slots, v : Vals \cup {None}]
  \cup [op : {"code"}, k : {CodeKey}, v : {None}] \cup [op : {"deploy"}, k : {CodeKey}, v : Vals]
L1Op(ws, pre) ==
  LET next == Got(FALSE, ws.s, pre.state, NextKey)
  IN {[op |-> "l1", k |-> NextKey, v |-> L1Hash(next)] : n \in {next} \cap 0..MaxL1}

\* apply_l2_block_txs of one transaction on the working set to discard, one
\* access at a time.
TryAccess ==
  /\ phase = "sequence" /\ Height <= MaxBlocks /\ count.ops < OpBound
  /\ \E op \in Ops \cup (IF accepted = <<>> /\ tx = <<>> THEN L1Op(discard, Pre(Height)) ELSE {}) :
       /\ discard' = Exec(FALSE, discard, Pre(Height), op)
       /\ tx' = Append(tx, op)
  /\ count' = [count EXCEPT !.ops = @ + 1]
  /\ UNCHANGED <<phase, versions, blocks, accepted, host, guest>>

\* The transaction went through: working_set.checkpoint().
KeepTx ==
  /\ phase = "sequence" /\ tx # <<>>
  /\ discard' = Checkpoint(discard)
  /\ accepted' = accepted \o tx
  /\ tx' = <<>>
  /\ UNCHANGED <<phase, versions, blocks, host, guest, count>>

\* It failed: working_set.revert(); what it has read is no part of the block.
RevertTx ==
  /\ phase = "sequence" /\ tx # <<>>
  /\ LET reads == Len(SelectSeq(tx, LAMBDA op : op.op \in {"get", "code"}))
                  + 2 * Len(SelectSeq(tx, LAMBDA op : op.op = "l1"))
     IN discard' = [RevertAll(discard) EXCEPT !.seen = SubSeq(@, 1, Len(@) - reads)]
  /\ tx' = <<>>
  /\ UNCHANGED <<phase, versions, blocks, accepted, host, guest, count>>

\* The block is executed on a fresh working set and saved; the batch prover
\* applies it when it is synced, its provider noting the L1 hashes.  The block
\* may be the last of a commitment.
FinishBlock ==
  /\ phase = "sequence" /\ Height <= MaxBlocks /\ tx = <<>>
  /\ \E r \in {Apply(FALSE, NewWorkingSet, Pre(Height), Height, accepted)}, end \in BOOLEAN :
       /\ versions' = Append(versions, NextVersion(Pre(Height), r))
       /\ blocks' = Append(blocks, [ops |-> accepted, dry |-> discard.seen, seen |-> r.seen,
                                    root |-> r.root, ok |-> r.ok, end |-> end])
       /\ host' = [host EXCEPT !.hashes = IF r.shps = <<>> THEN @ ELSE Put(@, Height, r.shps)]
       /\ discard' = FreshDiscard(NextVersion(Pre(Height), r))
  /\ accepted' = <<>>
  /\ UNCHANGED <<phase, tx, guest, count>>

-----------------------------------------------------------------------------
(* generate_cumulative_witness.                                            *)

FirstOfCommitment(h) == h = 1 \/ blocks[h - 1].end
CommitmentStart(h) == Max({x \in 1..h : FirstOfCommitment(x)})

\* A job proves the commitments from one of them to the last.
StartWitness ==
  /\ phase = "sequence" /\ tx = <<>> /\ accepted = <<>>
  /\ blocks # <<>> /\ Last(blocks).end
  /\ \E h \in {x \in DOMAIN blocks : FirstOfCommitment(x)} :
       /\ host' = [host EXCEPT !.h = h]
       /\ guest' = [guest EXCEPT !.h = h, !.root = Pre(h).state]
  /\ phase' = "witness"
  /\ UNCHANGED <<versions, blocks, making, count>>

\* clear_queried_hashes, at the first block of a commitment.
ClearQueriedHashes(hashes, h) == IF FirstOfCommitment(h) THEN EmptyTable ELSE hashes

\* take_queried_hashes: those of the heights of the commitment, in order.
TakeQueriedHashes(hashes, h) ==
  FlattenSeq([i \in 1..(h - CommitmentStart(h) + 1) |->
                LET x == CommitmentStart(h) + i - 1
                IN IF x \in DOMAIN hashes THEN hashes[x] ELSE <<>>])

\* One block of the loop over the commitments.
WitnessBlock ==
  /\ phase = "witness" /\ host.ok /\ host.h <= Len(blocks)
  /\ \E prune \in BOOLEAN :
     \E r \in {Apply(FALSE, WorkingSet(<<>>, <<>>, MarkAllAsRead(host.slog),
                                       MarkAllAsRead(host.olog), <<>>),
                     Pre(host.h), host.h, blocks[host.h].ops)} :
       LET h == host.h
           cleared == ClearQueriedHashes(host.hashes, h)
           old == IF h \in DOMAIN cleared THEN cleared[h] ELSE <<>>
           hashes == IF r.shps = <<>> THEN cleared ELSE Put(cleared, h, old \o r.shps)
       IN host' = [host EXCEPT
            !.h = @ + 1,
            !.slog = IF prune THEN PruneHalf(r.slog) ELSE r.slog,
            !.olog = IF prune THEN PruneHalf(r.olog) ELSE r.olog,
            !.wits = Put(@, h, [s |-> r.swit, o |-> r.owit]),
            !.prunes = IF prune THEN Append(@, h) ELSE @,
            !.shps = IF blocks[h].end THEN @ \o TakeQueriedHashes(hashes, h) ELSE @,
            !.hashes = IF blocks[h].end THEN Delete(hashes, CommitmentStart(h)..h) ELSE hashes,
            !.seen = Put(@, h, r.seen),
            !.ok = r.ok /\ r.root = blocks[h].root]
  /\ UNCHANGED <<phase, versions, blocks, making, guest, count>>

\* The witness of the last L1 hash, needed when no block set one.
LastHashWitness(log, state) ==
  IF host.shps = <<>> THEN LastL1HashOnContract(FALSE, log, state, state, <<>>).wit ELSE <<>>

\* All blocks done: the input goes to the guest.
StartGuest ==
  /\ phase = "witness" /\ host.ok /\ host.h > Len(blocks)
  /\ phase' = "prove"
  /\ host' = [host EXCEPT !.last = LastHashWitness(host.slog, Pre(Len(blocks) + 1).state)]
  /\ guest' = [guest EXCEPT !.prunes = host.prunes,
                            !.shps = [i \in DOMAIN host.shps |-> host.shps[i] - 10]]
  /\ UNCHANGED <<versions, blocks, making, count>>

-----------------------------------------------------------------------------
(* The guest.                                                              *)

\* A value of the state witness is altered before the guest reads it.
Corrupt ==
  /\ phase = "prove" /\ count.corrupt < CorruptBound
  /\ \E h \in guest.h..Len(blocks) : \E i \in DOMAIN host.wits[h].s : \E v \in Vals \cup {None} :
       /\ host.wits[h].s[i].t = "value"
       /\ host.wits[h].s[i].v # v
       /\ host' = [host EXCEPT !.wits[h].s[i].v = v]
  /\ count' = [count EXCEPT !.corrupt = @ + 1]
  /\ UNCHANGED <<phase, versions, blocks, making, guest>>

\* Mutant: the guest prunes before the block it is told to prune after.
MutPruneHere(h) == guest.prunes # <<>> /\ Head(guest.prunes) = h + 1

\* cache_prune_l2_heights_iter.next_if_eq(&&l2_height)
PruneHere(h) == guest.prunes # <<>> /\ Head(guest.prunes) = h

\* One block of apply_l2_blocks_from_sequencer_commitments; the guest panics
\* when a hint is missing or wrong, or a root is not the expected one.
GuestBlock ==
  /\ phase = "prove" /\ guest.ok /\ guest.h <= Len(blocks)
  /\ \E r \in {Apply(TRUE, WorkingSet(host.wits[guest.h].s, host.wits[guest.h].o,
                                      MarkAllAsRead(guest.slog), MarkAllAsRead(guest.olog),
                                      guest.shps),
                     Genesis, guest.h, blocks[guest.h].ops)} :
       LET prune == PruneHere(guest.h)
       IN guest' = [guest EXCEPT
            !.h = @ + 1,
            !.ok = r.ok /\ r.init = guest.root /\ r.root = blocks[guest.h].root,
            !.root = r.root,
            !.slog = IF prune THEN PruneHalf(r.slog) ELSE r.slog,
            !.olog = IF prune THEN PruneHalf(r.olog) ELSE r.olog,
            !.prunes = IF prune THEN Tail(@) ELSE @,
            !.shps = r.shps,
            !.seen = Put(@, guest.h, r.seen),
            !.left = @ + Len(r.swit) + Len(r.owit),
            !.last = IF r.last # None THEN r.last ELSE @]
  /\ UNCHANGED <<phase, versions, blocks, making, host, count>>

\* The last L1 hash of run_sequencer_commitments_in_da_slot.
GuestOutput ==
  /\ phase = "prove" /\ guest.ok /\ guest.h > Len(blocks)
  /\ phase' = "done"
  /\ \E r \in {LastL1HashOnContract(TRUE, guest.slog, EmptyTable, guest.root, host.last)} :
       guest' = IF guest.last # None THEN [guest EXCEPT !.out = guest.last]
                ELSE [guest EXCEPT !.out = r.v, !.ok = r.ok, !.left = @ + Len(r.wit)]
  /\ UNCHANGED <<versions, blocks, making, host, count>>

Next ==
  \/ TryAccess \/ KeepTx \/ RevertTx \/ FinishBlock
  \/ StartWitness \/ WitnessBlock \/ StartGuest
  \/ Corrupt \/ GuestBlock \/ GuestOutput

Spec == Init /\ [][Next]_vars

-----------------------------------------------------------------------------
\* The block executed on a fresh working set reads what the transactions read
\* when they were tried, whatever other transactions were tried and reverted
\* in between (the revert and checkpoint calls of dry_run_transactions).
DryRunAgrees == \A h \in DOMAIN blocks : IsPrefix(blocks[h].dry, blocks[h].seen)

\* A block the sequencer executed is executed again by the batch prover with
\* the cache of the blocks before, whole or pruned: it reads the same values,
\* its reads are those of the state tree, pending_head is found and the root
\* is that of the block ("State root mismatch when regenerating witnesses").
WitnessRegenerated ==
  /\ \A h \in DOMAIN blocks : blocks[h].ok
  /\ host.ok
  /\ \A h \in DOMAIN host.seen : host.seen[h] = blocks[h].seen

\* With an unaltered witness the guest never panics, reads the values the
\* batch prover read and leaves no hint and no short header proof behind.
GuestFollows ==
  count.corrupt = 0 =>
    /\ guest.ok
    /\ guest.left = 0
    /\ \A h \in DOMAIN guest.seen : guest.seen[h] = blocks[h].seen
    /\ phase = "done" => guest.shps = <<>> /\ guest.prunes = <<>>

\* Whatever the witness says, a block the guest gets through was executed on
\* the values of the state: a wrong value fails its proof.
GuestReadsState ==
  guest.ok => \A h \in DOMAIN guest.seen : guest.seen[h] = blocks[h].seen

\* The last L1 hash in the output is the one the light client contract has
\* after the last block, taken from the proofs, the cache or the witness.
LastHashRight ==
  (phase = "done" /\ guest.ok) =>
    LET state == Last(versions).state IN guest.out = At(state, HashSlot(state[NextKey] - 1))
=============================================================================
