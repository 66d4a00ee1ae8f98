----------------------------- MODULE Extraction -----------------------------
(***************************************************************************)
(* How zk proofs and sequencer commitments come back out of Bitcoin.  A    *)
(* proof that does not fit one transaction is split into chunks and an     *)
(* aggregate that names them; the nodes put it together again in           *)
(* extract_relevant_zk_proofs (crates/bitcoin-da/src/service.rs), fetching *)
(* chunks by transaction id from their Bitcoin node, while the light       *)
(* client collects the chunks of the blocks it went through.  Blocks are   *)
(* mined in any order, the last ones may be reorganised away, and both     *)
(* readers go through finalized blocks at their own pace.                  *)
(*                                                                         *)
(* The compressed form of proof p is the sequence <<p, 1>>, <<p, 2>>, ...  *)
(* of SizeOf[p] units.  The body of a reveal transaction says what its     *)
(* kind says, as the builders make it.                                     *)
(***************************************************************************)
EXTENDS Integers, Sequences, FiniteSets, SequencesExt, Tables

CONSTANTS
  Proofs,         \* the proofs the prover sends
  SizeOf,         \* their compressed sizes
  Commitments,    \* the commitments the sequencer sends
  Strangers,      \* commitments and proofs among these are signed by another key
  Unprefixed,     \* chunks (proof, number) whose wtxid lacks the reveal prefix
  MAX_TX_BODY_SIZE,
  MAX_COMPRESSED_BLOB_SIZE,
  FinalityDepth,
  MaxBlocks,      \* bound on the chain
  MaxReorgs,      \* bound on reorganisations
  RpcMayFail      \* whether requests to the Bitcoin node can fail for good

ExtractionAssumption ==
  /\ SizeOf \in [Proofs -> Nat \ {0}]
  /\ Proofs \cap Commitments = {}
  /\ FinalityDepth \in Nat \ {0}

VARIABLES
  mempool,     \* transactions not in a block
  blocks,      \* the chain: the transactions of each block
  reorgs,      \* reorganisations so far
  node,        \* proofs and commitments a node has extracted, chunks it could not get
  lc           \* the same for the light client, with its stored chunks

vars == <<mempool, blocks, reorgs, node, lc>>

-----------------------------------------------------------------------------
(* The transactions. *)

Compressed(p) == [k \in 1 .. SizeOf[p] |-> <<p, k>>]

\* slice::chunks: pieces of MAX_TX_BODY_SIZE, the last one may be shorter.
Chunks(s) ==
  [k \in 1 .. (Len(s) + MAX_TX_BODY_SIZE - 1) \div MAX_TX_BODY_SIZE |->
     SubSeq(s, (k - 1) * MAX_TX_BODY_SIZE + 1,
            IF k * MAX_TX_BODY_SIZE > Len(s) THEN Len(s) ELSE k * MAX_TX_BODY_SIZE)]

Tx(id, kind, body) ==
  [id |-> id, kind |-> kind, body |-> body, ours |-> id[1] \notin Strangers,
   prefix |-> id \notin Unprefixed]

\* split_proof, and the transactions made of its result: chunk k of proof p
\* is <<p, k>>, its complete or aggregate transaction <<p, 0>>.
split_proof(p) ==
  IF Len(Compressed(p)) < MAX_TX_BODY_SIZE
  THEN {Tx(<<p, 0>>, "complete", Compressed(p))}
  ELSE {Tx(<<p, k>>, "chunk", Chunks(Compressed(p))[k]) : k \in DOMAIN Chunks(Compressed(p))}
       \cup {Tx(<<p, 0>>, "aggregate", [k \in DOMAIN Chunks(Compressed(p)) |-> <<p, k>>])}

Transactions ==
  UNION {split_proof(p) : p \in Proofs} \cup {Tx(<<c, 0>>, "commitment", c) : c \in Commitments}

\* decompress_blob succeeds on the whole compressed form of a proof.
Decompressed(body) == {p \in Proofs : Compressed(p) = body}

-----------------------------------------------------------------------------
(* Reading the chain. *)

HeightsWith(id) == {h \in DOMAIN blocks : \E i \in DOMAIN blocks[h] : blocks[h][i].id = id}

\* get_last_finalized_block_header
LastFinalized == (IF Len(blocks) > FinalityDepth THEN Len(blocks) - FinalityDepth ELSE 0) + 1

\* The chunks of the block the node is at, with their positions.
ChunkIndex(txs) ==
  {<<txs[i].id, i>> : i \in {j \in DOMAIN txs : txs[j].prefix /\ txs[j].kind = "chunk"}}

\* Mutant: a chunk of a later block is as good as one of an earlier block.
MutVerifyChunkOrder(height, txs, id, aggregate_idx) ==
  IF \E i \in DOMAIN txs : <<id, i>> \in ChunkIndex(txs)
  THEN \A i \in DOMAIN txs : <<id, i>> \in ChunkIndex(txs) => i < aggregate_idx
  ELSE HeightsWith(id) # {}

\* verify_chunk_order: in this block the position decides, else the height
\* of the block the Bitcoin node reports; an unconfirmed chunk has none.
verify_chunk_order(height, txs, id, aggregate_idx) ==
  IF \E i \in DOMAIN txs : <<id, i>> \in ChunkIndex(txs)
  THEN \A i \in DOMAIN txs : <<id, i>> \in ChunkIndex(txs) => i < aggregate_idx
  ELSE \E h \in HeightsWith(id) : h <= height

TxOf(id) == CHOOSE tx \in Transactions : tx.id = id

\* Join chunk bodies while they stay within the limit: << >> when they do not.
Joined(bodies) ==
  IF Len(FlattenSeq(bodies)) > MAX_COMPRESSED_BLOB_SIZE THEN << >> ELSE FlattenSeq(bodies)

\* The proof of an aggregate: every chunk is fetched from the Bitcoin node
\* (which knows the mempool too), checked and appended.  An error on the way
\* skips the aggregate.
NodeAggregate(height, txs, i, failed) ==
  IF \A k \in DOMAIN txs[i].body :
       /\ txs[i].body[k] \notin failed
       /\ verify_chunk_order(height, txs, txs[i].body[k], i)
  THEN Decompressed(Joined([k \in DOMAIN txs[i].body |-> TxOf(txs[i].body[k]).body]))
  ELSE {}

\* extract_relevant_zk_proofs: completes and aggregates of the prover, in
\* the order of the block.  A set with no or one proof stands for each
\* transaction.
NodeProof(height, txs, i, failed) ==
  IF ~(txs[i].prefix /\ txs[i].ours) THEN {}
  ELSE CASE txs[i].kind = "complete" -> Decompressed(txs[i].body)
         [] txs[i].kind = "aggregate" -> NodeAggregate(height, txs, i, failed)
         [] OTHER -> {}

NodeProofs(height, txs, failed) ==
  FlattenSeq([i \in DOMAIN txs |-> SetToSeq(NodeProof(height, txs, i, failed))])

\* extract_relevant_sequencer_commitments
NodeCommitments(txs) ==
  LET ours == SelectSeq(txs, LAMBDA tx : tx.prefix /\ tx.kind = "commitment" /\ tx.ours)
  IN [i \in DOMAIN ours |-> ours[i].body]

\* run_l1_block of the light client circuit, for the blobs of a block: the
\* chunks of earlier blocks and of earlier positions are known by wtxid.
LcProof(chunks, txs, i) ==
  LET known == chunks \cup {txs[j].id : j \in {j \in 1 .. i - 1 : txs[j].prefix /\ txs[j].kind = "chunk"}}
  IN IF ~(txs[i].prefix /\ txs[i].ours) THEN {}
     ELSE CASE txs[i].kind = "complete" -> Decompressed(txs[i].body)
            [] txs[i].kind = "aggregate" ->
                 IF \A k \in DOMAIN txs[i].body : txs[i].body[k] \in known
                 THEN Decompressed(Joined([k \in DOMAIN txs[i].body |-> TxOf(txs[i].body[k]).body]))
                 ELSE {}
            [] OTHER -> {}

-----------------------------------------------------------------------------

\* A chain that is already deep enough for its first block to be final.
Init ==
  /\ mempool = Transactions
  /\ blocks = [h \in 1 .. FinalityDepth |-> << >>]
  /\ reorgs = 0
  /\ node = [proofs |-> << >>, commitments |-> << >>, missed |-> {}]
  /\ lc = [proofs |-> << >>, commitments |-> << >>, chunks |-> {}]

\* The Bitcoin network mines a block of some pending transactions.
Mine ==
  /\ Len(blocks) < MaxBlocks
  /\ \E chosen \in SUBSET mempool :
       /\ \E txs \in SetToSeqs(chosen) :
            blocks' = Append(blocks, txs)
       /\ mempool' = mempool \ chosen
  /\ UNCHANGED <<reorgs, node, lc>>

\* The blocks that are not final are replaced; their transactions go back.
Reorg ==
  /\ reorgs < MaxReorgs
  /\ LastFinalized < Len(blocks)
  /\ mempool' = mempool \cup UNION {ToSet(blocks[h]) : h \in LastFinalized + 1 .. Len(blocks)}
  /\ blocks' = SubSeq(blocks, 1, LastFinalized)
               \o [h \in 1 .. Len(blocks) - LastFinalized |-> << >>]
  /\ reorgs' = reorgs + 1
  /\ UNCHANGED <<node, lc>>

\* The chunks of the block's aggregates for which a request, for the transaction or for its
\* block, fails in spite of the retries.
Failures(txs) ==
  IF RpcMayFail THEN SUBSET UNION {ToSet(txs[i].body) : i \in {j \in DOMAIN txs : txs[j].kind = "aggregate"}}
  ELSE {{}}

\* A node extracts the next finalized block.
NodeExtract ==
  /\ Len(node.proofs) < LastFinalized
  /\ \E height \in {Len(node.proofs) + 1} : \E failed \in Failures(blocks[height]) :
       node' = [proofs |-> Append(node.proofs, NodeProofs(height, blocks[height], failed)),
                commitments |-> Append(node.commitments, NodeCommitments(blocks[height])),
                missed |-> node.missed \cup failed]
  /\ UNCHANGED <<mempool, blocks, reorgs, lc>>

\* The light client goes through the next finalized block.
LightClientBlock ==
  /\ Len(lc.proofs) < LastFinalized
  /\ \E txs \in {blocks[Len(lc.proofs) + 1]} :
       lc' = [proofs |-> Append(lc.proofs, FlattenSeq([i \in DOMAIN txs |-> SetToSeq(LcProof(lc.chunks, txs, i))])),
              commitments |-> Append(lc.commitments, NodeCommitments(txs)),
              chunks |-> lc.chunks \cup {c[1] : c \in ChunkIndex(txs)}]
  /\ UNCHANGED <<mempool, blocks, reorgs, node>>

Next == Mine \/ Reorg \/ NodeExtract \/ LightClientBlock

Spec == Init /\ [][Next]_vars

-----------------------------------------------------------------------------
(* Properties. *)

\* All chunks of a proof carry the reveal prefix, as the prover's own do, and no request of
\* the node for one of them failed for good.
Regular(p) == \A tx \in split_proof(p) : tx.prefix /\ tx.id \notin node.missed

\* A node and the light client read the same proofs out of every block, in the same order,
\* although one asks its Bitcoin node for chunks, at a time when later blocks may already
\* hold them or a reorganisation has moved them, and the other has only what it collected
\* on the way. Two kinds of proof are left out: one for a chunk of which the node's requests
\* failed, which the node skips for good with a line in its log (continue 'aggregate), and
\* one with a chunk that lacks the prefix, which only the node takes.
NodeMatchesLightClient ==
  \A h \in DOMAIN node.proofs \cap DOMAIN lc.proofs :
    SelectSeq(node.proofs[h], Regular) = SelectSeq(lc.proofs[h], Regular)

Position(id) ==
  CHOOSE p \in (DOMAIN blocks) \X (1 .. Cardinality(Transactions)) :
    p[2] \in DOMAIN blocks[p[1]] /\ blocks[p[1]][p[2]].id = id
ComesBefore(a, b) == Before(Position(a), Position(b))

\* verify_chunk_order's own words: the chunks of a proof a node accepts are
\* in earlier blocks, or in the same block before the aggregate. A chunk without the prefix is
\* not in the block's index and may come behind its aggregate.
ChunkBeforeAggregate ==
  \A h \in DOMAIN node.proofs : \A p \in ToSet(node.proofs[h]) :
    \A tx \in split_proof(p) :
      tx.kind = "chunk" /\ tx.prefix => HeightsWith(tx.id) # {} /\ ComesBefore(tx.id, <<p, 0>>)

\* A proof of the prover that fits the limit and whose chunks were mined
\* before its aggregate is read exactly once, whole, from the block of its
\* last transaction, unless the node's requests for a chunk failed for good;
\* this needs split_proof and the join to agree at every boundary of the size.
ProofsFound ==
  \A p \in Proofs \ Strangers : \A h \in DOMAIN node.proofs \cap HeightsWith(<<p, 0>>) :
    /\ SizeOf[p] <= MAX_COMPRESSED_BLOB_SIZE /\ Regular(p)
    /\ \A tx \in split_proof(p) :
         tx.id # <<p, 0>> => HeightsWith(tx.id) # {} /\ ComesBefore(tx.id, <<p, 0>>)
    => Cardinality({x \in (DOMAIN node.proofs) \X (1 .. Cardinality(Proofs)) :
                      x[2] \in DOMAIN node.proofs[x[1]] /\ node.proofs[x[1]][x[2]] = p}) = 1
=============================================================================
