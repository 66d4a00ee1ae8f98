----------------------------- MODULE BlockProofs -----------------------------
(***************************************************************************)
(* How the relevant transactions of one L1 block reach the light client    *)
(* circuit, and its header facts the rollup's Bitcoin light client.  The   *)
(* DA service turns a Bitcoin block into a filtered block (tx count and    *)
(* witness root beside the header), extracts the relevant blobs with an    *)
(* inclusion and a completeness proof, or a short header proof; the        *)
(* verifier of the circuit checks them again from what the header hash     *)
(* binds (crates/bitcoin-da/src: service.rs, verifier.rs,                  *)
(* spec/short_proof.rs).                                                   *)
(*                                                                         *)
(* A transaction is what these steps look at: its identity, whether its    *)
(* wtxid starts with the reveal prefix, whether it has a witness, what     *)
(* the envelope parser makes of it and whether its signature verifies.     *)
(* The coinbase has outputs; "commitment" outputs carry a witness root,    *)
(* and the last one counts.                                                *)
(***************************************************************************)
EXTENDS Integers, Sequences, FiniteSets, SequencesExt

CONSTANTS
  Shapes,      \* the kinds of transactions in a block
  MaxTxs,      \* transactions of a block besides the coinbase
  MaxFaults,   \* bound: places in which the host goes wrong
  BlockHeight  \* the height the coinbase commits to

BlockProofsAssumption ==
  /\ MaxTxs \in Nat /\ MaxFaults \in Nat
  /\ BlockHeight \in Nat \ {0}
  /\ Shapes \subseteq [prefix : BOOLEAN, witness : BOOLEAN, signed : BOOLEAN,
                       parsed : {"complete", "aggregate", "chunk", "method_id", "commitment", "error"}]

VARIABLES
  block,    \* the Bitcoin block: coinbase and transactions
  package,  \* << >> or what the host hands to the circuit
  altered,  \* in how many places the host went wrong
  result    \* << >> or the verifier's answers

vars == <<block, package, altered, result>>

-----------------------------------------------------------------------------
(***************************************************************************)
(* The Merkle tree of Bitcoin transactions                                 *)
(* (crates/bitcoin-da/src/helpers/merkle_tree.rs).  The double SHA-256 of  *)
(* two digests is the pair itself, so that different inputs have different *)
(* digests.  A leaf is never such a pair: the code hashes leaves and inner *)
(* nodes alike and cannot tell them apart, and the model assumes that what *)
(* stands for a transaction is the digest of one.  A panic is the result   *)
(* Panic.                                                                  *)
(***************************************************************************)
Panic == << >>
Combined(l, r) == <<"node", l, r>>

\* One level up: neighbours are combined, a last node without one with itself.
Parents(level) ==
  [i \in 1 .. (Len(level) + 1) \div 2 |->
     Combined(level[2 * i - 1], level[IF 2 * i <= Len(level) THEN 2 * i ELSE 2 * i - 1])]

\* Number of levels above n leaves.
Depth(n) == CHOOSE d \in 0 .. n : 2 ^ d >= n /\ \A e \in 0 .. d - 1 : 2 ^ e < n

\* BitcoinMerkleTree::new: all levels, the leaves first.
Nodes(leaves) ==
  LET level[k \in 0 .. Depth(Len(leaves))] ==
        IF k = 0 THEN leaves ELSE Parents(level[k - 1])
  IN level

\* Two equal neighbours make the constructor panic.
Mutated(leaves) ==
  \E k \in 0 .. Depth(Len(leaves)) :
    \E i \in 1 .. Len(Nodes(leaves)[k]) \div 2 :
      Nodes(leaves)[k][2 * i - 1] = Nodes(leaves)[k][2 * i]

\* The root; a tree without leaves has none, and reading it panics.
Root(leaves) ==
  IF leaves = << >> \/ Mutated(leaves) THEN Panic
  ELSE Nodes(leaves)[Depth(Len(leaves))][1]

\* Siblings on the way from the leaf at index (from 0) to the root.
get_idx_path(leaves, index) ==
  [k \in 1 .. Depth(Len(leaves)) |->
     LET level == Nodes(leaves)[k - 1]
         i == index \div 2 ^ (k - 1)
     IN CASE i % 2 = 1 -> level[i]
          [] i % 2 = 0 /\ i = Len(level) - 1 -> level[i + 1]
          [] OTHER -> level[i + 2]]

calculate_root_with_merkle_proof(leaf, index, proof) ==
  LET Up(hash, i, sibling) ==
        CASE hash = Panic -> Panic
          [] hash # Panic /\ i % 2 = 0 -> Combined(hash, sibling)
          [] hash # Panic /\ i % 2 = 1 /\ sibling = hash -> Panic
          [] OTHER -> Combined(sibling, hash)
      hash[k \in 0 .. Len(proof)] ==
        IF k = 0 THEN leaf ELSE Up(hash[k - 1], index \div 2 ^ (k - 1), proof[k])
  IN IF index \div 2 ^ Len(proof) # 0 THEN Panic ELSE hash[Len(proof)]

\* HeaderWrapper::coinbase_txid_merkle_proof_height
ProofHeight(tx_count) == Depth(tx_count)

-----------------------------------------------------------------------------
Zero == <<"zero">>
txid(tx) == <<"txid", tx.id>>
wtxid(tx) == IF tx.witness THEN <<"wtxid", tx.id>> ELSE txid(tx)
\* A coinbase has a txid of its own for each list of outputs.
CoinbaseTxid(c) == <<"coinbase", c.height, c.outputs>>
\* A coinbase with a witness has a wtxid that differs from its txid.
CoinbaseWtxid(c) == IF c.witness THEN <<"coinbase_w", c.height, c.outputs>> ELSE CoinbaseTxid(c)

\* The hash of a witness root and the coinbase's witness value.
CommitmentTo(root) == <<"commitment", root>>
Payment == <<"payment">>

\* rposition: the last output that is a witness commitment, 0 for none.
CommitmentIdx(c) ==
  IF \A i \in DOMAIN c.outputs : c.outputs[i] = Payment THEN 0
  ELSE CHOOSE i \in DOMAIN c.outputs :
         c.outputs[i] # Payment /\ \A j \in i + 1 .. Len(c.outputs) : c.outputs[j] = Payment

TxCount(b) == 1 + Len(b.txs)
MerkleRoot(b) == Root(<<CoinbaseTxid(b.coinbase)>> \o [i \in DOMAIN b.txs |-> txid(b.txs[i])])
Wtxids(b) == <<Zero>> \o [i \in DOMAIN b.txs |-> wtxid(b.txs[i])]

-----------------------------------------------------------------------------
(* The blocks of the network: transactions with a witness need a commitment *)
(* in the coinbase, other outputs may look like one but come before it.     *)

Stale == CommitmentTo(<<"stale">>)

Blocks ==
  LET txs == UNION {[1 .. n -> Shapes] : n \in 0 .. MaxTxs}
      Tx(s, i) == [id |-> i, prefix |-> s.prefix, witness |-> s.witness,
                   signed |-> s.signed, parsed |-> s.parsed]
      Numbered(ss) == [i \in DOMAIN ss |-> Tx(ss[i], i)]
      RootOf(ss) == Root(<<Zero>> \o [i \in DOMAIN ss |-> wtxid(Numbered(ss)[i])])
      Segwit(ss) == {[height |-> BlockHeight, witness |-> TRUE, outputs |-> o] :
                       o \in {<<Payment, CommitmentTo(RootOf(ss))>>,
                              <<Stale, CommitmentTo(RootOf(ss)), Payment>>}}
      Legacy(ss) == IF \E i \in DOMAIN ss : ss[i].witness THEN {}
                    ELSE {[height |-> BlockHeight, witness |-> FALSE, outputs |-> <<Payment>>]}
  IN UNION {{[coinbase |-> c, txs |-> Numbered(ss)] : c \in Segwit(ss) \cup Legacy(ss)} : ss \in txs}

-----------------------------------------------------------------------------
(* The DA service. *)

calculate_witness_root(b) ==
  IF TxCount(b) = 1 THEN Zero
  ELSE Root(<<IF CommitmentIdx(b.coinbase) # 0 THEN Zero ELSE CoinbaseWtxid(b.coinbase)>>
            \o [i \in DOMAIN b.txs |-> wtxid(b.txs[i])])

\* get_block_by_hash: tx count, height and txs_commitment are the service's,
\* only the Merkle root is part of the header that was hashed.
get_block_by_hash(b) ==
  [tx_count |-> TxCount(b), height |-> BlockHeight,
   txs_commitment |-> calculate_witness_root(b), merkle_root |-> MerkleRoot(b)]

Relevant(txs) == SelectSeq(txs, LAMBDA tx : tx.prefix)

\* The blob of a parsed transaction: only envelopes with a sender must be
\* signed; a chunk has no sender and a method id carries its own signatures.
BlobOf(tx) ==
  CASE tx.parsed = "error" -> << >>
    [] tx.parsed \in {"complete", "aggregate", "commitment"} ->
         IF tx.signed THEN <<[body |-> tx.id, sender |-> "signer", wtxid |-> wtxid(tx)]>> ELSE << >>
    [] tx.parsed = "chunk" -> <<[body |-> tx.id, sender |-> "none", wtxid |-> wtxid(tx)]>>
    [] tx.parsed = "method_id" -> <<[body |-> tx.id, sender |-> "zero", wtxid |-> wtxid(tx)]>>

Blobs(txs) == FlattenSeq([i \in DOMAIN txs |-> BlobOf(txs[i])])

\* The prefix is not all zeros, so the coinbase is never relevant.
extract_relevant_blobs_with_proof(b) ==
  [wtxids |-> Wtxids(b),
   coinbase |-> b.coinbase,
   path |-> get_idx_path(<<CoinbaseTxid(b.coinbase)>> \o [i \in DOMAIN b.txs |-> txid(b.txs[i])], 0),
   completeness |-> Relevant(b.txs)]

-----------------------------------------------------------------------------
(* The circuit. *)

\* Which wtxids start with the prefix is part of the wtxid itself.
StartsWithPrefix(b, w) == \E i \in DOMAIN b.txs : wtxid(b.txs[i]) = w /\ b.txs[i].prefix

\* Mutant: a completeness transaction is not compared with its wtxid.
MutMatches(b, p) ==
  Len(SelectSeq(p.wtxids, LAMBDA w : StartsWithPrefix(b, w))) = Len(p.completeness)

\* zip_eq: as many relevant wtxids as transactions, and each is its wtxid.
Matches(b, p) ==
  LET relevant == SelectSeq(p.wtxids, LAMBDA w : StartsWithPrefix(b, w))
  IN /\ Len(relevant) = Len(p.completeness)
     /\ \A i \in DOMAIN relevant : wtxid(p.completeness[i]) = relevant[i]

\* verify_transactions: the blobs in a one-element sequence, or an error.
verify_transactions(b, header, p) ==
  LET idx == CommitmentIdx(p.coinbase)
      root == Root(p.wtxids)
  IN IF /\ header.tx_count = Len(p.wtxids)
        /\ Matches(b, p)
        /\ header.tx_count = 1 => header.txs_commitment = Zero
        /\ IF idx = 0
           THEN /\ header.tx_count > 1 => header.merkle_root = header.txs_commitment
                /\ Blobs(p.completeness) = << >>
           ELSE /\ root # Panic
                /\ p.coinbase.witness
                /\ p.coinbase.outputs[idx] = CommitmentTo(root)
                /\ root = header.txs_commitment
        /\ calculate_root_with_merkle_proof(CoinbaseTxid(p.coinbase), 0, p.path) = header.merkle_root
     THEN <<Blobs(p.completeness)>>
     ELSE << >>

\* BitcoinHeaderShortProof::verify: the facts for the Bitcoin light client
\* contract, or an error.
verify_short_proof(header, p) ==
  LET idx == CommitmentIdx(p.coinbase)
  IN IF /\ calculate_root_with_merkle_proof(CoinbaseTxid(p.coinbase), 0, p.path) = header.merkle_root
        /\ header.tx_count = 1 => header.txs_commitment = Zero
        /\ IF idx = 0
           THEN header.tx_count > 1 => header.merkle_root = header.txs_commitment
           ELSE p.coinbase.outputs[idx] = CommitmentTo(header.txs_commitment)
     THEN <<[tx_commitment |-> header.txs_commitment,
             coinbase_txid_merkle_proof_height |-> Len(p.path),
             block_height |-> p.coinbase.height]>>
     ELSE << >>

-----------------------------------------------------------------------------

Init ==
  /\ block \in Blocks
  /\ package = << >>
  /\ altered = 0
  /\ result = << >>

\* The host: fetch the block and extract its proofs.
Extract ==
  /\ package = << >>
  /\ package' = <<[header |-> get_block_by_hash(block)]
                  @@ extract_relevant_blobs_with_proof(block)>>
  /\ UNCHANGED <<block, altered, result>>

\* The ways in which a host goes wrong: it loses, swaps or replaces an item, miscounts, or
\* takes the coinbase or the commitment from elsewhere.
Alterations(p) ==
  LET RemoveIdx(s, i) == SubSeq(s, 1, i - 1) \o SubSeq(s, i + 1, Len(s))
      Foreign == [id |-> 99, prefix |-> TRUE, witness |-> TRUE, signed |-> TRUE, parsed |-> "complete"]
  IN {[p EXCEPT !.completeness = RemoveIdx(@, i)] : i \in DOMAIN p.completeness}
     \cup {[p EXCEPT !.completeness = [@ EXCEPT ![i] = p.completeness[j], ![j] = p.completeness[i]]]
             : i \in DOMAIN p.completeness, j \in DOMAIN p.completeness}
     \cup {[p EXCEPT !.completeness[i] = Foreign] : i \in DOMAIN p.completeness}
     \cup {[p EXCEPT !.wtxids[i] = wtxid(Foreign)] : i \in DOMAIN p.wtxids}
     \cup {[p EXCEPT !.wtxids = RemoveIdx(@, i), !.header.tx_count = @ - 1,
                     !.completeness = SelectSeq(@, LAMBDA tx : wtxid(tx) # p.wtxids[i])]
             : i \in DOMAIN p.wtxids}
     \cup {[p EXCEPT !.header.tx_count = @ + 1],
           [p EXCEPT !.header.txs_commitment = <<"stale">>],
           [p EXCEPT !.coinbase.outputs = <<Payment>>],
           [p EXCEPT !.coinbase.outputs = Append(@, CommitmentTo(<<"stale">>))],
           [p EXCEPT !.path = Append(@, Zero)]}

Alter ==
  /\ package # << >> /\ altered < MaxFaults /\ result = << >>
  /\ \E p \in Alterations(package[1]) : package' = <<p>>
  /\ altered' = altered + 1
  /\ UNCHANGED <<block, result>>

\* The circuit.
Verify ==
  /\ package # << >> /\ result = << >>
  /\ result' = <<[blobs |-> verify_transactions(block, package[1].header, package[1]),
                  info |-> verify_short_proof(package[1].header, package[1])]>>
  /\ UNCHANGED <<block, package, altered>>

Next == Extract \/ Alter \/ Verify

Spec == Init /\ [][Next]_vars

-----------------------------------------------------------------------------
(* Properties. *)

BlockBlobs == Blobs(Relevant(block.txs))

\* What an honest host extracts is accepted by the circuit, which finds the
\* blobs the node found, in their order: with and without a witness
\* commitment, with only a coinbase, at every number of transactions.
HostAccepted == result # << >> /\ altered = 0 => result[1].blobs = <<BlockBlobs>>

\* A host that loses, reorders or replaces a transaction, miscounts or takes the coinbase
\* from elsewhere, in up to MaxFaults places, is refused or changes nothing: no accepted
\* proof shows other blobs than the block has. It is about these faults, and supposes that
\* every wtxid the host gives is the digest of a transaction: verify_transactions has no
\* check that tells it from an inner node of the tree, nor one on the number of levels.
AcceptedIsComplete == result # << >> /\ result[1].blobs # << >> => result[1].blobs = <<BlockBlobs>>

\* The short header proof of a block verifies and yields exactly what the
\* sequencer put into the system transaction from the header wrapper: the
\* txs commitment and the height computed from the transaction count.
ShortProofMatchesHeader ==
  result # << >> /\ altered = 0 =>
    result[1].info = <<[tx_commitment |-> get_block_by_hash(block).txs_commitment,
                        coinbase_txid_merkle_proof_height |-> ProofHeight(TxCount(block)),
                        block_height |-> BlockHeight]>>

\* The path of every leaf leads back to the root, whatever the number of
\* leaves and wherever the levels are odd, and the height the header wrapper
\* computes from the transaction count alone is the length of that path.
PathLeadsToRoot(leaves) ==
  ~Mutated(leaves) =>
    \A i \in 0 .. Len(leaves) - 1 :
      LET path == get_idx_path(leaves, i) IN
      /\ calculate_root_with_merkle_proof(leaves[i + 1], i, path) = Root(leaves)
      /\ Len(path) = ProofHeight(Len(leaves))

\* Because equal neighbours are refused, a list and the list with its tail
\* repeated, which Bitcoin's rule for odd levels gives the same root, are
\* not both accepted: a root stands for one list of leaves, if none of them
\* is itself an inner node.
RootNamesOneList(leaves, others) ==
  \A other \in others :
    ~Mutated(leaves) /\ ~Mutated(other) /\ Root(leaves) = Root(other) => leaves = other
=============================================================================
