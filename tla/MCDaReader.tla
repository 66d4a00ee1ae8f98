----------------------------- MODULE MCDaReader -----------------------------
(***************************************************************************)
(* The reading half of the Bitcoin DA adapter for TLC: the envelope parser,*)
(* the extraction of proofs out of a chain, the proofs about one block     *)
(* with their Merkle trees, and the header chain with its difficulty       *)
(* arithmetic.  A behaviour runs one of them; the others rest.             *)
(***************************************************************************)
EXTENDS Integers, Sequences, FiniteSets, TLC

VARIABLES
  system,                                \* what this behaviour runs
  sent, script, edits,                   \* the envelope
  mempool, blocks, reorgs, node, lc,     \* the extraction
  block, package, altered, result,       \* the proofs about a block
  leaves,                                \* a list of Merkle leaves
  network, chain, latest,                \* the header chain
  t, bits                                \* a target and a header's bits

Instr == INSTANCE Envelope WITH Bodies <- {}, PushSize <- 2, Inserted <- {}, MaxEdits <- 0
Inscription == INSTANCE Envelope WITH
  Bodies <- {<< >>, <<1>>, <<1, 2>>, <<1, 2, 3>>}, PushSize <- 2, MaxEdits <- 2,
  Inserted <- {Instr!Op(Instr!OP_IF), Instr!Op(Instr!OP_ENDIF), Instr!Op(Instr!OP_NIP),
               Instr!Op(Instr!OP_CHECKSIGVERIFY), Instr!Push(<< >>), Instr!Push(<<2, 0>>),
               Instr!Push(<<5, 0>>)}

Chain(c) == INSTANCE Extraction WITH
  Proofs <- DOMAIN c.sizes, SizeOf <- c.sizes, Commitments <- c.commitments,
  Strangers <- c.strangers, Unprefixed <- c.unprefixed, MAX_TX_BODY_SIZE <- 2,
  MAX_COMPRESSED_BLOB_SIZE <- c.limit, FinalityDepth <- 2, MaxBlocks <- c.blocks,
  MaxReorgs <- c.reorgs, RpcMayFail <- c.rpcFails

\* One proof in one transaction, one in two chunks and an aggregate, all in one block.
Whole == [name |-> "whole", sizes |-> 1 :> 1 @@ 2 :> 3, commitments |-> {7}, limit |-> 4,
          strangers |-> {}, unprefixed |-> {}, blocks |-> 4, reorgs |-> 1, rpcFails |-> FALSE]
\* One of exactly a chunk and of the whole limit, one above the limit.
Exact == [Whole EXCEPT !.name = "exact", !.sizes = 1 :> 2 @@ 2 :> 3, !.commitments = {},
                       !.limit = 2, !.reorgs = 0]
\* The chunks and the aggregate in up to three blocks, with a reorganisation.
Spread == [Exact EXCEPT !.name = "spread", !.sizes = 2 :> 3, !.limit = 4, !.blocks = 6, !.reorgs = 1]
\* Requests for chunks fail.
Unanswered == [Spread EXCEPT !.name = "unanswered", !.blocks = 5, !.reorgs = 0, !.rpcFails = TRUE]
\* A chunk without the prefix, and a proof under another key.
Foreign == [Unanswered EXCEPT !.name = "foreign", !.sizes = 1 :> 1 @@ 2 :> 3, !.strangers = {1},
                              !.unprefixed = {<<2, 1>>}, !.rpcFails = FALSE]
Chains == {Whole, Exact, Spread, Unanswered, Foreign}

Shape(prefix, witness, signed, parsed) ==
  [prefix |-> prefix, witness |-> witness, signed |-> signed, parsed |-> parsed]

\* Blocks of up to three transactions besides the coinbase.
Block == INSTANCE BlockProofs WITH
  MaxTxs <- 3, MaxFaults <- 2, BlockHeight <- 7,
  Shapes <- {Shape(FALSE, FALSE, FALSE, "error"), Shape(FALSE, TRUE, TRUE, "complete"),
             Shape(TRUE, FALSE, FALSE, "error"), Shape(TRUE, TRUE, FALSE, "aggregate"),
             Shape(TRUE, TRUE, TRUE, "commitment"), Shape(TRUE, TRUE, FALSE, "chunk"),
             Shape(TRUE, TRUE, FALSE, "method_id")}

\* All lists of up to six leaves taken from two, and longer lists of distinct leaves.
Leaf(i) == <<"leaf", i>>
Lists == UNION {[1 .. n -> {Leaf(1), Leaf(2)}] : n \in 1 .. 6}
LongLists == {[i \in 1 .. n |-> Leaf(i)] : n \in 1 .. 17}

\* Two epochs of four headers after a checkpoint, with ten digits of two bits. The limits
\* have the leading digits 0 3 3, as in 0x1d00ffff, and 1 0 3 for signet's own.
Headers(digits, word) == INSTANCE HeaderChain WITH
  Width <- 2, Digits <- digits, Word <- word,
  Networks <- {"mainnet", "testnet4", "signet", "regtest"}, BLOCKS_PER_EPOCH <- 4, Window <- 3,
  Timespan <- [mainnet |-> 8, testnet4 |-> 8, signet |-> 4, regtest |-> 8], ResetAfter <- 4,
  MaxTimewarp <- 4,
  MaxTarget <- [mainnet |-> 15 * 256, testnet4 |-> 15 * 256, signet |-> 19 * 64,
                regtest |-> 31 * 4096],
  StartTarget <- 384, StartTimes <- <<1, 3, 4>>, TimeSteps <- {-11, -2, 3, 12}, MaxHeight <- 8

\* Every target and every header bits with six digits of two bits.
AllBits == [size : 0 .. 6, mantissa : 0 .. 63]
NoBits == [size |-> 0, mantissa |-> 0]
Targets == 0 .. 4095

ASSUME ReaderAssumption ==
  /\ Inscription!EnvelopeAssumption /\ Block!BlockProofsAssumption
  /\ \A c \in Chains : Chain(c)!ExtractionAssumption
  /\ Headers(10, 1024)!HeaderChainAssumption /\ Headers(6, 64)!HeaderChainAssumption
-----------------------------------------------------------------------------
envelope == <<sent, script, edits>>
extraction == <<mempool, blocks, reorgs, node, lc>>
proof == <<block, package, altered, result>>
headers == <<network, chain, latest>>
numbers == <<t, bits>>
mcVars == <<system, envelope, extraction, proof, leaves, headers, numbers>>

Rest(name) ==
  /\ name # "envelope" => sent = << >> /\ script = << >> /\ edits = 0
  /\ name \notin {c.name : c \in Chains} => Chain(Exact)!Init
  /\ name # "block" => block = << >> /\ package = << >> /\ altered = 0 /\ result = << >>
  /\ name # "merkle" => leaves = << >>
  /\ name # "headers" => network = "regtest" /\ chain = << >> /\ latest = << >>
  /\ name # "numbers" => t = 0 /\ bits = NoBits

MCInit ==
  /\ \/ system = "envelope" /\ Inscription!Init
     \/ \E c \in Chains : system = c.name /\ Chain(c)!Init
     \/ system = "block" /\ Block!Init
     \/ system = "merkle" /\ leaves \in Lists \cup LongLists
     \/ system = "headers" /\ Headers(10, 1024)!Init
     \/ system = "numbers" /\ t \in Targets /\ bits \in (IF t = 0 THEN AllBits ELSE {NoBits})
  /\ Rest(system)

MCNext ==
  /\ UNCHANGED <<system, leaves, numbers>>
  /\ \/ /\ system = "envelope" /\ Inscription!Next
        /\ UNCHANGED <<extraction, proof, headers>>
     \/ /\ \E c \in Chains : system = c.name /\ Chain(c)!Next
        /\ UNCHANGED <<envelope, proof, headers>>
     \/ /\ system = "block" /\ Block!Next
        /\ UNCHANGED <<envelope, extraction, headers>>
     \/ /\ system = "headers" /\ Headers(10, 1024)!Next
        /\ UNCHANGED <<envelope, extraction, proof>>

MCSpec == MCInit /\ [][MCNext]_mcVars
-----------------------------------------------------------------------------
\* Whatever is inscribed is read back: the same kind, the whole body however it was cut
\* into pushes, and a signature that verifies under the signer's key.
InscribedIsRead == system = "envelope" => Inscription!InscribedIsRead

\* The parser accepts exactly the envelopes, however a script was put together, and the
\* body it returns is all that stands between the key and the end of the envelope.
ReadsExactlyEnvelopes == system = "envelope" => Inscription!ReadsExactlyEnvelopes

\* A node and the light client read the same proofs out of every block, in the same order,
\* although one asks its Bitcoin node for chunks and the other has only what it collected.
\* Left out are a proof for a chunk of which the node's requests fail for good, which the
\* node never reads, and one with a chunk that lacks the prefix, which only the node reads.
NodeMatchesLightClient == \A c \in Chains : system = c.name => Chain(c)!NodeMatchesLightClient

\* The chunks of a proof a node accepts are in earlier blocks, or in the same block before
\* the aggregate (verify_chunk_order), unless they lack the prefix.
ChunkBeforeAggregate == \A c \in Chains : system = c.name => Chain(c)!ChunkBeforeAggregate

\* A proof that fits the limit and whose chunks were mined before its aggregate is read
\* exactly once, whole, unless the node's requests for a chunk fail for good: split_proof
\* and the join agree at every boundary of the size.
ProofsFound == \A c \in Chains : system = c.name => Chain(c)!ProofsFound

\* What an honest host extracts from a block is accepted by the circuit, which finds the
\* blobs the node found, in their order.
HostAccepted == system = "block" => Block!HostAccepted

\* A host that loses, reorders or replaces a transaction, miscounts or takes the coinbase
\* from elsewhere, in one place or two, is refused or changes nothing: no accepted proof
\* shows other blobs than the block has. Every wtxid is supposed to be the digest of a
\* transaction; the circuit cannot tell it from an inner node of the tree.
AcceptedIsComplete == system = "block" => Block!AcceptedIsComplete

\* The short header proof of a block verifies and yields exactly what the sequencer put
\* into the system transaction from the header wrapper.
ShortProofMatchesHeader == system = "block" => Block!ShortProofMatchesHeader

\* The path of every leaf leads back to the root, and the height computed from the
\* transaction count alone is the length of that path.
PathsLeadToRoot == system = "merkle" => Block!PathLeadsToRoot(leaves)

\* Because equal neighbours are refused, a root stands for one list of leaves, if none of
\* them is itself an inner node.
RootsNameOneList == system = "merkle" /\ leaves \in Lists => Block!RootNamesOneList(leaves, Lists)

\* Following the network never stops: whatever valid header comes next, the verifier
\* accepts it from its summary (verify_header_chain), unless an epoch ended before it began.
ValidAccepted == system = "headers" => Headers(10, 1024)!ValidAccepted

\* The ring of timestamps, the epoch clock and the carried bits never let through a header
\* the network rejects (verify_header_chain), but for testnet4's time warp rule and for what
\* follows an epoch that ended before it began.
AcceptedValid == system = "headers" => Headers(10, 1024)!AcceptedValid

\* The total work is that of the headers themselves: a late header of testnet4 counts for
\* its own easy target.
WorkOfHeaders == system = "headers" => Headers(10, 1024)!WorkOfHeaders

\* target_to_bits against the network's compact form, for every target.
CompactAgrees == system = "numbers" => Headers(6, 64)!BitsAreCompact(t)

\* bits_to_target against the network's reading, for every bits.
ExpandAgrees == system = "numbers" => Headers(6, 64)!TargetsAreExpanded(bits)

\* target_to_work against the network's measure, for every target.
WorkAgrees == system = "numbers" => Headers(6, 64)!WorkIsExpected(t)
-----------------------------------------------------------------------------

\* The parser of reveal scripts is the inverse of the builder, and accepts nothing else.
InscriptionsReadBack == InscribedIsRead /\ ReadsExactlyEnvelopes

\* Every reader of a block finds the proofs that were inscribed, once, whole and behind
\* their chunks, whether it has a Bitcoin node to ask or not. Two cases are excluded: a node
\* skips a proof when its requests for a chunk fail for good (service.rs lines 1066-1098),
\* and a chunk without the reveal prefix, which no prover makes, counts for the node only.
ProofsReadAlike == NodeMatchesLightClient /\ ChunkBeforeAggregate /\ ProofsFound

\* The proofs about a block show exactly what the block has: an honest host is accepted,
\* one that goes wrong in one or two of the ways of Alterations changes nothing, and a Merkle
\* root names one list of leaves. It supposes what the code does not check, that leaves are
\* digests of transactions, so it is not the completeness claim of lib.rs line 44 for every
\* list of wtxids, path and transaction count that a host could give.
BlockProofsExact ==
  /\ HostAccepted /\ AcceptedIsComplete /\ ShortProofMatchesHeader
  /\ PathsLeadToRoot /\ RootsNameOneList

\* The verifier decides about headers as Bitcoin does: the same headers are valid, with
\* the same bits, targets and work. It does not do so in two cases, which are excluded:
\* testnet4 refuses a first header of an epoch far behind its parent and the verifier has no
\* such rule, and after an epoch that ended before it began the verifier, which subtracts
\* without a sign (verifier.rs line 686), asks for another target than Bitcoin.
HeadersAsBitcoin ==
  /\ ValidAccepted /\ AcceptedValid /\ WorkOfHeaders
  /\ CompactAgrees /\ ExpandAgrees /\ WorkAgrees
=============================================================================
