---------------------------- MODULE LightClient -----------------------------
(***************************************************************************)
(* The light client prover.                                                *)
(*                                                                         *)
(* For every finalized Bitcoin block the node runs the light client        *)
(* circuit's run_l1_block on its Merkle tree (the JMT) and on the output   *)
(* of the proof of the block before, has the run proven, and then makes    *)
(* three durable writes one after the other: the JMT, the proof with its   *)
(* output, the last scanned height.  One task does all this and also polls *)
(* sync_l1, which fills its queue, but only while it waits for a           *)
(* notification.                                                           *)
(*                                                                         *)
(* Data is abstracted to what the circuit compares.  The hash of a Bitcoin *)
(* block is its height, a commitment is its own hash, the contents of the  *)
(* JMT are its root.  The Merkle root of the L2 blocks s..e is <<s, e>>,   *)
(* and the state root after a block is the block.                          *)
(***************************************************************************)
EXTENDS Tables, Sequences, FiniteSets

CONSTANTS
  SequencerCommitments,  \* commitments that may be inscribed on Bitcoin
  NoCommitment,          \* previous_commitment_index() = None
  BatchProofs,           \* batch proofs that may be inscribed on Bitcoin
  Decompress,            \* decompress_chunks: fragment sequences that decode, to proofs
  InitialMethodIds,      \* initial_batch_proof_method_ids: sequence of [activation, id]
  MaxCompressedBlobSize, \* MAX_COMPRESSED_BLOB_SIZE, in fragments
  QueueLimit,            \* length of the queue at which sync_l1 stops filling it
  L1Contents,            \* what one Bitcoin block may carry: sequences of blobs
  L1Bound,               \* bound: number of finalized Bitcoin blocks
  FailBound,             \* bound: number of failed proving attempts
  RestartBound           \* bound: number of restarts of the node

GenesisRoot == 0

\* The state root after the last block a commitment covers.
LastState(c) == c.root[2]

\* What is assumed of a proof that verifies.  The batch proof circuit asserts all of
\* it but the order of the two ends of the index range, which is the prover's; it does
\* not assert that the indices in between are consecutive.
BatchProofSound(p) ==
  LET n == Len(p.hashes) IN
  /\ n > 0
  /\ p.firstIndex = p.hashes[1].index
  /\ p.lastIndex = p.hashes[n].index
  /\ p.firstIndex <= p.lastIndex
  /\ p.lastL2Height = p.hashes[n].end
  /\ \A i \in 1 .. (n - 1) : p.hashes[i].end < p.hashes[i + 1].end
  /\ IF p.previous = NoCommitment
     THEN p.firstIndex = 1
     ELSE /\ p.previous.index > 0
          /\ p.previous.index + 1 = p.firstIndex
          /\ p.previous.end < p.hashes[1].end
  /\ Len(p.stateRoots) = n + 1
  /\ p.stateRoots[1] = IF p.previous = NoCommitment THEN GenesisRoot
                       ELSE LastState(p.previous)
  /\ \A i \in 1 .. n : p.stateRoots[i + 1] = LastState(p.hashes[i])

ASSUME LCCommitmentsAssumption ==
  /\ SequencerCommitments \subseteq [index : Nat, end : Nat \ {0}, root : Nat \X Nat]
  /\ NoCommitment \notin SequencerCommitments

ASSUME LCProofsAssumption ==
  \A p \in BatchProofs :
    /\ p.hashes \in Seq(SequencerCommitments)
    /\ p.previous \in SequencerCommitments \cup {NoCommitment}
    /\ p.valid => BatchProofSound(p)

ASSUME LCConstantsAssumption ==
  /\ \A f \in DOMAIN Decompress : Decompress[f] \in BatchProofs
  /\ Len(InitialMethodIds) > 0
  /\ \A i \in 1 .. (Len(InitialMethodIds) - 1) :
       InitialMethodIds[i].activation < InitialMethodIds[i + 1].activation
  /\ MaxCompressedBlobSize \in Nat
  /\ QueueLimit \in Nat \ {0}
  /\ L1Bound \in Nat
  /\ FailBound \in Nat
  /\ RestartBound \in Nat

VARIABLES
  \* ---- outside the node
  l1,           \* finalized Bitcoin blocks, height = position
  \* ---- durable
  jmt,          \* the light client's Merkle tree, in the state database
  slotByHash,   \* SlotByHash: L1 heights whose hash the ledger knows
  proofs,       \* LightClientProofBySlotNumber: L1 height to output
  lastScanned,  \* ProverLastScannedSlot; 0 when absent
  \* ---- volatile
  queued,       \* the queue holds the blocks lastScanned + 1 .. queued
  awake,        \* the notifier holds a permit
  phase,        \* what the task is doing
  pos,          \* next blob of the block in progress
  ws,           \* the working set: the JMT with the writes of this run
  out,          \* last_l2_state_root, last_l2_height, last_sequencer_commitment_index
  \* ---- bookkeeping
  fails,
  restarts

durable == <<jmt, slotByHash, proofs, lastScanned>>
run     == <<pos, ws, out>>
vars    == <<l1, durable, queued, awake, phase, run, fails, restarts>>

\* LCP_JMT_GENESIS_ROOT.
EmptyJmt == [hashes |-> {}, chunks |-> EmptyTable, commitments |-> EmptyTable,
             transitions |-> EmptyTable, methodIds |-> << >>]

GenesisOutput == [root |-> GenesisRoot, height |-> 0, index |-> 0]

Init ==
  /\ l1 = << >>
  /\ jmt = EmptyJmt
  /\ slotByHash = {}
  /\ proofs = EmptyTable
  /\ lastScanned = 0
  /\ queued = 0
  /\ awake = FALSE
  /\ phase = "idle"
  /\ pos = 1
  /\ ws = EmptyJmt
  /\ out = GenesisOutput
  /\ fails = 0
  /\ restarts = 0

-----------------------------------------------------------------------------
(***************************************************************************)
(* Bitcoin, and sync_l1 as the light client's task polls it.               *)
(***************************************************************************)
FinalizeL1Block ==
  /\ Len(l1) < L1Bound
  /\ \E b \in L1Contents : l1' = Append(l1, b)
  /\ UNCHANGED <<durable, queued, awake, phase, run, fails, restarts>>

\* sync_l1 has fetched the next finalized block.  It notifies before it looks whether
\* the queue has room.  The handler runs in the same task, so sync_l1 makes progress
\* only while the handler is idle.
SyncL1 ==
  /\ phase = "idle"
  /\ queued < Len(l1)
  /\ awake' = TRUE
  /\ queued' = IF queued - lastScanned < QueueLimit THEN queued + 1 ELSE queued
  /\ UNCHANGED <<l1, durable, phase, run, fails, restarts>>

\* notifier.notified(), then process_queued_l1_blocks.
Notified ==
  /\ phase = "idle"
  /\ awake
  /\ awake' = FALSE
  /\ phase' = "queue"
  /\ UNCHANGED <<l1, durable, queued, run, fails, restarts>>

QueueEmpty ==
  /\ phase = "queue"
  /\ queued = lastScanned
  /\ phase' = "idle"
  /\ UNCHANGED <<l1, durable, queued, awake, run, fails, restarts>>

-----------------------------------------------------------------------------
(***************************************************************************)
(* run_l1_block on the block at the front of the queue.                    *)
(***************************************************************************)
Current == lastScanned + 1

\* get_light_client_proof_data_by_l1_height(l1_height - 1).
IsFirst == Current - 1 \notin DOMAIN proofs

PreviousOutput == IF IsFirst THEN GenesisOutput ELSE proofs[Current - 1].output

\* What the run leaves behind once it is over or abandoned.
Discard ==
  /\ pos' = 1
  /\ ws' = EmptyJmt
  /\ out' = GenesisOutput

\* The L1 height is stored under the hash; then the run starts from the JMT as it is on
\* disk, inserts the block's hash and, if there is no previous proof, the method ids.
StartBlock ==
  /\ phase = "queue"
  /\ queued > lastScanned
  /\ slotByHash' = slotByHash \cup {Current}
  /\ IsFirst => jmt.methodIds = << >>
  /\ ws' = [jmt EXCEPT !.hashes = @ \cup {Current},
                       !.methodIds = IF IsFirst THEN InitialMethodIds ELSE @]
  /\ out' = PreviousOutput
  /\ pos' = 1
  /\ phase' = "blobs"
  /\ UNCHANGED <<l1, jmt, proofs, lastScanned, queued, awake, fails, restarts>>

\* assert!(method_ids.is_empty()) in BatchProofMethodIdAccessor::initialize.
PanicOnInitialize ==
  /\ phase = "queue"
  /\ queued > lastScanned
  /\ slotByHash' = slotByHash \cup {Current}
  /\ IsFirst
  /\ jmt.methodIds # << >>
  /\ phase' = "panicked"
  /\ UNCHANGED <<l1, jmt, proofs, lastScanned, queued, awake, run, fails, restarts>>

\* The blob to process now.
Blobs == {l1[Current][n] : n \in {pos} \cap (IF phase = "blobs" THEN DOMAIN l1[Current] ELSE {})}

NextBlob ==
  /\ pos' = pos + 1
  /\ UNCHANGED <<l1, durable, queued, awake, phase, out, fails, restarts>>

\* ChunkAccessor::insert; the sender of a chunk does not matter.
StoreChunk ==
  /\ \E b \in Blobs :
       /\ b.kind = "chunk"
       /\ ws' = [ws EXCEPT !.chunks = Put(@, b.wtxid, b.body)]
  /\ NextBlob

\* The first commitment the sequencer inscribes with an index is the one that counts.
NewCommitment(b) ==
  /\ b.kind = "commitment"
  /\ b.sender = "sequencer"
  /\ b.body.index \notin DOMAIN ws.commitments

StoreCommitment ==
  /\ \E b \in Blobs :
       /\ NewCommitment(b)
       /\ ws' = [ws EXCEPT !.commitments = Put(@, b.body.index, b.body)]
  /\ NextBlob

\* verify_method_id_security_council: three signatures of distinct members, in order.
VerifyMethodIdSecurityCouncil(signatures) ==
  /\ \A i \in DOMAIN signatures : signatures[i].member < 5
  /\ \A i \in 1 .. (Len(signatures) - 1) : signatures[i].member < signatures[i + 1].member
  /\ \A i \in DOMAIN signatures : signatures[i].valid

\* A method id is appended if it activates above all others, is for this chain and is
\* signed by the council.
Upgrades(b) ==
  /\ b.kind = "methodId"
  /\ b.activation > ws.methodIds[Len(ws.methodIds)].activation
  /\ b.chainId = "circuit"
  /\ VerifyMethodIdSecurityCouncil(b.signatures)

AddMethodId ==
  /\ \E b \in Blobs :
       /\ Upgrades(b)
       /\ ws' = [ws EXCEPT !.methodIds = Append(@, [activation |-> b.activation, id |-> b.id])]
  /\ NextBlob

-----------------------------------------------------------------------------
(***************************************************************************)
(* process_complete_proof, for a complete proof and for an aggregate whose *)
(* chunks are all known.                                                   *)
(***************************************************************************)
\* The blob comes from the batch prover and its compressed proof is at hand.
Assembled(b) ==
  /\ b.kind \in {"complete", "aggregate"}
  /\ b.sender = "prover"
  /\ b.kind = "aggregate" =>
       /\ \A i \in DOMAIN b.wtxids : b.wtxids[i] \in DOMAIN ws.chunks
       /\ Len(b.wtxids) <= MaxCompressedBlobSize

Fragments(b) ==
  IF b.kind = "complete" THEN b.body ELSE [i \in DOMAIN b.wtxids |-> ws.chunks[b.wtxids[i]]]

\* The proof the blob decodes to, if it does.
ProofsIn(b) ==
  {Decompress[f] : f \in {Fragments(c) : c \in {d \in {b} : Assembled(d)}} \cap DOMAIN Decompress}

\* Mutant: the id that binary_search would insert before, not the one below.
MutMethodIdFor(height) ==
  LET ids == ws.methodIds
      below == {i \in DOMAIN ids : ids[i].activation <= height}
      n == Cardinality(below) + 1
  IN  ids[IF n > Len(ids) THEN Len(ids) ELSE n].id

\* binary_search_by_key on the activation heights: the last id activated at or below
\* the height, or else the first one.
MethodIdFor(height) ==
  LET ids == ws.methodIds
      below == {i \in DOMAIN ids : ids[i].activation <= height}
  IN  ids[IF below = {} THEN 1 ELSE CHOOSE i \in below : \A j \in below : j <= i].id

\* verify_batch_proof_seq_comm_relation.
VerifyBatchProofSeqCommRelation(p) ==
  /\ IF p.previous = NoCommitment
     THEN p.firstIndex = 1
     ELSE /\ p.previous.index \in DOMAIN ws.commitments
          /\ ws.commitments[p.previous.index] = p.previous
  /\ p.lastIndex - p.firstIndex + 1 = Len(p.hashes)
  /\ \A i \in p.firstIndex .. p.lastIndex :
       /\ i \in DOMAIN ws.commitments
       /\ i = p.lastIndex => ws.commitments[i].end = p.lastL2Height
       /\ ws.commitments[i] = p.hashes[i - p.firstIndex + 1]

\* process_complete_proof returns Ok.
Accepted(p) ==
  /\ p.lastL1Hash \in ws.hashes
  /\ p.lastL2Height > out.height \/ out.height = 0
  /\ p.valid /\ p.methodId = MethodIdFor(p.lastL2Height)
  /\ VerifyBatchProofSeqCommRelation(p)
  /\ p.lastIndex > out.index

\* The state transitions the proof adds.
NewTransitions(p) ==
  [i \in {j \in p.firstIndex .. p.lastIndex : j > out.index /\ j \notin DOMAIN ws.transitions} |->
     [initial |-> p.stateRoots[i - p.firstIndex + 1],
      final   |-> p.stateRoots[i - p.firstIndex + 2],
      end     |-> ws.commitments[i].end]]

AcceptProof ==
  /\ \E b \in Blobs : \E p \in ProofsIn(b) :
       /\ Accepted(p)
       /\ LET new == NewTransitions(p) IN
          ws' = [ws EXCEPT !.transitions =
                   [i \in DOMAIN @ \cup DOMAIN new |->
                      IF i \in DOMAIN @ THEN @[i] ELSE new[i]]]
  /\ NextBlob

\* Everything else: an unparsable blob, a wrong sender, an aggregate with an unknown
\* chunk, a proof or an upgrade that is refused, a commitment whose index is taken.
SkipBlob ==
  /\ \E b \in Blobs :
       /\ b.kind # "chunk"
       /\ ~NewCommitment(b)
       /\ ~Upgrades(b)
       /\ \A p \in ProofsIn(b) : ~Accepted(p)
  /\ UNCHANGED ws
  /\ NextBlob

-----------------------------------------------------------------------------
(***************************************************************************)
(* The end of run_l1_block: the chain of transitions and the check of the  *)
(* JMT root.                                                               *)
(***************************************************************************)
BlobsDone ==
  /\ phase = "blobs"
  /\ pos \notin DOMAIN l1[Current]
  /\ phase' = "chain"
  /\ UNCHANGED <<l1, durable, queued, awake, run, fails, restarts>>

\* One round of the while loop.  A transition that starts from another state root is
\* unreachable!("Commitment with the next index having an unexpected state root").
ChainNext ==
  /\ phase = "chain"
  /\ out.index + 1 \in DOMAIN ws.transitions
  /\ LET t == ws.transitions[out.index + 1] IN
     IF t.initial = out.root
     THEN /\ out' = [root |-> t.final, height |-> t.end, index |-> out.index + 1]
          /\ UNCHANGED phase
     ELSE /\ phase' = "panicked"
          /\ UNCHANGED out
  /\ UNCHANGED <<l1, durable, queued, awake, pos, ws, fails, restarts>>

\* The root the previous output carries, or the constant genesis root.
ExpectedRoot == IF IsFirst THEN EmptyJmt ELSE proofs[Current - 1].lcpRoot

\* Mutant: the root of the JMT is not compared with the previous output's.
MutChainDone ==
  /\ phase = "chain"
  /\ out.index + 1 \notin DOMAIN ws.transitions
  /\ phase' = "prove"
  /\ UNCHANGED <<l1, durable, queued, awake, run, fails, restarts>>

\* Mutant: the JMT is saved before the proof is there.
MutSaveFirst ==
  /\ phase = "chain"
  /\ out.index + 1 \notin DOMAIN ws.transitions
  /\ jmt = ExpectedRoot
  /\ jmt' = ws
  /\ phase' = "prove"
  /\ UNCHANGED <<l1, slotByHash, proofs, lastScanned, queued, awake, run, fails, restarts>>

ChainDone ==
  /\ phase = "chain"
  /\ out.index + 1 \notin DOMAIN ws.transitions
  /\ jmt = ExpectedRoot
  /\ phase' = "prove"
  /\ UNCHANGED <<l1, durable, queued, awake, run, fails, restarts>>

\* assert_eq!(init_root, output.lcp_state_root, "Witness prev root is wrong!").
PanicOnRoot ==
  /\ phase = "chain"
  /\ out.index + 1 \notin DOMAIN ws.transitions
  /\ jmt # ExpectedRoot
  /\ phase' = "panicked"
  /\ UNCHANGED <<l1, durable, queued, awake, run, fails, restarts>>

-----------------------------------------------------------------------------
(***************************************************************************)
(* The rest of process_l1_block.  In the proof, run_circuit repeats the    *)
(* run on the witness, after it has verified the previous proof and that   *)
(* the block's header follows the one of the previous output.              *)
(***************************************************************************)
Prove ==
  /\ phase = "prove"
  /\ IF IsFirst THEN Current = 1 ELSE proofs[Current - 1].daHeight + 1 = Current
  /\ phase' = "finalize"
  /\ UNCHANGED <<l1, durable, queued, awake, run, fails, restarts>>

\* Mutant: the error is logged and the block leaves the queue.
MutProveFails ==
  /\ phase = "prove"
  /\ fails < FailBound
  /\ fails' = fails + 1
  /\ phase' = "scan"
  /\ UNCHANGED <<l1, durable, queued, awake, run, restarts>>

\* The prover service fails.  The error ends process_queued_l1_blocks; the block stays
\* at the front of the queue until the next notification.
ProveFails ==
  /\ phase = "prove"
  /\ fails < FailBound
  /\ fails' = fails + 1
  /\ phase' = "idle"
  /\ Discard
  /\ UNCHANGED <<l1, durable, queued, awake, restarts>>

\* finalize_storage.
FinalizeStorage ==
  /\ phase = "finalize"
  /\ jmt' = ws
  /\ phase' = "insert"
  /\ UNCHANGED <<l1, slotByHash, proofs, lastScanned, queued, awake, run, fails, restarts>>

\* insert_light_client_proof_data_by_l1_height.
InsertProof ==
  /\ phase = "insert"
  /\ proofs' = Put(proofs, Current, [output |-> out, lcpRoot |-> ws, daHeight |-> Current])
  /\ phase' = "scan"
  /\ UNCHANGED <<l1, jmt, slotByHash, lastScanned, queued, awake, run, fails, restarts>>

\* set_last_scanned_l1_height, then pop_front.
SetLastScanned ==
  /\ phase = "scan"
  /\ lastScanned' = Current
  /\ phase' = "queue"
  /\ Discard
  /\ UNCHANGED <<l1, jmt, slotByHash, proofs, queued, awake, fails, restarts>>

-----------------------------------------------------------------------------
(***************************************************************************)
(* Restart: the scan goes on after the last scanned block.  Nothing is     *)
(* repaired at the start.                                                  *)
(***************************************************************************)
Boot ==
  /\ restarts < RestartBound
  /\ restarts' = restarts + 1
  /\ queued' = lastScanned
  /\ awake' = FALSE
  /\ phase' = "idle"
  /\ Discard
  /\ UNCHANGED <<l1, durable, fails>>

\* The shutdown signal is polled only while the task is idle.
StopAndStart == phase = "idle" /\ Boot

\* The process dies anywhere and is started again.
CrashAndStart == Boot

Handler ==
  \/ QueueEmpty \/ StartBlock \/ PanicOnInitialize
  \/ StoreChunk \/ StoreCommitment \/ AddMethodId \/ AcceptProof \/ SkipBlob \/ BlobsDone
  \/ ChainNext \/ ChainDone \/ PanicOnRoot
  \/ Prove \/ ProveFails \/ FinalizeStorage \/ InsertProof \/ SetLastScanned

Task == SyncL1 \/ Notified \/ Handler

Next == FinalizeL1Block \/ Task \/ StopAndStart

CrashNext == FinalizeL1Block \/ Task \/ CrashAndStart

\* Restarts are graceful.
Spec == Init /\ [][Next]_vars

\* Bitcoin grows, tokio polls the task, and select! polls the notification whenever
\* sync_l1, polled first, waits.  Restarts are not fair, and failures are bounded.
FairSpec ==
  /\ Spec
  /\ WF_vars(FinalizeL1Block)
  /\ WF_vars(SyncL1)
  /\ WF_vars(Notified)
  /\ WF_vars(Handler)

\* The node may crash between any two steps.
CrashSpec == Init /\ [][CrashNext]_vars

-----------------------------------------------------------------------------
(***************************************************************************)
(* What the chain says: a reference for the circuit that looks only at the *)
(* blobs of the finalized blocks, at positions <<height, n>>, and carries  *)
(* nothing from one block to the next.                                     *)
(***************************************************************************)
Positions(h) == UNION {{<<b, n>> : n \in DOMAIN l1[b]} : b \in (1 .. h) \cap DOMAIN l1}

BlobAt(q) == l1[q[1]][q[2]]

\* The positions before at that hold a blob of this kind.
Earlier(at, kind) == {q \in Positions(at[1]) : Before(q, at) /\ BlobAt(q).kind = kind}

\* The first commitment with index i the sequencer inscribed before position at.
Canonical(i, at) ==
  LET Q == {q \in Earlier(at, "commitment") :
              BlobAt(q).sender = "sequencer" /\ BlobAt(q).body.index = i}
  IN  IF Q = {} THEN NoCommitment
      ELSE BlobAt(CHOOSE q \in Q : \A r \in Q \ {q} : Before(q, r)).body

\* The upgrades the council signed for this chain, before position at.
Authorised(at) ==
  {q \in Earlier(at, "methodId") :
     LET S == BlobAt(q).signatures IN
     /\ BlobAt(q).chainId = "circuit"
     /\ \A i \in DOMAIN S : S[i].valid /\ S[i].member \in 0 .. 4
     /\ \A i, j \in DOMAIN S : i < j => S[i].member < S[j].member}

\* The method id in force at an L2 height, of the initial ones and of the upgrades
\* that activate above everything authorised before them.
InForce(height, at) ==
  LET initial == {InitialMethodIds[i] : i \in DOMAIN InitialMethodIds}
      rising  == {q \in Authorised(at) :
                    /\ \A m \in initial : m.activation < BlobAt(q).activation
                    /\ \A r \in Authorised(q) : BlobAt(r).activation < BlobAt(q).activation}
      all     == initial \cup {[activation |-> BlobAt(q).activation, id |-> BlobAt(q).id] :
                                 q \in rising}
      below   == {m \in all : m.activation <= height}
  IN  IF below = {} THEN (CHOOSE m \in all : \A k \in all : m.activation <= k.activation).id
      ELSE (CHOOSE m \in below : \A k \in below : k.activation <= m.activation).id

\* The chunks inscribed before position at, by anyone.
ChunksBefore(at) == {BlobAt(q) : q \in Earlier(at, "chunk")}

\* The proof the batch prover inscribed at position q, whole or by naming its chunks.
InscribedProofs(q) ==
  LET b == BlobAt(q) IN
  {Decompress[f] : f \in {g \in DOMAIN Decompress :
     \/ b.kind = "complete" /\ b.sender = "prover" /\ g = b.body
     \/ /\ b.kind = "aggregate"
        /\ b.sender = "prover"
        /\ Len(g) <= MaxCompressedBlobSize
        /\ DOMAIN g = DOMAIN b.wtxids
        /\ \A i \in DOMAIN g :
             [kind |-> "chunk", wtxid |-> b.wtxids[i], body |-> g[i]] \in ChunksBefore(q)}}

\* The proofs at position q that prove canonical commitments with the right method.
Qualified(q) ==
  {p \in InscribedProofs(q) :
     /\ p.valid
     /\ p.lastL1Hash \in 1 .. q[1]
     /\ p.previous # NoCommitment => Canonical(p.firstIndex - 1, q) = p.previous
     /\ Len(p.hashes) = Cardinality(p.firstIndex .. p.lastIndex)
     /\ \A i \in DOMAIN p.hashes : Canonical(p.firstIndex + i - 1, q) = p.hashes[i]
     /\ p.methodId = InForce(p.lastL2Height, q)}

\* What the proofs at each position cover, in the blocks that have an output.
CoveredAt ==
  [q \in UNION {Positions(h) : h \in DOMAIN proofs} |->
     UNION {p.firstIndex .. p.lastIndex : p \in Qualified(q)}]

\* The greatest n such that the blocks up to h prove every index in 1..n.
ProvenUpTo(h, coveredAt) ==
  LET covered == UNION {coveredAt[q] : q \in {r \in DOMAIN coveredAt : r[1] <= h}}
      good    == {n \in {0} \cup covered : 1 .. n \subseteq covered}
  IN  CHOOSE n \in good : \A m \in good : m <= n

-----------------------------------------------------------------------------
(***************************************************************************)
(* Properties.                                                             *)
(***************************************************************************)
\* The durable and volatile state of the prover has the types of its tables.
TypeOK ==
  /\ l1 \in Seq(L1Contents)
  /\ \A J \in {jmt, ws} :
       /\ J.hashes \subseteq 1 .. Len(l1)
       /\ IsTable(J.commitments, Nat, SequencerCommitments)
       /\ IsTable(J.transitions, DOMAIN J.commitments, [initial : Nat, final : Nat, end : Nat])
       /\ \A i \in 1 .. (Len(J.methodIds) - 1) :
            J.methodIds[i].activation < J.methodIds[i + 1].activation
  /\ slotByHash \subseteq 1 .. Len(l1)
  /\ DOMAIN proofs \subseteq slotByHash
  /\ lastScanned \in 0 .. queued
  /\ queued \in 0 .. Len(l1)
  /\ awake \in BOOLEAN
  /\ phase \in {"idle", "queue", "blobs", "chain", "prove", "finalize", "insert", "scan",
                "panicked"}
  /\ pos \in Nat \ {0}
  /\ out \in [root : Nat, height : Nat, index : Nat]

\* The output proven for a Bitcoin block is what the blocks up to it say and nothing
\* else: the canonical commitment up to which proofs, in whatever order, in whatever
\* overlap, in one blob or in chunks, cover every index.  Commitments inscribed twice,
\* proofs before their commitments, method upgrades between a commitment and its proof,
\* failed proving attempts and crashes make no difference.
OutputMatchesL1 ==
  \A coveredAt \in {CoveredAt}, h \in DOMAIN proofs :
    LET n == ProvenUpTo(h, coveredAt)
        c == Canonical(n, <<h + 1, 0>>)
    IN  proofs[h].output = IF n = 0 THEN GenesisOutput
                           ELSE [root |-> LastState(c), height |-> c.end, index |-> n]

\* Neither the unreachable! of the chain loop nor one of the asserts on the JMT is
\* ever reached.
NeverPanics == phase # "panicked"

\* The JMT on disk is the one the last stored output commits to, except between
\* finalize_storage and set_last_scanned_l1_height: a failed proving attempt leaves no
\* trace, and the next block starts from what the last proof says.
JmtMatchesProof ==
  phase \notin {"insert", "scan"} =>
    jmt = IF lastScanned = 0 THEN EmptyJmt ELSE proofs[lastScanned].lcpRoot

\* Only the first block is proven without a predecessor ("Creating initial light client
\* proof"): no order of crashes and failures makes the prover start again from the L2
\* genesis in the middle of the chain.
StartsFromGenesisOnce == lastScanned > 0 => lastScanned \in DOMAIN proofs

\* A stored proof is final: no restart proves a block again with another output.
StoredProofKept ==
  [][\A h \in DOMAIN proofs : h \in DOMAIN proofs' /\ proofs'[h] = proofs[h]]_vars

\* Whenever a block is still to be fetched or a notification is pending, every
\* finalized block gets its proof, unless a proving attempt fails first: sync_l1's
\* notification before the push is not lost, even when the queue is full.
BlocksBecomeProven ==
  \A n \in 0 .. FailBound :
    (fails = n /\ (awake \/ queued < Len(l1))) ~> (lastScanned = Len(l1) \/ fails > n)
=============================================================================
