---------------------------- MODULE BatchCircuit ----------------------------
(***************************************************************************)
(* The checks of the batch proof circuit on its input.                     *)
(*                                                                         *)
(* The sequencer makes a chain of L2 blocks and commits to ranges of it.   *)
(* The batch prover builds the input of a job from its ledger; the input   *)
(* reaches the guest as it was built or altered in a few places; the guest *)
(* goes through the commitments and their blocks and stops at the first    *)
(* check that fails.                                                       *)
(*                                                                         *)
(* A hash names one block, and a Merkle root is the sequence of its        *)
(* leaves.  What a block does to the state is its root `gives' on the root *)
(* `on' under its spec, and something else on any other root or spec.      *)
(***************************************************************************)
EXTENDS Naturals, Sequences, FiniteSets, FiniteSetsExt, SequencesExt, Tables

CONSTANTS
  ForkList,       \* the forks of the network, in order
  KnownPrev,      \* whether the guest has the hash before the first proven block
  None,           \* an absent commitment, hash or proof
  MaxHeight,      \* bound: L2 blocks
  FaultBound,     \* bound: failed attempts and restarts of the sequencer
  AlterBound      \* bound: places of the input that are altered

(***************************************************************************)
(* The list of forks and the fork manager, which follows the active fork   *)
(* block by block.  A fork is a record of its spec and the L2 height at    *)
(* which it is activated; specs are the numbers of the SpecId enum.        *)
(***************************************************************************)
Tangerine == 2

\* verify_forks: the first fork starts at 0, specs go up by one, heights go up.
VerifyForks(forks) ==
  \A i \in DOMAIN forks :
    IF i = 1 THEN forks[i].height = 0
    ELSE /\ forks[i].spec = forks[i - 1].spec + 1
         /\ forks[i].height > forks[i - 1].height

\* fork_pos_from_block_number: the fork whose height the search meets, or the
\* one before the place where it would be (from 1).
ForkPos(forks, h) ==
  LET below == {i \in DOMAIN forks : forks[i].height <= h}
  IN IF below = {} THEN 1 ELSE Max(below)

\* fork_from_block_number
SpecAt(forks, h) == forks[ForkPos(forks, h)].spec

\* ForkManager::register_block: at most one fork is activated per block.
RegisterBlock(forks, pos, h) ==
  IF pos = Len(forks) \/ h < forks[pos + 1].height THEN pos ELSE pos + 1

\* The height of the first fork from Tangerine on, from where blocks are proven.
ProvingActivationHeight(forks) ==
  forks[Min({i \in DOMAIN forks : forks[i].spec >= Tangerine})].height

\* get_tangerine_activation_height_non_zero
TangerineActivationHeightNonZero(forks) ==
  IF forks[1].spec > Tangerine THEN 1
  ELSE LET h == forks[CHOOSE i \in DOMAIN forks : forks[i].spec = Tangerine].height
       IN IF h = 0 THEN 1 ELSE h

ASSUME ForksAssumption == VerifyForks(ForkList) /\ ForkList # <<>>
ASSUME CircuitAssumption ==
  KnownPrev \in BOOLEAN /\ {MaxHeight, FaultBound, AlterBound} \subseteq Nat

VARIABLES
  chain,        \* the L2 blocks by height
  seqFork,      \* the active fork of the sequencer's fork manager
  commitments,  \* the commitments by index
  input,        \* the input of the guest; None until it is created
  guest,        \* the guest
  count         \* faults and alterations so far

vars == <<chain, seqFork, commitments, input, guest, count>>

First == TangerineActivationHeightNonZero(ForkList)
Height == Len(chain)

\* The block at a height, another one with the same effect, and one that claims
\* a root it does not lead to.
Block(h, spec) == [height |-> h, hash |-> h, prev |-> h - 1, on |-> h - 1, gives |-> h,
                   root |-> h, spec |-> spec]
Twin(b) == [b EXCEPT !.hash = 100 + b.height]
Liar(b) == [b EXCEPT !.hash = 200 + b.height, !.root = 200 + b.height]
Hashes(bs) == [i \in DOMAIN bs |-> bs[i].hash]

\* ForkManager::new at a height.
ForkManagerNew(h) == ForkPos(ForkList, h)

Init ==
  /\ chain = <<>>
  /\ seqFork = ForkManagerNew(0)
  /\ commitments = <<>>
  /\ input = None
  /\ guest = [pc |-> "idle"]
  /\ count = [fault |-> 0, alter |-> 0]

-----------------------------------------------------------------------------
(* The sequencer.                                                          *)

\* produce_l2_block: the height is registered with the fork manager and the
\* block executed under the active fork.
ProduceBlock ==
  /\ input = None /\ Height < MaxHeight
  /\ seqFork' = RegisterBlock(ForkList, seqFork, Height + 1)
  /\ chain' = Append(chain, Block(Height + 1, ForkList[seqFork'].spec))
  /\ UNCHANGED <<commitments, input, guest, count>>

\* The block fails after its height was registered; it is tried again.
FailBlock ==
  /\ input = None /\ Height < MaxHeight /\ count.fault < FaultBound
  /\ seqFork' = RegisterBlock(ForkList, seqFork, Height + 1)
  /\ count' = [count EXCEPT !.fault = @ + 1]
  /\ UNCHANGED <<chain, commitments, input, guest>>

\* A new process starts from the head block (ForkManager::new).
Restart ==
  /\ input = None /\ count.fault < FaultBound
  /\ seqFork' = ForkManagerNew(Height)
  /\ count' = [count EXCEPT !.fault = @ + 1]
  /\ UNCHANGED <<chain, commitments, input, guest>>

\* The first block after the commitment with this index.
NextStart(i) == IF i = 0 THEN First ELSE commitments[i].end + 1

\* A commitment over the blocks since the last one.
Commit ==
  /\ input = None
  /\ \E end \in NextStart(Len(commitments))..Height :
       commitments' = Append(commitments,
         [index |-> Len(commitments) + 1, end |-> end,
          root |-> Hashes(SubSeq(chain, NextStart(Len(commitments)), end))])
  /\ UNCHANGED <<chain, seqFork, input, guest, count>>

-----------------------------------------------------------------------------
(* The batch prover.                                                       *)

RootAt(h) == IF h = 0 THEN 0 ELSE chain[h].root

\* get_prev_hash_proof: the last header of the previous commitment and its
\* path, of which only the number of siblings is kept.
PrevHashProof(c) ==
  LET start == NextStart(c.index - 1)
  IN [header |-> chain[c.end], start |-> start, count |-> c.end - start + 1]

\* get_batch_proof_circuit_input_from_commitments: the blocks per commitment.
L2Blocks(i, j) == [n \in 1..(j - i + 1) |-> SubSeq(chain, NextStart(i + n - 2), commitments[i + n - 1].end)]

\* BatchProofCircuitInputV3: what the guest reads of its input for the commitments i..j.
Input(i, j) ==
  [initialRoot |-> RootAt(NextStart(i - 1) - 1),
   previous |-> IF i = 1 THEN None ELSE commitments[i - 1],
   prevProof |-> IF i = 1 THEN None ELSE PrevHashProof(commitments[i - 1]),
   commitments |-> SubSeq(commitments, i, j),
   blocks |-> L2Blocks(i, j)]

\* create_circuit_input
CreateInput ==
  /\ input = None
  /\ \E i \in DOMAIN commitments : \E j \in i..Len(commitments) : input' = Input(i, j)
  /\ UNCHANGED <<chain, seqFork, commitments, guest, count>>

\* The inputs that differ from x in one place.
Indexed(x) == {[x EXCEPT !.commitments[i].index = n] :
                 i \in DOMAIN x.commitments, n \in 1..(Len(commitments) + 1)}
Ended(x) == {[x EXCEPT !.commitments[i].end = n] :
               i \in DOMAIN x.commitments, n \in First..MaxHeight}
Recommitted(x) ==
  {[x EXCEPT !.commitments = [i \in DOMAIN @ |-> [@[i] EXCEPT !.root = Hashes(x.blocks[i])]]]}
Replaced(x) ==
  UNION {UNION {{[x EXCEPT !.blocks[g][i] = Twin(@)], [x EXCEPT !.blocks[g][i] = Liar(@)]} :
                  i \in DOMAIN x.blocks[g]} : g \in DOMAIN x.blocks}
Dropped(x) ==
  {[x EXCEPT !.blocks[g] = Tail(@)] : g \in DOMAIN x.blocks}
  \cup {[x EXCEPT !.blocks[g] = Front(@)] : g \in DOMAIN x.blocks}
Moved(x) ==
  {[x EXCEPT !.blocks[g] = Front(@), !.blocks[g + 1] = <<Last(x.blocks[g])>> \o @] :
     g \in 1..(Len(x.blocks) - 1)}
OtherPrevious(x) ==
  {[x EXCEPT !.previous = None, !.prevProof = None]}
  \cup {[x EXCEPT !.previous = commitments[i], !.prevProof = PrevHashProof(commitments[i]),
                  !.initialRoot = RootAt(commitments[i].end)] : i \in DOMAIN commitments}
OtherHeader(x) ==
  IF x.prevProof = None THEN {}
  ELSE {[x EXCEPT !.prevProof.header = chain[h], !.initialRoot = RootAt(h)] : h \in First..Height}
       \cup {[x EXCEPT !.prevProof.start = h] : h \in First..Height}
       \cup {[x EXCEPT !.prevProof.header = Twin(@)]}
Rerooted(x) == {[x EXCEPT !.initialRoot = RootAt(h)] : h \in 0..Height}

\* One place of the input is altered; no group of blocks is left empty by a
\* drop that has nothing to drop.
Alter ==
  /\ input # None /\ guest.pc = "idle" /\ count.alter < AlterBound
  /\ \A g \in DOMAIN input.blocks : input.blocks[g] # <<>>
  /\ input' \in UNION {Indexed(input), Ended(input), Recommitted(input), Replaced(input),
                       Dropped(input), Moved(input), OtherPrevious(input), OtherHeader(input), Rerooted(input)}
                \ {input}
  /\ count' = [count EXCEPT !.alter = @ + 1]
  /\ UNCHANGED <<chain, seqFork, commitments, guest>>

-----------------------------------------------------------------------------
(* The guest: apply_l2_blocks_from_sequencer_commitments.                  *)

\* The siblings on the path of the last of n leaves (rs_merkle): one for every
\* level on which it is a right child.
Ones[n \in 0..(2 * MaxHeight)] == IF n = 0 THEN 0 ELSE (n % 2) + Ones[n \div 2]
Siblings(n) == Ones[n - 1]

\* MerkleProof::verify of the last of the claimed number of leaves: the path
\* leads to the last leaf when it has the expected length.
VerifyLast(root, proof, claimed) ==
  /\ Siblings(claimed) = Siblings(proof.count)
  /\ Siblings(Len(root)) = Siblings(proof.count)
  /\ proof.header.hash = Last(root)

\* The checks on the previous commitment's last header.
PrevHashOk(x) ==
  IF x.previous = None THEN x.prevProof = None
  ELSE /\ x.prevProof # None
       /\ x.prevProof.header.root = x.initialRoot
       /\ x.previous.end >= x.prevProof.start
       /\ VerifyLast(x.previous.root, x.prevProof, x.previous.end - x.prevProof.start + 1)

\* The first commitment follows the previous one.
FirstIndexOk(x) ==
  IF x.previous = None THEN x.commitments[1].index = 1
  ELSE x.previous.index # 0 /\ x.previous.index + 1 = x.commitments[1].index

\* The last height proven before; for the first proof, the one before the fork.
PrevEnd(x) ==
  IF x.previous # None THEN x.previous.end
  ELSE LET h == ProvingActivationHeight(ForkList) IN IF h = 0 THEN 0 ELSE h - 1

Panic == [pc |-> "panic"]

\* Everything up to the first commitment.
GuestBegin ==
  /\ input # None /\ guest.pc = "idle"
  /\ guest' =
       IF ~PrevHashOk(input) \/ ~FirstIndexOk(input)
            \/ Len(input.blocks) # Len(input.commitments)
         THEN Panic
       ELSE [pc |-> "blocks", ci |-> 1, bi |-> 1, height |-> PrevEnd(input) + 1,
             root |-> input.initialRoot, roots |-> <<input.initialRoot>>,
             prev |-> CASE input.previous # None -> input.prevProof.header.hash
                        [] input.previous = None /\ KnownPrev -> First - 1
                        [] OTHER -> None,
             fork |-> ForkManagerNew(PrevEnd(input) + 1), specs |-> EmptyTable]
  /\ UNCHANGED <<chain, seqFork, commitments, input, count>>

ParentOk(b) == b.height = guest.height /\ guest.prev \in {None, b.prev}

\* apply_l2_block on the current root: the root it leads to.
FinalRoot(b, root, spec) == IF root = b.on /\ spec = b.spec THEN b.gives ELSE 300 + b.height

\* One block of a commitment.
GuestBlock ==
  /\ guest.pc = "blocks" /\ guest.bi <= Len(input.blocks[guest.ci])
  /\ LET b == input.blocks[guest.ci][guest.bi]
         fork == RegisterBlock(ForkList, guest.fork, guest.height)
         root == FinalRoot(b, guest.root, ForkList[fork].spec)
     IN guest' = IF ~ParentOk(b) \/ root # b.root THEN Panic
                 ELSE [guest EXCEPT !.bi = @ + 1, !.height = @ + 1, !.root = root,
                         !.prev = b.hash, !.fork = fork,
                         !.specs = Put(@, b.height, ForkList[fork].spec)]
  /\ UNCHANGED <<chain, seqFork, commitments, input, count>>

\* Mutant: the root of the commitment is not recomputed.
MutCommitmentOk(c, bs) == bs # <<>> /\ c.end = guest.height - 1

\* The Merkle root of the blocks and the end of the commitment.
CommitmentOk(c, bs) == bs # <<>> /\ c.root = Hashes(bs) /\ c.end = guest.height - 1

\* The end of a commitment; after the last one the output is complete.
GuestCommitment ==
  /\ guest.pc = "blocks" /\ guest.bi > Len(input.blocks[guest.ci])
  /\ guest' = IF ~CommitmentOk(input.commitments[guest.ci], input.blocks[guest.ci]) THEN Panic
              ELSE [guest EXCEPT !.ci = @ + 1, !.bi = 1, !.roots = Append(@, guest.root),
                      !.pc = IF guest.ci = Len(input.commitments) THEN "done" ELSE @]
  /\ UNCHANGED <<chain, seqFork, commitments, input, count>>

Next ==
  \/ ProduceBlock \/ FailBlock \/ Restart \/ Commit
  \/ CreateInput \/ Alter
  \/ GuestBegin \/ GuestBlock \/ GuestCommitment

Spec == Init /\ [][Next]_vars

-----------------------------------------------------------------------------
Done == guest.pc = "done"
Published(c) == c.index \in DOMAIN commitments /\ c = commitments[c.index]

\* The guest gets through every input the batch prover builds, whatever range
\* of commitments it is for and wherever forks fall in it.
HonestInputAccepted == (input # None /\ count.alter = 0) => guest.pc # "panic"

\* When the commitments of an accepted input are the published ones, the blocks
\* are those of the chain after the previous commitment, in order and complete,
\* and the output's roots are the chain's roots at the commitments' ends.
OutputIsChain ==
  (Done /\ (\A i \in DOMAIN input.commitments : Published(input.commitments[i]))
        /\ (input.previous # None => Published(input.previous)))
    => LET start == PrevEnd(input) + 1
           end == Last(input.commitments).end
       IN /\ FlattenSeq(input.blocks) = SubSeq(chain, start, end)
          /\ guest.roots = <<RootAt(start - 1)>>
                             \o [i \in DOMAIN input.commitments |-> RootAt(input.commitments[i].end)]

\* Even for commitments nobody published, the blocks of an accepted input form
\* one chain: heights without a gap, each block on the hash and the state of
\* the one before, starting from the last block of the previous commitment.
AcceptedIsLinked ==
  Done =>
    LET bs == FlattenSeq(input.blocks)
    IN /\ \A i \in 1..(Len(bs) - 1) :
            /\ bs[i + 1].height = bs[i].height + 1
            /\ bs[i + 1].prev = bs[i].hash /\ bs[i + 1].on = bs[i].root
       /\ input.previous # None =>
            /\ Head(bs).prev = Last(input.previous.root)
            /\ Head(bs).on = input.initialRoot
            /\ Head(bs).height = input.previous.end + 1
            /\ Head(input.commitments).index = input.previous.index + 1

\* The sequencer, through failed attempts and restarts, the batch prover and the
\* guest execute a block under the same spec, each by its own way to the fork.
SpecsAgree ==
  /\ \A h \in DOMAIN chain : chain[h].spec = SpecAt(ForkList, h)
  /\ Done => \A h \in DOMAIN guest.specs : guest.specs[h] = SpecAt(ForkList, h)
=============================================================================
