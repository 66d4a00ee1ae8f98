------------------------ MODULE CommitmentsRecovery -------------------------
(***************************************************************************)
(* Why the sequencer's commitment service cuts the chain only once: the    *)
(* inductive invariant, and the steps of block production and of start-up, *)
(* which keep it.  The loop and the theorems are in CommitmentsProofs.     *)
(*                                                                         *)
(* The argument.  Where a range ends is a function of the chain and of its *)
(* start (CutUnique), and where it starts follows from the commitment of   *)
(* the index before, which is stored before the next one is made and is    *)
(* never overwritten.  So a range that is cut again after a stop is the    *)
(* range that was cut before, provided the service accumulates the diffs   *)
(* of the very same blocks: they are deleted only once their commitment    *)
(* is stored.                                                              *)
(***************************************************************************)
EXTENDS Commitments, FiniteSetTheorems

\* How long the provers may take for a step, so that a slow machine finds the proofs too.
USE SMTT(40), ZenonT(40)

\* A commitment that was made; Nothing is none of them.
Commitment == [index : Nat \ {0}, start : Nat \ {0}, end : Nat]
Block == [diff : BlockDiffs, l1 : Nat]

\* The keys written by the blocks from .. to of the chain ch.
Union(ch, from, to) == UNION {ch[h].diff : h \in from .. to}

\* The commitment c covers blocks of the chain ch, fits in one transaction body, and one
\* more block would be too many or too much.
IsCut(ch, c) ==
  /\ c.start <= c.end /\ c.end <= Len(ch)
  /\ c.end - c.start + 1 <= MaxL2Blocks
  /\ ~OverLimit(Union(ch, c.start, c.end))
  /\ \/ c.end - c.start + 1 = MaxL2Blocks
     \/ c.end < Len(ch) /\ OverLimit(Union(ch, c.start, c.end + 1))

\* The commitment c continues the stored ones: it starts behind a stored predecessor.
Continues(stored, c) ==
  IF c.index = 1 THEN c.start = FirstHeight
  ELSE c.index - 1 \in DOMAIN stored /\ c.start = stored[c.index - 1].end + 1

\* The stored commitments have the indices 1 .. n.
Dense(stored, n) ==
  stored \in [1 .. n -> Commitment] /\ \A i \in 1 .. n : stored[i].index = i

\* An index names one commitment of K.
Agree(K) == \A c, d \in K : c.index = d.index => c = d

\* Every commitment some part of the system knows of.
Known == (Everywhere \cup toStore \cup {current}) \ {Nothing}

-----------------------------------------------------------------------------
(***************************************************************************)
(* Unions of diffs.                                                        *)
(***************************************************************************)
\* The diffs of blocks are finite sets of keys, and so is their union.
LEMMA UnionFinite ==
  ASSUME NEW ch \in Seq(Block), NEW from \in Nat \ {0}, NEW to \in Nat, to <= Len(ch)
  PROVE  Union(ch, from, to) \subseteq Keys /\ IsFiniteSet(Union(ch, from, to))
  <1>1. \A h \in from .. to : ch[h].diff \subseteq Keys
    <2>. TAKE h \in from .. to
    <2>1. h \in 1 .. Len(ch)
      OBVIOUS
    <2>2. ch[h] \in Block
      BY <2>1
    <2>. QED  BY <2>2 DEF Block, BlockDiffs
  <1>2. Union(ch, from, to) \subseteq Keys
    BY <1>1 DEF Union
  <1>. QED  BY <1>2, FS_Subset, CommitmentsAssumption

\* A longer range writes at least as much.
LEMMA UnionGrows ==
  ASSUME NEW ch, NEW from \in Nat, NEW b \in Nat, NEW d \in Nat, b <= d
  PROVE  Union(ch, from, b) \subseteq Union(ch, from, d)
  BY DEF Union

\* One more block adds its own diff.
LEMMA UnionStep ==
  ASSUME NEW ch, NEW from \in Nat, NEW b \in Nat, from <= b + 1
  PROVE  Union(ch, from, b + 1) = Union(ch, from, b) \cup ch[b + 1].diff
  <1>1. from .. (b + 1) = (from .. b) \cup {b + 1}
    OBVIOUS
  <1>. QED  BY <1>1 DEF Union

\* No block writes nothing.
LEMMA UnionEmpty ==
  ASSUME NEW ch, NEW from \in Nat, NEW b \in Nat, b < from
  PROVE  Union(ch, from, b) = {}
  <1>1. from .. b = {}
    OBVIOUS
  <1>. QED  BY <1>1 DEF Union

\* A new block changes nothing of the blocks before.
LEMMA UnionKept ==
  ASSUME NEW ch \in Seq(Block), NEW x \in Block,
         NEW from \in Nat \ {0}, NEW b \in Nat, b <= Len(ch)
  PROVE  Union(Append(ch, x), from, b) = Union(ch, from, b)
  <1>1. \A h \in from .. b : Append(ch, x)[h] = ch[h]
    OBVIOUS
  <1>. QED  BY <1>1 DEF Union

\* A set that holds one over the limit is over the limit, if it is finite.
LEMMA OverLimitGrows ==
  ASSUME NEW A, NEW B, IsFiniteSet(B), A \subseteq B, OverLimit(A)
  PROVE  OverLimit(B)
  <1>1. IsFiniteSet(A) /\ Cardinality(A) <= Cardinality(B)
    BY FS_Subset
  <1>2. Cardinality(A) \in Nat /\ Cardinality(B) \in Nat
    BY <1>1, FS_CardinalityType
  <1>. QED  BY <1>1, <1>2, CommitmentsAssumption DEF OverLimit

(***************************************************************************)
(* should_commit: where a commitment ends is a function of the chain and   *)
(* of its start.                                                           *)
(***************************************************************************)
\* Of two cuts with one start, neither ends before the other.
LEMMA CutNotShorter ==
  ASSUME NEW ch \in Seq(Block), NEW c \in Commitment, NEW d \in Commitment,
         IsCut(ch, c), IsCut(ch, d), c.start = d.start
  PROVE  ~(c.end < d.end)
  <1>. SUFFICES ASSUME c.end < d.end  PROVE FALSE
    OBVIOUS
  <1>0. /\ c.start \in Nat \ {0} /\ c.end \in Nat /\ d.end \in Nat /\ d.end <= Len(ch)
        /\ MaxL2Blocks \in Nat
    BY CommitmentsAssumption DEF Commitment, IsCut
  <1>1. c.end - c.start + 1 # MaxL2Blocks
    BY <1>0 DEF IsCut
  <1>2. OverLimit(Union(ch, c.start, c.end + 1))
    BY <1>1 DEF IsCut
  <1>3. Union(ch, c.start, c.end + 1) \subseteq Union(ch, c.start, d.end)
    BY <1>0, UnionGrows
  <1>4. IsFiniteSet(Union(ch, c.start, d.end))
    BY <1>0, UnionFinite
  <1>5. OverLimit(Union(ch, c.start, d.end))
    BY <1>2, <1>3, <1>4, OverLimitGrows
  <1>. QED  BY <1>5 DEF IsCut

\* A cut is determined by its start.
LEMMA CutUnique ==
  ASSUME NEW ch \in Seq(Block), NEW c \in Commitment, NEW d \in Commitment,
         IsCut(ch, c), IsCut(ch, d), c.index = d.index, c.start = d.start
  PROVE  c = d
  <1>1. ~(c.end < d.end) /\ ~(d.end < c.end)
    BY CutNotShorter
  <1>2. c.end \in Nat /\ d.end \in Nat
    BY DEF Commitment
  <1>3. c.end = d.end
    BY <1>1, <1>2
  <1>. QED  BY <1>3 DEF Commitment

\* A cut stays one when the chain grows.
LEMMA CutKept ==
  ASSUME NEW ch \in Seq(Block), NEW x \in Block, NEW c \in Commitment, IsCut(ch, c)
  PROVE  IsCut(Append(ch, x), c)
  <1>0. /\ c.start \in Nat \ {0} /\ c.end \in Nat
        /\ Len(Append(ch, x)) = Len(ch) + 1 /\ Len(ch) \in Nat
    BY DEF Commitment
  <1>1. Union(Append(ch, x), c.start, c.end) = Union(ch, c.start, c.end)
    BY <1>0, UnionKept DEF IsCut
  <1>2. c.end < Len(ch) => Union(Append(ch, x), c.start, c.end + 1) = Union(ch, c.start, c.end + 1)
    BY <1>0, UnionKept
  <1>. QED  BY <1>0, <1>1, <1>2 DEF IsCut

-----------------------------------------------------------------------------
(***************************************************************************)
(* The inductive invariant.                                                *)
(***************************************************************************)
\* get_last_commitment on the table t.
LastOf(t) ==
  IF t = EmptyTable THEN Nothing
  ELSE t[CHOOSE i \in DOMAIN t : \A j \in DOMAIN t : j <= i]

\* What the parts of the state are made of.
Types ==
  /\ chain \in Seq(Block)
  /\ DOMAIN diffs \subseteq Nat
  /\ toStore \subseteq Commitment
  /\ next \in [index : Nat \ {0}, start : Nat \ {0}]
  /\ last \in Nat /\ head \in Nat
  /\ current \in Commitment \cup {Nothing}
  /\ requests \in Seq(Commitment) /\ txQueue \in Seq(Commitment)
  /\ mempool \in Seq(Commitment) /\ l1 \in Seq(Seq(Commitment))

\* Whatever anybody knows is a cut of the chain, continues the stored commitments, and
\* has an index nothing else has.
KnownFits(K, ch, stored) ==
  /\ \A c \in K : c \in Commitment /\ IsCut(ch, c) /\ Continues(stored, c)
  /\ Agree(K)

\* The diff of the block being built waits for its block.
BuiltHasDiff ==
  built => Len(chain) + 1 \in DOMAIN diffs /\ diffs[Len(chain) + 1] \in BlockDiffs

\* While the service runs, the accumulated diff is that of the blocks from the start of
\* the next commitment to the last block looked at, which are not yet worth a commitment.
Accumulated ==
  pc \in {"idle", "check", "sending", "stored"} =>
    /\ next.start <= last + 1 /\ last <= Len(chain)
    /\ last - next.start + 1 < MaxL2Blocks
    /\ acc = Union(chain, next.start, last)
    /\ ~OverLimit(acc)

\* The next commitment is the one behind the last stored, or behind the one being sent.
NextFollows ==
  /\ pc \in {"idle", "check", "stored"} =>
       next = [index |-> LastCommitment.index + 1, start |-> LastCommitment.end + 1]
  /\ pc = "sending" =>
       /\ current \in Commitment
       /\ current.index = LastCommitment.index + 1
       /\ next = [index |-> current.index + 1, start |-> current.end + 1]
  /\ pc = "stored" => current = LastCommitment /\ current \in Commitment

\* The recovery looks for commitments only behind a block, and finds at most the one
\* behind the last stored.
RecoveryFollows ==
  /\ pc \in {"pending", "mined"} => chain # << >>
  /\ pc = "store" => \A c \in toStore : c.index = LastCommitment.index + 1
  /\ pc = "storedFromDa" =>
       toStore = {current} /\ current = LastCommitment /\ current \in Commitment

IInv ==
  /\ Types
  /\ Dense(commitments, LastCommitment.index) /\ LastCommitment.index \in Nat
  /\ KnownFits(Known, chain, commitments)
  /\ UncommittedDiffsKept
  /\ BuiltHasDiff
  /\ head <= Len(chain)
  /\ Accumulated
  /\ NextFollows
  /\ RecoveryFollows
  /\ NeverPanics

-----------------------------------------------------------------------------
(***************************************************************************)
(* The table of stored commitments.                                        *)
(***************************************************************************)
\* The last commitment of a dense table is the one with the highest index.
LEMMA LastOfDense ==
  ASSUME NEW t, NEW n \in Nat, Dense(t, n)
  PROVE  /\ LastOf(t) = IF n = 0 THEN Nothing ELSE t[n]
         /\ LastOf(t).index = n /\ LastOf(t).end \in Nat
         /\ n # 0 => LastOf(t) \in Commitment /\ LastOf(t) # Nothing
  <1>1. DOMAIN t = 1 .. n /\ \A i \in 1 .. n : t[i] \in Commitment /\ t[i].index = i
    BY DEF Dense
  <1>2. CASE n = 0
    <2>1. t = EmptyTable
      BY <1>1, <1>2 DEF Dense, EmptyTable
    <2>2. LastOf(t) = Nothing
      BY <2>1 DEF LastOf
    <2>. QED  BY <1>2, <2>2 DEF Nothing
  <1>3. CASE n # 0
    <2>1. t # EmptyTable
      <3>1. DOMAIN EmptyTable = {}
        BY DEF EmptyTable
      <3>. QED  BY <1>1, <1>3, <3>1
    <2>2. n \in DOMAIN t /\ \A j \in DOMAIN t : j <= n
      BY <1>1, <1>3
    <2>3. (CHOOSE i \in DOMAIN t : \A j \in DOMAIN t : j <= i) = n
      <3>. DEFINE m == CHOOSE i \in DOMAIN t : \A j \in DOMAIN t : j <= i
      <3>1. m \in DOMAIN t /\ \A j \in DOMAIN t : j <= m
        BY <2>2
      <3>. HIDE DEF m
      <3>2. m \in 1 .. n /\ m <= n /\ n <= m
        BY <1>1, <2>2, <3>1
      <3>3. m = n
        BY <3>2
      <3>. QED  BY <3>3 DEF m
    <2>4. LastOf(t) = t[n]
      BY <2>1, <2>3, Zenon DEF LastOf
    <2>5. t[n] \in Commitment /\ t[n].index = n
      BY <1>1, <1>3
    <2>. QED  BY <1>3, <2>4, <2>5 DEF Commitment, Nothing
  <1>. QED  BY <1>2, <1>3

\* set_sequencer_commitment_by_index of the next index: the table stays dense, nothing
\* stored changes, and the new commitment is the last.
LEMMA DensePut ==
  ASSUME NEW t, NEW n \in Nat, Dense(t, n), NEW c \in Commitment, c.index = n + 1
  PROVE  /\ Dense(Put(t, c.index, c), n + 1)
         /\ \A i \in 1 .. n : Put(t, c.index, c)[i] = t[i]
         /\ LastOf(Put(t, c.index, c)) = c
  <1>. DEFINE u == Put(t, c.index, c)
  <1>1. DOMAIN t = 1 .. n /\ \A i \in 1 .. n : t[i] \in Commitment /\ t[i].index = i
    BY DEF Dense
  <1>2. u = [x \in 1 .. (n + 1) |-> IF x = n + 1 THEN c ELSE t[x]]
    <2>1. (1 .. n) \cup {n + 1} = 1 .. (n + 1)
      OBVIOUS
    <2>. QED  BY <1>1, <2>1 DEF Put
  <1>. HIDE DEF u
  <1>3. \A i \in 1 .. (n + 1) : u[i] \in Commitment /\ u[i].index = i
    BY <1>1, <1>2
  <1>4. Dense(u, n + 1)
    BY <1>2, <1>3 DEF Dense
  <1>5. LastOf(u) = u[n + 1]
    BY <1>4, LastOfDense
  <1>6. \A i \in 1 .. n : u[i] = t[i]
    BY <1>2
  <1>. QED  BY <1>2, <1>4, <1>5, <1>6 DEF u

(***************************************************************************)
(* The set of known commitments.                                           *)
(***************************************************************************)
\* Whoever knows less, knows nothing wrong.
LEMMA KnowLess ==
  ASSUME NEW ch, NEW t, NEW K, NEW L \in SUBSET K, KnownFits(K, ch, t)
  PROVE  KnownFits(L, ch, t)
  BY DEF KnownFits, Agree

\* A new commitment that is a cut and continues the stored ones is the one that is known
\* under its index, if one is.
LEMMA KnowMore ==
  ASSUME NEW ch \in Seq(Block), NEW t, NEW K, KnownFits(K, ch, t),
         NEW c \in Commitment, IsCut(ch, c), Continues(t, c)
  PROVE  KnownFits(K \cup {c}, ch, t)
  <1>1. \A d \in K : d \in Commitment /\ IsCut(ch, d) /\ Continues(t, d)
    BY DEF KnownFits
  <1>2. \A d \in K : d.index = c.index => d = c
    <2>. SUFFICES ASSUME NEW d \in K, d.index = c.index  PROVE d = c
      OBVIOUS
    <2>1. d.start = c.start
      BY <1>1 DEF Continues
    <2>. QED  BY <1>1, <2>1, CutUnique
  <1>3. Agree(K \cup {c})
    BY <1>2 DEF KnownFits, Agree
  <1>. QED  BY <1>1, <1>3 DEF KnownFits

\* Storing the next commitment takes no predecessor away.
LEMMA KnowStored ==
  ASSUME NEW ch, NEW t, NEW K, KnownFits(K, ch, t), NEW n \in Nat, Dense(t, n),
         NEW c \in Commitment, c.index = n + 1
  PROVE  KnownFits(K, ch, Put(t, c.index, c))
  <1>1. /\ DOMAIN t = 1 .. n /\ DOMAIN Put(t, c.index, c) = 1 .. (n + 1)
        /\ \A i \in 1 .. n : Put(t, c.index, c)[i] = t[i]
    BY DensePut DEF Dense
  <1>2. \A d \in K : Continues(Put(t, c.index, c), d)
    <2>. TAKE d \in K
    <2>1. Continues(t, d)
      BY DEF KnownFits
    <2>. QED  BY <1>1, <2>1 DEF Continues
  <1>. QED  BY <1>2 DEF KnownFits

\* A new block moves no cut.
LEMMA KnowBlock ==
  ASSUME NEW ch \in Seq(Block), NEW x \in Block, NEW t, NEW K, KnownFits(K, ch, t)
  PROVE  KnownFits(K, Append(ch, x), t)
  BY CutKept DEF KnownFits

(***************************************************************************)
(* Elements of sequences.                                                  *)
(***************************************************************************)
\* A channel or block grows by what is appended.
LEMMA ElementsAppend ==
  ASSUME NEW S, NEW s \in Seq(S), NEW x \in S
  PROVE  Elements(Append(s, x)) = Elements(s) \cup {x}
  <1>1. /\ DOMAIN s = 1 .. Len(s) /\ DOMAIN Append(s, x) = 1 .. (Len(s) + 1)
        /\ Append(s, x)[Len(s) + 1] = x
        /\ \A i \in 1 .. Len(s) : Append(s, x)[i] = s[i]
        /\ Len(s) \in Nat
    OBVIOUS
  <1>2. \A y \in Elements(Append(s, x)) : y \in Elements(s) \cup {x}
    BY <1>1 DEF Elements
  <1>3. \A y \in Elements(s) \cup {x} : y \in Elements(Append(s, x))
    BY <1>1 DEF Elements
  <1>. QED  BY <1>2, <1>3

\* A part of the mempool holds nothing else.
LEMMA ElementsSubSeq ==
  ASSUME NEW S, NEW s \in Seq(S), NEW m \in 1 .. (Len(s) + 1), NEW n \in 0 .. Len(s)
  PROVE  Elements(SubSeq(s, m, n)) \subseteq Elements(s)
  <1>1. /\ DOMAIN s = 1 .. Len(s) /\ Len(s) \in Nat
        /\ DOMAIN SubSeq(s, m, n) = 1 .. (IF m <= n THEN n - m + 1 ELSE 0)
        /\ \A i \in DOMAIN SubSeq(s, m, n) : SubSeq(s, m, n)[i] = s[m + i - 1]
    OBVIOUS
  <1>. QED  BY <1>1 DEF Elements

\* What is taken from a queue was in it, and so is the rest.
LEMMA ElementsHeadTail ==
  ASSUME NEW S, NEW s \in Seq(S), s # << >>
  PROVE  /\ Head(s) \in S /\ Head(s) \in Elements(s)
         /\ Tail(s) \in Seq(S) /\ Elements(Tail(s)) \subseteq Elements(s)
  <1>1. /\ DOMAIN s = 1 .. Len(s) /\ Len(s) \in Nat \ {0} /\ Head(s) = s[1]
        /\ Tail(s) \in Seq(S) /\ Len(Tail(s)) = Len(s) - 1 /\ DOMAIN Tail(s) = 1 .. (Len(s) - 1)
        /\ \A i \in 1 .. Len(Tail(s)) : Tail(s)[i] = s[i + 1]
    OBVIOUS
  <1>. QED  BY <1>1 DEF Elements

-----------------------------------------------------------------------------
(***************************************************************************)
(* Facts about a state of the invariant.                                   *)
(***************************************************************************)
\* get_last_commitment covers blocks of the chain, and load_next resumes behind it.
LEMMA LastFacts ==
  ASSUME IInv
  PROVE  /\ LastCommitment = LastOf(commitments)
         /\ LastCommitment.index \in Nat /\ LastCommitment.end \in Nat
         /\ LastCommitment.end <= Len(chain) /\ Len(chain) \in Nat
         /\ LastCommitment # Nothing => /\ LastCommitment \in Known \cap Commitment
                                        /\ LastCommitment.end >= 1
         /\ LoadNext = [index |-> LastCommitment.index + 1, start |-> LastCommitment.end + 1]
  <1>. DEFINE n == LastCommitment.index
  <1>1. LastCommitment = LastOf(commitments)
    BY DEF LastCommitment, LastOf
  <1>2. n \in Nat /\ Dense(commitments, n) /\ Len(chain) \in Nat
    BY DEF IInv, Types
  <1>. HIDE DEF n
  <1>3. /\ LastCommitment = IF n = 0 THEN Nothing ELSE commitments[n]
        /\ LastCommitment.end \in Nat
        /\ n # 0 => LastCommitment \in Commitment /\ LastCommitment # Nothing
    BY <1>1, <1>2, LastOfDense
  <1>4. LastCommitment # Nothing => LastCommitment \in Known
    <2>1. n # 0 => n \in DOMAIN commitments
      BY <1>2 DEF Dense
    <2>. QED  BY <1>3, <2>1 DEF Known, Everywhere, Stored
  <1>5. LastCommitment # Nothing => LastCommitment.end <= Len(chain) /\ LastCommitment.end >= 1
    <2>. SUFFICES ASSUME LastCommitment # Nothing
                  PROVE  LastCommitment.end <= Len(chain) /\ LastCommitment.end >= 1
      OBVIOUS
    <2>1. LastCommitment \in Commitment /\ IsCut(chain, LastCommitment)
      BY <1>4 DEF IInv, KnownFits
    <2>. QED  BY <1>2, <2>1 DEF IsCut, Commitment
  <1>6. LastCommitment = Nothing => LastCommitment.end = 0
    BY DEF Nothing
  <1>7. LoadNext = [index |-> LastCommitment.index + 1, start |-> LastCommitment.end + 1]
    BY <1>6 DEF LoadNext, FirstHeight
  <1>. QED  BY <1>1, <1>2, <1>3, <1>4, <1>5, <1>6, <1>7 DEF n

\* A step that neither stores a commitment nor makes one keeps what is said of them.
LEMMA NothingNew ==
  ASSUME IInv, UNCHANGED <<chain, commitments>>, Known' \subseteq Known
  PROVE  /\ LastCommitment' = LastCommitment
         /\ Dense(commitments, LastCommitment.index)' /\ LastCommitment'.index \in Nat
         /\ KnownFits(Known, chain, commitments)'
  <1>1. LastCommitment' = LastCommitment
    BY DEF LastCommitment
  <1>2. KnownFits(Known', chain, commitments)
    BY KnowLess DEF IInv
  <1>. QED  BY <1>1, <1>2 DEF IInv

\* Where commitments are known from.
Places == Everywhere \cup toStore \cup {current}

\* Nothing new is known when everything comes from a place it was known in.
LEMMA KnownFlows ==
  ASSUME Stored' \subseteq Places, OnDa' \subseteq Places, Elements(requests') \subseteq Places,
         Elements(txQueue') \subseteq Places, toStore' \subseteq Places, current' \in Places
  PROVE  Known' \subseteq Known
  BY DEF Known, Everywhere, Places

\* The table and the L1 blocks that stay give the same sets.
LEMMA StoredKept ==
  ASSUME commitments' = commitments
  PROVE  LastCommitment' = LastCommitment /\ Stored' = Stored
  <1>1. LastCommitment' = LastCommitment
    BY DEF LastCommitment
  <1>2. Stored' = Stored
    BY DEF Stored
  <1>. QED  BY <1>1, <1>2

LEMMA MinedKept ==
  ASSUME l1' = l1
  PROVE  Mined(1)' = Mined(1)
  BY DEF Mined

\* Nothing new is known when only the commitments to store and the one at hand change, and
\* they are taken from Bitcoin's mempool or given up.
LEMMA KnownTaken ==
  ASSUME UNCHANGED <<commitments, l1, mempool, requests, txQueue>>,
         toStore' \subseteq toStore \cup Elements(mempool), current' \in {current, Nothing}
  PROVE  Known' \subseteq Known
  <1>1. Stored' = Stored /\ Mined(1)' = Mined(1)
    BY StoredKept, MinedKept
  <1>2. Elements(requests)' = Elements(requests) /\ Elements(txQueue)' = Elements(txQueue)
        /\ Elements(mempool)' = Elements(mempool)
    BY DEF Elements
  <1>3. Everywhere' = Everywhere /\ Elements(mempool) \subseteq Everywhere
    BY <1>1, <1>2, ZenonT(40) DEF Everywhere, OnDa
  <1>. QED  BY <1>3 DEF Known

\* Every known commitment is at most one ahead of the ledger.
LEMMA OneAhead ==
  ASSUME IInv, NEW c \in Known
  PROVE  c \in Commitment /\ c.index <= LastCommitment.index + 1
  <1>1. c \in Commitment /\ Continues(commitments, c)
    BY DEF IInv, KnownFits
  <1>2. DOMAIN commitments = 1 .. LastCommitment.index /\ LastCommitment.index \in Nat
    BY DEF IInv, Dense
  <1>. QED  BY <1>1, <1>2 DEF Continues, Commitment

\* get_state_diff of a block behind the last commitment is the diff of that block.
LEMMA DiffIsThere ==
  ASSUME IInv, NEW h \in Nat, LastCommitment.end < h, h <= Len(chain)
  PROVE  StateDiff(h) = chain[h].diff /\ chain[h].diff \in BlockDiffs
  <1>1. h \in (LastCommitment.end + 1) .. Len(chain) /\ h \in 1 .. Len(chain)
    BY LastFacts
  <1>2. chain[h] \in Block
    BY <1>1 DEF IInv, Types
  <1>. QED  BY <1>1, <1>2 DEF IInv, UncommittedDiffsKept, StateDiff, Block

\* What Bitcoin's blocks from some height on hold is known.
LEMMA MinedKnown ==
  ASSUME Types, NEW from \in Nat \ {0}
  PROVE  Mined(from) \subseteq Mined(1) /\ Nothing \notin Mined(1)
  <1>1. Len(l1) \in Nat
    BY DEF Types
  <1>2. Mined(from) \subseteq Mined(1)
    BY <1>1 DEF Mined
  <1>3. \A h \in 1 .. Len(l1) : Elements(l1[h]) \subseteq Commitment
    BY DEF Types, Elements
  <1>4. Nothing \notin Commitment
    BY DEF Nothing, Commitment
  <1>. QED  BY <1>2, <1>3, <1>4 DEF Mined

-----------------------------------------------------------------------------
(***************************************************************************)
(* Block production.                                                       *)
(***************************************************************************)
\* Setting the diff of the next block touches no diff of the chain.
LEMMA SetStateDiffStep ==
  ASSUME IInv, SetStateDiff
  PROVE  IInv'
  <1>1. Known' = Known
    BY DEF Known, Everywhere, Stored, OnDa, Mined, SetStateDiff, control, queues, bitcoin
  <1>2. /\ LastCommitment' = LastCommitment
        /\ Dense(commitments, LastCommitment.index)' /\ LastCommitment'.index \in Nat
        /\ KnownFits(Known, chain, commitments)'
    BY <1>1, NothingNew DEF SetStateDiff
  <1>3. PICK d \in BlockDiffs : diffs' = Put(diffs, Len(chain) + 1, d)
    BY DEF SetStateDiff
  <1>4. /\ DOMAIN diffs' = DOMAIN diffs \cup {Len(chain) + 1}
        /\ diffs'[Len(chain) + 1] = d
        /\ \A h \in DOMAIN diffs : h # Len(chain) + 1 => diffs'[h] = diffs[h]
    <2>. HIDE DEF SetStateDiff
    <2>. DEFINE u == Put(diffs, Len(chain) + 1, d)
    <2>1. /\ DOMAIN u = DOMAIN diffs \cup {Len(chain) + 1} /\ u[Len(chain) + 1] = d
          /\ \A h \in DOMAIN diffs : h # Len(chain) + 1 => u[h] = diffs[h]
      BY DEF Put
    <2>. HIDE DEF u
    <2>. QED  BY <1>3, <2>1 DEF u
  <1>5. Types' /\ BuiltHasDiff'
    <2>1. UNCHANGED <<chain, toStore, next, last, head, current, requests, txQueue, mempool, l1>>
      BY ZenonT(40) DEF SetStateDiff, control, queues, bitcoin
    <2>2. Types /\ Len(chain) \in Nat
      BY LastFacts DEF IInv
    <2>3. DOMAIN diffs' \subseteq Nat
      BY <1>4, <2>2 DEF Types
    <2>4. BuiltHasDiff'
      BY <1>4, <2>1 DEF BuiltHasDiff
    <2>. QED  BY <2>1, <2>2, <2>3, <2>4, ZenonT(40) DEF Types
  <1>6. UncommittedDiffsKept'
    <2>1. UncommittedDiffsKept /\ chain' = chain
      BY Zenon DEF IInv, SetStateDiff
    <2>2. Len(chain) \in Nat /\ LastCommitment.end \in Nat
      BY LastFacts
    <2>. QED  BY <1>2, <1>4, <2>1, <2>2 DEF UncommittedDiffsKept
  <1>7. Accumulated' /\ NextFollows' /\ RecoveryFollows' /\ NeverPanics'
    BY <1>2 DEF IInv, Accumulated, NextFollows, RecoveryFollows, NeverPanics, SetStateDiff, control
  <1>. QED  BY <1>2, <1>5, <1>6, <1>7 DEF IInv, SetStateDiff, control

\* A new block has the diff set for it; no cut before it moves.
LEMMA CommitL2BlockStep ==
  ASSUME IInv, CommitL2Block
  PROVE  IInv'
  <1>. DEFINE known == IF chain = << >> THEN 0 ELSE chain[Len(chain)].l1
              d == diffs[Len(chain) + 1]
  <1>1. PICK h \in known .. Len(l1) : chain' = Append(chain, [diff |-> d, l1 |-> h])
    BY ZenonT(40) DEF CommitL2Block
  <1>. DEFINE x == [diff |-> d, l1 |-> h]
  <1>2. chain \in Seq(Block) /\ Len(chain) \in Nat /\ Len(l1) \in Nat
    <2>1. chain \in Seq(Block) /\ l1 \in Seq(Seq(Commitment))
      BY Zenon DEF IInv, Types
    <2>. QED  BY <2>1
  <1>3. known \in Nat
    <2>1. chain # << >> => chain[Len(chain)] \in Block
      BY <1>2
    <2>. QED  BY <2>1 DEF Block
  <1>4. d \in BlockDiffs /\ Len(chain) + 1 \in DOMAIN diffs
    BY DEF IInv, BuiltHasDiff, CommitL2Block
  <1>5. x \in Block
    <2>. HIDE DEF known
    <2>1. h \in Nat
      BY <1>2, <1>3
    <2>. QED  BY <1>4, <2>1 DEF Block
  <1>6. /\ chain' = Append(chain, x) /\ chain' \in Seq(Block) /\ Len(chain') = Len(chain) + 1
        /\ \A i \in 1 .. Len(chain) : chain'[i] = chain[i]
        /\ chain'[Len(chain) + 1] = x
    <2>. HIDE DEF x
    <2>. QED  BY <1>1, <1>2, <1>5 DEF x
  <1>. HIDE DEF known, d, x
  <1>7. Known' = Known /\ LastCommitment' = LastCommitment
    BY DEF Known, Everywhere, Stored, OnDa, Mined, LastCommitment, CommitL2Block, control, queues, bitcoin
  <1>8. KnownFits(Known, chain, commitments)'
    BY <1>2, <1>5, <1>6, <1>7, KnowBlock DEF IInv, CommitL2Block
  <1>9. Types' /\ BuiltHasDiff' /\ head' <= Len(chain')
    <2>1. /\ UNCHANGED <<diffs, toStore, next, last, head, current, requests, txQueue, mempool, l1>>
          /\ built' = FALSE
      BY ZenonT(40) DEF CommitL2Block, control, queues, bitcoin
    <2>2. Types'
      BY <1>6, <2>1, ZenonT(40) DEF IInv, Types
    <2>3. head \in Nat /\ head <= Len(chain)
      BY Zenon DEF IInv, Types
    <2>4. head' <= Len(chain')
      <3>1. head' = head /\ Len(chain') = Len(chain) + 1 /\ Len(chain) \in Nat
        BY <1>2, <1>6, <2>1, Zenon
      <3>. QED  BY <2>3, <3>1
    <2>. QED  BY <2>1, <2>2, <2>4 DEF BuiltHasDiff
  <1>10. UncommittedDiffsKept'
    <2>. SUFFICES ASSUME NEW i \in (LastCommitment.end + 1) .. (Len(chain) + 1)
                  PROVE  i \in DOMAIN diffs /\ diffs[i] = chain'[i].diff
      BY <1>6, <1>7, ZenonT(40) DEF UncommittedDiffsKept, CommitL2Block
    <2>1. CASE i = Len(chain) + 1
      <3>1. x.diff = d
        BY DEF x
      <3>2. chain'[i] = x /\ Len(chain) + 1 \in DOMAIN diffs
        BY <1>4, <1>6, <2>1, Zenon
      <3>. QED  BY <2>1, <3>1, <3>2, Zenon DEF d
    <2>2. CASE i # Len(chain) + 1
      <3>1. i \in (LastCommitment.end + 1) .. Len(chain) /\ i \in 1 .. Len(chain)
        BY <2>2, <1>2, LastFacts
      <3>. QED  BY <3>1, <1>6 DEF IInv, UncommittedDiffsKept
    <2>. QED  BY <2>1, <2>2, Zenon
  <1>11. Accumulated'
    <2>1. next.start \in Nat \ {0} /\ last \in Nat
      BY DEF IInv, Types
    <2>2. last <= Len(chain) => Union(chain', next.start, last) = Union(chain, next.start, last)
      BY <1>2, <1>5, <1>6, <2>1, UnionKept
    <2>3. UNCHANGED <<pc, next, last, acc>>
      BY ZenonT(40) DEF CommitL2Block, control
    <2>4. Accumulated
      BY Zenon DEF IInv
    <2>. SUFFICES ASSUME pc \in {"idle", "check", "sending", "stored"}
                  PROVE  /\ next.start <= last + 1 /\ last <= Len(chain')
                         /\ last - next.start + 1 < MaxL2Blocks
                         /\ acc = Union(chain', next.start, last) /\ ~OverLimit(acc)
      BY <2>3, ZenonT(40) DEF Accumulated, OverLimit
    <2>5. /\ next.start <= last + 1 /\ last <= Len(chain)
          /\ last - next.start + 1 < MaxL2Blocks
          /\ acc = Union(chain, next.start, last) /\ ~OverLimit(acc)
      BY <2>4, ZenonT(40) DEF Accumulated
    <2>6. last <= Len(chain')
      <3>1. last <= Len(chain) /\ Len(chain') = Len(chain) + 1 /\ Len(chain) \in Nat
        BY <1>2, <1>6, <2>5, Zenon
      <3>. QED  BY <2>1, <3>1
    <2>. QED  BY <2>2, <2>5, <2>6, Zenon
  <1>12. NextFollows' /\ NeverPanics'
    BY <1>7 DEF IInv, NextFollows, NeverPanics, CommitL2Block, control
  <1>13. RecoveryFollows'
    <2>1. chain' # << >>
      BY <1>2, <1>6
    <2>2. UNCHANGED <<pc, toStore, current>>
      BY ZenonT(40) DEF CommitL2Block, control
    <2>. QED  BY <1>7, <2>1, <2>2, ZenonT(40) DEF IInv, RecoveryFollows
  <1>. QED  BY <1>7, <1>8, <1>9, <1>10, <1>11, <1>12, <1>13, ZenonT(40) DEF IInv, CommitL2Block

(***************************************************************************)
(* Start-up and recovery.                                                  *)
(***************************************************************************)
\* The service starts, or goes on to load its controller, with what it has stored.
LEMMA StartStep ==
  ASSUME IInv, Start \/ RecoveryDone \/ RecoveryFails
  PROVE  IInv'
  <1>1. Known' \subseteq Known /\ UNCHANGED <<chain, commitments>>
    BY DEF Known, Everywhere, Stored, OnDa, Mined, Start, RecoveryDone, RecoveryFails, durable, control, queues, bitcoin
  <1>2. /\ LastCommitment' = LastCommitment
        /\ Dense(commitments, LastCommitment.index)' /\ LastCommitment'.index \in Nat
        /\ KnownFits(Known, chain, commitments)'
    BY <1>1, NothingNew
  <1>3. Types' /\ BuiltHasDiff' /\ head' <= Len(chain')
    <2>1. /\ UNCHANGED <<chain, diffs, built, next, last, head, current, requests, txQueue, mempool, l1>>
          /\ toStore' = toStore \/ toStore' = {}
      BY ZenonT(40) DEF Start, RecoveryDone, RecoveryFails, durable, control, queues, bitcoin
    <2>2. toStore' \subseteq Commitment
      BY <2>1 DEF IInv, Types
    <2>. QED  BY <2>1, <2>2, ZenonT(40) DEF IInv, Types, BuiltHasDiff
  <1>4. UncommittedDiffsKept'
    BY <1>2 DEF IInv, UncommittedDiffsKept, Start, RecoveryDone, RecoveryFails, durable
  <1>5. Accumulated' /\ NextFollows' /\ RecoveryFollows' /\ NeverPanics'
    BY DEF Accumulated, NextFollows, RecoveryFollows, NeverPanics, Start, RecoveryDone, RecoveryFails, durable
  <1>. QED  BY <1>2, <1>3, <1>4, <1>5 DEF IInv

\* The pending commitments are among those on Bitcoin.
LEMMA GetPendingStep ==
  ASSUME IInv, GetPendingMempoolCommitments
  PROVE  IInv'
  <1>1. toStore' \subseteq Elements(mempool) /\ toStore' \subseteq Commitment
    <2>1. mempool # << >> => Len(mempool) \in DOMAIN mempool /\ mempool[Len(mempool)] \in Commitment
      BY DEF IInv, Types
    <2>. QED  BY <2>1 DEF Elements, GetPendingMempoolCommitments
  <1>2. Known' \subseteq Known /\ UNCHANGED <<chain, commitments>>
    <2>1. UNCHANGED <<chain, commitments, l1, mempool, requests, txQueue, current>>
      BY ZenonT(40) DEF GetPendingMempoolCommitments, durable, control, queues, bitcoin
    <2>. QED  BY <1>1, <2>1, KnownTaken
  <1>3. /\ LastCommitment' = LastCommitment
        /\ Dense(commitments, LastCommitment.index)' /\ LastCommitment'.index \in Nat
        /\ KnownFits(Known, chain, commitments)'
    BY <1>2, NothingNew
  <1>4. Types' /\ BuiltHasDiff' /\ head' <= Len(chain')
    <2>1. UNCHANGED <<chain, diffs, built, next, last, head, current, requests, txQueue, mempool, l1>>
      BY ZenonT(40) DEF GetPendingMempoolCommitments, durable, control, queues, bitcoin
    <2>. QED  BY <1>1, <2>1, ZenonT(40) DEF IInv, Types, BuiltHasDiff
  <1>5. UncommittedDiffsKept'
    BY <1>3, ZenonT(40) DEF IInv, UncommittedDiffsKept, GetPendingMempoolCommitments, durable
  <1>6. Accumulated' /\ NextFollows' /\ RecoveryFollows' /\ NeverPanics'
    BY DEF IInv, Accumulated, NextFollows, RecoveryFollows, NeverPanics, GetPendingMempoolCommitments, durable
  <1>. QED  BY <1>3, <1>4, <1>5, <1>6 DEF IInv

\* Of all that is on Bitcoin, at most one commitment is not stored yet, and it has the
\* next index: the assertions of the recovery hold.
LEMMA GetMinedStep ==
  ASSUME IInv, GetMinedCommitments
  PROVE  IInv'
  <1>. DEFINE n == LastCommitment.index
  <1>0. n \in Nat
    BY LastFacts
  <1>1. StartScanningL1From \in Nat \ {0}
    <2>. DEFINE i == IF LastCommitment = Nothing THEN 1 ELSE LastCommitment.end
    <2>1. chain \in Seq(Block) /\ chain # << >>
      BY DEF IInv, Types, RecoveryFollows, GetMinedCommitments
    <2>2. i \in 1 .. Len(chain)
      BY <2>1, LastFacts
    <2>. HIDE DEF i
    <2>3. chain[i] \in Block
      BY <2>1, <2>2
    <2>4. chain[i].l1 \in Nat
      BY <2>3 DEF Block
    <2>. QED  BY <2>4 DEF StartScanningL1From, i
  <1>2. toStore' \subseteq toStore \cup Mined(1)
    BY <1>1, MinedKnown DEF IInv, GetMinedCommitments
  <1>3. toStore' \subseteq Known
    <2>1. Nothing \notin toStore /\ Nothing \notin Mined(1)
      BY MinedKnown DEF IInv, Types, Nothing, Commitment
    <2>. QED  BY <1>2, <2>1 DEF Known, Everywhere, OnDa
  <1>4. Known' \subseteq Known /\ UNCHANGED <<chain, commitments>>
    <2>1. UNCHANGED <<chain, commitments, current, requests, txQueue, mempool, l1>>
      BY ZenonT(40) DEF GetMinedCommitments, durable, control, queues, bitcoin
    <2>2. Stored' = Stored /\ Mined(1)' = Mined(1)
      BY <2>1, StoredKept, MinedKept
    <2>3. Everywhere' = Everywhere
      BY <2>1, <2>2 DEF Everywhere, OnDa
    <2>. QED  BY <1>3, <2>1, <2>3 DEF Known
  <1>5. /\ LastCommitment' = LastCommitment
        /\ Dense(commitments, LastCommitment.index)' /\ LastCommitment'.index \in Nat
        /\ KnownFits(Known, chain, commitments)'
    BY <1>4, NothingNew
  <1>6. \A c \in toStore' : c \in Commitment /\ c.index = n + 1
    <2>. TAKE c \in toStore'
    <2>1. c \in Commitment /\ c.index <= n + 1
      BY <1>3, OneAhead
    <2>2. c.index > n
      BY DEF GetMinedCommitments
    <2>. QED  BY <1>0, <2>1, <2>2 DEF Commitment
  <1>7. ConsecutiveFrom(toStore', n + 1)
    <2>1. CASE toStore' = {}
      <3>1. Cardinality(toStore') = 0
        BY <2>1, FS_EmptySet
      <3>2. {d.index : d \in toStore'} = {}
        BY <2>1
      <3>3. (n + 1) .. (n + 1 + 0 - 1) = {}
        BY <1>0
      <3>. QED  BY <3>1, <3>2, <3>3, ZenonT(40) DEF ConsecutiveFrom
    <2>2. CASE toStore' # {}
      <3>1. PICK c \in toStore' : TRUE
        BY <2>2
      <3>2. \A d \in toStore' : d = c
        BY <1>3, <1>6, <3>1 DEF IInv, KnownFits, Agree
      <3>3. toStore' = {c} /\ c.index = n + 1
        BY <1>6, <3>1, <3>2
      <3>4. Cardinality(toStore') = 1
        BY <3>3, FS_Singleton, ZenonT(40)
      <3>5. {d.index : d \in toStore'} = {n + 1}
        BY <3>3
      <3>6. (n + 1) .. (n + 1 + 1 - 1) = {n + 1}
        BY <1>0
      <3>. QED  BY <3>4, <3>5, <3>6, ZenonT(40) DEF ConsecutiveFrom
    <2>. QED  BY <2>1, <2>2
  <1>8. pc' = "store"
    BY <1>7 DEF GetMinedCommitments
  <1>9. Types' /\ BuiltHasDiff' /\ head' <= Len(chain')
    BY <1>6 DEF IInv, Types, BuiltHasDiff, GetMinedCommitments, durable, control, queues, bitcoin
  <1>10. UncommittedDiffsKept'
    BY <1>5, ZenonT(40) DEF IInv, UncommittedDiffsKept, GetMinedCommitments, durable
  <1>11. Accumulated' /\ NextFollows' /\ RecoveryFollows' /\ NeverPanics'
    BY <1>5, <1>6, <1>8 DEF Accumulated, NextFollows, RecoveryFollows, NeverPanics
  <1>. QED  BY <1>5, <1>9, <1>10, <1>11 DEF IInv

\* The commitment behind the last stored one starts behind it.
LEMMA NextStart ==
  ASSUME IInv, NEW c \in Known, c.index = LastCommitment.index + 1
  PROVE  /\ c \in Commitment /\ c.start = LastCommitment.end + 1
         /\ c.start <= c.end /\ c.end <= Len(chain)
  <1>1. c \in Commitment /\ IsCut(chain, c) /\ Continues(commitments, c)
    BY DEF IInv, KnownFits
  <1>. DEFINE n == LastCommitment.index
  <1>2. n \in Nat /\ Dense(commitments, n) /\ LastCommitment = LastOf(commitments)
    BY LastFacts DEF IInv
  <1>. HIDE DEF n
  <1>3. LastCommitment = IF n = 0 THEN Nothing ELSE commitments[n]
    BY <1>2, LastOfDense
  <1>4. c.index = n + 1
    BY DEF n
  <1>5. c.start = LastCommitment.end + 1
    <2>1. CASE n = 0
      <3>1. LastCommitment = Nothing
        BY <1>3, <2>1, Zenon
      <3>2. LastCommitment.end = 0
        BY <3>1 DEF Nothing
      <3>3. c.index = 1
        BY <1>4, <2>1
      <3>4. c.start = FirstHeight
        BY <1>1, <3>3, Zenon DEF Continues
      <3>. QED  BY <3>2, <3>4 DEF FirstHeight
    <2>2. CASE n # 0
      <3>1. c.index # 1 /\ c.index - 1 = n
        BY <1>2, <1>4, <2>2
      <3>. QED  BY <1>1, <1>3, <2>2, <3>1 DEF Continues
    <2>. QED  BY <2>1, <2>2
  <1>. QED  BY <1>1, <1>5 DEF IsCut

\* Storing the commitment behind the last one keeps what is said of the known ones, and
\* no diff is needed that was not needed before.
LEMMA StoreNext ==
  ASSUME IInv, NEW c \in Known, c.index = LastCommitment.index + 1,
         commitments' = Put(commitments, c.index, c), UNCHANGED <<chain, diffs>>,
         (Known \ Stored)' \subseteq Known
  PROVE  /\ LastCommitment' = c
         /\ Dense(commitments, LastCommitment.index)' /\ LastCommitment'.index \in Nat
         /\ KnownFits(Known, chain, commitments)'
         /\ UncommittedDiffsKept'
  <1>. DEFINE n == LastCommitment.index
  <1>1. n \in Nat /\ Dense(commitments, n) /\ c \in Commitment
    BY NextStart DEF IInv
  <1>2. c.index = n + 1
    OBVIOUS
  <1>. HIDE DEF n
  <1>3. Dense(commitments', n + 1) /\ LastOf(commitments') = c
    BY <1>1, <1>2, DensePut
  <1>4. LastCommitment' = c
    BY <1>3 DEF LastCommitment, LastOf
  <1>5. Stored' \subseteq Stored \cup {c}
    <2>1. \A i \in 1 .. n : commitments'[i] = commitments[i]
      BY <1>1, <1>2, DensePut
    <2>2. commitments'[n + 1] = c
      <3>1. n + 1 \in Nat /\ n + 1 # 0
        BY <1>1
      <3>2. LastOf(commitments') = commitments'[n + 1]
        BY <1>3, <3>1, LastOfDense, ZenonT(40)
      <3>. QED  BY <1>3, <3>2
    <2>3. DOMAIN commitments = 1 .. n /\ DOMAIN commitments' = 1 .. (n + 1)
      BY <1>1, <1>3 DEF Dense
    <2>. SUFFICES ASSUME NEW i \in 1 .. (n + 1)  PROVE commitments'[i] \in Stored \cup {c}
      BY <2>3 DEF Stored
    <2>4. CASE i = n + 1
      BY <2>2, <2>4
    <2>5. CASE i # n + 1
      <3>1. i \in 1 .. n
        BY <1>1, <2>5
      <3>. QED  BY <2>1, <2>3, <3>1 DEF Stored
    <2>. QED  BY <2>4, <2>5
  <1>6. Known' \subseteq Known
    <2>1. Nothing \notin Known'
      BY DEF Known
    <2>2. Stored \ {Nothing} \subseteq Known
      BY DEF Known, Everywhere
    <2>. QED  BY <1>5, <2>1, <2>2
  <1>7. KnownFits(Known, chain, commitments')
    BY <1>1, <1>2, KnowStored DEF IInv
  <1>8. KnownFits(Known, chain, commitments)'
    BY <1>6, <1>7, KnowLess
  <1>9. UncommittedDiffsKept'
    <2>1. c.end >= LastCommitment.end /\ LastCommitment.end \in Nat /\ c.end \in Nat
      <3>1. c \in Commitment /\ c.start = LastCommitment.end + 1 /\ c.start <= c.end
        BY NextStart
      <3>2. LastCommitment.end \in Nat
        BY LastFacts
      <3>3. c.end \in Nat
        BY <3>1 DEF Commitment
      <3>. QED  BY <3>1, <3>2, <3>3
    <2>2. UncommittedDiffsKept
      BY Zenon DEF IInv
    <2>3. Len(chain) \in Nat
      BY LastFacts
    <2>4. (c.end + 1) .. Len(chain) \subseteq (LastCommitment.end + 1) .. Len(chain)
      BY <2>1, <2>3
    <2>. QED  BY <1>4, <2>2, <2>4, ZenonT(40) DEF UncommittedDiffsKept
  <1>. QED  BY <1>1, <1>2, <1>3, <1>4, <1>8, <1>9

\* store_commitments_from_da stores the one commitment found.
LEMMA StoreFromDaStep ==
  ASSUME IInv, StoreFromDa
  PROVE  IInv'
  <1>. DEFINE c == FirstToStore
  <1>1. toStore \subseteq Known
    <2>1. toStore \subseteq Commitment
      BY Zenon DEF IInv, Types
    <2>2. Nothing \notin Commitment
      BY DEF Nothing, Commitment
    <2>. QED  BY <2>1, <2>2, Zenon DEF Known
  <1>2. \A x \in toStore : x.index = LastCommitment.index + 1
    BY DEF IInv, RecoveryFollows, StoreFromDa
  <1>3. \A x, y \in toStore : x = y
    BY <1>1, <1>2 DEF IInv, KnownFits, Agree
  <1>4. c \in toStore
    <2>1. PICK x \in toStore : TRUE
      BY DEF StoreFromDa
    <2>2. x.index \in Nat
      BY <2>1 DEF IInv, Types, Commitment
    <2>3. \E x1 \in toStore : \A y \in toStore : x1.index <= y.index
      BY <2>1, <2>2, <1>3
    <2>. QED  BY <2>3 DEF FirstToStore
  <1>5. toStore = {c}
    BY <1>3, <1>4
  <1>. HIDE DEF c
  <1>6. current' = c /\ commitments' = Put(commitments, c.index, c)
    BY DEF c, StoreFromDa
  <1>7. c \in Known /\ c \in Commitment /\ c.index = LastCommitment.index + 1
    BY <1>1, <1>2, <1>4 DEF IInv, Types
  <1>8. (Known \ Stored)' \subseteq Known
    <2>1. UNCHANGED <<toStore, requests, txQueue, mempool, l1>>
      BY ZenonT(40) DEF StoreFromDa, queues, bitcoin
    <2>2. OnDa' = OnDa
      BY <2>1, MinedKept DEF OnDa
    <2>. QED  BY <1>6, <1>7, <2>1, <2>2 DEF Known, Everywhere
  <1>9. /\ LastCommitment' = c
        /\ Dense(commitments, LastCommitment.index)' /\ LastCommitment'.index \in Nat
        /\ KnownFits(Known, chain, commitments)' /\ UncommittedDiffsKept'
    BY <1>6, <1>7, <1>8, StoreNext DEF StoreFromDa
  <1>10. Types' /\ BuiltHasDiff' /\ head' <= Len(chain')
    <2>1. UNCHANGED <<chain, diffs, built, toStore, next, last, head, requests, txQueue, mempool, l1>>
      BY ZenonT(40) DEF StoreFromDa, queues, bitcoin
    <2>. QED  BY <1>6, <1>7, <2>1, ZenonT(40) DEF IInv, Types, BuiltHasDiff
  <1>11. Accumulated' /\ NextFollows' /\ RecoveryFollows' /\ NeverPanics'
    BY <1>5, <1>6, <1>7, <1>9 DEF Accumulated, NextFollows, RecoveryFollows, NeverPanics, StoreFromDa
  <1>. QED  BY <1>9, <1>10, <1>11 DEF IInv

\* Deleting the diffs of blocks the last commitment covers takes none that is needed.
LEMMA DiffsDeleted ==
  ASSUME IInv, NEW S, \A h \in S : h \in Nat /\ h <= LastCommitment.end,
         diffs' = Delete(diffs, S), UNCHANGED <<chain, commitments, built>>
  PROVE  UncommittedDiffsKept' /\ BuiltHasDiff' /\ DOMAIN diffs' \subseteq Nat
  <1>1. LastCommitment' = LastCommitment
    BY DEF LastCommitment
  <1>2. /\ DOMAIN diffs' = DOMAIN diffs \ S
        /\ \A h \in DOMAIN diffs \ S : diffs'[h] = diffs[h]
    BY DEF Delete
  <1>3. LastCommitment.end \in Nat /\ LastCommitment.end <= Len(chain) /\ Len(chain) \in Nat
    BY LastFacts
  <1>4. UncommittedDiffsKept'
    <2>. SUFFICES ASSUME NEW h \in (LastCommitment.end + 1) .. Len(chain)
                  PROVE  h \in DOMAIN diffs' /\ diffs'[h] = chain[h].diff
      BY <1>1 DEF UncommittedDiffsKept
    <2>1. h \in DOMAIN diffs /\ diffs[h] = chain[h].diff
      BY DEF IInv, UncommittedDiffsKept
    <2>2. h \notin S
      BY <1>3
    <2>. QED  BY <1>2, <2>1, <2>2
  <1>5. BuiltHasDiff'
    <2>1. Len(chain) + 1 \notin S
      BY <1>3
    <2>. QED  BY <1>2, <2>1 DEF IInv, BuiltHasDiff
  <1>6. DOMAIN diffs' \subseteq Nat
    BY <1>2 DEF IInv, Types
  <1>. QED  BY <1>4, <1>5, <1>6

\* The diffs of the commitment taken over from Bitcoin are deleted.
LEMMA DeleteDiffsFromDaStep ==
  ASSUME IInv, DeleteDiffsFromDa
  PROVE  IInv'
  <1>1. toStore = {current} /\ current = LastCommitment /\ current \in Commitment
    BY DEF IInv, RecoveryFollows, DeleteDiffsFromDa
  <1>2. toStore' = {}
    BY <1>1 DEF DeleteDiffsFromDa
  <1>3. Known' \subseteq Known
    <2>1. UNCHANGED <<commitments, l1, mempool, requests, txQueue>> /\ current' = Nothing
      BY ZenonT(40) DEF DeleteDiffsFromDa, queues, bitcoin
    <2>. QED  BY <1>2, <2>1, KnownTaken
  <1>4. /\ LastCommitment' = LastCommitment
        /\ Dense(commitments, LastCommitment.index)' /\ LastCommitment'.index \in Nat
        /\ KnownFits(Known, chain, commitments)'
    BY <1>3, NothingNew DEF DeleteDiffsFromDa
  <1>5. \A h \in DiffsOfStored(current) : h \in Nat /\ h <= LastCommitment.end
    <2>. DEFINE f == IF current.index = 1 THEN FirstHeight ELSE commitments[current.index - 1].end + 1
    <2>1. f \in Nat
      <3>1. DOMAIN commitments = 1 .. LastCommitment.index /\ LastCommitment.index \in Nat
        BY DEF IInv, Dense
      <3>2. current.index = LastCommitment.index /\ current.index # 0
        BY <1>1 DEF Commitment
      <3>3. current.index # 1 => commitments[current.index - 1] \in Commitment
        <4>1. current.index # 1 => current.index - 1 \in 1 .. LastCommitment.index
          BY <3>1, <3>2
        <4>. QED  BY <4>1 DEF IInv, Dense
      <3>4. \A c \in Commitment : c.end + 1 \in Nat
        BY DEF Commitment
      <3>5. FirstHeight \in Nat
        BY DEF FirstHeight
      <3>. QED  BY <3>3, <3>4, <3>5, ZenonT(40)
    <2>2. current.end \in Nat
      BY <1>1 DEF Commitment
    <2>3. DiffsOfStored(current) = f .. current.end
      BY DEF DiffsOfStored
    <2>. HIDE DEF f
    <2>. QED  BY <1>1, <2>1, <2>2, <2>3
  <1>6. UncommittedDiffsKept' /\ BuiltHasDiff' /\ DOMAIN diffs' \subseteq Nat
    BY <1>5, DiffsDeleted DEF DeleteDiffsFromDa
  <1>7. Types' /\ head' <= Len(chain')
    <2>1. UNCHANGED <<chain, next, last, head, requests, txQueue, mempool, l1>> /\ current' = Nothing
      BY ZenonT(40) DEF DeleteDiffsFromDa, queues, bitcoin
    <2>. QED  BY <1>2, <1>6, <2>1 DEF IInv, Types
  <1>8. Accumulated' /\ NextFollows' /\ RecoveryFollows' /\ NeverPanics'
    BY <1>2 DEF Accumulated, NextFollows, RecoveryFollows, NeverPanics, DeleteDiffsFromDa
  <1>. QED  BY <1>4, <1>6, <1>7, <1>8 DEF IInv

\* CommitmentController::new starts behind the last commitment with nothing accumulated.
LEMMA LoadControllerStep ==
  ASSUME IInv, LoadController
  PROVE  IInv'
  <1>1. Known' \subseteq Known
    <2>1. UNCHANGED <<commitments, l1, mempool, requests, txQueue, toStore, current>>
      BY ZenonT(40) DEF LoadController, durable, queues, bitcoin
    <2>. QED  BY <2>1, KnownTaken
  <1>2. /\ LastCommitment' = LastCommitment
        /\ Dense(commitments, LastCommitment.index)' /\ LastCommitment'.index \in Nat
        /\ KnownFits(Known, chain, commitments)'
    BY <1>1, NothingNew DEF LoadController, durable
  <1>. DEFINE e == LastCommitment.end
  <1>3. /\ e \in Nat /\ e <= Len(chain) /\ Len(chain) \in Nat /\ LastCommitment.index \in Nat
        /\ next' = [index |-> LastCommitment.index + 1, start |-> e + 1]
    BY LastFacts DEF LoadController
  <1>. HIDE DEF e
  <1>4. next'.start = e + 1 /\ last' = e
    <2>1. next'.start = e + 1
      BY <1>3
    <2>2. last' = next'.start - 1
      BY Zenon DEF LoadController
    <2>. QED  BY <1>3, <2>1, <2>2
  <1>5. Types' /\ BuiltHasDiff' /\ head' <= Len(chain')
    <2>1. next' \in [index : Nat \ {0}, start : Nat \ {0}]
      BY <1>3
    <2>. QED  BY <1>3, <1>4, <2>1 DEF IInv, Types, BuiltHasDiff, LoadController, durable, queues, bitcoin
  <1>6. UncommittedDiffsKept'
    BY <1>2 DEF IInv, UncommittedDiffsKept, LoadController, durable
  <1>7. Accumulated'
    <2>1. Union(chain, e + 1, e) = {}
      BY <1>3, UnionEmpty
    <2>2. ~OverLimit({})
      BY FS_EmptySet, CommitmentsAssumption DEF OverLimit
    <2>3. e - (e + 1) + 1 < MaxL2Blocks /\ e + 1 <= e + 1
      BY <1>3, CommitmentsAssumption
    <2>. QED  BY <1>3, <1>4, <2>1, <2>2, <2>3 DEF Accumulated, LoadController, durable
  <1>8. NextFollows' /\ RecoveryFollows' /\ NeverPanics'
    BY <1>2, <1>3 DEF e, NextFollows, RecoveryFollows, NeverPanics, LoadController
  <1>. QED  BY <1>2, <1>5, <1>6, <1>7, <1>8 DEF IInv
=============================================================================
