------------------------- MODULE LightClientProofs --------------------------
(***************************************************************************)
(* Proofs about LightClient, for all constants.                            *)
(*                                                                         *)
(* The first part holds with crashes anywhere: a stored light client proof *)
(* is never replaced.  The argument is that the JMT counts: it holds the   *)
(* hashes of exactly the blocks it has seen, so after a crash between its  *)
(* write and the write of the last scanned height its root cannot be the   *)
(* one the previous output carries, and the assert stops the run.          *)
(***************************************************************************)
EXTENDS LightClient, TLAPS

\* How long the provers may take for a step, so that a slow machine finds the proofs too.
USE SMTT(40), ZenonT(40)

\* J has the fields of the JMT.
IsJmt(J) ==
  J = [hashes |-> J.hashes, chunks |-> J.chunks, commitments |-> J.commitments,
       transitions |-> J.transitions, methodIds |-> J.methodIds]

\* The phases in which the working set is in use.
InRun == phase \in {"blobs", "chain", "prove", "finalize", "insert"}

\* The inductive invariant of the first part.
HashInv ==
  /\ lastScanned \in Nat
  /\ IsJmt(jmt)
  /\ IsJmt(ws)
  /\ DOMAIN proofs \subseteq 1 .. (lastScanned + 1)
  /\ 1 .. lastScanned \subseteq DOMAIN proofs
  /\ \A h \in DOMAIN proofs : proofs[h].lcpRoot.hashes = 1 .. h
  /\ jmt.hashes \in {1 .. lastScanned, 1 .. (lastScanned + 1)}
  /\ lastScanned + 1 \in DOMAIN proofs => jmt.hashes = 1 .. (lastScanned + 1)
  /\ InRun => ws.hashes = 1 .. (lastScanned + 1)
  /\ phase \in {"prove", "finalize"} => jmt.hashes = 1 .. lastScanned
  /\ phase = "insert" => /\ lastScanned + 1 \notin DOMAIN proofs
                         /\ jmt.hashes = 1 .. (lastScanned + 1)
  /\ phase = "scan" => lastScanned + 1 \in DOMAIN proofs

-----------------------------------------------------------------------------
\* A range of naturals that starts at 1 determines where it ends.
LEMMA RangeEnds ==
  ASSUME NEW n \in Nat PROVE 1 .. n # 1 .. (n + 1) /\ (1 .. n) \cup {n + 1} = 1 .. (n + 1)
<1>1. n + 1 \in 1 .. (n + 1) /\ n + 1 \notin 1 .. n
  OBVIOUS
<1>2. \A k : k \in (1 .. n) \cup {n + 1} <=> k \in 1 .. (n + 1)
  OBVIOUS
<1> QED
  BY <1>1, <1>2

\* The empty JMT has all its fields and has seen no block.
LEMMA EmptyJmtFacts == IsJmt(EmptyJmt) /\ EmptyJmt.hashes = {}
BY DEF IsJmt, EmptyJmt

\* HashInv holds initially.
LEMMA HashInvInit == Init => HashInv
<1> SUFFICES ASSUME Init PROVE HashInv
  OBVIOUS
<1>1. DOMAIN proofs = {}
  BY DEF Init, EmptyTable
<1>2. 1 .. 0 = {} /\ 0 \in Nat /\ 1 \notin {}
  OBVIOUS
<1> QED
  BY <1>1, <1>2, EmptyJmtFacts DEF Init, HashInv, InRun

\* A step that leaves the tables and the working set alone, and enters no phase that
\* claims more, keeps HashInv.
LEMMA HashInvFrame ==
  ASSUME HashInv, jmt' = jmt, proofs' = proofs, lastScanned' = lastScanned, ws' = ws,
         \/ phase' = phase
         \/ phase' \in {"idle", "queue", "panicked"}
         \/ phase = "blobs" /\ phase' = "chain"
         \/ phase = "prove" /\ phase' = "finalize"
  PROVE  HashInv'
BY DEF HashInv, InRun

\* A step of the blob loop writes the working set, but never the block hashes.
LEMMA HashInvBlob ==
  ASSUME HashInv, phase = "blobs", NextBlob, IsJmt(ws'), ws'.hashes = ws.hashes
  PROVE  HashInv'
BY DEF HashInv, InRun, NextBlob, durable

\* A blob is processed only in the blob loop.
LEMMA BlobsPhase == ASSUME NEW b \in Blobs PROVE phase = "blobs"
BY DEF Blobs

\* Every step keeps HashInv, crashes included.
LEMMA HashInvNext == HashInv /\ [CrashNext]_vars => HashInv'
<1> SUFFICES ASSUME HashInv, [CrashNext]_vars PROVE HashInv'
  OBVIOUS
<1>1. CASE UNCHANGED vars
  BY <1>1, HashInvFrame DEF vars, durable, run
<1>2. CASE FinalizeL1Block \/ SyncL1
  BY <1>2, HashInvFrame DEF FinalizeL1Block, SyncL1, durable, run
<1>3. CASE Notified \/ QueueEmpty
  BY <1>3, HashInvFrame DEF Notified, QueueEmpty, durable, run
<1>4. CASE StartBlock
  <2>1. /\ IsJmt(ws')
        /\ ws'.hashes = jmt.hashes \cup {lastScanned + 1}
    BY <1>4, Zenon DEF StartBlock, Current, HashInv, IsJmt
  <2>2. ws'.hashes = 1 .. (lastScanned + 1)
    BY <2>1, RangeEnds DEF HashInv
  <2> QED
    BY <1>4, <2>1, <2>2 DEF StartBlock, HashInv, InRun
<1>5. CASE PanicOnInitialize
  BY <1>5, HashInvFrame DEF PanicOnInitialize, run
<1>6. CASE StoreChunk
  <2>1. phase = "blobs" /\ NextBlob
    BY <1>6, BlobsPhase DEF StoreChunk
  <2>2. IsJmt(ws') /\ ws'.hashes = ws.hashes
    BY <1>6 DEF StoreChunk, HashInv, IsJmt
  <2> QED
    BY <2>1, <2>2, HashInvBlob
<1>7. CASE StoreCommitment
  <2>1. phase = "blobs" /\ NextBlob
    BY <1>7, BlobsPhase DEF StoreCommitment
  <2>2. IsJmt(ws') /\ ws'.hashes = ws.hashes
    BY <1>7 DEF StoreCommitment, HashInv, IsJmt
  <2> QED
    BY <2>1, <2>2, HashInvBlob
<1>8. CASE AddMethodId
  <2>1. phase = "blobs" /\ NextBlob
    BY <1>8, BlobsPhase DEF AddMethodId
  <2>2. IsJmt(ws') /\ ws'.hashes = ws.hashes
    BY <1>8, Zenon DEF AddMethodId, HashInv, IsJmt
  <2> QED
    BY <2>1, <2>2, HashInvBlob
<1>9. CASE AcceptProof
  <2>1. phase = "blobs" /\ NextBlob
    BY <1>9, BlobsPhase DEF AcceptProof
  <2>2. PICK t : ws' = [ws EXCEPT !.transitions = t]
    BY <1>9, Zenon DEF AcceptProof
  <2>3. IsJmt(ws') /\ ws'.hashes = ws.hashes
    BY <2>2 DEF HashInv, IsJmt
  <2> QED
    BY <2>1, <2>3, HashInvBlob
<1>10. CASE SkipBlob
  BY <1>10, BlobsPhase, HashInvBlob DEF SkipBlob, HashInv
<1>11. CASE BlobsDone
  BY <1>11, HashInvFrame DEF BlobsDone, durable, run
<1>12. CASE ChainNext
  <2>1. phase' \in {phase, "panicked"}
    BY <1>12 DEF ChainNext
  <2> QED
    BY <1>12, <2>1, HashInvFrame DEF ChainNext, durable
<1>13. CASE ChainDone
  <2>1. jmt.hashes = 1 .. lastScanned
    <3>1. CASE IsFirst
      <4>1. lastScanned = 0
        BY <3>1 DEF IsFirst, Current, HashInv
      <4> QED
        BY <1>13, <3>1, <4>1, EmptyJmtFacts DEF ChainDone, ExpectedRoot
    <3>2. CASE ~IsFirst
      BY <1>13, <3>2 DEF ChainDone, ExpectedRoot, IsFirst, Current, HashInv
    <3> QED
      BY <3>1, <3>2
  <2> QED
    BY <1>13, <2>1 DEF ChainDone, HashInv, InRun, durable, run
<1>14. CASE PanicOnRoot
  BY <1>14, HashInvFrame DEF PanicOnRoot, durable, run
<1>15. CASE Prove
  BY <1>15, HashInvFrame DEF Prove, durable, run
<1>16. CASE ProveFails
  BY <1>16, EmptyJmtFacts DEF ProveFails, Discard, HashInv, InRun, durable
<1>17. CASE FinalizeStorage
  <2>1. lastScanned + 1 \notin DOMAIN proofs
    BY <1>17, RangeEnds DEF FinalizeStorage, HashInv
  <2> QED
    BY <1>17, <2>1 DEF FinalizeStorage, HashInv, InRun, run
<1>18. CASE InsertProof
  <2>1. /\ DOMAIN proofs' = DOMAIN proofs \cup {lastScanned + 1}
        /\ proofs'[lastScanned + 1].lcpRoot = ws
        /\ \A h \in DOMAIN proofs : proofs'[h] = proofs[h]
    BY <1>18 DEF InsertProof, Put, Current, HashInv
  <2>2. \A h \in DOMAIN proofs' : proofs'[h].lcpRoot.hashes = 1 .. h
    BY <1>18, <2>1 DEF InsertProof, HashInv, InRun
  <2> QED
    BY <1>18, <2>1, <2>2 DEF InsertProof, HashInv, InRun, run
<1>19. CASE SetLastScanned
  <2>1. /\ lastScanned' = lastScanned + 1
        /\ proofs' = proofs
        /\ jmt' = jmt
        /\ ws' = EmptyJmt
        /\ phase = "scan"
        /\ phase' = "queue"
    BY <1>19 DEF SetLastScanned, Current, Discard
  <2>2. 1 .. (lastScanned + 1) \subseteq DOMAIN proofs
    BY <2>1 DEF HashInv
  <2>3. lastScanned + 2 \notin DOMAIN proofs
    BY DEF HashInv
  <2>4. DOMAIN proofs \subseteq 1 .. (lastScanned + 2)
    BY DEF HashInv
  <2>5. jmt.hashes = 1 .. (lastScanned + 1)
    BY <2>1 DEF HashInv
  <2>6. lastScanned + 1 \in Nat /\ (lastScanned + 1) + 1 = lastScanned + 2
    BY DEF HashInv
  <2> QED
    BY <2>1, <2>2, <2>3, <2>4, <2>5, <2>6, EmptyJmtFacts DEF HashInv, InRun
<1>20. CASE CrashAndStart
  BY <1>20, EmptyJmtFacts DEF CrashAndStart, Boot, Discard, HashInv, InRun, durable
<1> QED
  BY <1>1, <1>2, <1>3, <1>4, <1>5, <1>6, <1>7, <1>8, <1>9, <1>10, <1>11, <1>12, <1>13,
     <1>14, <1>15, <1>16, <1>17, <1>18, <1>19, <1>20
  DEF CrashNext, Task, Handler

\* HashInv is an invariant of the prover with crashes.
LEMMA HashInvariant == CrashSpec => []HashInv
BY HashInvInit, HashInvNext, PTL DEF CrashSpec

-----------------------------------------------------------------------------
\* A step replaces no stored proof.
LEMMA StepKeepsProofs ==
  HashInv /\ [CrashNext]_vars
    => \A h \in DOMAIN proofs : h \in DOMAIN proofs' /\ proofs'[h] = proofs[h]
<1> SUFFICES ASSUME HashInv, [CrashNext]_vars
             PROVE  \A h \in DOMAIN proofs : h \in DOMAIN proofs' /\ proofs'[h] = proofs[h]
  OBVIOUS
<1>1. CASE InsertProof
  BY <1>1 DEF InsertProof, Put, Current, HashInv
<1>2. CASE ~InsertProof
  <2>1. proofs' = proofs
    BY <1>2, Zenon DEF vars, durable, CrashNext, FinalizeL1Block, Task, Handler, SyncL1, Notified,
                QueueEmpty, StartBlock, PanicOnInitialize, StoreChunk, StoreCommitment,
                AddMethodId, AcceptProof, SkipBlob, NextBlob, BlobsDone, ChainNext, ChainDone,
                PanicOnRoot, Prove, ProveFails, FinalizeStorage, SetLastScanned,
                CrashAndStart, Boot
  <2> QED
    BY <2>1
<1> QED
  BY <1>1, <1>2

\* A stored light client proof (insert_light_client_proof_data_by_l1_height) is never
\* replaced, wherever the node crashes and whatever the blocks carry.
THEOREM ProofsAreFinal == CrashSpec => StoredProofKept
<1>1. HashInv /\ [CrashNext]_vars
        => [\A h \in DOMAIN proofs : h \in DOMAIN proofs' /\ proofs'[h] = proofs[h]]_vars
  BY StepKeepsProofs
<1> QED
  BY <1>1, HashInvariant, PTL DEF CrashSpec, StoredProofKept

\* The prover never starts again from the L2 genesis in the middle of the chain, wherever
\* it crashes: process_l1_block finds the proof of the block before.
THEOREM GenesisOnce == CrashSpec => []StartsFromGenesisOnce
<1>1. HashInv => StartsFromGenesisOnce
  BY DEF HashInv, StartsFromGenesisOnce
<1> QED
  BY <1>1, HashInvariant, PTL

-----------------------------------------------------------------------------
(***************************************************************************)
(* The second part: with graceful restarts the prover never panics.  Each  *)
(* verified transition leads from the state after the canonical commitment *)
(* before it to the state after its own, so the chain loop always finds    *)
(* the state root it expects; and the JMT on disk is the one the last      *)
(* output commits to, so the asserts on its root hold.                     *)
(***************************************************************************)
\* The state root the chain of J's commitments has before index i.
RootBefore(i, J) == IF i = 1 THEN GenesisRoot ELSE LastState(J.commitments[i - 1])

\* Every transition of J is between the states of its canonical commitments.
Linked(J) ==
  \A i \in DOMAIN J.transitions :
    /\ i \in Nat \ {0}
    /\ i \in DOMAIN J.commitments
    /\ i # 1 => i - 1 \in DOMAIN J.commitments
    /\ J.transitions[i].initial = RootBefore(i, J)
    /\ J.transitions[i].final = LastState(J.commitments[i])

\* The output o is the state after a canonical commitment of J.
Fits(o, J) ==
  /\ o.index \in Nat
  /\ o.index # 0 => o.index \in DOMAIN J.commitments
  /\ o.root = IF o.index = 0 THEN GenesisRoot ELSE LastState(J.commitments[o.index])

\* The inductive invariant of the second part.
LinkInv ==
  /\ HashInv
  /\ JmtMatchesProof
  /\ phase = "insert" => jmt = ws
  /\ phase = "scan" => jmt = proofs[lastScanned + 1].lcpRoot
  /\ Linked(jmt)
  /\ InRun => Linked(ws) /\ Fits(out, ws)
  /\ \A h \in DOMAIN proofs : Fits(proofs[h].output, proofs[h].lcpRoot)
  /\ NeverPanics

\* LinkInv holds initially.
LEMMA LinkInvInit == Init => LinkInv
<1> SUFFICES ASSUME Init PROVE LinkInv
  OBVIOUS
<1>1. DOMAIN proofs = {} /\ DOMAIN jmt.transitions = {}
  BY DEF Init, EmptyTable, EmptyJmt
<1>2. Linked(jmt)
  BY <1>1 DEF Linked
<1> QED
  BY <1>1, <1>2, HashInvInit DEF Init, LinkInv, JmtMatchesProof, InRun, NeverPanics

\* Arithmetic of the position of an index i after the first in an index range.
LEMMA IndexBefore ==
  ASSUME NEW f \in Nat \ {0}, NEW l \in Nat, NEW i \in f .. l, i # f,
         NEW m \in Nat, i - f + 1 \in 1 .. m
  PROVE  /\ i - 1 \in f .. l
         /\ i # 1
         /\ (i - f + 1) - 1 \in 1 .. m
         /\ (i - 1) - f + 1 = (i - f + 1) - 1
         /\ ((i - f + 1) - 1) + 1 = i - f + 1
OBVIOUS

\* A proof that process_complete_proof accepts is one the batch proof circuit vouches
\* for, and adds only transitions between canonical commitments.
LEMMA AcceptedIsLinked ==
  ASSUME NEW b, NEW p \in ProofsIn(b), Accepted(p),
         NEW i \in DOMAIN NewTransitions(p)
  PROVE  /\ i \in Nat \ {0}
         /\ i \in DOMAIN ws.commitments
         /\ i # 1 => i - 1 \in DOMAIN ws.commitments
         /\ NewTransitions(p)[i].initial = RootBefore(i, ws)
         /\ NewTransitions(p)[i].final = LastState(ws.commitments[i])
<1>1. p \in BatchProofs
  BY LCConstantsAssumption DEF ProofsIn
<1>2. BatchProofSound(p) /\ p.hashes \in Seq(SequencerCommitments)
  BY <1>1, LCProofsAssumption DEF Accepted
<1>3. VerifyBatchProofSeqCommRelation(p)
  BY DEF Accepted
<1>4. /\ Len(p.hashes) \in Nat
      /\ \A k \in 1 .. Len(p.hashes) : p.hashes[k].index \in Nat
  <2>1. \A c \in SequencerCommitments : c.index \in Nat
    BY LCCommitmentsAssumption
  <2>2. Len(p.hashes) \in Nat /\ \A k \in 1 .. Len(p.hashes) : p.hashes[k] \in SequencerCommitments
    BY <1>2
  <2> QED
    BY <2>1, <2>2
<1>5. /\ p.firstIndex \in Nat \ {0}
      /\ p.lastIndex \in Nat
  <2>1. p.firstIndex \in Nat /\ p.lastIndex \in Nat
    BY <1>2, <1>4 DEF BatchProofSound
  <2>2. CASE p.previous = NoCommitment
    BY <1>2, <2>1, <2>2 DEF BatchProofSound
  <2>3. CASE p.previous # NoCommitment
    <3>1. p.previous.index \in Nat
      BY <1>1, <2>3, LCProofsAssumption, LCCommitmentsAssumption
    <3> QED
      BY <1>2, <2>1, <2>3, <3>1 DEF BatchProofSound
  <2> QED
    BY <2>1, <2>2, <2>3
<1>6. i \in p.firstIndex .. p.lastIndex
  BY DEF NewTransitions
<1> DEFINE n == i - p.firstIndex + 1
<1>7. /\ n \in 1 .. Len(p.hashes)
      /\ ws.commitments[i] = p.hashes[n]
      /\ i \in DOMAIN ws.commitments
  BY <1>3, <1>4, <1>5, <1>6 DEF VerifyBatchProofSeqCommRelation
<1>8. /\ NewTransitions(p)[i].initial = p.stateRoots[n]
      /\ NewTransitions(p)[i].final = p.stateRoots[i - p.firstIndex + 2]
  BY DEF NewTransitions
<1>9. NewTransitions(p)[i].final = LastState(ws.commitments[i])
  <2>1. i - p.firstIndex + 2 = n + 1
    BY <1>5, <1>6
  <2> QED
    BY <1>2, <1>7, <1>8, <2>1 DEF BatchProofSound
<1>10. /\ i # 1 => i - 1 \in DOMAIN ws.commitments
       /\ NewTransitions(p)[i].initial = RootBefore(i, ws)
  <2>1. CASE i = p.firstIndex
    <3>1. n = 1
      BY <1>5, <2>1
    <3>2. CASE p.previous = NoCommitment
      BY <1>2, <1>8, <2>1, <3>1, <3>2, ZenonT(40) DEF BatchProofSound, RootBefore
    <3>3. CASE p.previous # NoCommitment
      <4>1. p.previous.index \in Nat
        BY <1>1, <3>3, LCProofsAssumption, LCCommitmentsAssumption
      <4>2. i # 1 /\ p.previous.index = i - 1
        BY <1>2, <2>1, <3>3, <4>1 DEF BatchProofSound
      <4>3. i - 1 \in DOMAIN ws.commitments /\ ws.commitments[i - 1] = p.previous
        BY <1>3, <3>3, <4>2 DEF VerifyBatchProofSeqCommRelation
      <4>4. p.stateRoots[1] = LastState(p.previous)
        BY <1>2, <3>3 DEF BatchProofSound
      <4> QED
        BY <1>8, <3>1, <4>2, <4>3, <4>4 DEF RootBefore
    <3> QED
      BY <3>2, <3>3
  <2>2. CASE i # p.firstIndex
    <3>1. /\ i - 1 \in p.firstIndex .. p.lastIndex
          /\ i # 1
          /\ n - 1 \in 1 .. Len(p.hashes)
          /\ (i - 1) - p.firstIndex + 1 = n - 1
          /\ (n - 1) + 1 = n
      <4>1. Len(p.hashes) \in Nat /\ n \in 1 .. Len(p.hashes)
        BY <1>4, <1>7
      <4> QED
        BY <1>5, <1>6, <2>2, <4>1, IndexBefore, ZenonT(40)
    <3>2. /\ i - 1 \in DOMAIN ws.commitments
          /\ ws.commitments[i - 1] = p.hashes[n - 1]
      BY <1>3, <3>1 DEF VerifyBatchProofSeqCommRelation
    <3>3. p.stateRoots[n] = LastState(p.hashes[n - 1])
      BY <1>2, <3>1, Zenon DEF BatchProofSound
    <3> QED
      BY <1>8, <3>1, <3>2, <3>3 DEF RootBefore
  <2> QED
    BY <2>1, <2>2
<1>11. i \in Nat \ {0}
  BY <1>5, <1>6
<1> QED
  BY <1>7, <1>9, <1>10, <1>11

\* Commitments are only added, under new indices: links and outputs stay as they are.
LEMMA CommitmentsGrow ==
  ASSUME NEW J, NEW K, Linked(J), K.transitions = J.transitions,
         DOMAIN J.commitments \subseteq DOMAIN K.commitments,
         \A i \in DOMAIN J.commitments : K.commitments[i] = J.commitments[i]
  PROVE  Linked(K) /\ \A o : Fits(o, J) => Fits(o, K)
<1>1. ASSUME NEW i \in DOMAIN J.transitions
      PROVE  RootBefore(i, K) = RootBefore(i, J)
  BY <1>1 DEF Linked, RootBefore
<1>2. Linked(K)
  BY <1>1 DEF Linked
<1>3. ASSUME NEW o, Fits(o, J) PROVE Fits(o, K)
  BY <1>3 DEF Fits
<1> QED
  BY <1>2, <1>3

\* A step that changes no table, neither the working set nor the output, and neither
\* panics nor enters or leaves the writes at the end of a block keeps LinkInv.
LEMMA LinkInvFrame ==
  ASSUME LinkInv, HashInv', jmt' = jmt, proofs' = proofs, lastScanned' = lastScanned,
         ws' = ws, out' = out,
         \/ phase' = phase
         \/ phase \notin {"insert", "scan"} /\ phase' \in {"idle", "queue"}
         \/ phase = "blobs" /\ phase' = "chain"
         \/ phase = "chain" /\ phase' = "prove"
         \/ phase = "prove" /\ phase' = "finalize"
  PROVE  LinkInv'
BY ZenonT(40) DEF LinkInv, JmtMatchesProof, InRun, NeverPanics, Linked, Fits, RootBefore

\* A step of the blob loop that keeps the working set linked and the output fitting.
LEMMA LinkInvBlob ==
  ASSUME LinkInv, HashInv', phase = "blobs", NextBlob, Linked(ws'), Fits(out, ws')
  PROVE  LinkInv'
BY ZenonT(40) DEF LinkInv, JmtMatchesProof, InRun, NeverPanics, NextBlob, durable, Linked, Fits, RootBefore

\* The start of a block, and the end of its chain, find the JMT of the previous output.
LEMMA ExpectedIsThere ==
  ASSUME LinkInv, phase \notin {"insert", "scan"}
  PROVE  /\ IsFirst <=> lastScanned = 0
         /\ jmt = ExpectedRoot
         /\ IsFirst => jmt.methodIds = << >>
         /\ Fits(PreviousOutput, jmt)
<1>1. IsFirst <=> lastScanned = 0
  BY DEF LinkInv, HashInv, IsFirst, Current
<1>2. (lastScanned + 1) - 1 = lastScanned
  BY DEF LinkInv, HashInv
<1>3. jmt = ExpectedRoot
  BY <1>1, <1>2 DEF LinkInv, JmtMatchesProof, ExpectedRoot, Current
<1>4. CASE IsFirst
  <2>1. jmt = EmptyJmt
    BY <1>3, <1>4 DEF ExpectedRoot
  <2>2. EmptyJmt.methodIds = << >>
    BY DEF EmptyJmt
  <2>3. Fits(GenesisOutput, jmt)
    BY DEF Fits, GenesisOutput
  <2> QED
    BY <1>1, <1>3, <1>4, <2>1, <2>2, <2>3 DEF PreviousOutput
<1>5. CASE ~IsFirst
  <2>1. lastScanned \in DOMAIN proofs /\ jmt = proofs[lastScanned].lcpRoot
    BY <1>2, <1>3, <1>5 DEF ExpectedRoot, IsFirst, Current
  <2> QED
    BY <1>1, <1>2, <1>3, <1>5, <2>1 DEF LinkInv, PreviousOutput, Current
<1> QED
  BY <1>4, <1>5

\* Every step keeps LinkInv when restarts are graceful.
LEMMA LinkInvNext == LinkInv /\ [Next]_vars => LinkInv'
<1> SUFFICES ASSUME LinkInv, [Next]_vars PROVE LinkInv'
  OBVIOUS
<1>h. HashInv'
  BY HashInvNext DEF LinkInv, Next, CrashNext, StopAndStart, CrashAndStart
<1>1. CASE UNCHANGED vars
  BY <1>1, <1>h, LinkInvFrame DEF vars, durable, run
<1>2. CASE FinalizeL1Block \/ SyncL1
  BY <1>2, <1>h, LinkInvFrame DEF FinalizeL1Block, SyncL1, durable, run
<1>3. CASE Notified \/ QueueEmpty
  BY <1>3, <1>h, LinkInvFrame DEF Notified, QueueEmpty, durable, run
<1>4. CASE StartBlock
  <2>1. /\ ws'.commitments = jmt.commitments
        /\ ws'.transitions = jmt.transitions
    BY <1>4 DEF StartBlock, LinkInv, HashInv, IsJmt
  <2>2. Fits(PreviousOutput, jmt)
    BY <1>4, ExpectedIsThere DEF StartBlock
  <2>3. Linked(ws') /\ Fits(out', ws')
    BY <1>4, <2>1, <2>2, CommitmentsGrow, ZenonT(40) DEF StartBlock, LinkInv
  <2> QED
    BY <1>4, <1>h, <2>3
    DEF StartBlock, LinkInv, JmtMatchesProof, InRun, NeverPanics, Linked, Fits, RootBefore
<1>5. CASE PanicOnInitialize
  BY <1>5, ExpectedIsThere DEF PanicOnInitialize
<1>6. CASE StoreChunk
  <2>1. phase = "blobs" /\ NextBlob
    BY <1>6, BlobsPhase DEF StoreChunk
  <2>2. ws'.commitments = ws.commitments /\ ws'.transitions = ws.transitions
    BY <1>6 DEF StoreChunk, LinkInv, HashInv, IsJmt
  <2>3. Linked(ws') /\ Fits(out, ws')
    BY <2>1, <2>2, CommitmentsGrow DEF LinkInv, InRun
  <2> QED
    BY <1>h, <2>1, <2>3, LinkInvBlob
<1>7. CASE StoreCommitment
  <2>1. phase = "blobs" /\ NextBlob
    BY <1>7, BlobsPhase DEF StoreCommitment
  <2>2. PICK b \in Blobs : /\ NewCommitment(b)
                           /\ ws' = [ws EXCEPT !.commitments = Put(@, b.body.index, b.body)]
    BY <1>7 DEF StoreCommitment
  <2>3. /\ ws'.transitions = ws.transitions
        /\ ws'.commitments = Put(ws.commitments, b.body.index, b.body)
    BY <2>2 DEF LinkInv, HashInv, IsJmt
  <2>4. /\ DOMAIN ws.commitments \subseteq DOMAIN ws'.commitments
        /\ \A i \in DOMAIN ws.commitments : ws'.commitments[i] = ws.commitments[i]
    BY <2>2, <2>3 DEF NewCommitment, Put
  <2>5. Linked(ws') /\ Fits(out, ws')
    BY <2>1, <2>3, <2>4, CommitmentsGrow DEF LinkInv, InRun
  <2> QED
    BY <1>h, <2>1, <2>5, LinkInvBlob
<1>8. CASE AddMethodId
  <2>1. phase = "blobs" /\ NextBlob
    BY <1>8, BlobsPhase DEF AddMethodId
  <2>2. ws'.commitments = ws.commitments /\ ws'.transitions = ws.transitions
    BY <1>8 DEF AddMethodId, LinkInv, HashInv, IsJmt
  <2>3. Linked(ws') /\ Fits(out, ws')
    BY <2>1, <2>2, CommitmentsGrow DEF LinkInv, InRun
  <2> QED
    BY <1>h, <2>1, <2>3, LinkInvBlob
<1>9. CASE AcceptProof
  <2>1. phase = "blobs" /\ NextBlob
    BY <1>9, BlobsPhase DEF AcceptProof
  <2>a. PICK b \in Blobs : \E p \in ProofsIn(b) :
          /\ Accepted(p)
          /\ LET new == NewTransitions(p) IN
             ws' = [ws EXCEPT !.transitions =
                      [i \in DOMAIN @ \cup DOMAIN new |->
                         IF i \in DOMAIN @ THEN @[i] ELSE new[i]]]
    BY <1>9 DEF AcceptProof
  <2>2. PICK p \in ProofsIn(b) :
          /\ Accepted(p)
          /\ ws' = [ws EXCEPT !.transitions =
                      [i \in DOMAIN @ \cup DOMAIN NewTransitions(p) |->
                         IF i \in DOMAIN @ THEN @[i] ELSE NewTransitions(p)[i]]]
    BY <2>a
  <2>3. /\ ws'.commitments = ws.commitments
        /\ ws'.transitions = [i \in DOMAIN ws.transitions \cup DOMAIN NewTransitions(p) |->
                                IF i \in DOMAIN ws.transitions THEN ws.transitions[i]
                                ELSE NewTransitions(p)[i]]
    BY <2>2 DEF LinkInv, HashInv, IsJmt
  <2>4. Linked(ws) /\ Fits(out, ws)
    BY <2>1 DEF LinkInv, InRun
  <2>5. ASSUME NEW i \in DOMAIN ws'.transitions
        PROVE  /\ i \in Nat \ {0}
               /\ i \in DOMAIN ws'.commitments
               /\ i # 1 => i - 1 \in DOMAIN ws'.commitments
               /\ ws'.transitions[i].initial = RootBefore(i, ws')
               /\ ws'.transitions[i].final = LastState(ws'.commitments[i])
    <3>1. CASE i \in DOMAIN ws.transitions
      BY <2>3, <2>4, <3>1 DEF Linked, RootBefore
    <3>2. CASE i \notin DOMAIN ws.transitions
      <4>1. i \in DOMAIN NewTransitions(p) /\ ws'.transitions[i] = NewTransitions(p)[i]
        BY <2>3, <2>5, <3>2
      <4>2. /\ i \in Nat \ {0}
            /\ i \in DOMAIN ws.commitments
            /\ i # 1 => i - 1 \in DOMAIN ws.commitments
            /\ NewTransitions(p)[i].initial = RootBefore(i, ws)
            /\ NewTransitions(p)[i].final = LastState(ws.commitments[i])
        BY <2>2, <4>1, AcceptedIsLinked
      <4> QED
        BY <2>3, <4>1, <4>2 DEF RootBefore
    <3> QED
      BY <3>1, <3>2
  <2>6. Linked(ws')
    BY <2>5 DEF Linked
  <2>7. Fits(out, ws')
    BY <2>3, <2>4 DEF Fits
  <2> QED
    BY <1>h, <2>1, <2>6, <2>7, LinkInvBlob
<1>10. CASE SkipBlob
  <2>1. phase = "blobs" /\ NextBlob /\ ws' = ws
    BY <1>10, BlobsPhase DEF SkipBlob
  <2> QED
    BY <1>h, <2>1, LinkInvBlob DEF LinkInv, InRun
<1>11. CASE BlobsDone
  BY <1>11, <1>h, LinkInvFrame DEF BlobsDone, durable, run
<1>12. CASE ChainNext
  <2> DEFINE t == ws.transitions[out.index + 1]
  <2>1. Linked(ws) /\ Fits(out, ws) /\ out.index + 1 \in DOMAIN ws.transitions
    BY <1>12, ZenonT(40) DEF ChainNext, LinkInv, InRun
  <2>2. t.initial = out.root
    <3>1. out.index \in Nat /\ (out.index + 1) - 1 = out.index
      BY <2>1 DEF Fits
    <3>2. t.initial = RootBefore(out.index + 1, ws)
      BY <2>1, Zenon DEF Linked
    <3> QED
      BY <2>1, <3>1, <3>2 DEF Fits, RootBefore
  <2>3. /\ out' = [root |-> t.final, height |-> t.end, index |-> out.index + 1]
        /\ phase' = "chain"
    BY <1>12, <2>2 DEF ChainNext
  <2>4. Fits(out', ws)
    BY <2>1, <2>3 DEF Linked, Fits
  <2>5. /\ phase = "chain" /\ ws' = ws /\ jmt' = jmt /\ proofs' = proofs
        /\ lastScanned' = lastScanned
    BY <1>12, ZenonT(40) DEF ChainNext, durable
  <2> QED
    BY <1>h, <2>1, <2>3, <2>4, <2>5, ZenonT(40)
    DEF LinkInv, JmtMatchesProof, InRun, NeverPanics, Linked, Fits, RootBefore
<1>13. CASE ChainDone
  BY <1>13, <1>h, LinkInvFrame DEF ChainDone, durable, run
<1>14. CASE PanicOnRoot
  BY <1>14, ExpectedIsThere DEF PanicOnRoot
<1>15. CASE Prove
  BY <1>15, <1>h, LinkInvFrame DEF Prove, durable, run
<1>16. CASE ProveFails
  BY <1>16, <1>h, ZenonT(40)
  DEF ProveFails, LinkInv, JmtMatchesProof, InRun, NeverPanics, durable, Linked, Fits, RootBefore
<1>17. CASE FinalizeStorage
  BY <1>17, <1>h, ZenonT(40)
  DEF FinalizeStorage, run, LinkInv, JmtMatchesProof, InRun, NeverPanics, Linked, Fits, RootBefore
<1>18. CASE InsertProof
  <2>1. /\ proofs'[lastScanned + 1] = [output |-> out, lcpRoot |-> ws, daHeight |-> Current]
        /\ DOMAIN proofs' = DOMAIN proofs \cup {lastScanned + 1}
        /\ lastScanned + 1 \notin DOMAIN proofs
        /\ \A h \in DOMAIN proofs : proofs'[h] = proofs[h]
    <3>1. lastScanned + 1 \notin DOMAIN proofs
      BY <1>18 DEF InsertProof, LinkInv, HashInv
    <3>2. proofs' = Put(proofs, lastScanned + 1,
                        [output |-> out, lcpRoot |-> ws, daHeight |-> Current])
      BY <1>18 DEF InsertProof, Current
    <3>3. QED
      BY <3>1, <3>2 DEF Put
  <2>2. \A h \in DOMAIN proofs' : Fits(proofs'[h].output, proofs'[h].lcpRoot)
    <3>1. Fits(out, ws) /\ \A h \in DOMAIN proofs : Fits(proofs[h].output, proofs[h].lcpRoot)
      BY <1>18 DEF InsertProof, LinkInv, InRun
    <3>2. QED
      BY <2>1, <3>1
  <2>3. /\ jmt' = jmt /\ ws' = ws /\ jmt = ws /\ lastScanned' = lastScanned
        /\ phase' = "scan" /\ Linked(jmt)
    BY <1>18 DEF InsertProof, run, LinkInv
  <2>4. Linked(jmt)'
    BY <2>3 DEF Linked, RootBefore
  <2>5. (\A h \in DOMAIN proofs : Fits(proofs[h].output, proofs[h].lcpRoot))'
    BY <2>2 DEF Fits
  <2>6. (phase = "scan" => jmt = proofs[lastScanned + 1].lcpRoot)'
    BY <2>1, <2>3
  <2>7. JmtMatchesProof' /\ NeverPanics' /\ ~InRun'
    BY <2>3 DEF JmtMatchesProof, NeverPanics, InRun
  <2> QED
    BY <1>h, <2>3, <2>4, <2>5, <2>6, <2>7 DEF LinkInv
<1>19. CASE SetLastScanned
  <2>1. /\ lastScanned' = lastScanned + 1 /\ lastScanned \in Nat
        /\ jmt' = jmt /\ proofs' = proofs
        /\ phase = "scan" /\ phase' = "queue"
    BY <1>19 DEF SetLastScanned, Current, LinkInv, HashInv
  <2>2. Linked(jmt)'
    BY <2>1 DEF LinkInv, Linked, RootBefore
  <2>3. (\A h \in DOMAIN proofs : Fits(proofs[h].output, proofs[h].lcpRoot))'
    BY <2>1 DEF LinkInv, Fits
  <2>4. jmt = proofs[lastScanned + 1].lcpRoot
    BY <2>1 DEF LinkInv
  <2>5. JmtMatchesProof' /\ NeverPanics' /\ ~InRun'
    BY <2>1, <2>4 DEF JmtMatchesProof, NeverPanics, InRun
  <2> QED
    BY <1>h, <2>1, <2>2, <2>3, <2>5 DEF LinkInv
<1>20. CASE StopAndStart
  BY <1>20, <1>h, ZenonT(40)
  DEF StopAndStart, Boot, LinkInv, JmtMatchesProof, InRun, NeverPanics, durable,
      Linked, Fits, RootBefore
<1> QED
  BY <1>1, <1>2, <1>3, <1>4, <1>5, <1>6, <1>7, <1>8, <1>9, <1>10, <1>11, <1>12, <1>13,
     <1>14, <1>15, <1>16, <1>17, <1>18, <1>19, <1>20
  DEF Next, Task, Handler

\* LinkInv is an invariant of the prover with graceful restarts.
LEMMA LinkInvariant == Spec => []LinkInv
BY LinkInvInit, LinkInvNext, PTL DEF Spec

\* Neither the unreachable! of the chain loop nor an assert on the JMT is reached,
\* whatever is inscribed on Bitcoin, as long as the batch proofs that verify are sound
\* and the node is not killed in the middle of a block.
THEOREM ProverNeverPanics == Spec => []NeverPanics
<1>1. LinkInv => NeverPanics
  BY DEF LinkInv
<1> QED
  BY <1>1, LinkInvariant, PTL

\* Outside the writes at the end of a block, the JMT on disk is the one the last stored
\* output commits to.
THEOREM JmtIsProven == Spec => []JmtMatchesProof
<1>1. LinkInv => JmtMatchesProof
  BY DEF LinkInv
<1> QED
  BY <1>1, LinkInvariant, PTL
=============================================================================
