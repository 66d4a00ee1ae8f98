------------------------------ MODULE Envelope ------------------------------
(***************************************************************************)
(* The envelope in a reveal transaction's tapscript: how the inscription   *)
(* builders write a body into it (crates/bitcoin-da/src/helpers/builders)  *)
(* and how the node and the light client circuit read it back              *)
(* (crates/bitcoin-da/src/helpers/parsers.rs).  An instruction pushes      *)
(* bytes or is an opcode.  A signature is the pair of the signer's key and *)
(* the body it signs.                                                      *)
(***************************************************************************)
EXTENDS Integers, Sequences, SequencesExt

CONSTANTS
  Bodies,    \* bodies that are inscribed, sequences of bytes
  PushSize,  \* largest push of a body (520 in the code)
  Inserted,  \* instructions that a script is edited with
  MaxEdits   \* edits of a script, from none to this bound

EnvelopeAssumption == PushSize \in Nat \ {0} /\ MaxEdits \in Nat

VARIABLES
  sent,    \* what the builder was given: kind and body
  script,  \* the instructions of the tapscript
  edits    \* how often the script was changed

vars == <<sent, script, edits>>

Push(bytes) == [push |-> TRUE, bytes |-> bytes]
Op(name) == [push |-> FALSE, bytes |-> <<name>>]

\* Opcodes by their number.
OP_IF == 99
OP_ENDIF == 104
OP_NIP == 119
OP_CHECKSIGVERIFY == 173
OP_FALSE == Push(<< >>)

\* TransactionKind::to_bytes and from_bytes; -1 is an unknown kind or length.
Kinds == {"Complete", "Aggregate", "Chunks", "BatchProofMethodId", "SequencerCommitment"}
KindNumber(kind) ==
  CASE kind = "Complete" -> 0 [] kind = "Aggregate" -> 1 [] kind = "Chunks" -> 2
    [] kind = "BatchProofMethodId" -> 3 [] kind = "SequencerCommitment" -> 4
to_bytes(kind) == <<KindNumber(kind), 0>>
from_bytes(bytes) ==
  IF Len(bytes) = 2 /\ bytes[1] + 256 * bytes[2] \in 0 .. 4 THEN bytes[1] + 256 * bytes[2] ELSE -1

Key == <<7>>
Nonce == <<16, 0>>

\* sign_blob_with_private_key; a signature is bytes too.
Signature(key, body) == key \o <<0>> \o body

-----------------------------------------------------------------------------
(* The builders. *)

\* Mutant: the body is pushed in whole chunks only.
MutBodyPushes(body) ==
  [k \in 1 .. Len(body) \div PushSize |->
     Push(SubSeq(body, (k - 1) * PushSize + 1, k * PushSize))]

\* body.chunks(520), one push each.
BodyPushes(body) ==
  [k \in 1 .. (Len(body) + PushSize - 1) \div PushSize |->
     Push(SubSeq(body, (k - 1) * PushSize + 1,
                 IF k * PushSize > Len(body) THEN Len(body) ELSE k * PushSize))]

Signed(kind) == kind \in {"Complete", "Aggregate", "SequencerCommitment"}

reveal_script(kind, body) ==
  <<Push(Key), Op(OP_CHECKSIGVERIFY), Push(to_bytes(kind)), OP_FALSE, Op(OP_IF)>>
  \o (IF Signed(kind) THEN <<Push(Signature(Key, body)), Push(Key)>> ELSE << >>)
  \o (IF kind = "SequencerCommitment" THEN <<Push(body)>> ELSE BodyPushes(body))
  \o <<Op(OP_ENDIF), Push(Nonce), Op(OP_NIP)>>

\* Method ids and commitments have fixed sizes, below one push.
Inscribed ==
  {[kind |-> k, body |-> b] : k \in {"Complete", "Aggregate", "Chunks"}, b \in Bodies}
  \cup {[kind |-> k, body |-> b] : k \in {"BatchProofMethodId", "SequencerCommitment"},
                                   b \in {b \in Bodies : Len(b) \in 1 .. PushSize}}

-----------------------------------------------------------------------------
(* The parser, one instruction at a time; at names what it expects next. *)

Begin == [at |-> "key", kind |-> -1, signature |-> << >>, public_key |-> << >>, body |-> << >>]
Error == [Begin EXCEPT !.at = "error"]

\* read_push_bytes and read_opcode, then on to the next part.
Pushed(st, i, next) == IF i.push THEN [st EXCEPT !.at = next] ELSE Error
Expect(st, i, op, next) == IF i = Op(op) THEN [st EXCEPT !.at = next] ELSE Error

\* The header up to the kind.
ParseHeader(st, i) ==
  CASE st.at = "key" -> Pushed(st, i, "checksig")
    [] st.at = "checksig" -> Expect(st, i, OP_CHECKSIGVERIFY, "kind")
    [] st.at = "kind" ->
         IF i.push /\ from_bytes(i.bytes) # -1
         THEN [st EXCEPT !.at = "false", !.kind = from_bytes(i.bytes)] ELSE Error

\* The opening of every body; first is what follows it.
Opening(st, i, first) ==
  CASE st.at = "false" -> IF i = OP_FALSE THEN [st EXCEPT !.at = "if"] ELSE Error
    [] st.at = "if" -> Expect(st, i, OP_IF, first)

SignedBy(st, i, next) ==
  CASE st.at = "signature" -> [Pushed(st, i, "public_key") EXCEPT !.signature = i.bytes]
    [] st.at = "public_key" -> [Pushed(st, i, next) EXCEPT !.public_key = i.bytes]

\* Non-empty pushes until OP_ENDIF.
Chunk(st, i) ==
  IF i.push /\ i.bytes # << >> THEN [st EXCEPT !.body = @ \o i.bytes]
  ELSE Expect(st, i, OP_ENDIF, "nonce")

\* Exactly one push, then OP_ENDIF.
Single(st, i) ==
  CASE st.at = "body" -> [Pushed(st, i, "endif") EXCEPT !.body = i.bytes]
    [] st.at = "endif" -> Expect(st, i, OP_ENDIF, "nonce")

\* The nonce, OP_NIP and the end of the script.
Closing(st, i) ==
  CASE st.at = "nonce" -> Pushed(st, i, "nip")
    [] st.at = "nip" -> Expect(st, i, OP_NIP, "end")
    [] st.at = "end" -> Error

IsOpening(st) == st.at \in {"false", "if"}
IsSigner(st) == st.at \in {"signature", "public_key"}
IsClosing(st) == st.at \in {"nonce", "nip", "end"}

parse_type_0_body(st, i) ==
  CASE IsOpening(st) -> Opening(st, i, "signature") [] IsSigner(st) -> SignedBy(st, i, "chunks")
    [] st.at = "chunks" -> Chunk(st, i) [] IsClosing(st) -> Closing(st, i)

\* Written out a second time in the code.
parse_type_1_body(st, i) == parse_type_0_body(st, i)

parse_type_2_body(st, i) ==
  CASE IsOpening(st) -> Opening(st, i, "chunks") [] st.at = "chunks" -> Chunk(st, i)
    [] IsClosing(st) -> Closing(st, i)

parse_type_3_body(st, i) ==
  CASE IsOpening(st) -> Opening(st, i, "body") [] st.at \in {"body", "endif"} -> Single(st, i)
    [] IsClosing(st) -> Closing(st, i)

parse_type_4_body(st, i) ==
  CASE IsOpening(st) -> Opening(st, i, "signature") [] IsSigner(st) -> SignedBy(st, i, "body")
    [] st.at \in {"body", "endif"} -> Single(st, i) [] IsClosing(st) -> Closing(st, i)

parse_transaction(st, i) ==
  CASE st.at = "error" -> st
    [] st.at \in {"key", "checksig", "kind"} -> ParseHeader(st, i)
    [] OTHER -> CASE st.kind = 0 -> parse_type_0_body(st, i) [] st.kind = 1 -> parse_type_1_body(st, i)
                  [] st.kind = 2 -> parse_type_2_body(st, i) [] st.kind = 3 -> parse_type_3_body(st, i)
                  [] st.kind = 4 -> parse_type_4_body(st, i)

\* The state at "end", anything else is an error.
parse_relevant_transaction(s) == FoldLeft(parse_transaction, Begin, s)

\* get_sig_verified_hash
SigVerified(parsed) == parsed.signature = Signature(parsed.public_key, parsed.body)

-----------------------------------------------------------------------------

Init ==
  /\ sent \in Inscribed
  /\ script = reveal_script(sent.kind, sent.body)
  /\ edits = 0

\* A script that is not what the builders write: an instruction missing,
\* added or replaced.
Edit ==
  /\ edits < MaxEdits
  /\ \/ \E p \in DOMAIN script : script' = RemoveAt(script, p)
     \/ \E p \in 1 .. Len(script) + 1, i \in Inserted : script' = InsertAt(script, p, i)
     \/ \E p \in DOMAIN script, i \in Inserted : script' = ReplaceAt(script, p, i)
  /\ edits' = edits + 1
  /\ UNCHANGED sent

Next == Edit

Spec == Init /\ [][Next]_vars

-----------------------------------------------------------------------------
(* Properties. *)

\* Whatever is inscribed is read back: the same kind, the whole body however
\* it was cut into pushes, and a signature that verifies under the signer's
\* key where the kind has one.
InscribedIsRead ==
  edits = 0 =>
    LET parsed == parse_relevant_transaction(script) IN
    /\ parsed.at = "end"
    /\ parsed.kind = KindNumber(sent.kind)
    /\ parsed.body = sent.body
    /\ Signed(sent.kind) => SigVerified(parsed) /\ parsed.public_key = Key

\* The grammar of an envelope, of the whole script at once.
IsEnvelope(s) ==
  /\ Len(s) >= 8
  /\ s[1].push /\ s[2] = Op(OP_CHECKSIGVERIFY) /\ s[3].push /\ s[4] = OP_FALSE /\ s[5] = Op(OP_IF)
  /\ s[Len(s) - 2] = Op(OP_ENDIF) /\ s[Len(s) - 1].push /\ s[Len(s)] = Op(OP_NIP)
  /\ \A p \in 6 .. Len(s) - 3 : s[p].push
  /\ \/ /\ s[3].bytes \in {<<0, 0>>, <<1, 0>>}
        /\ Len(s) >= 10
        /\ \A p \in 8 .. Len(s) - 3 : s[p].bytes # << >>
     \/ s[3].bytes = <<2, 0>> /\ \A p \in 6 .. Len(s) - 3 : s[p].bytes # << >>
     \/ s[3].bytes = <<3, 0>> /\ Len(s) = 9
     \/ s[3].bytes = <<4, 0>> /\ Len(s) = 11

\* The parser accepts exactly the envelopes, however a script was put
\* together, and the body it returns is all that stands between the key and
\* the end of the envelope: nothing is dropped and nothing is read twice.
ReadsExactlyEnvelopes ==
  LET parsed == parse_relevant_transaction(script)
      first == IF parsed.kind \in {0, 1, 4} THEN 8 ELSE 6
  IN /\ parsed.at = "end" <=> IsEnvelope(script)
     /\ parsed.at = "end" =>
          parsed.body = FlattenSeq([k \in 1 .. Len(script) - first - 2 |-> script[first + k - 1].bytes])
=============================================================================
