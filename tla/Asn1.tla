-------------------------------- MODULE Asn1 --------------------------------
(***************************************************************************)
(* ASN1Writer (cert/asn1_writer.rs), which writes the DER form of a        *)
(* certificate in one pass: the length of a compound value is not known    *)
(* when it is started, so three bytes are kept for it, and when it ends    *)
(* what it holds is moved back over those that its length does not need.   *)
(*                                                                         *)
(* A byte is a natural; lengths are written in base BASE, 256 in the code, *)
(* with the code's boundaries, BASE/2 and BASE, between their forms.       *)
(***************************************************************************)
EXTENDS Buffers

CONSTANTS
  BASE,
  MAX_DEPTH,   \* the writer's stack of compound values
  ASN1_LEN,    \* the length of the caller's buffer
  Calls        \* what the writer is called with: [op, tag, content]

ASSUME Asn1Assumption ==
  /\ BASE \in Nat /\ BASE % 2 = 0 /\ BASE > 2
  /\ MAX_DEPTH \in Nat \ {0} /\ ASN1_LEN \in Nat
  /\ \A call \in Calls : call.op \in {"start", "end", "value", "fail"} /\ call.tag \in Nat
                         /\ call.content \in Seq(Nat)

VARIABLES
  w,        \* the ASN1Writer
  made      \* how many calls were made

asn1Vars == << w, made >>

RESERVE_LEN_BYTES == 3

ASN1Writer(len) == [buf |-> [i \in 1 .. len |-> 0], offset |-> 0, depth |-> << >>, ok |-> TRUE]
AsSlice(wr) == SubSeq(wr.buf, 1, wr.offset)
NoSpace(wr) == [wr EXCEPT !.ok = FALSE]

BytesToEncodeLen(len) ==
  CASE len < BASE \div 2 -> 1 [] len >= BASE \div 2 /\ len < BASE -> 2 [] OTHER -> 3
LenFits(len) == len < BASE * BASE

\* encode_len: one byte, or how many follow and then the highest first.
EncodedLen(len) ==
  CASE BytesToEncodeLen(len) = 1 -> << len >>
    [] BytesToEncodeLen(len) = 2 -> << BASE \div 2 + 1, len >>
    [] OTHER -> << BASE \div 2 + 2, len \div BASE, len % BASE >>

AppendTagLengthValue(wr, tag, content) ==
  LET all == << tag >> \o EncodedLen(Len(content)) \o content
  IN IF wr.ok /\ LenFits(Len(content)) /\ wr.offset + Len(all) =< Len(wr.buf)
     THEN [wr EXCEPT !.buf = Overlay(@, wr.offset, all), !.offset = @ + Len(all)]
     ELSE NoSpace(wr)

\* The compound that fills the stack is an error, though it is on it by then.
AddCompound(wr, tag) ==
  IF wr.ok /\ wr.offset + 1 + RESERVE_LEN_BYTES =< Len(wr.buf)
  THEN LET at == wr.offset + 1 + RESERVE_LEN_BYTES
       IN [wr EXCEPT !.buf = Overlay(@, wr.offset, << tag >>), !.offset = at,
                     !.depth = Append(@, at), !.ok = Len(wr.depth) + 1 < MAX_DEPTH]
  ELSE NoSpace(wr)

EndCompoundBug(wr) ==
  LET begin == wr.depth[Len(wr.depth)]
      len == wr.offset - begin
      at == begin - RESERVE_LEN_BYTES + Len(EncodedLen(len))
      lenWritten == Overlay(wr.buf, begin - RESERVE_LEN_BYTES, EncodedLen(len))
  IN IF ~wr.ok \/ wr.depth = << >> \/ ~LenFits(len) THEN NoSpace(wr)
     ELSE [wr EXCEPT !.buf = Overlay(lenWritten, at, Slice(wr.buf, begin, wr.offset)),
                     !.depth = Front(@)]

EndCompound(wr) ==
  IF ~wr.ok \/ wr.depth = << >> THEN NoSpace(wr)
  ELSE LET begin == Last(wr.depth)
           len == wr.offset - begin
           at == begin - RESERVE_LEN_BYTES + Len(EncodedLen(len))
           lenWritten == Overlay(wr.buf, begin - RESERVE_LEN_BYTES, EncodedLen(len))
       IN IF ~LenFits(len) THEN NoSpace(wr)
          ELSE [wr EXCEPT !.buf = Overlay(lenWritten, at, Slice(wr.buf, begin, wr.offset)),
                          !.depth = Front(@),
                          !.offset = @ - (begin - at)]

\* bitstr: a truncated one loses its zero bytes at the end and says how many
\* bits of the last byte that is left are zero.  One that is zero throughout,
\* or empty, indexes its buffer with -1: the program panics.
TrailingZeros(byte) == CHOOSE n \in 0 .. 8 : byte % (2 ^ n) = 0 /\ byte % (2 ^ (n + 1)) # 0
BitString(truncate, bytes) ==
  LET last == CHOOSE i \in DOMAIN bytes :
                bytes[i] # 0 /\ \A j \in DOMAIN bytes : j > i => bytes[j] = 0
  IN IF truncate THEN << TrailingZeros(bytes[last]) >> \o SubSeq(bytes, 1, last) ELSE << 0 >> \o bytes
BitStringPanics(truncate, bytes) ==
  bytes = << >> \/ (truncate /\ \A i \in DOMAIN bytes : bytes[i] = 0)

\* The calls of a CertConsumer, and what each does to the writer.
SEQUENCE == 48
SET_OF == 49
Ctx(id) == 128 + id
CtxStart(id) == 160 + id
INTEGER == 2
BITSTR == 3
OSTR == 4
BOOL == 1
OID == 6
UTF8 == 12
UTCTIME == 23

StartCall(tag) == [op |-> "start", tag |-> tag, content |-> << >>]
EndCall == [op |-> "end", tag |-> 0, content |-> << >>]
ValueCall(tag, content) == [op |-> "value", tag |-> tag, content |-> content]
\* A call that ends the encoding: an error, or a panic.
FailCall == [op |-> "fail", tag |-> 0, content |-> << >>]

Apply(wr, call) ==
  CASE call.op = "start" -> AddCompound(wr, call.tag)
    [] call.op = "end" -> EndCompound(wr)
    [] call.op = "value" -> AppendTagLengthValue(wr, call.tag, call.content)
    [] call.op = "fail" -> NoSpace(wr)

Asn1Init == w = ASN1Writer(ASN1_LEN) /\ made = 0

\* After an error a writer is not used again.
Do_(call) ==
  /\ w.ok
  /\ w' = Apply(w, call)
  /\ made' = made + 1

Asn1Next == \E call \in Calls : Do_(call)
Asn1Spec == Asn1Init /\ [][Asn1Next]_asn1Vars

----------------------------------------------------------------------------
\* The values begun, read off the buffer: each lies between the three bytes kept for its
\* length and the tag of the one inside it, or the end of what is written.
BodyFrom(wr, k) == IF k = 1 THEN 0 ELSE wr.depth[k - 1]
BodyTo(wr, k) == IF k = Len(wr.depth) + 1 THEN wr.offset ELSE wr.depth[k] - 1 - RESERVE_LEN_BYTES
TagOf(wr, k) == IF k = 1 THEN 0 ELSE wr.buf[BodyFrom(wr, k) - RESERVE_LEN_BYTES]
Body(wr, k) == Slice(wr.buf, BodyFrom(wr, k), BodyTo(wr, k))
BegunBy(wr) == [k \in 1 .. Len(wr.depth) + 1 |-> [tag |-> TagOf(wr, k), body |-> Body(wr, k)]]
Begun == IF w.ok THEN BegunBy(w) ELSE << >>

\* Whatever is started, nested and ended, and wherever the buffer runs out, the bytes
\* of what is ended are the DER form of the calls made: an end_compound moves the
\* content of its value and nothing else, and its length counts what was moved before.
Der == INSTANCE DerValue WITH stack <- Begun
WritesDer == Der!Spec
=============================================================================
