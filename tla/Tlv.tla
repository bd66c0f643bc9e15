-------------------------------- MODULE Tlv --------------------------------
(***************************************************************************)
(* Matter's TLV: the writer (tlv/writer.rs) that puts elements in a        *)
(* WriteBuf, and the list iterator (tlv/parser.rs) that reads them back.   *)
(*                                                                         *)
(* A byte of the buffer is a natural.  A control byte is the number the    *)
(* code makes of a tag kind and an element type; the digits of a tag, of a *)
(* length and of an integer are little-endian in base BYTE, so that the    *)
(* boundaries between the widths are met by small values.  An integer of w *)
(* bytes is the sequence of its w digits, as an octet string is.           *)
(***************************************************************************)
EXTENDS Buffers, FiniteSets

CONSTANTS
  BYTE,       \* how many values a byte has: 256 in the code
  Tags,       \* the tags of the values that a writer writes
  Starts,     \* the containers that it starts: << tag, type >>
  Leaves,     \* the values it writes: [kind, val]
  Structs,    \* values of a derived struct: one Field value for each field
  Schema,     \* that struct: one [tag, kind, optional] for each field
  CAPACITY,   \* the length of the buffer
  MaxWrites   \* a bound on the calls of one behaviour

VARIABLES
  wb,      \* the WriteBuf
  doc,     \* the calls that succeeded, in order, each with the end it left
  open,    \* how many containers are open
  value,   \* the struct value written last, << >> before
  field,   \* the next field of that struct to be written, 0 if it is written
  writes

tlvVars == << wb, doc, open, value, field, writes >>


----------------------------------------------------------------------------
(* Tags and element types.                                                 *)

ANON == << 0, << >> >>
TAG_SIZE_MAP == << 0, 1, 2, 4, 2, 4, 6, 8 >>
Context(n) == << 1, << n >> >>

ElementTypes ==
  << "S8", "S16", "S32", "S64", "U8", "U16", "U32", "U64", "False", "True",
     "F32", "F64", "Utf8l", "Utf16l", "Utf32l", "Utf64l", "Str8l", "Str16l",
     "Str32l", "Str64l", "Null", "Struct", "Array", "List", "EndCnt" >>
VALUE_SIZE_MAP ==
  << 1, 2, 4, 8, 1, 2, 4, 8, 0, 0, 4, 8, 1, 2, 4, 8, 1, 2, 4, 8, 0, 0, 0, 0, 0 >>

Containers == {"Struct", "Array", "List"}
Unread_ == {"F32", "F64", "Utf32l", "Utf64l", "Str32l", "Str64l"}
Strings == {"Utf8l", "Utf16l", "Str8l", "Str16l"}
TypeCode(type) == (CHOOSE i \in DOMAIN ElementTypes : ElementTypes[i] = type) - 1

\* A tag as its kind and bytes, and what a caller of the writer may give it: an integer of
\* one to eight bytes, a truth value, or a string whose length two bytes hold.
TagTypes == {tag \in (0 .. 7) \X Seq(Nat) : Len(tag[2]) = TAG_SIZE_MAP[tag[1] + 1]}
Writable(kind, val) ==
  CASE kind = "uint" -> val \in Seq(Nat) /\ Len(val) \in {1, 2, 4, 8}
    [] kind = "i8" -> val \in Seq(Nat) /\ Len(val) = 1
    [] kind \in {"ostr", "utf", "cert"} -> val \in Seq(Nat) /\ Len(val) < BYTE * BYTE
    [] kind = "bool" -> val \in {<< 0 >>, << 1 >>}
    [] OTHER -> kind \in {"null", "EndCnt"} \cup Containers /\ val = << >>

LeafKind(kind) ==
  CASE kind \in {"u8", "u16", "u32", "u64", "nullable"} -> "uint" [] OTHER -> kind

ASSUME TlvAssumption ==
  /\ BYTE \in Nat \ {0, 1} /\ CAPACITY \in Nat /\ MaxWrites \in Nat
  /\ Tags \subseteq TagTypes
  /\ \A s \in Starts : s[1] \in TagTypes /\ s[2] \in Containers
  /\ \A leaf \in Leaves : Writable(leaf.kind, leaf.val)
  /\ Schema \in Seq([tag : Nat, kind : STRING, optional : BOOLEAN])
  /\ \A v \in Structs, i \in DOMAIN Schema :
       /\ v[i].st \in {"none", "null", "some"}
       /\ v[i].st = "some" => Writable(LeafKind(Schema[i].kind), v[i].val)

Digits(n, width) ==
  IF width = 1 THEN << n % BYTE >> ELSE << n % BYTE, (n \div BYTE) % BYTE >>
Number(digits) == IF Len(digits) = 1 THEN digits[1] ELSE digits[1] + BYTE * digits[2]
Zeros(digits) == \A i \in DOMAIN digits : digits[i] = 0
Widened(digits, width) == [i \in 1 .. width |-> IF i \in DOMAIN digits THEN digits[i] ELSE 0]

----------------------------------------------------------------------------
(* TLVWriter.  Each call is several writes to the buffer, and one that     *)
(* does not fit leaves those before it.                                    *)

PutControlTag(b, tag, type) ==
  LET control == CopyFromSlice(b, << 32 * tag[1] + TypeCode(type) >>)
  IN IF tag = ANON THEN control ELSE CopyFromSlice(control, tag[2])

PutUint(b, tag, type, digits) == CopyFromSlice(PutControlTag(b, tag, type), digits)

\* The fewest bytes that hold the integer: u64, u32 and u16 hand on to u8.
Narrowest(digits) ==
  CHOOSE w \in {1, 2, 4, 8} :
    /\ w =< Len(digits) /\ Zeros(SubSeq(digits, w + 1, Len(digits)))
    /\ \A v \in {1, 2, 4, 8} :
         v < w => ~Zeros(SubSeq(digits, v + 1, Len(digits)))

UintType(width) == CASE width = 1 -> "U8" [] width = 2 -> "U16" [] width = 4 -> "U32" [] width = 8 -> "U64"

WriteUint(b, tag, digits) ==
  LET w == Narrowest(digits) IN PutUint(b, tag, UintType(w), SubSeq(digits, 1, w))

PutString(b, tag, type, lenBytes, data) ==
  CopyFromSlice(CopyFromSlice(PutControlTag(b, tag, type), Digits(Len(data), lenBytes)), data)

\* str8 refuses what is longer than 256 bytes; utf8 refuses nothing.
Str8(b, tag, data) == IF Len(data) > BYTE THEN Failed(b) ELSE PutString(b, tag, "Str8l", 1, data)

Str16(b, tag, data) ==
  IF Len(data) < BYTE THEN Str8(b, tag, data) ELSE PutString(b, tag, "Str16l", 2, data)
Utf16(b, tag, data) ==
  PutString(b, tag, IF Len(data) < BYTE THEN "Utf8l" ELSE "Utf16l", IF Len(data) < BYTE THEN 1 ELSE 2, data)

\* str16_as: the callback writes the string in place, behind the place of a
\* two-byte length, and a short one is then moved by one byte.  A callback that
\* fails, for want of room, leaves an empty string and no error.
Generated(head, data) == IF head.end + 2 + Len(data) =< Len(head.buf) THEN data ELSE << >>

Str16AsBug(b, tag, data) ==
  LET head == PutControlTag(b, tag, "Str16l")
      str == Generated(head, data)
      full == [head EXCEPT !.buf = Overlay(@, head.end + 2, str)]
      short == PutControlTag(RewindTailTo(full, b.end), tag, "Str8l")
  IN IF ~head.ok \/ head.end + 2 > Len(head.buf) THEN Failed(head)
     ELSE IF Len(str) < BYTE
          THEN ForwardTailBy(CopyFromSlice(short, Digits(Len(str), 1)), Len(str))
          ELSE ForwardTailBy(CopyFromSlice(full, Digits(Len(str), 2)), Len(str))

Str16As(b, tag, data) ==
  LET head == PutControlTag(b, tag, "Str16l")
      str == Generated(head, data)
      full == [head EXCEPT !.buf = Overlay(@, head.end + 2, str)]
      moved == [full EXCEPT !.buf = Overlay(@, head.end + 1, str)]
      short == PutControlTag(RewindTailTo(moved, b.end), tag, "Str8l")
  IN IF ~head.ok \/ head.end + 2 > Len(head.buf) THEN Failed(head)
     ELSE IF Len(str) < BYTE
          THEN ForwardTailBy(CopyFromSlice(short, Digits(Len(str), 1)), Len(str))
          ELSE ForwardTailBy(CopyFromSlice(full, Digits(Len(str), 2)), Len(str))

\* One call: what it leaves in the buffer, by the kind of the value.
Call(b, tag, leaf) ==
  CASE leaf.kind = "uint" -> WriteUint(b, tag, leaf.val)
    [] leaf.kind = "i8" -> PutUint(b, tag, "S8", leaf.val)
    [] leaf.kind = "ostr" -> Str16(b, tag, leaf.val)
    [] leaf.kind = "utf" -> Utf16(b, tag, leaf.val)
    [] leaf.kind = "cert" -> Str16As(b, tag, leaf.val)
    [] leaf.kind = "bool" -> PutControlTag(b, tag, IF leaf.val = << 0 >> THEN "False" ELSE "True")
    [] leaf.kind = "null" -> PutControlTag(b, tag, "Null")
    [] OTHER -> PutControlTag(b, tag, leaf.kind)

----------------------------------------------------------------------------
(* The parser.  An iterator is the part of the buffer it has still to read; *)
(* a container's value is such a Pointer to what follows its head.  A step  *)
(* that cannot read an element yields None, past what it did read.          *)

NONE == [tag |-> ANON, type |-> "None", val |-> << >>]
Advance(it, n) == [current |-> it.current + n, left |-> it.left - n]
AtCursor(buf, it, n) == Slice(buf, it.current, it.current + n)

\* read_length_value: the string behind a length of so many bytes.
StringFitsBug(buf, it, width) == Number(AtCursor(buf, it, width)) =< it.left
StringFits(buf, it, width) == Number(AtCursor(buf, it, width)) + width =< it.left

\* VALUE_EXTRACTOR: how many bytes the value takes beyond VALUE_SIZE_MAP, and
\* the value; Readable is FALSE where the code answers Last.
Readable(buf, it, type, size) ==
  type \notin Unread_ /\ (type \in Strings => StringFits(buf, it, size))
ValueAt(buf, it, type, size) ==
  CASE type \in Containers -> << it.current, it.left >>
    [] type \in Strings -> AtCursor(buf, Advance(it, size), Number(AtCursor(buf, it, size)))
    [] OTHER -> AtCursor(buf, it, size)

NothingAt(it) == [it |-> it, elem |-> NONE]

Found(it, tag, type, size, val) ==
  [it |-> Advance(it, size + IF type \in Strings THEN Len(val) ELSE 0),
   elem |-> [tag |-> tag, type |-> type, val |-> val]]

Extract(buf, it, tag, type, size) ==
  IF size > it.left \/ ~Readable(buf, it, type, size) THEN NothingAt(it)
  ELSE Found(it, tag, type, size, ValueAt(buf, it, type, size))

ReadThisValue(buf, it, tag, code) ==
  IF code > Len(ElementTypes) THEN NothingAt(it)
  ELSE Extract(buf, it, tag, ElementTypes[code], VALUE_SIZE_MAP[code])

ReadThisTag(buf, it, control, size) ==
  IF size > it.left THEN NothingAt(it)
  ELSE ReadThisValue(buf, Advance(it, size), << control \div 32, AtCursor(buf, it, size) >>,
                     (control % 32) + 1)

Next_(buf, it) ==
  IF it.left < 1 THEN NothingAt(it)
  ELSE ReadThisTag(buf, Advance(it, 1), buf[it.current + 1],
                   TAG_SIZE_MAP[(buf[it.current + 1] \div 32) + 1])

\* TLVList::iter over the first n bytes, as far as it finds an element.
ReadMore(buf, was) ==
  LET step == Next_(buf, was.it)
  IN IF step.elem = NONE THEN was ELSE [it |-> step.it, elems |-> Append(was.elems, step.elem)]

Elements(buf, n) ==
  LET read[k \in 0 .. n] ==
        IF k = 0 THEN [it |-> [current |-> 0, left |-> n], elems |-> << >>]
        ELSE ReadMore(buf, read[k - 1])
  IN read[n].elems

----------------------------------------------------------------------------
(* A document being written, one call after another, until one fails.       *)

CallOf(tag, kind, val) == [tag |-> tag, kind |-> kind, val |-> val]

\* What a call says once it has succeeded: what its generator made, if it has one.
Given(b, call) ==
  IF call.kind = "cert" THEN Generated(PutControlTag(b, call.tag, "Str16l"), call.val) ELSE call.val

Perform(call) ==
  /\ wb.ok
  /\ wb' = Call(wb, call.tag, call)
  /\ doc' = IF wb'.ok
            THEN Append(doc, [tag |-> call.tag, kind |-> call.kind, val |-> Given(wb, call), end |-> wb'.end])
            ELSE doc

TlvInit ==
  /\ wb = WriteBuf(CAPACITY)
  /\ doc = << >> /\ open = 0 /\ value = [at |-> 0, fields |-> << >>] /\ field = 0 /\ writes = 0

NextWrite ==
  /\ field = 0 /\ writes < MaxWrites
  /\ writes' = writes + 1

WriteLeaf(tag, leaf) ==
  /\ NextWrite
  /\ Perform(CallOf(tag, leaf.kind, leaf.val))
  /\ UNCHANGED << open, value, field >>

StartContainer(tag, type) ==
  /\ NextWrite
  /\ Perform(CallOf(tag, type, << >>))
  /\ open' = open + 1
  /\ UNCHANGED << value, field >>

EndContainer ==
  /\ open > 0
  /\ NextWrite
  /\ Perform(CallOf(ANON, "EndCnt", << >>))
  /\ open' = open - 1
  /\ UNCHANGED << value, field >>

\* The derived to_tlv: a struct is started, and each field written in order.
WriteStruct(v) ==
  /\ NextWrite
  /\ Perform(CallOf(ANON, "Struct", << >>))
  /\ value' = [at |-> Len(doc) + 1, fields |-> v]
  /\ field' = 1
  /\ UNCHANGED open

FieldDoneBug(f, v) ==
  IF v.st = "some" THEN Perform(CallOf(Context(f.tag), LeafKind(f.kind), v.val)) ELSE UNCHANGED << wb, doc >>

\* An absent field is not written, a null one as such.
FieldDone(f, v) ==
  CASE v.st = "none" -> UNCHANGED << wb, doc >>
    [] v.st = "null" -> Perform(CallOf(Context(f.tag), "null", << >>))
    [] v.st = "some" -> Perform(CallOf(Context(f.tag), LeafKind(f.kind), v.val))

WriteField ==
  /\ wb.ok /\ field \in DOMAIN Schema
  /\ FieldDone(Schema[field], value.fields[field])
  /\ field' = field + 1
  /\ UNCHANGED << open, value, writes >>

FinishStruct ==
  /\ field = Len(Schema) + 1
  /\ Perform(CallOf(ANON, "EndCnt", << >>))
  /\ field' = 0
  /\ UNCHANGED << open, value, writes >>

TlvNext ==
  \/ \E tag \in Tags, leaf \in Leaves : WriteLeaf(tag, leaf)
  \/ \E s \in Starts : StartContainer(s[1], s[2])
  \/ EndContainer
  \/ \E v \in Structs : WriteStruct(v)
  \/ WriteField
  \/ FinishStruct

TlvSpec == TlvInit /\ [][TlvNext]_tlvVars

----------------------------------------------------------------------------
(* What a reader finds.                                                     *)

\* An element is what the call that wrote it was given.
Reads(e, call) ==
  /\ e.tag = call.tag
  /\ CASE call.kind = "uint" ->
            e.type \in {"U8", "U16", "U32", "U64"} /\ Widened(e.val, Len(call.val)) = call.val
       [] call.kind = "i8" -> e.type = "S8" /\ e.val = call.val
       [] call.kind \in {"ostr", "cert", "utf"} -> e.type \in Strings /\ e.val = call.val
       [] call.kind = "bool" -> e.type = IF call.val = << 0 >> THEN "False" ELSE "True"
       [] call.kind = "null" -> e.type = "Null"
       [] OTHER -> e.type = call.kind

\* What the calls that succeeded wrote, and nothing else, is read back: the part
\* of an element that a failed call leaves is never taken for one.  And a document
\* cut short anywhere (a truncated datagram) reads as the elements that are whole
\* in what is left: none is made of a part of one, nothing is read past the cut,
\* and none that is whole is lost.
CutReadsPrefix ==
  \A n \in 0 .. wb.end :
    LET cut == Elements(wb.buf, n)
    IN /\ Len(cut) = Cardinality({i \in DOMAIN doc : doc[i].end =< n})
       /\ \A i \in DOMAIN cut : Reads(cut[i], doc[i])

=============================================================================
