------------------------------ MODULE Tlv_proofs ------------------------------
(***************************************************************************)
(* Proof that a reader of TLV finds what was written, and in a document    *)
(* that was cut what is whole in it: CutReadsPrefix of Tlv, for every size *)
(* of the buffer and all tags, values and structs.                         *)
(***************************************************************************)
EXTENDS Tlv, Library_proofs, FiniteSetTheorems, WellFoundedInduction

LEMMA Sizes == BYTE \in Nat /\ BYTE > 1 /\ CAPACITY \in Nat
BY TlvAssumption

(***************************************************************************)
(* Elements as bytes.                                                      *)
(***************************************************************************)
WrittenTypes ==
  {"S8", "U8", "U16", "U32", "U64", "False", "True", "Null", "EndCnt"} \cup Containers \cup Strings
SizeOf(type) == VALUE_SIZE_MAP[TypeCode(type) + 1]

\* Each type that is written has a code, and a size of the value or its length.
LEMMA TypesAre ==
  ASSUME NEW type \in WrittenTypes
  PROVE  /\ TypeCode(type) \in 0 .. 24 /\ ElementTypes[TypeCode(type) + 1] = type
         /\ SizeOf(type) = CASE type \in {"S8", "U8", "Utf8l", "Str8l"} -> 1
                             [] type \in {"U16", "Utf16l", "Str16l"} -> 2
                             [] type = "U32" -> 4 [] type = "U64" -> 8 [] OTHER -> 0
<1>1. DOMAIN ElementTypes = 1 .. 25 BY DEF ElementTypes
<1>2. \E i \in 1 .. 25 : ElementTypes[i] = type
  BY DEF WrittenTypes, Containers, Strings, ElementTypes
<1> DEFINE c == CHOOSE i \in DOMAIN ElementTypes : ElementTypes[i] = type
<1>3. c \in 1 .. 25 /\ ElementTypes[c] = type BY <1>1, <1>2
<1>4. TypeCode(type) = c - 1 BY DEF TypeCode
<1> HIDE DEF c
<1>5. TypeCode(type) \in 0 .. 24 /\ TypeCode(type) + 1 = c BY <1>3, <1>4
<1>6. \A i \in 1 .. 25 : ElementTypes[i] = type =>
        VALUE_SIZE_MAP[i] = CASE type \in {"S8", "U8", "Utf8l", "Str8l"} -> 1
                              [] type \in {"U16", "Utf16l", "Str16l"} -> 2
                              [] type = "U32" -> 4 [] type = "U64" -> 8 [] OTHER -> 0
  BY DEF WrittenTypes, Containers, Strings, ElementTypes, VALUE_SIZE_MAP
<1>7. SizeOf(type) = VALUE_SIZE_MAP[c] BY <1>5 DEF SizeOf
<1>8. VALUE_SIZE_MAP[c] = CASE type \in {"S8", "U8", "Utf8l", "Str8l"} -> 1
                            [] type \in {"U16", "Utf16l", "Str16l"} -> 2
                            [] type = "U32" -> 4 [] type = "U64" -> 8 [] OTHER -> 0
  BY <1>3, <1>6
<1> QED BY <1>3, <1>5, <1>7, <1>8

\* A length of so many bytes is read as the number that was written.
LEMMA LengthIsRead ==
  ASSUME NEW n \in Nat, NEW width \in {1, 2}, n < IF width = 1 THEN BYTE ELSE BYTE * BYTE
  PROVE  /\ Digits(n, width) \in Seq(Nat) /\ Len(Digits(n, width)) = width
         /\ Number(Digits(n, width)) = n
<1>1. BYTE \in Nat /\ BYTE > 1 BY Sizes
<1> DEFINE low == n % BYTE
           high == n \div BYTE
<1>2. low \in 0 .. BYTE - 1 /\ high \in Nat /\ n = BYTE * high + low BY <1>1
<1>3. CASE width = 1
  <2>1. low = n BY <1>1, <1>3
  <2>2. Digits(n, width) = << n >> BY <1>3, <2>1 DEF Digits
  <2>3. << n >> \in Seq(Nat) /\ Len(<< n >>) = 1 /\ << n >>[1] = n OBVIOUS
  <2>4. Number(<< n >>) = n BY <2>3 DEF Number
  <2> QED BY <1>3, <2>2, <2>3, <2>4
<1>4. CASE width = 2
  <2>1. high < BYTE
    <3> SUFFICES ASSUME high >= BYTE PROVE FALSE BY <1>1, <1>2
    <3>1. n < BYTE * BYTE BY <1>4
    <3> HIDE DEF low, high
    <3>2. BYTE * high >= BYTE * BYTE BY <1>1, <1>2
    <3> QED BY <1>1, <1>2, <3>1, <3>2
  <2>2. high % BYTE = high BY <1>1, <1>2, <2>1
  <2>3. Digits(n, width) = << low, high >> BY <1>4, <2>2 DEF Digits
  <2> HIDE DEF low, high
  <2>4. /\ << low, high >> \in Seq(Nat) /\ Len(<< low, high >>) = 2
        /\ << low, high >>[1] = low /\ << low, high >>[2] = high
    BY <1>1, <1>2
  <2>5. Number(<< low, high >>) = low + BYTE * high BY <2>4 DEF Number
  <2>6. low + BYTE * high = n BY <1>1, <1>2
  <2> QED BY <1>4, <2>3, <2>4, <2>5, <2>6
<1> QED BY <1>3, <1>4

HeadOf(tag, type) == << 32 * tag[1] + TypeCode(type) >> \o tag[2]
LengthOf(type, val) == Digits(Len(val), SizeOf(type))
Encoded(tag, type, val) ==
  IF type \in Strings THEN (HeadOf(tag, type) \o LengthOf(type, val)) \o val
  ELSE HeadOf(tag, type) \o val

Element(tag, type, val) ==
  /\ tag \in TagTypes /\ type \in WrittenTypes /\ val \in Seq(Nat)
  /\ IF type \in Strings THEN Len(val) < IF SizeOf(type) = 1 THEN BYTE ELSE BYTE * BYTE
     ELSE Len(val) = SizeOf(type)

\* An element of such parts: at is where its value is, or the length of it.
Laid(e, at, type, size, val, l) ==
  /\ type \in WrittenTypes
  /\ type \in Strings => /\ Len(e) = at + (size + Len(val))
                         /\ l \in Seq(Nat) /\ Len(l) = size /\ Number(l) = Len(val)
                         /\ OccursAt(e, at, l) /\ OccursAt(e, at + size, val)
  /\ type \notin Strings => Len(e) = at + size /\ Len(val) = size /\ OccursAt(e, at, val)

\* The control byte of an element, and its tag of k bytes.
Headed(e, tag, type, size, k) ==
  /\ tag[1] \in 0 .. 7 /\ tag[2] \in Seq(Nat) /\ tag = << tag[1], tag[2] >>
  /\ Len(tag[2]) = k /\ TAG_SIZE_MAP[tag[1] + 1] = k
  /\ TypeCode(type) \in 0 .. 24 /\ ElementTypes[TypeCode(type) + 1] = type
  /\ VALUE_SIZE_MAP[TypeCode(type) + 1] = size
  /\ OccursAt(e, 0, << 32 * tag[1] + TypeCode(type) >>) /\ OccursAt(e, 1, tag[2])

LEMMA PartsOf ==
  ASSUME NEW tag, NEW type, NEW val, Element(tag, type, val)
  PROVE  LET e == Encoded(tag, type, val)
         IN  /\ e \in Seq(Nat) /\ SizeOf(type) \in Nat
             /\ 1 + Len(tag[2]) \in Nat /\ 1 + Len(tag[2]) <= Len(e)
             /\ Headed(e, tag, type, SizeOf(type), Len(tag[2]))
             /\ Laid(e, 1 + Len(tag[2]), type, SizeOf(type), val, LengthOf(type, val))
<1> DEFINE e == Encoded(tag, type, val)
           n == Len(tag[2])
           size == SizeOf(type)
           l == LengthOf(type, val)
           first == << 32 * tag[1] + TypeCode(type) >>
           h == HeadOf(tag, type)
<1>1. /\ tag[1] \in 0 .. 7 /\ tag[2] \in Seq(Nat) /\ val \in Seq(Nat) /\ type \in WrittenTypes
      /\ n = TAG_SIZE_MAP[tag[1] + 1]
  BY DEF Element, TagTypes
<1>2. TypeCode(type) \in 0 .. 24 BY <1>1, TypesAre
<1>3. n \in Nat BY <1>1
<1>4. size \in Nat /\ (type \in Strings => size \in {1, 2}) BY <1>1, TypesAre DEF Strings
<1>5. first \in Seq(Nat) /\ Len(first) = 1
  <2> DEFINE kind == tag[1]
             code == TypeCode(type)
             control == 32 * kind + code
  <2>1. kind \in 0 .. 7 /\ code \in 0 .. 24 BY <1>1, <1>2
  <2> HIDE DEF kind, code
  <2>2. control \in Nat BY <2>1
  <2> HIDE DEF control
  <2>3. << control >> \in Seq(Nat) /\ Len(<< control >>) = 1 BY <2>2
  <2> QED BY <2>3 DEF control, kind, code
<1>6. h = first \o tag[2] BY DEF HeadOf
<1>7. /\ Element(tag, type, val)
      /\ e = IF type \in Strings THEN (h \o l) \o val ELSE h \o val
  BY DEF Encoded
<1>8. n = Len(tag[2]) /\ l = Digits(Len(val), size) BY DEF LengthOf
<1>9. size = SizeOf(type) OBVIOUS
<1> HIDE DEF first, h, l, e, n, size
<1>10. h \in Seq(Nat) /\ Len(h) = 1 + n /\ OccursAt(h, 0, first) /\ OccursAt(h, 1, tag[2])
  BY <1>1, <1>5, <1>6, <1>8, Joins
<1> DEFINE at == 1 + n
<1>11. at \in Nat /\ n \in Nat /\ 1 + n = at BY <1>3
<1> HIDE DEF at
<1>12. /\ e \in Seq(Nat) /\ at <= Len(e) /\ OccursAt(e, 0, h) /\ Laid(e, at, type, size, val, l)
  <2>1. CASE type \notin Strings
    <3>1. Len(val) = size BY <1>7, <1>9, <2>1 DEF Element
    <3>2. e = h \o val /\ Len(h) = at BY <1>7, <1>10, <1>11, <2>1
    <3>3. /\ e \in Seq(Nat) /\ Len(e) = at + size /\ OccursAt(e, 0, h) /\ OccursAt(e, at, val)
      BY <1>1, <1>10, <3>1, <3>2, Joins
    <3>4. at <= at + size BY <1>4, <1>11
    <3> QED BY <1>1, <2>1, <3>1, <3>3, <3>4 DEF Laid
  <2>2. CASE type \in Strings
    <3> DEFINE bytes == Len(val)
               hl == h \o l
    <3>1. bytes \in Nat /\ bytes < (IF size = 1 THEN BYTE ELSE BYTE * BYTE)
      BY <1>1, <1>7, <1>9, <2>2 DEF Element
    <3>2. l \in Seq(Nat) /\ Len(l) = size /\ Number(l) = bytes
      BY <1>4, <1>8, <2>2, <3>1, LengthIsRead
    <3>3. e = hl \o val /\ Len(h) = at BY <1>7, <1>10, <1>11, <2>2
    <3>4. /\ hl \in Seq(Nat) /\ Len(hl) = at + size /\ OccursAt(hl, 0, h) /\ OccursAt(hl, at, l)
      BY <1>10, <3>2, <3>3, Joins
    <3> HIDE DEF bytes, hl
    <3>5. /\ e \in Seq(Nat) /\ Len(e) = Len(hl) + Len(val) /\ OccursAt(e, 0, hl)
          /\ OccursAt(e, Len(hl), val)
      BY <1>1, <3>3, <3>4, Joins
    <3>6. OccursAt(e, 0 + 0, h) BY <1>10, <3>4, <3>5, OccursIn
    <3>7. OccursAt(e, 0 + at, l) BY <1>11, <3>2, <3>4, <3>5, OccursIn
    <3>8. Len(e) = (at + size) + bytes /\ OccursAt(e, at + size, val) BY <3>4, <3>5 DEF bytes
    <3>9. 0 + 0 = 0 /\ 0 + at = at /\ (at + size) + bytes = at + (size + bytes)
          /\ at <= at + (size + bytes)
      BY <1>4, <1>11, <3>1
    <3> QED BY <1>1, <2>2, <3>2, <3>5, <3>6, <3>7, <3>8, <3>9 DEF Laid, bytes
  <2> QED BY <2>1, <2>2
<1>13. OccursAt(e, 0 + 0, first) /\ OccursAt(e, 0 + 1, tag[2])
  BY <1>1, <1>5, <1>10, <1>12, OccursIn
<1>14. OccursAt(e, 0, first) /\ OccursAt(e, 1, tag[2])
  <2>1. 0 + 0 = 0 /\ 0 + 1 = 1 OBVIOUS
  <2> QED BY <1>13, <2>1
<1>15. Headed(e, tag, type, size, n)
  <2>1. tag = << tag[1], tag[2] >> BY DEF Element, TagTypes
  <2>2. ElementTypes[TypeCode(type) + 1] = type /\ VALUE_SIZE_MAP[TypeCode(type) + 1] = size
    BY <1>1, <1>9, TypesAre DEF SizeOf
  <2> QED BY <1>1, <1>2, <1>8, <1>14, <2>1, <2>2 DEF Headed, first
<1> QED BY <1>4, <1>11, <1>12, <1>15 DEF e, n, size, l, at

(***************************************************************************)
(* Reading one element.                                                    *)
(***************************************************************************)

\* The bytes of e, as far as the first n of them, are in s from m on.
Begins(s, m, n, e) == \A i \in 1 .. Len(e) : i <= n => s[m + i] = e[i]

LEMMA BeginsPart ==
  ASSUME NEW s \in Seq(Nat), NEW m \in Nat, NEW n \in Nat, m + n <= Len(s),
         NEW e \in Seq(Nat), Begins(s, m, n, e),
         NEW t \in Seq(Nat), NEW k \in Nat, OccursAt(e, k, t), k + Len(t) <= n
  PROVE  Slice(s, m + k, m + k + Len(t)) = t
<1> DEFINE size == Len(s)
           more == Len(t)
           at == m + k
<1>1. size \in Nat /\ more \in Nat /\ at \in Nat /\ at + more <= size /\ k + more <= Len(e)
  BY DEF OccursAt
<1>2. \A i \in 1 .. more : k + i \in 1 .. Len(e) /\ k + i <= n /\ m + (k + i) = at + i
  BY <1>1
<1> HIDE DEF at, more, size
<1>3. \A i \in 1 .. more : s[at + i] = t[i]
  BY <1>2 DEF OccursAt, Begins, more
<1>4. OccursAt(s, at, t) BY <1>1, <1>3 DEF OccursAt, more, size
<1>5. size \in 0 .. Len(s) /\ SubSeq(s, 1, size) = s BY <1>1, SubSeqFull DEF size
<1>6. Slice(SubSeq(s, 1, size), at, at + Len(t)) = t BY <1>1, <1>4, <1>5, ReadBack DEF more
<1> QED BY <1>5, <1>6 DEF at

Reader(at, left) == [current |-> at, left |-> left]

\* The reader is past an element, and has it; what a container holds is read from there on.
Has(r, at, left, tag, type, val) ==
  /\ r.it = Reader(at, left) /\ r.elem.tag = tag /\ r.elem.type = type
  /\ type \notin Containers => r.elem.val = val

\* A value of a fixed size.
LEMMA FixedIsRead ==
  ASSUME NEW s, NEW p \in Nat, NEW left \in Nat, NEW tag, NEW type \in WrittenTypes,
         type \notin Strings, NEW size \in Nat, NEW val,
         size <= left => Slice(s, p, p + size) = val
  PROVE  /\ left < size => Extract(s, Reader(p, left), tag, type, size).elem = NONE
         /\ size <= left => Has(Extract(s, Reader(p, left), tag, type, size),
                                p + size, left - size, tag, type, val)
<1> DEFINE it == Reader(p, left)
           r == Extract(s, it, tag, type, size)
<1>1. it.current = p /\ it.left = left BY DEF Reader
<1>2. type \notin Unread_ BY DEF WrittenTypes, Containers, Strings, Unread_
<1> HIDE DEF it
<1>3. CASE left < size
  <2>1. size > it.left /\ ~ (size <= left) BY <1>1, <1>3
  <2>2. r = NothingAt(it) BY <2>1 DEF Extract
  <2> QED BY <2>1, <2>2 DEF NothingAt, it
<1>4. CASE size <= left
  <2>1. ~ (size > it.left) /\ ~ (left < size) BY <1>1, <1>4
  <2>2. r = Found(it, tag, type, size, ValueAt(s, it, type, size))
    BY <1>2, <2>1 DEF Extract, Readable
  <2>3. size + 0 = size OBVIOUS
  <2>4. r.it = Reader(p + size, left - size)
    BY <1>1, <2>2, <2>3 DEF Found, Advance, Reader
  <2>5. r.elem = [tag |-> tag, type |-> type, val |-> ValueAt(s, it, type, size)]
    BY <2>2 DEF Found
  <2>6. type \notin Containers => ValueAt(s, it, type, size) = val
    BY <1>1, <1>4 DEF ValueAt, AtCursor
  <2>7. Has(r, p + size, left - size, tag, type, val) BY <2>4, <2>5, <2>6 DEF Has
  <2> QED BY <2>1, <2>7 DEF it
<1> QED BY <1>3, <1>4

\* A string, behind its length.
LEMMA StringIsRead ==
  ASSUME NEW s, NEW p \in Nat, NEW left \in Nat, NEW tag, NEW type \in Strings,
         NEW size \in Nat, NEW val \in Seq(Nat), NEW bytes \in Nat, bytes = Len(val), NEW len,
         Number(len) = bytes, size <= left => Slice(s, p, p + size) = len,
         size + bytes <= left => Slice(s, p + size, p + size + bytes) = val
  PROVE  /\ left < size + bytes => Extract(s, Reader(p, left), tag, type, size).elem = NONE
         /\ size + bytes <= left => Has(Extract(s, Reader(p, left), tag, type, size),
                                p + (size + bytes), left - (size + bytes), tag, type, val)
<1> DEFINE it == Reader(p, left)
           r == Extract(s, it, tag, type, size)
<1>1. it.current = p /\ it.left = left BY DEF Reader
<1>2. type \notin Unread_ /\ type \notin Containers BY DEF Containers, Strings, Unread_
<1> HIDE DEF it
<1>3. AtCursor(s, it, size) = Slice(s, p, p + size) BY <1>1 DEF AtCursor
<1>4. CASE left < size
  <2>1. size > it.left /\ ~ (size + bytes <= left) BY <1>1, <1>4
  <2>2. r = NothingAt(it) BY <2>1 DEF Extract
  <2> QED BY <2>1, <2>2 DEF NothingAt, it
<1>5. CASE size <= left /\ left < size + bytes
  <2>1. Number(AtCursor(s, it, size)) = bytes BY <1>3, <1>5
  <2>2. ~ (bytes + size <= left) /\ ~ (size + bytes <= left) BY <1>5
  <2>3. ~ StringFits(s, it, size) BY <1>1, <2>1, <2>2 DEF StringFits
  <2>4. r = NothingAt(it) BY <2>3 DEF Extract, Readable
  <2> QED BY <2>2, <2>4 DEF NothingAt, it
<1>6. CASE size + bytes <= left
  <2>1. size <= left /\ ~ (size > it.left) /\ bytes + size <= left /\ ~ (left < size + bytes)
    BY <1>1, <1>6
  <2>2. Number(AtCursor(s, it, size)) = bytes BY <1>3, <2>1
  <2>3. StringFits(s, it, size) BY <1>1, <2>1, <2>2 DEF StringFits
  <2>4. r = Found(it, tag, type, size, ValueAt(s, it, type, size))
    BY <1>2, <2>1, <2>3 DEF Extract, Readable
  <2>5. ValueAt(s, it, type, size) = AtCursor(s, Advance(it, size), bytes)
    BY <1>2, <2>2 DEF ValueAt
  <2>6. AtCursor(s, Advance(it, size), bytes) = Slice(s, p + size, p + size + bytes)
    BY <1>1 DEF AtCursor, Advance
  <2>7. ValueAt(s, it, type, size) = val BY <1>6, <2>5, <2>6
  <2>8. r.it = Reader(p + (size + bytes), left - (size + bytes))
    BY <1>1, <2>4, <2>7 DEF Found, Advance, Reader
  <2>9. r.elem = [tag |-> tag, type |-> type, val |-> val] BY <2>4, <2>7 DEF Found
  <2>10. Has(r, p + (size + bytes), left - (size + bytes), tag, type, val)
    BY <2>8, <2>9 DEF Has
  <2> QED BY <2>1, <2>10 DEF it
<1>7. left < size \/ (size <= left /\ left < size + bytes) \/ size + bytes <= left OBVIOUS
<1> QED BY <1>4, <1>5, <1>6, <1>7

LEMMA FixedPart ==
  ASSUME NEW s \in Seq(Nat), NEW m \in Nat, NEW n \in Nat, m + n <= Len(s),
         NEW e \in Seq(Nat), Begins(s, m, n, e), NEW at \in Nat, at <= n, NEW tag, NEW type,
         NEW size \in Nat, NEW val \in Seq(Nat), NEW l, Laid(e, at, type, size, val, l),
         type \notin Strings
  PROVE  LET r == Extract(s, Reader(m + at, n - at), tag, type, size)
         IN  /\ n < Len(e) => r.elem = NONE
             /\ Len(e) <= n => Has(r, m + Len(e), n - Len(e), tag, type, val)
<1>1. type \in WrittenTypes BY DEF Laid
<1>2. Len(e) = at + size /\ Len(val) = size /\ OccursAt(e, at, val) BY DEF Laid
<1>3. m + at \in Nat /\ n - at \in Nat OBVIOUS
<1>4. ASSUME size <= n - at PROVE Slice(s, m + at, m + at + size) = val
  <2>1. at + size <= n BY <1>4
  <2>2. at + Len(val) <= n BY <1>2, <2>1
  <2>3. OccursAt(e, at, val) BY <1>2
  <2>4. Slice(s, m + at, m + at + Len(val)) = val BY <2>2, <2>3, BeginsPart
  <2> QED BY <1>2, <2>4
<1>5. LET r == Extract(s, Reader(m + at, n - at), tag, type, size)
      IN  /\ n - at < size => r.elem = NONE
          /\ size <= n - at => Has(r, (m + at) + size, (n - at) - size, tag, type, val)
  BY <1>1, <1>3, <1>4, FixedIsRead
<1>6. /\ n < at + size => n - at < size
      /\ at + size <= n => size <= n - at
      /\ (m + at) + size = m + (at + size) /\ (n - at) - size = n - (at + size)
  OBVIOUS
<1> QED BY <1>2, <1>5, <1>6

LEMMA StringPart ==
  ASSUME NEW s \in Seq(Nat), NEW m \in Nat, NEW n \in Nat, m + n <= Len(s),
         NEW e \in Seq(Nat), Begins(s, m, n, e), NEW at \in Nat, at <= n, NEW tag, NEW type,
         NEW size \in Nat, NEW val \in Seq(Nat), NEW l, Laid(e, at, type, size, val, l),
         type \in Strings
  PROVE  LET r == Extract(s, Reader(m + at, n - at), tag, type, size)
         IN  /\ n < Len(e) => r.elem = NONE
             /\ Len(e) <= n => Has(r, m + Len(e), n - Len(e), tag, type, val)
<1> DEFINE bytes == Len(val)
<1>1. bytes \in Nat OBVIOUS
<1>2. /\ Len(e) = at + (size + bytes) /\ l \in Seq(Nat) /\ Len(l) = size /\ Number(l) = bytes
      /\ OccursAt(e, at, l) /\ OccursAt(e, at + size, val)
  BY DEF Laid
<1>3. bytes = Len(val) OBVIOUS
<1> HIDE DEF bytes
<1>4. m + at \in Nat /\ n - at \in Nat OBVIOUS
<1>5. ASSUME size <= n - at PROVE Slice(s, m + at, m + at + size) = l
  <2>1. at + size <= n BY <1>5
  <2>2. at + Len(l) <= n BY <1>2, <2>1
  <2>3. OccursAt(e, at, l) /\ l \in Seq(Nat) BY <1>2
  <2>4. Slice(s, m + at, m + at + Len(l)) = l BY <2>2, <2>3, BeginsPart
  <2> QED BY <1>2, <2>4
<1>6. ASSUME size + bytes <= n - at
      PROVE  Slice(s, (m + at) + size, (m + at) + size + bytes) = val
  <2> DEFINE from == at + size
  <2>1. from \in Nat /\ from + bytes <= n /\ m + from = (m + at) + size BY <1>1, <1>6
  <2>2. OccursAt(e, from, val) BY <1>2
  <2> HIDE DEF from
  <2>3. from + Len(val) <= n BY <1>3, <2>1
  <2>4. Slice(s, m + from, m + from + Len(val)) = val BY <2>1, <2>2, <2>3, BeginsPart
  <2> QED BY <1>3, <2>1, <2>4
<1>7. LET r == Extract(s, Reader(m + at, n - at), tag, type, size)
      IN  /\ n - at < size + bytes => r.elem = NONE
          /\ size + bytes <= n - at =>
               Has(r, (m + at) + (size + bytes), (n - at) - (size + bytes), tag, type, val)
  <2> DEFINE p == m + at
             left == n - at
  <2>1. p \in Nat /\ left \in Nat BY <1>4
  <2>2. size <= left => Slice(s, p, p + size) = l BY <1>5
  <2>3. size + bytes <= left => Slice(s, p + size, p + size + bytes) = val BY <1>6
  <2>4. Number(l) = bytes BY <1>2
  <2> HIDE DEF p, left
  <2>5. LET r == Extract(s, Reader(p, left), tag, type, size)
        IN  /\ left < size + bytes => r.elem = NONE
            /\ size + bytes <= left => Has(r, p + (size + bytes), left - (size + bytes), tag, type, val)
    BY <1>1, <1>3, <2>1, <2>2, <2>3, <2>4, StringIsRead
  <2> QED BY <2>5 DEF p, left
<1>8. /\ n < at + (size + bytes) => n - at < size + bytes
      /\ at + (size + bytes) <= n => size + bytes <= n - at
      /\ (m + at) + (size + bytes) = m + (at + (size + bytes))
      /\ (n - at) - (size + bytes) = n - (at + (size + bytes))
  BY <1>1
<1> QED BY <1>2, <1>7, <1>8

\* The control byte and the tag.
LEMMA ControlIs ==
  ASSUME NEW kind \in 0 .. 7, NEW code \in 0 .. 24
  PROVE  /\ 32 * kind + code \in Nat
         /\ (32 * kind + code) \div 32 = kind /\ (32 * kind + code) % 32 = code
OBVIOUS

LEMMA TagPart ==
  ASSUME NEW s \in Seq(Nat), NEW m \in Nat, NEW n \in Nat, m + n <= Len(s),
         NEW e \in Seq(Nat), Begins(s, m, n, e), NEW tag, NEW type, NEW size, NEW k \in Nat,
         Headed(e, tag, type, size, k)
  PROVE  /\ n < 1 + k => Next_(s, Reader(m, n)).elem = NONE
         /\ 1 + k <= n => Next_(s, Reader(m, n)) =
                            Extract(s, Reader(m + (1 + k), n - (1 + k)), tag, type, size)
<1> DEFINE kind == tag[1]
           bytes == tag[2]
           code == TypeCode(type)
<1>1. /\ kind \in 0 .. 7 /\ bytes \in Seq(Nat) /\ << kind, bytes >> = tag
      /\ Len(bytes) = k /\ TAG_SIZE_MAP[kind + 1] = k /\ code \in 0 .. 24
      /\ OccursAt(e, 0, << 32 * kind + code >>) /\ OccursAt(e, 1, bytes)
  BY DEF Headed
<1>2. ElementTypes[code + 1] = type /\ VALUE_SIZE_MAP[code + 1] = size BY DEF Headed
<1> HIDE DEF kind, bytes, code
<1>3. Reader(m, n).current = m /\ Reader(m, n).left = n BY DEF Reader
<1>4. CASE n < 1
  <2>1. ~ (1 + k <= n) BY <1>4
  <2>2. Next_(s, Reader(m, n)) = NothingAt(Reader(m, n)) BY <1>3, <1>4 DEF Next_
  <2> QED BY <2>1, <2>2 DEF NothingAt
<1>5. CASE ~ (n < 1)
  <2> DEFINE control == 32 * kind + code
  <2>1. control \in Nat /\ control \div 32 = kind /\ control % 32 = code
    <3>1. kind \in 0 .. 7 /\ code \in 0 .. 24 BY <1>1
    <3> QED BY <3>1, ControlIs
  <2>2. OccursAt(e, 0, << control >>) /\ TAG_SIZE_MAP[kind + 1] = k BY <1>1
  <2> HIDE DEF control
  <2>3. s[m + 1] = control
    <3>1. << control >> \in Seq(Nat) /\ Len(<< control >>) = 1 /\ << control >>[1] = control
      BY <2>1
    <3>2. 0 + 1 <= Len(e) /\ e[0 + 1] = control
      <4>1. 1 \in 1 .. 1 OBVIOUS
      <4> QED BY <2>2, <3>1, <4>1 DEF OccursAt
    <3>3. 1 <= n /\ 0 + 1 = 1 /\ 1 \in 1 .. Len(e) BY <1>5, <3>2
    <3> QED BY <3>2, <3>3 DEF Begins
  <2>4. Advance(Reader(m, n), 1) = Reader(m + 1, n - 1) BY <1>3 DEF Advance, Reader
  <2>5. Next_(s, Reader(m, n)) = ReadThisTag(s, Reader(m + 1, n - 1), control, k)
    BY <1>3, <1>5, <2>1, <2>2, <2>3, <2>4 DEF Next_
  <2>6. Reader(m + 1, n - 1).current = m + 1 /\ Reader(m + 1, n - 1).left = n - 1 BY DEF Reader
  <2>7. CASE n < 1 + k
    <3>1. k > n - 1 /\ ~ (1 + k <= n) BY <2>7
    <3>2. Next_(s, Reader(m, n)) = NothingAt(Reader(m + 1, n - 1))
      BY <2>5, <2>6, <3>1 DEF ReadThisTag
    <3> QED BY <3>1, <3>2 DEF NothingAt
  <2>8. CASE 1 + k <= n
    <3>1. /\ ~ (k > n - 1) /\ ~ (n < 1 + k)
          /\ m + (1 + k) = m + 1 + k /\ n - (1 + k) = n - 1 - k
      BY <2>8
    <3>2. Slice(s, m + 1, m + 1 + k) = bytes
      <4>1. bytes \in Seq(Nat) /\ Len(bytes) = k /\ OccursAt(e, 1, bytes) BY <1>1
      <4>2. 1 + Len(bytes) <= n BY <2>8, <4>1
      <4>3. Slice(s, m + 1, m + 1 + Len(bytes)) = bytes BY <4>1, <4>2, BeginsPart
      <4> QED BY <4>1, <4>3
    <3>3. AtCursor(s, Reader(m + 1, n - 1), k) = bytes BY <2>6, <3>2 DEF AtCursor
    <3>4. Advance(Reader(m + 1, n - 1), k) = Reader(m + (1 + k), n - (1 + k))
      BY <2>6, <3>1 DEF Advance, Reader
    <3>5. Next_(s, Reader(m, n)) =
            ReadThisValue(s, Reader(m + (1 + k), n - (1 + k)), tag, code + 1)
      BY <1>1, <2>1, <2>5, <2>6, <3>1, <3>3, <3>4 DEF ReadThisTag
    <3>6. ~ (code + 1 > Len(ElementTypes))
      <4>1. Len(ElementTypes) = 25 /\ code \in 0 .. 24 BY <1>1 DEF ElementTypes
      <4> QED BY <4>1
    <3> QED BY <1>2, <3>1, <3>5, <3>6 DEF ReadThisValue
  <2> QED BY <2>7, <2>8
<1> QED BY <1>4, <1>5

\* Of the first n bytes from m on, the parser takes an element that is whole,
\* and nothing of one that is not.
LEMMA NextIs ==
  ASSUME NEW s \in Seq(Nat), NEW m \in Nat, NEW n \in Nat, m + n <= Len(s),
         NEW tag, NEW type, NEW val, Element(tag, type, val),
         Begins(s, m, n, Encoded(tag, type, val))
  PROVE  LET e == Encoded(tag, type, val)
         IN  /\ n < Len(e) => Next_(s, Reader(m, n)).elem = NONE
             /\ Len(e) <= n => Has(Next_(s, Reader(m, n)), m + Len(e), n - Len(e), tag, type, val)
<1> DEFINE e == Encoded(tag, type, val)
           size == SizeOf(type)
           l == LengthOf(type, val)
           k == Len(tag[2])
           at == 1 + k
<1>1. k \in Nat /\ val \in Seq(Nat) BY DEF Element, TagTypes
<1>2. /\ e \in Seq(Nat) /\ size \in Nat /\ at \in Nat /\ at <= Len(e)
      /\ Headed(e, tag, type, size, k) /\ Laid(e, at, type, size, val, l)
  BY PartsOf
<1>3. Begins(s, m, n, e) OBVIOUS
<1> HIDE DEF e, size, l, k
<1>4. /\ n < at => Next_(s, Reader(m, n)).elem = NONE
      /\ at <= n => Next_(s, Reader(m, n)) = Extract(s, Reader(m + at, n - at), tag, type, size)
  BY <1>1, <1>2, <1>3, TagPart
<1> HIDE DEF at
<1>5. CASE n < at
  <2>1. n < Len(e) /\ ~ (Len(e) <= n)
    <3> DEFINE total == Len(e)
    <3>1. total \in Nat /\ at <= total /\ at \in Nat BY <1>2
    <3> HIDE DEF total
    <3>2. n < total /\ ~ (total <= n) BY <1>5, <3>1
    <3> QED BY <3>2 DEF total
  <2> QED BY <1>4, <1>5, <2>1 DEF e
<1>6. CASE at <= n
  <2>1. e \in Seq(Nat) /\ at \in Nat /\ size \in Nat BY <1>2
  <2>2. Laid(e, at, type, size, val, l) BY <1>2
  <2>3. LET r == Extract(s, Reader(m + at, n - at), tag, type, size)
        IN  /\ n < Len(e) => r.elem = NONE
            /\ Len(e) <= n => Has(r, m + Len(e), n - Len(e), tag, type, val)
    <3>1. CASE type \in Strings BY <1>1, <1>3, <1>6, <2>1, <2>2, <3>1, StringPart
    <3>2. CASE type \notin Strings BY <1>1, <1>3, <1>6, <2>1, <2>2, <3>2, FixedPart
    <3> QED BY <3>1, <3>2
  <2> QED BY <1>4, <1>6, <2>3 DEF e
<1>7. n < at \/ at <= n BY <1>2
<1> QED BY <1>5, <1>6, <1>7

(***************************************************************************)
(* Writing one element.                                                    *)
(***************************************************************************)
Room(b) == b \in WriteBufs(CAPACITY) /\ b.ok /\ b.end <= CAPACITY

\* c is b with e written at its end, or with a part of e if there was no room for it.
Puts(b, c, e) ==
  /\ c \in WriteBufs(CAPACITY) /\ b.end <= c.end /\ c.end <= CAPACITY
  /\ \A i \in 1 .. CAPACITY : i <= b.end => c.buf[i] = b.buf[i]
  /\ Begins(c.buf, b.end, c.end - b.end, e)
  /\ IF c.ok THEN c.end = b.end + Len(e) ELSE c.end < b.end + Len(e)

LEMMA PutsNothing ==
  ASSUME NEW b, Room(b)
  PROVE  Puts(b, b, << >>)
<1>1. b.end \in Nat BY DEF Room, WriteBufs
<1>2. Begins(b.buf, b.end, b.end - b.end, << >>) BY DEF Begins
<1>3. Len(<< >>) = 0 /\ b.end = b.end + 0 BY <1>1
<1>4. \A i \in 1 .. CAPACITY : b.buf[i] = b.buf[i] OBVIOUS
<1> QED BY <1>1, <1>2, <1>3, <1>4 DEF Room, Puts

LEMMA PutsMore ==
  ASSUME NEW b, Room(b), NEW c, NEW e \in Seq(Nat), Puts(b, c, e), NEW t \in Seq(Nat)
  PROVE  Puts(b, CopyFromSlice(c, t), e \o t)
<1> DEFINE from == b.end
           end == c.end
           buf == c.buf
           more == Len(t)
           had == Len(e)
           d == CopyFromSlice(c, t)
           et == e \o t
<1>1. /\ from \in Nat /\ end \in Nat /\ more \in Nat /\ had \in Nat /\ CAPACITY \in Nat
      /\ from <= end /\ end <= CAPACITY
  BY Sizes DEF Room, Puts, WriteBufs
<1>2. /\ c \in WriteBufs(CAPACITY) /\ buf \in Octets(CAPACITY)
      /\ \A i \in 1 .. CAPACITY : i <= from => buf[i] = b.buf[i]
      /\ \A i \in 1 .. had : i <= end - from => buf[from + i] = e[i]
      /\ IF c.ok THEN end = from + had ELSE end < from + had
  BY DEF Puts, WriteBufs, Begins
<1>3. /\ et \in Seq(Nat) /\ Len(et) = had + more
      /\ \A i \in 1 .. had + more : et[i] = IF i <= had THEN e[i] ELSE t[i - had]
  BY ConcatProperties
<1>4. Len(buf) = CAPACITY BY <1>1, <1>2 DEF Octets
<1>5. more = Len(t) OBVIOUS
<1> HIDE DEF from, more, had, et
<1>6. CASE c.ok /\ end + more <= CAPACITY
  <2> DEFINE new == Overlay(buf, end, t)
  <2>1. d = [c EXCEPT !.buf = new, !.end = end + more] BY <1>4, <1>6, <1>5 DEF CopyFromSlice
  <2>2. /\ new \in Octets(CAPACITY) /\ \A i \in 1 .. more : new[end + i] = t[i]
        /\ \A i \in 1 .. CAPACITY : i <= end \/ i > end + more => new[i] = buf[i]
    <3>1. buf \in Octets(CAPACITY) /\ end \in Nat /\ end + more <= CAPACITY /\ CAPACITY \in Nat
      BY <1>1, <1>2, <1>6
    <3> HIDE DEF new, end, buf
    <3> QED BY <1>5, <3>1, OverlayIs DEF new
  <2> HIDE DEF new, end, buf, d
  <2>3. end + more \in Nat BY <1>1
  <2>4. /\ d \in WriteBufs(CAPACITY) /\ d.ok /\ d.end = end + more /\ d.buf = new
    BY <1>2, <1>6, <2>1, <2>2, <2>3 DEF WriteBufs
  <2>5. end = from + had BY <1>2, <1>6
  <2>6. \A i \in 1 .. CAPACITY : i <= from => new[i] = b.buf[i]
    <3>1. \A i \in 1 .. CAPACITY : i <= from => i <= end BY <1>1
    <3> QED BY <1>2, <2>2, <3>1
  <2>7. ASSUME NEW i \in 1 .. had + more PROVE new[from + i] = et[i]
    <3>1. CASE i <= had
      <4>1. /\ i \in 1 .. had /\ i <= end - from /\ from + i \in 1 .. CAPACITY
            /\ from + i <= end
        BY <1>1, <1>6, <2>5, <3>1
      <4> QED BY <1>2, <1>3, <2>2, <3>1, <4>1
    <3>2. CASE ~ (i <= had)
      <4> DEFINE j == i - had
      <4>1. j \in 1 .. more /\ from + i = end + j BY <1>1, <2>5, <3>2
      <4>2. et[i] = t[j] BY <1>3, <3>2
      <4> HIDE DEF j
      <4> QED BY <2>2, <4>1, <4>2
    <3> QED BY <3>1, <3>2
  <2>8. Begins(new, from, (end + more) - from, et) BY <1>3, <2>7 DEF Begins
  <2>9. from <= end + more /\ end + more <= CAPACITY /\ end + more = from + (had + more)
    BY <1>1, <1>6, <2>5
  <2> QED BY <1>3, <2>4, <2>6, <2>8, <2>9 DEF Puts, d, et, from
<1>7. CASE ~ (c.ok /\ end + more <= CAPACITY)
  <2>1. d = [c EXCEPT !.ok = FALSE] BY <1>4, <1>7, <1>5 DEF CopyFromSlice, Failed
  <2> HIDE DEF end, buf, d
  <2>2. /\ d \in WriteBufs(CAPACITY) /\ ~ d.ok /\ d.end = end /\ d.buf = buf
    BY <1>2, <2>1 DEF WriteBufs, end, buf
  <2>3. end < from + (had + more)
    <3>1. CASE c.ok
      <4>1. end = from + had /\ ~ (end + more <= CAPACITY) BY <1>2, <1>7, <3>1
      <4> QED BY <1>1, <4>1
    <3>2. CASE ~ c.ok
      <4>1. end < from + had BY <1>2, <3>2
      <4> QED BY <1>1, <4>1
    <3> QED BY <3>1, <3>2
  <2>4. end - from <= had
    <3>1. end = from + had \/ end < from + had BY <1>2
    <3> QED BY <1>1, <3>1
  <2>5. Begins(buf, from, end - from, et)
    <3> SUFFICES ASSUME NEW i \in 1 .. had + more, i <= end - from
                 PROVE  buf[from + i] = et[i]
      BY <1>3 DEF Begins
    <3>1. i \in 1 .. had /\ i <= had BY <1>1, <2>4
    <3> QED BY <1>2, <1>3, <3>1
  <2> QED BY <1>1, <1>2, <1>3, <2>2, <2>3, <2>5 DEF Puts, d, et, from
<1> QED BY <1>6, <1>7

LEMMA HeadIsBytes ==
  ASSUME NEW tag \in TagTypes, NEW type \in WrittenTypes
  PROVE  /\ << 32 * tag[1] + TypeCode(type) >> \in Seq(Nat) /\ HeadOf(tag, type) \in Seq(Nat)
         /\ HeadOf(tag, type) # << >> /\ Len(HeadOf(tag, type)) = 1 + Len(tag[2])
<1> DEFINE control == 32 * tag[1] + TypeCode(type)
           bytes == tag[2]
<1>1. tag[1] \in 0 .. 7 /\ bytes \in Seq(Nat) BY DEF TagTypes
<1>2. control \in Nat BY <1>1, TypesAre, ControlIs
<1> HIDE DEF control, bytes
<1>3. << control >> \in Seq(Nat) /\ Len(<< control >>) = 1 BY <1>2
<1>4. /\ << control >> \o bytes \in Seq(Nat) /\ Len(<< control >> \o bytes) = 1 + Len(bytes)
  BY <1>1, <1>3, Joins
<1>5. << control >> \o bytes # << >>
  <2>1. Len(<< >>) = 0 OBVIOUS
  <2>2. Len(bytes) \in Nat BY <1>1
  <2> QED BY <1>4, <2>1, <2>2
<1> QED BY <1>3, <1>4, <1>5 DEF HeadOf, control, bytes

LEMMA HeadIsPut ==
  ASSUME NEW b, Room(b), NEW tag \in TagTypes, NEW type \in WrittenTypes
  PROVE  Puts(b, PutControlTag(b, tag, type), HeadOf(tag, type))
<1> DEFINE control == << 32 * tag[1] + TypeCode(type) >>
           c == CopyFromSlice(b, control)
<1>1. control \in Seq(Nat) BY HeadIsBytes
<1>2. PutControlTag(b, tag, type) = IF tag = ANON THEN c ELSE CopyFromSlice(c, tag[2])
  BY DEF PutControlTag
<1>3. HeadOf(tag, type) = control \o tag[2] BY DEF HeadOf
<1>4. tag[2] \in Seq(Nat) BY DEF TagTypes
<1> HIDE DEF control, c
<1>5. Puts(b, c, control)
  <2>1. << >> \in Seq(Nat) /\ << >> \o control = control BY <1>1, ConcatEmptySeq
  <2>2. Puts(b, CopyFromSlice(b, control), << >> \o control)
    BY <1>1, <2>1, PutsNothing, PutsMore
  <2> QED BY <2>1, <2>2 DEF c
<1>6. CASE tag = ANON
  <2>1. tag[2] = << >> BY <1>6 DEF ANON
  <2>2. control \o << >> = control BY <1>1, ConcatEmptySeq
  <2> QED BY <1>2, <1>3, <1>5, <1>6, <2>1, <2>2
<1>7. CASE tag # ANON
  <2>1. Puts(b, CopyFromSlice(c, tag[2]), control \o tag[2]) BY <1>1, <1>4, <1>5, PutsMore
  <2> QED BY <1>2, <1>3, <1>7, <2>1
<1> QED BY <1>6, <1>7

\* An integer, and what has no value of its own.
LEMMA FixedIsPut ==
  ASSUME NEW b, Room(b), NEW tag \in TagTypes, NEW type \in WrittenTypes, type \notin Strings,
         NEW val \in Seq(Nat), Len(val) = SizeOf(type)
  PROVE  /\ Element(tag, type, val) /\ Puts(b, PutUint(b, tag, type, val), Encoded(tag, type, val))
         /\ val = << >> => Puts(b, PutControlTag(b, tag, type), Encoded(tag, type, val))
<1> DEFINE h == HeadOf(tag, type)
           c == PutControlTag(b, tag, type)
<1>1. h \in Seq(Nat) /\ Puts(b, c, h) BY HeadIsBytes, HeadIsPut
<1>2. Encoded(tag, type, val) = h \o val BY DEF Encoded
<1>3. PutUint(b, tag, type, val) = CopyFromSlice(c, val) BY DEF PutUint
<1> HIDE DEF h, c
<1>4. Puts(b, CopyFromSlice(c, val), h \o val) BY <1>1, PutsMore
<1>5. val = << >> => h \o val = h BY <1>1, ConcatEmptySeq
<1>6. Element(tag, type, val) BY DEF Element
<1> QED BY <1>1, <1>2, <1>3, <1>4, <1>5, <1>6 DEF c

\* A string behind its length.
LEMMA StringIsPut ==
  ASSUME NEW b, Room(b), NEW tag \in TagTypes, NEW type \in Strings, NEW val \in Seq(Nat),
         NEW size, size = SizeOf(type), Len(val) < IF size = 1 THEN BYTE ELSE BYTE * BYTE
  PROVE  /\ Element(tag, type, val)
         /\ Puts(b, PutString(b, tag, type, size, val), Encoded(tag, type, val))
<1> DEFINE h == HeadOf(tag, type)
           c == PutControlTag(b, tag, type)
           l == LengthOf(type, val)
<1>1. type \in WrittenTypes BY DEF WrittenTypes
<1>2. h \in Seq(Nat) /\ Puts(b, c, h) BY <1>1, HeadIsBytes, HeadIsPut
<1>3. size \in {1, 2} BY <1>1, TypesAre DEF Strings
<1>4. Len(val) \in Nat OBVIOUS
<1>5. Digits(Len(val), size) \in Seq(Nat) BY <1>3, <1>4, LengthIsRead
<1>6. l = Digits(Len(val), size) BY DEF LengthOf
<1>7. Encoded(tag, type, val) = (h \o l) \o val BY DEF Encoded
<1>8. PutString(b, tag, type, size, val) = CopyFromSlice(CopyFromSlice(c, l), val)
  BY <1>6 DEF PutString
<1> HIDE DEF h, c, l
<1>9. l \in Seq(Nat) BY <1>5, <1>6
<1>10. Puts(b, CopyFromSlice(c, l), h \o l) /\ h \o l \in Seq(Nat)
  BY <1>2, <1>9, PutsMore, Joins
<1>11. Puts(b, CopyFromSlice(CopyFromSlice(c, l), val), (h \o l) \o val)
  BY <1>10, PutsMore
<1>12. Element(tag, type, val) BY <1>1 DEF Element
<1> QED BY <1>7, <1>8, <1>11, <1>12

\* What stands behind the end, where a string is generated in place.
LEMMA CopyKeeps ==
  ASSUME NEW c \in WriteBufs(CAPACITY), NEW t \in Seq(Nat)
  PROVE  LET d == CopyFromSlice(c, t)
         IN  /\ d \in WriteBufs(CAPACITY) /\ c.end <= d.end
             /\ \A i \in 1 .. CAPACITY : i > d.end => d.buf[i] = c.buf[i]
             /\ c.ok /\ c.end + Len(t) <= CAPACITY => d.ok /\ d.end = c.end + Len(t)
<1> DEFINE d == CopyFromSlice(c, t)
           more == Len(t)
           end == c.end
           buf == c.buf
           new == Overlay(buf, end, t)
<1>1. CAPACITY \in Nat /\ more \in Nat /\ end \in Nat /\ end <= end + more BY Sizes DEF WriteBufs
<1>2. buf \in Octets(CAPACITY) /\ Len(buf) = CAPACITY BY <1>1 DEF WriteBufs, Octets
<1>3. more = Len(t) OBVIOUS
<1> HIDE DEF more
<1>4. CASE c.ok /\ end + more <= CAPACITY
  <2>1. d = [c EXCEPT !.buf = new, !.end = end + more] BY <1>2, <1>3, <1>4 DEF CopyFromSlice
  <2>2. /\ new \in Octets(CAPACITY)
        /\ \A i \in 1 .. CAPACITY : i <= end \/ i > end + more => new[i] = buf[i]
    <3> HIDE DEF new, end, buf
    <3>1. end + Len(t) <= CAPACITY BY <1>3, <1>4
    <3>2. /\ Overlay(buf, end, t) \in Octets(CAPACITY)
          /\ \A i \in 1 .. CAPACITY : i <= end \/ i > end + Len(t) =>
               Overlay(buf, end, t)[i] = buf[i]
      BY <1>1, <1>2, <3>1, OverlayIs
    <3> QED BY <1>3, <3>2 DEF new
  <2> HIDE DEF new, d
  <2>3. end + more \in Nat BY <1>1
  <2>4. d \in WriteBufs(CAPACITY) /\ d.ok /\ d.end = end + more /\ d.buf = new
    BY <1>4, <2>1, <2>2, <2>3 DEF WriteBufs
  <2> QED BY <1>1, <1>3, <2>2, <2>4 DEF d
<1>5. CASE ~ (c.ok /\ end + more <= CAPACITY)
  <2>1. d = [c EXCEPT !.ok = FALSE] BY <1>2, <1>3, <1>5 DEF CopyFromSlice, Failed
  <2> HIDE DEF d
  <2>2. d \in WriteBufs(CAPACITY) /\ d.end = end /\ d.buf = buf BY <2>1 DEF WriteBufs
  <2>3. end <= end BY <1>1
  <2> QED BY <1>3, <1>5, <2>2, <2>3 DEF d
<1> QED BY <1>4, <1>5

LEMMA HeadKeeps ==
  ASSUME NEW b \in WriteBufs(CAPACITY), b.ok, NEW tag \in TagTypes, NEW type \in WrittenTypes
  PROVE  LET c == PutControlTag(b, tag, type)
         IN  /\ c \in WriteBufs(CAPACITY)
             /\ \A i \in 1 .. CAPACITY : i > c.end => c.buf[i] = b.buf[i]
             /\ b.end + 1 + Len(tag[2]) <= CAPACITY =>
                  c.ok /\ c.end = b.end + 1 + Len(tag[2])
<1> DEFINE control == << 32 * tag[1] + TypeCode(type) >>
           a == CopyFromSlice(b, control)
           c == CopyFromSlice(a, tag[2])
           k == Len(tag[2])
<1>1. control \in Seq(Nat) /\ Len(control) = 1 BY HeadIsBytes
<1>2. tag[2] \in Seq(Nat) /\ k \in Nat BY DEF TagTypes
<1>3. PutControlTag(b, tag, type) = IF tag = ANON THEN a ELSE c BY DEF PutControlTag
<1>4. tag = ANON => k = 0 BY DEF ANON
<1>5. k = Len(tag[2]) OBVIOUS
<1> HIDE DEF control, a, k
<1>6. /\ a \in WriteBufs(CAPACITY) /\ \A i \in 1 .. CAPACITY : i > a.end => a.buf[i] = b.buf[i]
      /\ b.end + 1 <= CAPACITY => a.ok /\ a.end = b.end + 1
  BY <1>1, CopyKeeps DEF a
<1>7. /\ c \in WriteBufs(CAPACITY) /\ a.end <= c.end
      /\ \A i \in 1 .. CAPACITY : i > c.end => c.buf[i] = a.buf[i]
      /\ a.ok /\ a.end + k <= CAPACITY => c.ok /\ c.end = a.end + k
  BY <1>2, <1>5, <1>6, CopyKeeps
<1>8. a.end \in Nat /\ c.end \in Nat /\ b.end \in Nat /\ CAPACITY \in Nat
  BY <1>6, <1>7, Sizes DEF WriteBufs
<1> HIDE DEF c
<1>9. CASE tag = ANON
  <2>1. PutControlTag(b, tag, type) = a /\ k = 0 BY <1>3, <1>4, <1>9
  <2>2. b.end + 1 + k <= CAPACITY => a.ok /\ a.end = b.end + 1 + k BY <1>6, <1>8, <2>1
  <2> QED BY <1>5, <1>6, <2>1, <2>2
<1>10. CASE tag # ANON
  <2>1. PutControlTag(b, tag, type) = c BY <1>3, <1>10
  <2>2. \A i \in 1 .. CAPACITY : i > c.end => c.buf[i] = b.buf[i]
    <3>1. \A i \in 1 .. CAPACITY : i > c.end => i > a.end BY <1>7, <1>8
    <3> QED BY <1>6, <1>7, <3>1
  <2>3. b.end + 1 + k <= CAPACITY => c.ok /\ c.end = b.end + 1 + k
    <3> SUFFICES ASSUME b.end + 1 + k <= CAPACITY PROVE c.ok /\ c.end = b.end + 1 + k OBVIOUS
    <3>1. b.end + 1 <= CAPACITY BY <1>2, <1>8
    <3>2. a.ok /\ a.end = b.end + 1 BY <1>6, <3>1
    <3> QED BY <1>7, <3>2
  <2> QED BY <1>5, <1>7, <2>1, <2>2, <2>3
<1> QED BY <1>9, <1>10

\* A string that stands where it would be written need not be: ForwardTailBy.
LEMMA ForwardIsCopy ==
  ASSUME NEW c \in WriteBufs(CAPACITY), c.ok, NEW t \in Seq(Nat), c.end + Len(t) <= CAPACITY,
         \A i \in 1 .. Len(t) : c.buf[c.end + i] = t[i]
  PROVE  ForwardTailBy(c, Len(t)) = CopyFromSlice(c, t)
<1> DEFINE buf == c.buf
           end == c.end
           new == Overlay(buf, end, t)
<1>1. buf \in [1 .. CAPACITY -> Nat] /\ end \in Nat /\ Len(t) \in Nat BY DEF WriteBufs, Octets
<1>2. Len(buf) = CAPACITY BY <1>1, Sizes
<1>3. CopyFromSlice(c, t) = [c EXCEPT !.buf = new, !.end = end + Len(t)]
  BY <1>2 DEF CopyFromSlice
<1>4. \A i \in 1 .. Len(t) : buf[end + i] = t[i] OBVIOUS
<1> HIDE DEF buf, end
<1>5. new = [i \in 1 .. CAPACITY |->
               IF i \in end + 1 .. end + Len(t) THEN t[i - end] ELSE buf[i]]
  BY <1>1 DEF Overlay
<1>6. \A i \in 1 .. CAPACITY : new[i] = buf[i]
  <2> SUFFICES ASSUME NEW i \in 1 .. CAPACITY, i \in end + 1 .. end + Len(t)
               PROVE  t[i - end] = buf[i]
    BY <1>5
  <2> DEFINE j == i - end
  <2>1. j \in 1 .. Len(t) /\ end + j = i BY <1>1
  <2> HIDE DEF j
  <2>2. t[j] = buf[i] BY <1>4, <2>1
  <2> QED BY <2>2 DEF j
<1>7. new = buf BY <1>1, <1>5, <1>6
<1> HIDE DEF new
<1>8. [c EXCEPT !.buf = buf, !.end = end + Len(t)] = [c EXCEPT !.end = end + Len(t)]
  BY DEF WriteBufs, buf
<1> QED BY <1>3, <1>7, <1>8 DEF ForwardTailBy, end

\* What a callback writes behind the end changes nothing before it.
LEMMA BehindTheEnd ==
  ASSUME NEW b, Room(b), NEW c, NEW e \in Seq(Nat), Puts(b, c, e), NEW t \in Seq(Nat),
         NEW at \in Nat, c.end <= at, at + Len(t) <= CAPACITY
  PROVE  LET d == [c EXCEPT !.buf = Overlay(@, at, t)]
         IN  /\ Puts(b, d, e) /\ d \in WriteBufs(CAPACITY) /\ d.end = c.end /\ d.ok = c.ok
             /\ \A i \in 1 .. Len(t) : d.buf[at + i] = t[i]
             /\ \A i \in 1 .. CAPACITY : i <= at => d.buf[i] = c.buf[i]
<1> DEFINE from == b.end
           end == c.end
           had == Len(e)
           buf == c.buf
           new == Overlay(buf, at, t)
           d == [c EXCEPT !.buf = new]
<1>1. /\ c \in WriteBufs(CAPACITY) /\ buf \in Octets(CAPACITY) /\ end \in Nat /\ from \in Nat
      /\ from <= end /\ end <= CAPACITY /\ CAPACITY \in Nat /\ had \in Nat /\ end <= at
      /\ \A i \in 1 .. CAPACITY : i <= from => buf[i] = b.buf[i]
      /\ \A i \in 1 .. had : i <= end - from => buf[from + i] = e[i]
      /\ IF c.ok THEN end = from + had ELSE end < from + had
  BY Sizes DEF Puts, Room, WriteBufs, Begins
<1> HIDE DEF from, end, had, buf
<1>2. /\ new \in Octets(CAPACITY) /\ \A i \in 1 .. Len(t) : new[at + i] = t[i]
      /\ \A i \in 1 .. CAPACITY : i <= at => new[i] = buf[i]
  BY <1>1, OverlayIs
<1> HIDE DEF new
<1>3. /\ d \in WriteBufs(CAPACITY) /\ d.end = end /\ d.ok = c.ok /\ d.buf = new
  BY <1>1, <1>2 DEF WriteBufs, end
<1>4. \A i \in 1 .. CAPACITY : i <= from => new[i] = b.buf[i]
  <2>1. \A i \in 1 .. CAPACITY : i <= from => i <= at BY <1>1
  <2> QED BY <1>1, <1>2, <2>1
<1>5. Begins(new, from, end - from, e)
  <2> SUFFICES ASSUME NEW i \in 1 .. had, i <= end - from PROVE new[from + i] = e[i]
    BY DEF Begins, had
  <2>1. from + i \in 1 .. CAPACITY /\ from + i <= at BY <1>1
  <2> QED BY <1>1, <1>2, <2>1
<1> HIDE DEF d
<1>6. Puts(b, d, e) BY <1>1, <1>3, <1>4, <1>5 DEF Puts, from, had
<1> QED BY <1>2, <1>3, <1>6 DEF d, new, buf, end

\* A string that its callback generates in place, for every length it has: what is
\* moved is all there, and a length is written before it.
LEMMA InPlaceIsPut ==
  ASSUME NEW b, Room(b), NEW tag \in TagTypes, NEW data \in Seq(Nat), Len(data) < BYTE * BYTE,
         NEW str, str = Generated(PutControlTag(b, tag, "Str16l"), data)
  PROVE  /\ str \in Seq(Nat)
         /\ \E type \in Strings : /\ Element(tag, type, str)
                                  /\ Puts(b, Str16As(b, tag, data), Encoded(tag, type, str))
<1> DEFINE head == PutControlTag(b, tag, "Str16l")
           h == HeadOf(tag, "Str16l")
           n == Len(str)
           k == Len(tag[2])
           E == head.end
           full == [head EXCEPT !.buf = Overlay(@, E + 2, str)]
           moved == [full EXCEPT !.buf = Overlay(@, E + 1, str)]
           back == RewindTailTo(moved, b.end)
           short == PutControlTag(back, tag, "Str8l")
           c == Str16As(b, tag, data)
<1>1. "Str16l" \in Strings /\ "Str8l" \in Strings /\ "Str16l" \in WrittenTypes
      /\ "Str8l" \in WrittenTypes
  BY DEF Strings, WrittenTypes
<1>2. SizeOf("Str16l") = 2 /\ SizeOf("Str8l") = 1 BY <1>1, TypesAre
<1>3. BYTE \in Nat /\ BYTE > 1 /\ CAPACITY \in Nat BY Sizes
<1>4. k \in Nat BY DEF TagTypes
<1>5. h \in Seq(Nat) /\ Len(h) = 1 + k /\ Puts(b, head, h) BY <1>1, HeadIsBytes, HeadIsPut
<1>6. Len(head.buf) = CAPACITY /\ E \in Nat /\ E <= CAPACITY
  BY <1>3, <1>5 DEF Puts, WriteBufs, Octets
<1>7. /\ str \in Seq(Nat) /\ n < BYTE * BYTE
      /\ E + 2 <= CAPACITY => E + 2 + n <= CAPACITY
      /\ E + 2 > CAPACITY => n = 0
  <2>1. str = IF E + 2 + Len(data) =< CAPACITY THEN data ELSE << >> BY <1>6 DEF Generated
  <2>2. << >> \in Seq(Nat) /\ Len(<< >>) = 0 /\ 0 < BYTE * BYTE BY <1>3
  <2>3. CASE E + 2 + Len(data) =< CAPACITY
    <3>1. str = data /\ Len(data) \in Nat BY <2>1, <2>3
    <3>2. n = Len(data) BY <3>1
    <3> HIDE DEF n, E
    <3> QED BY <1>3, <1>6, <2>3, <3>1, <3>2
  <2>4. CASE ~ (E + 2 + Len(data) =< CAPACITY)
    <3>1. str = << >> /\ n = 0 /\ str \in Seq(Nat) /\ 0 < BYTE * BYTE BY <2>1, <2>2, <2>4
    <3> HIDE DEF n, E
    <3>2. E + 2 <= CAPACITY => E + 2 + 0 <= CAPACITY BY <1>3, <1>6
    <3> QED BY <3>1, <3>2
  <2> QED BY <2>3, <2>4
<1>8. n \in Nat BY <1>7
<1>9. c = IF ~ head.ok \/ E + 2 > CAPACITY THEN Failed(head)
          ELSE IF n < BYTE THEN ForwardTailBy(CopyFromSlice(short, Digits(n, 1)), n)
          ELSE ForwardTailBy(CopyFromSlice(full, Digits(n, 2)), n)
  BY <1>6 DEF Str16As
<1>10. n < BYTE => Element(tag, "Str8l", str) BY <1>1, <1>2, <1>7 DEF Element
<1>11. Element(tag, "Str16l", str) BY <1>1, <1>2, <1>7 DEF Element
<1>12. /\ Digits(n, 2) \in Seq(Nat) /\ Len(Digits(n, 2)) = 2
       /\ n < BYTE => Digits(n, 1) \in Seq(Nat) /\ Len(Digits(n, 1)) = 1
  BY <1>7, <1>8, LengthIsRead
<1> DEFINE l == Digits(n, 2)
<1>13. Encoded(tag, "Str16l", str) = (h \o l) \o str
  BY <1>1, <1>2 DEF Encoded, LengthOf
<1>14. Encoded(tag, "Str8l", str) = (HeadOf(tag, "Str8l") \o Digits(n, 1)) \o str
  BY <1>1, <1>2 DEF Encoded, LengthOf
<1>15. ASSUME head.ok PROVE E = b.end + 1 + k
  <2> DEFINE from == b.end
             had == Len(h)
  <2>1. E = from + had /\ from \in Nat /\ had = 1 + k
    BY <1>5, <1>15 DEF Puts, Room, WriteBufs
  <2> HIDE DEF E, from, had, k
  <2>2. E = from + 1 + k BY <1>4, <2>1
  <2> QED BY <2>2 DEF from
<1>16. head \in WriteBufs(CAPACITY) BY <1>5 DEF Puts
<1>17. l \in Seq(Nat) /\ Len(l) = 2 /\ l = Digits(n, 2) BY <1>12
<1>18. n = Len(str) /\ b.end \in Nat /\ b.end <= CAPACITY BY DEF Room, WriteBufs
<1> HIDE DEF c, n, k, h, head, l
<1>19. CASE ~ head.ok \/ E + 2 > CAPACITY
  <2>1. CopyFromSlice(head, l) = Failed(head)
    <3>1. ~ (head.ok /\ head.end + 2 =< CAPACITY) BY <1>3, <1>6, <1>19
    <3>2. ~ (head.ok /\ head.end + Len(l) =< Len(head.buf)) BY <1>6, <1>17, <3>1
    <3> QED BY <3>2 DEF CopyFromSlice
  <2>2. ~ Failed(head).ok BY <1>16 DEF Failed, WriteBufs
  <2>3. CopyFromSlice(Failed(head), str) = Failed(Failed(head)) BY <2>2 DEF CopyFromSlice
  <2>4. Failed(Failed(head)) = Failed(head) BY <1>16 DEF Failed, WriteBufs
  <2>5. Puts(b, Failed(head), h \o l) /\ h \o l \in Seq(Nat)
    BY <1>5, <1>17, <2>1, PutsMore, Joins
  <2>6. Puts(b, CopyFromSlice(Failed(head), str), (h \o l) \o str)
    BY <1>7, <2>5, PutsMore
  <2>7. c = Failed(head) BY <1>9, <1>19
  <2>8. Puts(b, c, Encoded(tag, "Str16l", str)) BY <1>13, <2>3, <2>4, <2>6, <2>7
  <2> QED BY <1>1, <1>7, <1>11, <2>8 DEF c
<1>20. CASE head.ok /\ E + 2 <= CAPACITY
  <2>1. E + 2 + n <= CAPACITY /\ E + 2 \in Nat /\ E <= E + 2 BY <1>6, <1>7, <1>20
  <2>2. /\ Puts(b, full, h) /\ full \in WriteBufs(CAPACITY) /\ full.end = E /\ full.ok
        /\ \A i \in 1 .. n : full.buf[(E + 2) + i] = str[i]
        /\ \A i \in 1 .. CAPACITY : i <= E + 2 => full.buf[i] = head.buf[i]
    BY <1>5, <1>7, <1>18, <1>20, <2>1, BehindTheEnd
  <2> HIDE DEF full
  <2>3. CASE n < BYTE
    <3> DEFINE h8 == HeadOf(tag, "Str8l")
               l8 == Digits(n, 1)
               d == CopyFromSlice(short, l8)
    <3>1. /\ Puts(b, moved, h) /\ moved \in WriteBufs(CAPACITY) /\ moved.end = E /\ moved.ok
          /\ \A i \in 1 .. n : moved.buf[(E + 1) + i] = str[i]
      <4>1. full.end <= E + 1 /\ E + 1 \in Nat /\ (E + 1) + n <= CAPACITY
        BY <1>6, <1>8, <2>1, <2>2
      <4>2. (E + 1) + Len(str) <= CAPACITY BY <1>18, <4>1
      <4> QED BY <1>5, <1>7, <1>18, <2>2, <4>1, <4>2, BehindTheEnd
    <3> HIDE DEF moved
    <3>2. /\ back \in WriteBufs(CAPACITY) /\ back.ok /\ back.end = b.end /\ back.buf = moved.buf
          /\ Room(back)
      BY <1>18, <3>1 DEF RewindTailTo, WriteBufs, Room
    <3> HIDE DEF back
    <3>3. b.end + 1 + k = E /\ E <= CAPACITY BY <1>6, <1>15, <1>20
    <3>4. /\ short \in WriteBufs(CAPACITY) /\ short.ok /\ short.end = E
          /\ \A i \in 1 .. CAPACITY : i > E => short.buf[i] = moved.buf[i]
      <4>1. LET s == PutControlTag(back, tag, "Str8l")
            IN  /\ s \in WriteBufs(CAPACITY)
                /\ \A i \in 1 .. CAPACITY : i > s.end => s.buf[i] = back.buf[i]
                /\ back.end + 1 + Len(tag[2]) <= CAPACITY =>
                     s.ok /\ s.end = back.end + 1 + Len(tag[2])
        BY <1>1, <3>2, HeadKeeps
      <4>2. back.end + 1 + Len(tag[2]) = E BY <3>2, <3>3 DEF k
      <4> QED BY <3>2, <3>3, <4>1, <4>2
    <3>5. h8 \in Seq(Nat) /\ Puts(back, short, h8) BY <1>1, <3>2, HeadIsBytes, HeadIsPut
    <3> HIDE DEF short, h8, l8
    <3>6. l8 \in Seq(Nat) /\ Len(l8) = 1 BY <1>12, <2>3 DEF l8
    <3>7. Puts(back, d, h8 \o l8) /\ h8 \o l8 \in Seq(Nat)
      BY <3>2, <3>5, <3>6, PutsMore, Joins
    <3>8. short.end + Len(l8) = E + 1 /\ E + 1 <= CAPACITY
      <4>1. E + 1 <= CAPACITY BY <1>3, <1>6, <1>20
      <4> QED BY <3>4, <3>6, <4>1
    <3>9. /\ d \in WriteBufs(CAPACITY) /\ d.ok /\ d.end = E + 1
          /\ \A i \in 1 .. CAPACITY : i > d.end => d.buf[i] = short.buf[i]
      BY <3>4, <3>6, <3>8, CopyKeeps
    <3> HIDE DEF d
    <3>10. \A i \in 1 .. n : d.buf[d.end + i] = str[i]
      <4>1. \A i \in 1 .. n : /\ (E + 1) + i \in 1 .. CAPACITY /\ (E + 1) + i > E + 1
                              /\ (E + 1) + i > E
        BY <1>3, <1>6, <1>8, <2>1
      <4> QED BY <3>1, <3>4, <3>9, <4>1
    <3>11. ForwardTailBy(d, n) = CopyFromSlice(d, str)
      <4>1. d.end + Len(str) <= CAPACITY
        <5>1. (E + 1) + n <= CAPACITY BY <1>6, <1>8, <2>1
        <5> QED BY <1>18, <3>9, <5>1
      <4>2. \A i \in 1 .. Len(str) : d.buf[d.end + i] = str[i] BY <1>18, <3>10
      <4>3. ForwardTailBy(d, Len(str)) = CopyFromSlice(d, str)
        BY <1>7, <3>9, <4>1, <4>2, ForwardIsCopy
      <4> QED BY <1>18, <4>3
    <3>12. Puts(back, CopyFromSlice(d, str), (h8 \o l8) \o str) BY <1>7, <3>2, <3>7, PutsMore
    <3>13. c = ForwardTailBy(d, n)
      <4>1. ~ (~ head.ok \/ E + 2 > CAPACITY) BY <1>3, <1>6, <1>20
      <4> QED BY <1>9, <2>3, <4>1 DEF d, l8, short, back, moved, full
    <3>14. Encoded(tag, "Str8l", str) = (h8 \o l8) \o str BY <1>14 DEF h8, l8
    <3>15. Puts(back, c, Encoded(tag, "Str8l", str)) BY <3>11, <3>12, <3>13, <3>14
    <3>16. \A i \in 1 .. CAPACITY : i <= b.end => back.buf[i] = b.buf[i]
      BY <3>1, <3>2 DEF Puts
    <3>17. Puts(b, c, Encoded(tag, "Str8l", str)) BY <3>2, <3>15, <3>16 DEF Puts
    <3> QED BY <1>1, <1>7, <1>10, <2>3, <3>17 DEF c
  <2>4. CASE ~ (n < BYTE)
    <3> DEFINE d == CopyFromSlice(full, l)
    <3>1. Puts(b, d, h \o l) /\ h \o l \in Seq(Nat) BY <1>5, <1>17, <2>2, PutsMore, Joins
    <3>2. full.end + Len(l) <= CAPACITY /\ full.end + Len(l) = E + 2
      <4>1. full.end + Len(l) = E + 2 BY <1>17, <2>2
      <4> QED BY <1>20, <4>1
    <3>3. /\ d \in WriteBufs(CAPACITY) /\ d.ok /\ d.end = E + 2
          /\ \A i \in 1 .. CAPACITY : i > d.end => d.buf[i] = full.buf[i]
      BY <1>17, <2>2, <3>2, CopyKeeps
    <3> HIDE DEF d
    <3>4. \A i \in 1 .. n : d.buf[d.end + i] = str[i]
      <4>1. \A i \in 1 .. n : (E + 2) + i \in 1 .. CAPACITY /\ (E + 2) + i > E + 2
        BY <1>3, <1>8, <2>1
      <4> QED BY <2>2, <3>3, <4>1
    <3>5. ForwardTailBy(d, n) = CopyFromSlice(d, str)
      BY <1>7, <1>18, <2>1, <3>3, <3>4, ForwardIsCopy
    <3>6. Puts(b, CopyFromSlice(d, str), (h \o l) \o str) BY <1>7, <3>1, PutsMore
    <3>7. c = ForwardTailBy(d, n)
      <4>1. ~ (~ head.ok \/ E + 2 > CAPACITY) BY <1>3, <1>6, <1>20
      <4> QED BY <1>9, <1>17, <2>4, <4>1 DEF d
    <3>8. Puts(b, c, Encoded(tag, "Str16l", str)) BY <1>13, <3>5, <3>6, <3>7
    <3> QED BY <1>1, <1>7, <1>11, <3>8 DEF c
  <2> QED BY <2>3, <2>4
<1> QED BY <1>3, <1>6, <1>19, <1>20

(***************************************************************************)
(* What each call writes.                                                  *)
(***************************************************************************)

\* What is left out of an integer is zero.
LEMMA NarrowestIs ==
  ASSUME NEW digits \in Seq(Nat), Len(digits) \in {1, 2, 4, 8}
  PROVE  LET w == Narrowest(digits)
             v == SubSeq(digits, 1, w)
         IN  /\ w \in {1, 2, 4, 8} /\ v \in Seq(Nat) /\ Len(v) = w
             /\ Widened(v, Len(digits)) = digits
<1> DEFINE n == Len(digits)
           Rest(w) == SubSeq(digits, w + 1, n)
           Fits(w) == Zeros(Rest(w))
           w == Narrowest(digits)
           v == SubSeq(digits, 1, w)
<1>1. n \in {1, 2, 4, 8} /\ n = Len(digits) OBVIOUS
<1>2. Fits(n)
  <2>1. Rest(n) = << >>
    <3>1. n + 1 \in Int /\ n \in Int /\ n + 1 > n BY <1>1
    <3> QED BY <3>1, SubSeqEmpty
  <2>2. DOMAIN << >> = {} OBVIOUS
  <2> QED BY <2>1, <2>2 DEF Zeros
<1>3. w = CHOOSE x \in {1, 2, 4, 8} :
            x =< n /\ Fits(x) /\ \A y \in {1, 2, 4, 8} : y < x => ~ Fits(y)
  BY DEF Narrowest
<1> HIDE DEF n, Fits, w
<1>4. \E x \in {1, 2, 4, 8} :
        x =< n /\ Fits(x) /\ \A y \in {1, 2, 4, 8} : y < x => ~ Fits(y)
  <2>1. CASE Fits(1)
    <3>1. 1 =< n /\ \A y \in {1, 2, 4, 8} : ~ (y < 1) BY <1>1
    <3> QED BY <2>1, <3>1
  <2>2. CASE ~ Fits(1) /\ Fits(2)
    <3>1. n # 1 BY <1>2, <2>2
    <3>2. 2 =< n /\ \A y \in {1, 2, 4, 8} : y < 2 => y = 1 BY <1>1, <3>1
    <3> QED BY <2>2, <3>2
  <2>3. CASE ~ Fits(1) /\ ~ Fits(2) /\ Fits(4)
    <3>1. n # 1 /\ n # 2 BY <1>2, <2>3
    <3>2. 4 =< n /\ \A y \in {1, 2, 4, 8} : y < 4 => y = 1 \/ y = 2 BY <1>1, <3>1
    <3> QED BY <2>3, <3>2
  <2>4. CASE ~ Fits(1) /\ ~ Fits(2) /\ ~ Fits(4)
    <3>1. n = 8 BY <1>1, <1>2, <2>4
    <3>2. 8 =< n /\ \A y \in {1, 2, 4, 8} : y < 8 => y = 1 \/ y = 2 \/ y = 4 BY <3>1
    <3> QED BY <1>2, <2>4, <3>1, <3>2
  <2> QED BY <2>1, <2>2, <2>3, <2>4
<1>5. w \in {1, 2, 4, 8} /\ w =< n /\ Fits(w) BY <1>3, <1>4
<1>6. /\ v \in Seq(Nat) /\ Len(v) = w /\ \A i \in 1 .. w : v[i] = digits[i]
  <2>1. w \in 0 .. Len(digits) BY <1>1, <1>5
  <2> QED BY <2>1, CutIs
<1> HIDE DEF v
<1>7. ASSUME NEW i \in 1 .. n, ~ (i <= w) PROVE digits[i] = 0
  <2> DEFINE j == i - w
             rest == Rest(w)
  <2>1. j \in 1 .. n - w /\ i = w + j /\ w + 1 <= n BY <1>1, <1>5, <1>7
  <2> HIDE DEF j
  <2>2. rest = Slice(digits, w, n) BY DEF Slice
  <2>3. /\ rest \in Seq(Nat) /\ Len(rest) = n - w
        /\ \A k \in 1 .. n - w : rest[k] = digits[w + k]
    <3>1. w \in Nat /\ n \in Nat /\ w <= n /\ n <= Len(digits) BY <1>1, <1>5
    <3> HIDE DEF rest
    <3> QED BY <2>2, <3>1, SliceIs
  <2> HIDE DEF rest
  <2>4. DOMAIN rest = 1 .. n - w BY <2>3
  <2>5. rest[j] = 0 BY <1>5, <2>1, <2>4 DEF Fits, Zeros, rest
  <2> QED BY <2>1, <2>3, <2>5
<1>8. DOMAIN v = 1 .. w BY <1>5, <1>6
<1>9. Widened(v, n) = [i \in 1 .. n |-> digits[i]]
  <2>1. \A i \in 1 .. n : (IF i \in DOMAIN v THEN v[i] ELSE 0) = digits[i]
    <3> TAKE i \in 1 .. n
    <3>1. CASE i <= w
      <4>1. i \in 1 .. w BY <3>1
      <4> QED BY <1>6, <1>8, <4>1
    <3>2. CASE ~ (i <= w) BY <1>5, <1>7, <1>8, <3>2
    <3> QED BY <3>1, <3>2
  <2> QED BY <2>1 DEF Widened
<1>10. [i \in 1 .. n |-> digits[i]] = digits BY <1>1
<1> QED BY <1>1, <1>5, <1>6, <1>9, <1>10 DEF v, w

Says(type, v, call) == Reads([tag |-> call.tag, type |-> type, val |-> v], call)
CallSays(b, call, type, v) ==
  \A x : Says(type, v, [tag |-> call.tag, kind |-> call.kind, val |-> Given(b, call), end |-> x])

\* Every call writes one element, or a part of it, and the element says what the call was given.
CallPuts(b, call, type, v) ==
  /\ Element(call.tag, type, v) /\ Puts(b, Call(b, call.tag, call), Encoded(call.tag, type, v))
  /\ CallSays(b, call, type, v)

LEMMA UintDoes ==
  ASSUME NEW b, Room(b), NEW call, call.tag \in TagTypes, call.kind = "uint",
         call.val \in Seq(Nat), Len(call.val) \in {1, 2, 4, 8}
  PROVE  \E type, v : CallPuts(b, call, type, v)
<1> DEFINE w == Narrowest(call.val)
           v == SubSeq(call.val, 1, w)
           type == UintType(w)
<1>1. /\ w \in {1, 2, 4, 8} /\ v \in Seq(Nat) /\ Len(v) = w
      /\ Widened(v, Len(call.val)) = call.val
  BY NarrowestIs
<1>2. Call(b, call.tag, call) = PutUint(b, call.tag, type, v) BY DEF Call, WriteUint
<1>3. Given(b, call) = call.val BY DEF Given
<1> HIDE DEF w, v
<1>4. type \in {"U8", "U16", "U32", "U64"} BY <1>1 DEF UintType
<1>5. type \in WrittenTypes /\ type \notin Strings BY <1>4 DEF WrittenTypes, Strings
<1>6. SizeOf(type) = w
  <2>1. SizeOf(type) = CASE type \in {"S8", "U8", "Utf8l", "Str8l"} -> 1
                         [] type \in {"U16", "Utf16l", "Str16l"} -> 2
                         [] type = "U32" -> 4 [] type = "U64" -> 8 [] OTHER -> 0
    BY <1>5, TypesAre
  <2> QED BY <1>1, <2>1 DEF UintType
<1> HIDE DEF type
<1>7. Element(call.tag, type, v) /\ Puts(b, Call(b, call.tag, call), Encoded(call.tag, type, v))
  BY <1>1, <1>2, <1>5, <1>6, FixedIsPut
<1>8. CallSays(b, call, type, v) BY <1>1, <1>3, <1>4 DEF CallSays, Says, Reads
<1> QED BY <1>7, <1>8 DEF CallPuts

LEMMA StringDoes ==
  ASSUME NEW b, Room(b), NEW call, call.tag \in TagTypes, call.kind \in {"ostr", "utf", "cert"},
         call.val \in Seq(Nat), Len(call.val) < BYTE * BYTE
  PROVE  /\ Given(b, call) \in Seq(Nat)
         /\ \E type, v : CallPuts(b, call, type, v)
<1> DEFINE tag == call.tag
           val == call.val
           n == Len(val)
           c == Call(b, tag, call)
<1>1. BYTE \in Nat /\ n \in Nat /\ val \in Seq(Nat) BY Sizes
<1>2. SizeOf("Str8l") = 1 /\ SizeOf("Utf8l") = 1 /\ SizeOf("Str16l") = 2 /\ SizeOf("Utf16l") = 2
  BY TypesAre DEF WrittenTypes, Strings
<1>3. ASSUME NEW type \in Strings, NEW v, Element(tag, type, v), Puts(b, c, Encoded(tag, type, v)),
             Given(b, call) = v
      PROVE  \E t, u : CallPuts(b, call, t, u)
  <2>1. CallSays(b, call, type, v) BY <1>3 DEF CallSays, Says, Reads
  <2> QED BY <1>3, <2>1 DEF CallPuts
<1>4. CASE call.kind = "cert"
  <2>1. c = Str16As(b, tag, val) BY <1>4 DEF Call
  <2>2. Given(b, call) = Generated(PutControlTag(b, tag, "Str16l"), val) BY <1>4 DEF Given
  <2>3. /\ Given(b, call) \in Seq(Nat)
        /\ \E type \in Strings : /\ Element(tag, type, Given(b, call))
                                 /\ Puts(b, c, Encoded(tag, type, Given(b, call)))
    BY <2>1, <2>2, InPlaceIsPut
  <2> QED BY <1>3, <2>3
<1>5. CASE call.kind # "cert"
  <2>1. Given(b, call) = val BY <1>5 DEF Given
  <2>2. \E type \in Strings : Element(tag, type, val) /\ Puts(b, c, Encoded(tag, type, val))
    <3>1. CASE call.kind = "ostr" /\ n < BYTE
      <4>1. ~ (n > BYTE) BY <1>1, <3>1
      <4>2. c = PutString(b, tag, "Str8l", 1, val) BY <3>1, <4>1 DEF Call, Str16, Str8
      <4>3. "Str8l" \in Strings BY DEF Strings
      <4> QED BY <1>2, <3>1, <4>2, <4>3, StringIsPut
    <3>2. CASE call.kind = "ostr" /\ ~ (n < BYTE)
      <4>1. c = PutString(b, tag, "Str16l", 2, val) BY <3>2 DEF Call, Str16
      <4>2. "Str16l" \in Strings BY DEF Strings
      <4> QED BY <1>2, <4>1, <4>2, StringIsPut
    <3>3. CASE call.kind = "utf" /\ n < BYTE
      <4>1. c = PutString(b, tag, "Utf8l", 1, val) BY <3>3 DEF Call, Utf16
      <4>2. "Utf8l" \in Strings BY DEF Strings
      <4> QED BY <1>2, <3>3, <4>1, <4>2, StringIsPut
    <3>4. CASE call.kind = "utf" /\ ~ (n < BYTE)
      <4>1. c = PutString(b, tag, "Utf16l", 2, val) BY <3>4 DEF Call, Utf16
      <4>2. "Utf16l" \in Strings BY DEF Strings
      <4> QED BY <1>2, <4>1, <4>2, StringIsPut
    <3> QED BY <1>5, <3>1, <3>2, <3>3, <3>4
  <2> QED BY <1>1, <1>3, <2>1, <2>2
<1> QED BY <1>4, <1>5

LEMMA PlainDoes ==
  ASSUME NEW b, Room(b), NEW call, call.tag \in TagTypes, Writable(call.kind, call.val),
         call.kind \notin {"uint", "ostr", "utf", "cert"}
  PROVE  \E type, v : CallPuts(b, call, type, v)
<1> DEFINE tag == call.tag
           val == call.val
           c == Call(b, tag, call)
<1>1. Given(b, call) = val BY DEF Given
<1>2. \A t \in WrittenTypes :
        SizeOf(t) = CASE t \in {"S8", "U8", "Utf8l", "Str8l"} -> 1
                      [] t \in {"U16", "Utf16l", "Str16l"} -> 2
                      [] t = "U32" -> 4 [] t = "U64" -> 8 [] OTHER -> 0
  BY TypesAre
<1>3. CASE call.kind = "i8"
  <2>1. val \in Seq(Nat) /\ Len(val) = 1 BY <1>3 DEF Writable
  <2>2. c = PutUint(b, tag, "S8", val) BY <1>3 DEF Call
  <2>3. "S8" \in WrittenTypes /\ "S8" \notin Strings BY DEF WrittenTypes, Strings
  <2>4. SizeOf("S8") = 1 BY <1>2, <2>3
  <2>5. Element(tag, "S8", val) /\ Puts(b, c, Encoded(tag, "S8", val))
    BY <2>1, <2>2, <2>3, <2>4, FixedIsPut
  <2>6. CallSays(b, call, "S8", val) BY <1>1, <1>3 DEF CallSays, Says, Reads
  <2> QED BY <2>5, <2>6 DEF CallPuts
<1>4. ASSUME NEW type \in {"False", "True", "Null", "EndCnt"} \cup Containers,
             c = PutControlTag(b, tag, type), CallSays(b, call, type, << >>)
      PROVE  \E t, v : CallPuts(b, call, t, v)
  <2>1. type \in WrittenTypes /\ type \notin Strings BY DEF WrittenTypes, Containers, Strings
  <2>2. SizeOf(type) = 0
    <3>1. type \in {"False", "True", "Null", "EndCnt", "Struct", "Array", "List"} BY DEF Containers
    <3> QED BY <1>2, <2>1, <3>1
  <2>3. << >> \in Seq(Nat) /\ Len(<< >>) = 0 OBVIOUS
  <2>4. Element(tag, type, << >>) /\ Puts(b, c, Encoded(tag, type, << >>))
    BY <1>4, <2>1, <2>2, <2>3, FixedIsPut
  <2> QED BY <1>4, <2>4 DEF CallPuts
<1>5. CASE call.kind = "bool"
  <2> DEFINE type == IF val = << 0 >> THEN "False" ELSE "True"
  <2>1. c = PutControlTag(b, tag, type) BY <1>5 DEF Call
  <2>2. CallSays(b, call, type, << >>) BY <1>1, <1>5 DEF CallSays, Says, Reads
  <2>3. type \in {"False", "True"} OBVIOUS
  <2> QED BY <1>4, <2>1, <2>2, <2>3
<1>6. CASE call.kind = "null"
  <2>1. c = PutControlTag(b, tag, "Null") BY <1>6 DEF Call
  <2>2. CallSays(b, call, "Null", << >>) BY <1>1, <1>6 DEF CallSays, Says, Reads
  <2> QED BY <1>4, <2>1, <2>2
<1>7. CASE call.kind \notin {"i8", "bool", "null"}
  <2>1. call.kind \in {"EndCnt", "Struct", "Array", "List"} BY <1>7 DEF Writable, Containers
  <2>2. c = PutControlTag(b, tag, call.kind) BY <1>7, <2>1 DEF Call
  <2>3. CallSays(b, call, call.kind, << >>) BY <1>1, <2>1 DEF CallSays, Says, Reads
  <2>4. call.kind \in {"False", "True", "Null", "EndCnt"} \cup Containers BY <2>1 DEF Containers
  <2> QED BY <1>4, <2>2, <2>3, <2>4
<1> QED BY <1>3, <1>5, <1>6, <1>7

Kinds == {"uint", "i8", "ostr", "utf", "cert", "bool", "null", "EndCnt"} \cup Containers

LEMMA CallDoes ==
  ASSUME NEW b, Room(b), NEW call, call.tag \in TagTypes, Writable(call.kind, call.val)
  PROVE  /\ call.kind \in Kinds /\ Given(b, call) \in Seq(Nat)
         /\ \E type, v : CallPuts(b, call, type, v)
<1>1. CASE call.kind = "uint"
  <2>1. call.val \in Seq(Nat) /\ Len(call.val) \in {1, 2, 4, 8} BY <1>1 DEF Writable
  <2>2. Given(b, call) = call.val BY <1>1 DEF Given
  <2> QED BY <1>1, <2>1, <2>2, UintDoes DEF Kinds
<1>2. CASE call.kind \in {"ostr", "utf", "cert"}
  <2>1. call.val \in Seq(Nat) /\ Len(call.val) < BYTE * BYTE BY <1>2 DEF Writable
  <2> QED BY <1>2, <2>1, StringDoes DEF Kinds
<1>3. CASE call.kind \notin {"uint", "ostr", "utf", "cert"}
  <2>1. Given(b, call) = call.val BY <1>3 DEF Given
  <2>2. << >> \in Seq(Nat) /\ << 0 >> \in Seq(Nat) /\ << 1 >> \in Seq(Nat) OBVIOUS
  <2>3. call.kind \in Kinds /\ call.val \in Seq(Nat)
    BY <1>3, <2>2 DEF Writable, Kinds
  <2> QED BY <1>3, <2>1, <2>3, PlainDoes
<1> QED BY <1>1, <1>2, <1>3

(***************************************************************************)
(* Reading elements one after another.                                     *)
(***************************************************************************)
LEMMA LeastNumber ==
  ASSUME NEW T, T \subseteq Nat, T # {}
  PROVE  \E x \in T : \A y \in T : x <= y
<1> DEFINE R == {ss \in Nat \X Nat : ss[1] < ss[2]}
<1>1. IsWellFoundedOn(R, Nat) BY NatLessThanWellFounded DEF OpToRel
<1>2. \A x, y \in Nat : <<y, x>> \in R <=> y < x OBVIOUS
<1> HIDE DEF R
<1>3. PICK x \in T : \A y \in T : ~ (<<y, x>> \in R) BY <1>1, WFMin
<1>4. ASSUME NEW y \in T PROVE x <= y
  <2>1. x \in Nat /\ y \in Nat OBVIOUS
  <2>2. ~ (y < x) BY <1>2, <1>3, <2>1
  <2> QED BY <2>1, <2>2
<1> QED BY <1>4

\* f is what the recursion of Elements defines.
Reading(f, buf, n) ==
  f = [k \in 0 .. n |-> IF k = 0 THEN [it |-> Reader(0, n), elems |-> << >>]
                         ELSE ReadMore(buf, f[k - 1])]

\* The iterator over the first n bytes when edge[i] is where it stands behind the i-th of
\* the max elements that it finds.
At(buf, n, edge, i) == Next_(buf, Reader(edge[i - 1], n - edge[i - 1]))
After(buf, n, edge, j) ==
  [it |-> Reader(edge[j], n - edge[j]), elems |-> [i \in 1 .. j |-> At(buf, n, edge, i).elem]]

LEMMA ReadsOn ==
  ASSUME NEW buf, NEW n, NEW max \in Nat, NEW edge, NEW j \in 0 .. max,
         \A i \in 1 .. max : /\ At(buf, n, edge, i).elem # NONE
                             /\ At(buf, n, edge, i).it = Reader(edge[i], n - edge[i]),
         At(buf, n, edge, max + 1).elem = NONE
  PROVE  ReadMore(buf, After(buf, n, edge, j)) =
           After(buf, n, edge, IF j < max THEN j + 1 ELSE j)
<1> DEFINE E(i) == At(buf, n, edge, i).elem
           was == After(buf, n, edge, j)
           step == Next_(buf, was.it)
<1>1. was.it = Reader(edge[j], n - edge[j]) /\ was.elems = [i \in 1 .. j |-> E(i)] BY DEF After
<1>2. (j + 1) - 1 = j OBVIOUS
<1>3. step = At(buf, n, edge, j + 1) BY <1>1, <1>2 DEF At
<1>4. CASE j < max
  <2>1. j + 1 \in 1 .. max BY <1>4
  <2>2. step.elem # NONE /\ step.elem = E(j + 1) /\ step.it = Reader(edge[j + 1], n - edge[j + 1])
    BY <1>3, <2>1
  <2>3. ReadMore(buf, was) = [it |-> step.it, elems |-> Append(was.elems, step.elem)]
    BY <2>2 DEF ReadMore
  <2> HIDE DEF step, E, was
  <2>4. Append([i \in 1 .. j |-> E(i)], E(j + 1)) = [i \in 1 .. j + 1 |-> E(i)]
    <3> DEFINE S == {E(i) : i \in 1 .. j + 1}
               s == [i \in 1 .. j |-> E(i)]
               t == [i \in 1 .. j + 1 |-> E(i)]
    <3>1. j \in Nat /\ j + 1 \in 1 .. j + 1 /\ \A i \in 1 .. j : i \in 1 .. j + 1 OBVIOUS
    <3>2. E(j + 1) \in S /\ \A i \in 1 .. j : E(i) \in S BY <3>1
    <3>3. \A i \in 1 .. j + 1 : E(i) \in S OBVIOUS
    <3> HIDE DEF S
    <3>4. s \in Seq(S) /\ Len(s) = j /\ t \in Seq(S) /\ Len(t) = j + 1
      BY <3>1, <3>2, <3>3
    <3>5. \A i \in 1 .. j : s[i] = E(i) OBVIOUS
    <3>6. \A i \in 1 .. j + 1 : t[i] = E(i) OBVIOUS
    <3> HIDE DEF s, t
    <3>7. /\ Append(s, E(j + 1)) \in Seq(S) /\ Len(Append(s, E(j + 1))) = j + 1
          /\ \A i \in 1 .. j : Append(s, E(j + 1))[i] = s[i]
          /\ Append(s, E(j + 1))[j + 1] = E(j + 1)
      BY <3>2, <3>4, AppendProperties
    <3>8. \A i \in 1 .. j + 1 : Append(s, E(j + 1))[i] = t[i]
      <4>1. \A i \in 1 .. j + 1 : i \in 1 .. j \/ i = j + 1 OBVIOUS
      <4> QED BY <3>5, <3>6, <3>7, <4>1
    <3>9. Append(s, E(j + 1)) = t BY <3>4, <3>7, <3>8, SeqEqual
    <3> QED BY <3>9 DEF s, t
  <2>5. After(buf, n, edge, j + 1) =
          [it |-> Reader(edge[j + 1], n - edge[j + 1]), elems |-> [i \in 1 .. j + 1 |-> E(i)]]
    BY DEF After, E
  <2>6. ReadMore(buf, was) = After(buf, n, edge, j + 1) BY <1>1, <2>2, <2>3, <2>4, <2>5
  <2> QED BY <1>4, <2>6 DEF was
<1>5. CASE ~ (j < max)
  <2>1. j = max BY <1>5
  <2>2. step.elem = NONE BY <1>3, <2>1
  <2>3. ReadMore(buf, was) = was BY <2>2 DEF ReadMore
  <2> QED BY <1>5, <2>3
<1> QED BY <1>4, <1>5

LEMMA ElementsAre ==
  ASSUME NEW buf, NEW n \in Nat, NEW max \in Nat, max <= n, NEW edge, edge[0] = 0,
         \A i \in 1 .. max : /\ At(buf, n, edge, i).elem # NONE
                             /\ At(buf, n, edge, i).it = Reader(edge[i], n - edge[i]),
         At(buf, n, edge, max + 1).elem = NONE
  PROVE  Elements(buf, n) = [i \in 1 .. max |-> At(buf, n, edge, i).elem]
<1> DEFINE Upto(k) == IF k < max THEN k ELSE max
           Is(k) == After(buf, n, edge, Upto(k))
           f == [k \in 0 .. n |-> Is(k)]
           g == CHOOSE h : Reading(h, buf, n)
           start == [it |-> Reader(0, n), elems |-> << >>]
<1>1. Is(0) = start
  <2>1. Upto(0) = 0 OBVIOUS
  <2>2. [i \in 1 .. 0 |-> At(buf, n, edge, i).elem] = << >> OBVIOUS
  <2>3. n - 0 = n OBVIOUS
  <2> QED BY <2>1, <2>2, <2>3 DEF After
<1>2. ASSUME NEW k \in 0 .. n, k # 0 PROVE k - 1 \in 0 .. n /\ ReadMore(buf, Is(k - 1)) = Is(k)
  <2> DEFINE j == Upto(k - 1)
  <2>1. k - 1 \in 0 .. n /\ j \in 0 .. max /\ Upto(k) = IF j < max THEN j + 1 ELSE j BY <1>2
  <2> HIDE DEF j
  <2>2. ReadMore(buf, After(buf, n, edge, j)) =
          After(buf, n, edge, IF j < max THEN j + 1 ELSE j)
    BY <2>1, ReadsOn
  <2> QED BY <2>1, <2>2 DEF j
<1> HIDE DEF Is
<1>3. Reading(f, buf, n)
  <2>1. \A k \in 0 .. n : Is(k) = IF k = 0 THEN start ELSE ReadMore(buf, f[k - 1])
    BY <1>1, <1>2
  <2> QED BY <2>1 DEF Reading
<1>4. Reading(g, buf, n) BY <1>3
<1> HIDE DEF f, g, start
<1>5. \A k \in 0 .. n : g[k] = IF k = 0 THEN start ELSE ReadMore(buf, g[k - 1])
  BY <1>4 DEF Reading, start
<1>6. \A k \in 0 .. n : g[k] = Is(k)
  <2> DEFINE T == {k \in 0 .. n : g[k] # Is(k)}
  <2> SUFFICES ASSUME T # {} PROVE FALSE OBVIOUS
  <2>1. PICK k \in T : \A y \in T : k <= y
    <3>1. T \subseteq Nat OBVIOUS
    <3> HIDE DEF T
    <3> QED BY <3>1, LeastNumber
  <2>2. k # 0
    <3>1. 0 \in 0 .. n OBVIOUS
    <3> QED BY <1>1, <1>5, <3>1
  <2>3. k - 1 \in 0 .. n /\ ~ (k <= k - 1) BY <2>2
  <2>4. g[k - 1] = Is(k - 1) BY <2>1, <2>3
  <2> QED BY <1>2, <1>5, <2>2, <2>4
<1>7. g[n] = After(buf, n, edge, max)
  <2>1. n \in 0 .. n /\ Upto(n) = max OBVIOUS
  <2> QED BY <1>6, <2>1 DEF Is
<1>8. Elements(buf, n) = g[n].elems BY DEF Elements, Reading, Reader, g
<1> QED BY <1>7, <1>8 DEF After

(***************************************************************************)
(* The document and its bytes.                                             *)
(***************************************************************************)
Docs == [tag : TagTypes, kind : Kinds, val : Seq(Nat), end : Nat]
Edge(i) == IF i = 0 THEN 0 ELSE doc[i].end

\* The i-th element is there, whole, where the one before it ends.
WholeAs(i, type, v) ==
  /\ Element(doc[i].tag, type, v) /\ Says(type, v, doc[i])
  /\ Edge(i) = Edge(i - 1) + Len(Encoded(doc[i].tag, type, v))
  /\ Begins(wb.buf, Edge(i - 1), Len(Encoded(doc[i].tag, type, v)), Encoded(doc[i].tag, type, v))
Whole(i) == \E type, v : WholeAs(i, type, v)

\* What a failed call left is a part of an element.
PartOf(tag, type, v) ==
  /\ Element(tag, type, v)
  /\ wb.end < Edge(Len(doc)) + Len(Encoded(tag, type, v))
  /\ Begins(wb.buf, Edge(Len(doc)), wb.end - Edge(Len(doc)), Encoded(tag, type, v))

DocTypes == wb \in WriteBufs(CAPACITY) /\ wb.end <= CAPACITY /\ doc \in Seq(Docs)
EdgesRise ==
  /\ \A i \in 0 .. Len(doc) : i <= Edge(i) /\ Edge(i) <= wb.end
  /\ \A i, j \in 0 .. Len(doc) : i < j => Edge(i) < Edge(j)
Tail_ == IF wb.ok THEN wb.end = Edge(Len(doc)) ELSE \E tag, type, v : PartOf(tag, type, v)
DocInv == DocTypes /\ EdgesRise /\ (\A i \in 1 .. Len(doc) : Whole(i)) /\ Tail_

TlvInv == DocInv /\ field \in Nat /\ (field # 0 => value.fields \in Structs)

LEMMA EncodedIs ==
  ASSUME NEW tag, NEW type, NEW v, Element(tag, type, v)
  PROVE  Encoded(tag, type, v) \in Seq(Nat) /\ Len(Encoded(tag, type, v)) >= 1
<1> DEFINE e == Encoded(tag, type, v)
           k == Len(tag[2])
           total == Len(e)
<1>1. e \in Seq(Nat) /\ 1 + k \in Nat /\ 1 + k <= total BY PartsOf
<1>2. k \in Nat BY DEF Element, TagTypes
<1>3. total \in Nat BY <1>1
<1> HIDE DEF k, total
<1>4. total >= 1 BY <1>1, <1>2, <1>3
<1> QED BY <1>1, <1>4 DEF total

LEMMA EdgesAre ==
  ASSUME DocTypes
  PROVE  /\ Len(doc) \in Nat /\ \A i \in 0 .. Len(doc) : Edge(i) \in Nat
         /\ \A i \in 1 .. Len(doc) : i - 1 \in 0 .. Len(doc) /\ i \in 0 .. Len(doc) /\ i # 0
<1>1. Len(doc) \in Nat BY DEF DocTypes
<1>2. \A i \in 1 .. Len(doc) : doc[i] \in Docs BY DEF DocTypes
<1>3. \A i \in 0 .. Len(doc) : i # 0 => i \in 1 .. Len(doc) BY <1>1
<1>4. \A i \in 0 .. Len(doc) : Edge(i) \in Nat BY <1>2, <1>3 DEF Edge, Docs
<1> QED BY <1>1, <1>4

\* What is before the end of the buffer is not written again.
LEMMA WholeStays ==
  ASSUME DocTypes, DocTypes', EdgesRise, NEW i \in 1 .. Len(doc), Whole(i), doc'[i] = doc[i],
         Edge(i)' = Edge(i), Edge(i - 1)' = Edge(i - 1),
         \A x \in 1 .. CAPACITY : x <= wb.end => wb'.buf[x] = wb.buf[x]
  PROVE  Whole(i)'
<1> PICK type, v : WholeAs(i, type, v) BY DEF Whole
<1> DEFINE e == Encoded(doc[i].tag, type, v)
           m == Edge(i - 1)
           n == Len(e)
<1>1. e \in Seq(Nat) /\ n \in Nat BY EncodedIs DEF WholeAs
<1>2. m \in Nat /\ Edge(i) \in Nat /\ Edge(i) <= wb.end BY EdgesAre DEF EdgesRise
<1>3. Edge(i) = m + n /\ Begins(wb.buf, m, n, e) BY DEF WholeAs
<1>4. wb.end \in Nat /\ wb.end <= CAPACITY /\ CAPACITY \in Nat
  BY Sizes DEF DocTypes, WriteBufs
<1>5. \A x \in 1 .. n : x <= n => wb.buf[m + x] = e[x] BY <1>3 DEF Begins
<1> HIDE DEF e, m
<1>6. n = Len(e) OBVIOUS
<1> HIDE DEF n
<1>7. \A x \in 1 .. n : x <= n => wb'.buf[m + x] = e[x]
  <2>1. m + n <= wb.end BY <1>2, <1>3
  <2>2. \A x \in 1 .. n : m + x \in 1 .. CAPACITY /\ m + x <= wb.end /\ x <= n
    <3> DEFINE end == wb.end
    <3>1. end \in Nat /\ end <= CAPACITY /\ m + n <= end BY <1>4, <2>1
    <3> HIDE DEF end
    <3>2. \A x \in 1 .. n : m + x \in 1 .. CAPACITY /\ m + x <= end /\ x <= n
      BY <1>1, <1>2, <1>4, <3>1
    <3> QED BY <3>2 DEF end
  <2> QED BY <1>5, <2>2
<1>8. Begins(wb'.buf, m, n, e) BY <1>6, <1>7 DEF Begins
<1>9. WholeAs(i, type, v)' BY <1>8 DEF WholeAs, e, m, n
<1> QED BY <1>9 DEF Whole

\* A call that succeeds adds one element to the document.
LEMMA CallSucceeds ==
  ASSUME DocInv, NEW call, call.tag \in TagTypes, Writable(call.kind, call.val),
         Perform(call), wb'.ok
  PROVE  DocInv'
<1> DEFINE new == [tag |-> call.tag, kind |-> call.kind, val |-> Given(wb, call), end |-> wb'.end]
<1>1. PICK n : n = Len(doc) OBVIOUS
<1>2. wb.ok /\ wb' = Call(wb, call.tag, call) /\ doc' = Append(doc, new) BY DEF Perform
<1>3. DocTypes /\ EdgesRise /\ \A i \in 1 .. n : Whole(i) BY <1>1 DEF DocInv
<1>4. Room(wb) /\ wb.end = Edge(n) BY <1>2, <1>1 DEF DocInv, DocTypes, Tail_, Room
<1>5. call.kind \in Kinds /\ Given(wb, call) \in Seq(Nat) BY <1>4, CallDoes
<1>6. PICK type, v : CallPuts(wb, call, type, v) BY <1>4, CallDoes
<1> DEFINE e == Encoded(call.tag, type, v)
<1>7. Puts(wb, wb', e) /\ Element(call.tag, type, v) BY <1>2, <1>6 DEF CallPuts
<1>8. e \in Seq(Nat) /\ Len(e) \in Nat /\ Len(e) >= 1 BY <1>7, EncodedIs
<1>9. /\ wb' \in WriteBufs(CAPACITY) /\ wb'.end <= CAPACITY /\ wb'.end = wb.end + Len(e)
      /\ \A i \in 1 .. CAPACITY : i <= wb.end => wb'.buf[i] = wb.buf[i]
      /\ Begins(wb'.buf, wb.end, wb'.end - wb.end, e)
  BY <1>7 DEF Puts
<1>10. wb.end \in Nat /\ wb'.end \in Nat BY <1>3, <1>9 DEF DocTypes, WriteBufs
<1>11. new \in Docs BY <1>5, <1>10 DEF Docs
<1>12. n \in Nat /\ \A i \in 0 .. n : Edge(i) \in Nat BY <1>3, <1>1, EdgesAre
<1>13. doc \in Seq(Docs) BY <1>3 DEF DocTypes
<1>14. new.end = wb'.end /\ new.tag = call.tag OBVIOUS
<1>15. Says(type, v, new) BY <1>6 DEF CallPuts, CallSays
<1> HIDE DEF new
<1>16. /\ doc' \in Seq(Docs) /\ Len(doc') = n + 1 /\ doc'[n + 1] = new
       /\ \A i \in 1 .. n : doc'[i] = doc[i]
  BY <1>2, <1>11, <1>13, <1>1, AppendProperties
<1>17. \A i \in 0 .. n : Edge(i)' = Edge(i)
  <2>1. \A i \in 0 .. n : i # 0 => i \in 1 .. n BY <1>12
  <2> QED BY <1>16, <2>1 DEF Edge
<1>18. Edge(n + 1)' = wb'.end
  <2>1. n + 1 # 0 BY <1>12
  <2> QED BY <1>14, <1>16, <2>1 DEF Edge
<1>19. DocTypes' BY <1>9, <1>16 DEF DocTypes
<1>20. \A i \in 0 .. n + 1 : i \in 0 .. n \/ i = n + 1 BY <1>12
<1>21. EdgesRise'
  <2>1. \A i \in 0 .. n : i <= Edge(i) /\ Edge(i) <= wb.end BY <1>3, <1>1 DEF EdgesRise
  <2>2. \A i \in 0 .. n : Edge(i) < wb'.end /\ Edge(i) <= wb'.end
    <3> DEFINE from == wb.end
               to == wb'.end
               more == Len(e)
    <3>1. from \in Nat /\ to \in Nat /\ more \in Nat /\ more >= 1 /\ to = from + more
      BY <1>8, <1>9, <1>10
    <3>2. \A i \in 0 .. n : Edge(i) \in Nat /\ Edge(i) <= from BY <1>12, <2>1
    <3> HIDE DEF from, to, more
    <3>3. \A i \in 0 .. n : Edge(i) < to /\ Edge(i) <= to BY <3>1, <3>2
    <3> QED BY <3>3 DEF to
  <2>3. n + 1 <= wb'.end
    <3>1. n \in 0 .. n /\ n <= Edge(n) BY <1>12, <2>1
    <3>2. Edge(n) < wb'.end /\ Edge(n) \in Nat BY <1>12, <2>2, <3>1
    <3> DEFINE edge == Edge(n)
               to == wb'.end
    <3>3. edge \in Nat /\ to \in Nat /\ n <= edge /\ edge < to BY <1>10, <3>1, <3>2
    <3> HIDE DEF edge, to
    <3>4. n + 1 <= to BY <1>12, <3>3
    <3> QED BY <3>4 DEF to
  <2>4. \A i \in 0 .. n + 1 : i <= Edge(i)' /\ Edge(i)' <= wb'.end
    <3>1. wb'.end <= wb'.end BY <1>10
    <3> QED BY <1>17, <1>18, <1>20, <2>1, <2>2, <2>3, <3>1
  <2>5. ASSUME NEW i \in 0 .. n + 1, NEW j \in 0 .. n + 1, i < j PROVE Edge(i)' < Edge(j)'
    <3>1. i \in 0 .. n BY <1>12, <2>5
    <3>2. CASE j \in 0 .. n
      <4>1. Edge(i) < Edge(j) BY <1>3, <1>1, <2>5, <3>1, <3>2 DEF EdgesRise
      <4> QED BY <1>17, <3>1, <3>2, <4>1
    <3>3. CASE j = n + 1 BY <1>17, <1>18, <2>2, <3>1, <3>3
    <3> QED BY <1>20, <3>2, <3>3
  <2> QED BY <1>16, <2>4, <2>5 DEF EdgesRise
<1>22. ASSUME NEW i \in 1 .. n PROVE Whole(i)'
  <2>1. i \in 0 .. n /\ i - 1 \in 0 .. n BY <1>12
  <2>2. Whole(i) /\ doc'[i] = doc[i] BY <1>3, <1>16, <1>1
  <2>3. Edge(i)' = Edge(i) /\ Edge(i - 1)' = Edge(i - 1) BY <1>17, <2>1
  <2> QED BY <1>3, <1>9, <1>19, <1>1, <2>2, <2>3, WholeStays
<1>23. Whole(n + 1)'
  <2>1. (n + 1) - 1 = n /\ n \in 0 .. n BY <1>12
  <2>2. Edge((n + 1) - 1)' = wb.end BY <1>4, <1>17, <2>1
  <2>3. wb'.end - wb.end = Len(e) BY <1>8, <1>9, <1>10
  <2> DEFINE x == n + 1
  <2>4. /\ doc'[x] = new /\ Edge(x)' = wb'.end /\ Edge(x - 1)' = wb.end BY <1>16, <1>18, <2>2
  <2> HIDE DEF x
  <2>5. WholeAs(x, type, v)' BY <1>7, <1>9, <1>14, <1>15, <2>3, <2>4 DEF WholeAs
  <2>6. Whole(x)' BY <2>5 DEF Whole
  <2> QED BY <2>6 DEF x
<1>24. \A i \in 1 .. n + 1 : i \in 1 .. n \/ i = n + 1 BY <1>12
<1>25. \A i \in 1 .. Len(doc') : Whole(i)' BY <1>16, <1>22, <1>23, <1>24
<1>26. Tail_'
  <2>1. wb'.end = Edge(Len(doc))' BY <1>16, <1>18
  <2> QED BY <2>1 DEF Tail_
<1> QED BY <1>19, <1>21, <1>25, <1>26 DEF DocInv

\* And one that fails leaves a part of one behind it.
LEMMA CallFails ==
  ASSUME DocInv, NEW call, call.tag \in TagTypes, Writable(call.kind, call.val),
         Perform(call), ~ wb'.ok
  PROVE  DocInv'
<1> DEFINE n == Len(doc)
<1>1. wb.ok /\ wb' = Call(wb, call.tag, call) /\ doc' = doc BY DEF Perform
<1>2. DocTypes /\ EdgesRise /\ \A i \in 1 .. n : Whole(i) BY DEF DocInv
<1>3. Room(wb) /\ wb.end = Edge(n) BY <1>1 DEF DocInv, DocTypes, Tail_, Room
<1>4. PICK type, v : CallPuts(wb, call, type, v) BY <1>3, CallDoes
<1> DEFINE e == Encoded(call.tag, type, v)
<1>5. Puts(wb, wb', e) /\ Element(call.tag, type, v) BY <1>1, <1>4 DEF CallPuts
<1>6. /\ wb' \in WriteBufs(CAPACITY) /\ wb'.end <= CAPACITY /\ wb'.end < wb.end + Len(e)
      /\ wb.end <= wb'.end
      /\ \A i \in 1 .. CAPACITY : i <= wb.end => wb'.buf[i] = wb.buf[i]
      /\ Begins(wb'.buf, wb.end, wb'.end - wb.end, e)
  BY <1>5 DEF Puts
<1>7. wb.end \in Nat /\ wb'.end \in Nat BY <1>2, <1>6 DEF DocTypes, WriteBufs
<1>8. n \in Nat /\ \A i \in 0 .. n : Edge(i) \in Nat BY <1>2, EdgesAre
<1>9. DocTypes' BY <1>1, <1>2, <1>6 DEF DocTypes
<1>10. \A i : Edge(i)' = Edge(i) BY <1>1 DEF Edge
<1> HIDE DEF n, e
<1>11. EdgesRise'
  <2>1. \A i \in 0 .. n : i <= Edge(i) /\ Edge(i) <= wb.end BY <1>2 DEF EdgesRise, n
  <2>2. \A i, j \in 0 .. n : i < j => Edge(i) < Edge(j) BY <1>2 DEF EdgesRise, n
  <2>3. \A i \in 0 .. n : Edge(i) <= wb'.end
    <3> DEFINE from == wb.end
               to == wb'.end
    <3>1. from \in Nat /\ to \in Nat /\ from <= to BY <1>6, <1>7
    <3>2. \A i \in 0 .. n : Edge(i) \in Nat /\ Edge(i) <= from BY <1>8, <2>1
    <3> HIDE DEF from, to
    <3>3. \A i \in 0 .. n : Edge(i) <= to BY <3>1, <3>2
    <3> QED BY <3>3 DEF to
  <2> QED BY <1>1, <1>10, <2>1, <2>2, <2>3 DEF EdgesRise, n
<1>12. ASSUME NEW i \in 1 .. n PROVE Whole(i)'
  <2>1. Whole(i) /\ doc'[i] = doc[i] BY <1>1, <1>2
  <2> QED BY <1>2, <1>6, <1>9, <1>10, <2>1, WholeStays DEF n
<1>13. Tail_'
  <2>1. PartOf(call.tag, type, v)'
    <3>1. Edge(Len(doc))' = wb.end BY <1>1, <1>3, <1>10 DEF n
    <3> QED BY <1>5, <1>6, <3>1 DEF PartOf, e
  <2> QED BY <2>1 DEF Tail_
<1> QED BY <1>1, <1>9, <1>11, <1>12, <1>13 DEF DocInv, n

(***************************************************************************)
(* What is read of a document, cut or not.                                 *)
(***************************************************************************)
LEMMA WhatIsRead ==
  ASSUME NEW call, NEW type, NEW v, Element(call.tag, type, v), Says(type, v, call),
         NEW r, NEW at, NEW left, Has(r, at, left, call.tag, type, v)
  PROVE  r.elem # NONE /\ r.it = Reader(at, left) /\ Reads(r.elem, call)
<1>1. r.it = Reader(at, left) /\ r.elem.tag = call.tag /\ r.elem.type = type BY DEF Has
<1>2. r.elem # NONE
  <2>1. type \in WrittenTypes BY DEF Element
  <2>2. "None" \notin WrittenTypes BY DEF WrittenTypes, Containers, Strings
  <2>3. NONE.type = "None" BY DEF NONE
  <2> QED BY <1>1, <2>1, <2>2, <2>3
<1>3. Reads([tag |-> call.tag, type |-> type, val |-> v], call) BY DEF Says
<1>4. CASE type \in Containers
  <2>1. call.kind \notin {"uint", "i8", "ostr", "cert", "utf", "bool", "null"}
    BY <1>3, <1>4 DEF Reads, Containers, Strings
  <2>2. type = call.kind BY <1>3, <2>1 DEF Reads
  <2> QED BY <1>1, <1>2, <2>1, <2>2 DEF Reads
<1>5. CASE type \notin Containers
  <2>1. r.elem.val = v BY <1>5 DEF Has
  <2> QED BY <1>1, <1>2, <1>3, <2>1 DEF Reads
<1> QED BY <1>4, <1>5

\* Of the first n bytes: the i-th element if it is whole, and nothing if it is not.
LEMMA ThereOrNot ==
  ASSUME DocInv, NEW n \in 0 .. wb.end, NEW i \in 1 .. Len(doc), Edge(i - 1) <= n
  PROVE  LET r == Next_(wb.buf, Reader(Edge(i - 1), n - Edge(i - 1)))
         IN  /\ n < Edge(i) => r.elem = NONE
             /\ Edge(i) <= n => /\ r.elem # NONE /\ Reads(r.elem, doc[i])
                               /\ r.it = Reader(Edge(i), n - Edge(i))
<1> PICK type, v : WholeAs(i, type, v) BY DEF DocInv, Whole
<1> DEFINE e == Encoded(doc[i].tag, type, v)
           m == Edge(i - 1)
           total == Len(e)
           end == wb.end
           s == wb.buf
           left == n - m
           r == Next_(s, Reader(m, left))
<1>1. DocTypes BY DEF DocInv
<1>2. s \in Seq(Nat) /\ Len(s) = CAPACITY /\ end \in Nat /\ end <= CAPACITY
  BY <1>1, Sizes DEF DocTypes, WriteBufs, Octets
<1>3. m \in Nat /\ Edge(i) = m + total BY <1>1, EdgesAre DEF WholeAs
<1>4. /\ Element(doc[i].tag, type, v) /\ Says(type, v, doc[i]) /\ Begins(s, m, total, e)
  BY DEF WholeAs
<1>5. e \in Seq(Nat) /\ total \in Nat BY <1>4, EncodedIs
<1>6. n \in Nat /\ n <= end /\ m <= n /\ end = wb.end BY <1>2
<1>7. \A x \in 1 .. total : x <= total => s[m + x] = e[x] BY <1>4 DEF Begins
<1>8. total = Len(e) /\ left = n - m OBVIOUS
<1> HIDE DEF m, end, s, total, left
<1>9. left \in Nat /\ m + left <= Len(s) BY <1>2, <1>3, <1>6, <1>8
<1>10. Begins(s, m, left, e)
  <2>1. \A x \in 1 .. total : x <= total BY <1>5
  <2> QED BY <1>7, <1>8, <2>1 DEF Begins
<1>11. /\ left < total => r.elem = NONE
       /\ total <= left => Has(r, m + total, left - total, doc[i].tag, type, v)
  BY <1>2, <1>3, <1>4, <1>8, <1>9, <1>10, NextIs
<1> HIDE DEF e
<1>12. /\ n < m + total => left < total
       /\ m + total <= n => total <= left
       /\ left - total = n - (m + total)
  BY <1>3, <1>5, <1>6, <1>8
<1>13. n < Edge(i) => r.elem = NONE BY <1>3, <1>11, <1>12
<1>14. ASSUME Edge(i) <= n
       PROVE  r.elem # NONE /\ Reads(r.elem, doc[i]) /\ r.it = Reader(Edge(i), n - Edge(i))
  <2>1. Has(r, m + total, left - total, doc[i].tag, type, v) BY <1>3, <1>11, <1>12, <1>14
  <2>2. Has(r, Edge(i), n - Edge(i), doc[i].tag, type, v) BY <1>3, <1>12, <2>1
  <2> QED BY <1>4, <2>2, WhatIsRead
<1> QED BY <1>13, <1>14 DEF m, s, left

\* And nothing behind the last.
LEMMA NothingBehind ==
  ASSUME DocInv, NEW n \in 0 .. wb.end, Edge(Len(doc)) <= n
  PROVE  Next_(wb.buf, Reader(Edge(Len(doc)), n - Edge(Len(doc)))).elem = NONE
<1> DEFINE m == Edge(Len(doc))
           end == wb.end
           s == wb.buf
           left == n - m
           r == Next_(s, Reader(m, left))
<1>1. DocTypes /\ Tail_ BY DEF DocInv
<1>2. s \in Seq(Nat) /\ Len(s) = CAPACITY /\ end \in Nat /\ end <= CAPACITY
  BY <1>1, Sizes DEF DocTypes, WriteBufs, Octets
<1>3. m \in Nat
  <2>1. Len(doc) \in 0 .. Len(doc) BY <1>1, EdgesAre
  <2> QED BY <1>1, <2>1, EdgesAre
<1>4. n \in Nat /\ n <= end /\ m <= n BY <1>2
<1>5. left = n - m /\ end = wb.end /\ s = wb.buf OBVIOUS
<1>6. CASE wb.ok
  <2>1. end = m BY <1>1, <1>6 DEF Tail_
  <2> HIDE DEF m, end, s, left
  <2>2. left < 1 BY <1>3, <1>4, <1>5, <2>1
  <2>3. Reader(m, left).left = left BY DEF Reader
  <2>4. r = NothingAt(Reader(m, left)) BY <2>2, <2>3 DEF Next_
  <2>5. r.elem = NONE BY <2>4 DEF NothingAt
  <2> QED BY <2>5 DEF m, s, left
<1>7. CASE ~ wb.ok
  <2> PICK tag, type, v : PartOf(tag, type, v) BY <1>1, <1>7 DEF Tail_
  <2> DEFINE e == Encoded(tag, type, v)
             total == Len(e)
  <2>1. Element(tag, type, v) /\ end < m + total /\ Begins(s, m, end - m, e) BY DEF PartOf
  <2>2. e \in Seq(Nat) /\ total \in Nat BY <2>1, EncodedIs
  <2>3. total = Len(e) OBVIOUS
  <2> HIDE DEF m, end, s, left, total
  <2>4. left \in Nat /\ m + left <= Len(s) /\ left <= end - m /\ left < total
    BY <1>2, <1>3, <1>4, <1>5, <2>1, <2>2
  <2>5. Begins(s, m, left, e)
    <3>1. \A x \in 1 .. total : x <= left => x <= end - m
      BY <1>2, <1>3, <2>2, <2>4
    <3> QED BY <2>1, <2>3, <3>1 DEF Begins
  <2>6. r.elem = NONE BY <1>2, <1>3, <2>1, <2>3, <2>4, <2>5, NextIs
  <2> QED BY <2>6 DEF m, s, left
<1> QED BY <1>6, <1>7

\* How many of them are whole in the first n bytes.
LEMMA WholeOnes ==
  ASSUME DocInv, NEW n \in 0 .. wb.end
  PROVE  \E max \in 0 .. Len(doc) :
           /\ max <= n /\ Edge(max) <= n
           /\ \A i \in 1 .. Len(doc) : Edge(i) <= n <=> i <= max
<1> DEFINE len == Len(doc)
           T == {j \in 1 .. len + 1 : j = len + 1 \/ n < Edge(j)}
<1>1. DocTypes /\ EdgesRise BY DEF DocInv
<1>2. len \in Nat /\ \A i \in 0 .. len : Edge(i) \in Nat BY <1>1, EdgesAre
<1>3. /\ \A i \in 0 .. len : i <= Edge(i)
      /\ \A i, j \in 0 .. len : i < j => Edge(i) < Edge(j)
  BY <1>1 DEF EdgesRise
<1>4. n \in Nat
  <2>1. wb.end \in Nat BY <1>1 DEF DocTypes, WriteBufs
  <2> QED BY <2>1
<1>5. len = Len(doc) OBVIOUS
<1> HIDE DEF len
<1>6. PICK k \in T : \A j \in T : k <= j
  <2>1. len + 1 \in T /\ T \subseteq Nat BY <1>2
  <2> HIDE DEF T
  <2> QED BY <2>1, LeastNumber
<1> DEFINE max == k - 1
<1>7. max \in 0 .. len /\ k = max + 1 /\ k \in 1 .. len + 1 BY <1>2
<1>8. \A i \in 1 .. len : i <= max => Edge(i) <= n
  <2> SUFFICES ASSUME NEW i \in 1 .. len, i <= max PROVE Edge(i) <= n OBVIOUS
  <2>1. i \in 1 .. len + 1 /\ i # len + 1 /\ ~ (k <= i) /\ i \in 0 .. len BY <1>2, <1>7
  <2>2. ~ (n < Edge(i)) BY <1>6, <2>1
  <2>3. Edge(i) \in Nat BY <1>2, <2>1
  <2> QED BY <1>4, <2>2, <2>3
<1> HIDE DEF max
<1>9. \A i \in 1 .. len : ~ (i <= max) => ~ (Edge(i) <= n)
  <2> SUFFICES ASSUME NEW i \in 1 .. len, ~ (i <= max) PROVE ~ (Edge(i) <= n) OBVIOUS
  <2>1. k \in 0 .. len /\ i \in 0 .. len /\ k # len + 1 /\ (k < i \/ k = i) BY <1>2, <1>7
  <2>2. n < Edge(k) BY <1>6, <2>1
  <2>3. Edge(k) \in Nat /\ Edge(i) \in Nat BY <1>2, <2>1
  <2>4. Edge(k) < Edge(i) \/ k = i BY <1>3, <2>1
  <2> QED BY <1>4, <2>2, <2>3, <2>4
<1>10. Edge(max) <= n
  <2>1. CASE max = 0 BY <1>4, <2>1 DEF Edge
  <2>2. CASE max # 0
    <3>1. max \in 1 .. len /\ max <= max BY <1>2, <1>7, <2>2
    <3> QED BY <1>8, <3>1
  <2> QED BY <2>1, <2>2
<1>11. max <= n
  <2>1. max <= Edge(max) /\ Edge(max) \in Nat BY <1>2, <1>3, <1>7
  <2> QED BY <1>4, <1>7, <1>10, <2>1
<1> QED BY <1>5, <1>7, <1>8, <1>9, <1>10, <1>11

LEMMA CutIsRead ==
  ASSUME DocInv
  PROVE  CutReadsPrefix
<1> SUFFICES ASSUME NEW n \in 0 .. wb.end
             PROVE  LET cut == Elements(wb.buf, n)
                    IN /\ Len(cut) = Cardinality({i \in DOMAIN doc : doc[i].end =< n})
                       /\ \A i \in DOMAIN cut : Reads(cut[i], doc[i])
  BY DEF CutReadsPrefix
<1>1. DocTypes BY DEF DocInv
<1>2. Len(doc) \in Nat /\ DOMAIN doc = 1 .. Len(doc) BY <1>1 DEF DocTypes
<1>3. n \in Nat
  <2>1. wb.end \in Nat BY <1>1 DEF DocTypes, WriteBufs
  <2> QED BY <2>1
<1>4. PICK max \in 0 .. Len(doc) : /\ max <= n /\ Edge(max) <= n
                                  /\ \A i \in 1 .. Len(doc) : Edge(i) <= n <=> i <= max
  BY WholeOnes
<1> DEFINE edge == [i \in 0 .. Len(doc) |-> Edge(i)]
           E(i) == At(wb.buf, n, edge, i)
<1>5. max \in Nat /\ \A i \in 1 .. max : /\ i \in 1 .. Len(doc) /\ i - 1 \in 0 .. Len(doc)
                                         /\ i \in 0 .. Len(doc)
  BY <1>2
<1>6. edge[0] = 0
  <2>1. 0 \in 0 .. Len(doc) BY <1>2
  <2> QED BY <2>1 DEF Edge
<1>7. \A i \in 1 .. Len(doc) + 1 :
        E(i) = Next_(wb.buf, Reader(Edge(i - 1), n - Edge(i - 1)))
  <2>1. \A i \in 1 .. Len(doc) + 1 : i - 1 \in 0 .. Len(doc) BY <1>2
  <2> QED BY <2>1 DEF At
<1>8. ASSUME NEW i \in 1 .. max
      PROVE  /\ E(i).elem # NONE /\ E(i).it = Reader(edge[i], n - edge[i])
             /\ Reads(E(i).elem, doc[i])
  <2>1. /\ i \in 1 .. Len(doc) /\ i \in 1 .. Len(doc) + 1 /\ i \in 0 .. Len(doc) /\ i <= max
        /\ i - 1 \in 0 .. Len(doc) /\ i - 1 < i
    BY <1>2, <1>5
  <2>2. Edge(i) <= n BY <1>4, <2>1
  <2>3. Edge(i - 1) <= n
    <3>1. Edge(i - 1) < Edge(i) BY <2>1 DEF DocInv, EdgesRise
    <3>2. Edge(i - 1) \in Nat /\ Edge(i) \in Nat BY <1>1, <2>1, EdgesAre
    <3> QED BY <1>3, <2>2, <3>1, <3>2
  <2>4. LET r == Next_(wb.buf, Reader(Edge(i - 1), n - Edge(i - 1)))
        IN  r.elem # NONE /\ Reads(r.elem, doc[i]) /\ r.it = Reader(Edge(i), n - Edge(i))
    BY <2>1, <2>2, <2>3, ThereOrNot
  <2>5. edge[i] = Edge(i) BY <2>1
  <2> HIDE DEF edge
  <2> QED BY <1>7, <2>1, <2>4, <2>5
<1>9. E(max + 1).elem = NONE
  <2>1. max + 1 \in 1 .. Len(doc) + 1 /\ (max + 1) - 1 = max BY <1>2, <1>5
  <2>2. E(max + 1) = Next_(wb.buf, Reader(Edge(max), n - Edge(max))) BY <1>7, <2>1
  <2>3. CASE max = Len(doc) BY <1>4, <2>2, <2>3, NothingBehind
  <2>4. CASE max # Len(doc)
    <3>1. max + 1 \in 1 .. Len(doc) /\ ~ (max + 1 <= max) /\ max + 1 \in 0 .. Len(doc)
      <4> DEFINE len == Len(doc)
      <4>1. len \in Nat /\ max \in 0 .. len /\ max # len BY <1>2, <2>4
      <4> HIDE DEF len
      <4>2. max + 1 \in 1 .. len /\ ~ (max + 1 <= max) /\ max + 1 \in 0 .. len BY <4>1
      <4> QED BY <4>2 DEF len
    <3>2. ~ (Edge(max + 1) <= n) BY <1>4, <3>1
    <3>3. Edge(max + 1) \in Nat BY <1>1, <3>1, EdgesAre
    <3>4. n < Edge(max + 1) BY <1>3, <3>2, <3>3
    <3> DEFINE x == max + 1
    <3>5. x \in 1 .. Len(doc) /\ x - 1 = max /\ Edge(x - 1) <= n /\ n < Edge(x)
      BY <1>4, <2>1, <3>1, <3>4
    <3> HIDE DEF x
    <3>6. Next_(wb.buf, Reader(Edge(x - 1), n - Edge(x - 1))).elem = NONE
      BY <3>5, ThereOrNot
    <3> QED BY <2>2, <3>5, <3>6
  <2> QED BY <2>3, <2>4
<1> HIDE DEF edge
<1>10. Elements(wb.buf, n) = [i \in 1 .. max |-> E(i).elem]
  BY <1>3, <1>4, <1>5, <1>6, <1>8, <1>9, ElementsAre
<1>11. {i \in DOMAIN doc : doc[i].end =< n} = 1 .. max
  <2>1. \A i \in 1 .. Len(doc) : i # 0 /\ Edge(i) = doc[i].end BY <1>2 DEF Edge
  <2>2. \A i \in 1 .. Len(doc) : doc[i].end =< n <=> i <= max BY <1>4, <2>1
  <2>3. \A i \in 1 .. Len(doc) : i <= max <=> i \in 1 .. max BY <1>2, <1>5
  <2> QED BY <1>2, <1>5, <2>2, <2>3
<1>12. Cardinality(1 .. max) = max
  <2>1. 1 \in Int /\ max \in Int /\ (IF 1 > max THEN 0 ELSE max - 1 + 1) = max BY <1>5
  <2> QED BY <2>1, FS_Interval
<1>13. Len([i \in 1 .. max |-> E(i).elem]) = max BY <1>5
<1>14. \A i \in 1 .. max : [j \in 1 .. max |-> E(j).elem][i] = E(i).elem OBVIOUS
<1> HIDE DEF E
<1> QED BY <1>8, <1>10, <1>11, <1>12, <1>13, <1>14

(***************************************************************************)
(* Every step of the writer.                                               *)
(***************************************************************************)
LEMMA PerformKeeps ==
  ASSUME DocInv, NEW call, call.tag \in TagTypes, Writable(call.kind, call.val), Perform(call)
  PROVE  DocInv'
<1>1. CASE wb'.ok BY <1>1, CallSucceeds
<1>2. CASE ~ wb'.ok BY <1>2, CallFails
<1> QED BY <1>1, <1>2

LEMMA RestKeeps ==
  ASSUME DocInv, UNCHANGED << wb, doc >>
  PROVE  DocInv'
<1>1. \A i : Edge(i)' = Edge(i) BY DEF Edge
<1>2. DocTypes' /\ EdgesRise' BY <1>1 DEF DocInv, DocTypes, EdgesRise
<1>3. \A i, type, v : WholeAs(i, type, v) => WholeAs(i, type, v)' BY <1>1 DEF WholeAs
<1>4. \A i : Whole(i) => Whole(i)' BY <1>3 DEF Whole
<1>5. \A tag, type, v : PartOf(tag, type, v) => PartOf(tag, type, v)' BY <1>1 DEF PartOf
<1>6. Tail_' BY <1>1, <1>5 DEF DocInv, Tail_
<1> QED BY <1>2, <1>4, <1>6 DEF DocInv

LEMMA TagsAre ==
  /\ ANON \in TagTypes
  /\ \A n \in Nat : Context(n) \in TagTypes
<1>1. ANON \in TagTypes
  <2> DEFINE rest == << >>
  <2>1. rest \in Seq(Nat) OBVIOUS
  <2> HIDE DEF rest
  <2>2. ANON[1] = 0 /\ ANON[2] = << >> /\ ANON \in (0 .. 7) \X Seq(Nat)
    <3>1. << 0, rest >> \in (0 .. 7) \X Seq(Nat) BY <2>1
    <3> QED BY <3>1 DEF ANON, rest
  <2>3. Len(<< >>) = 0 /\ TAG_SIZE_MAP[0 + 1] = 0 BY DEF TAG_SIZE_MAP
  <2>4. Len(ANON[2]) = TAG_SIZE_MAP[ANON[1] + 1] BY <2>2, <2>3
  <2> QED BY <2>2, <2>4 DEF TagTypes
<1>2. ASSUME NEW n \in Nat PROVE Context(n) \in TagTypes
  <2> DEFINE tag == Context(n)
             rest == << n >>
  <2>1. rest \in Seq(Nat) OBVIOUS
  <2> HIDE DEF rest
  <2>2. tag[1] = 1 /\ tag[2] = << n >> /\ tag \in (0 .. 7) \X Seq(Nat)
    <3>1. << 1, rest >> \in (0 .. 7) \X Seq(Nat) BY <2>1
    <3> QED BY <3>1 DEF Context, rest
  <2>3. Len(<< n >>) = 1 /\ TAG_SIZE_MAP[1 + 1] = 1 BY DEF TAG_SIZE_MAP
  <2> HIDE DEF tag
  <2>4. Len(tag[2]) = TAG_SIZE_MAP[tag[1] + 1] BY <2>2, <2>3
  <2>5. tag \in TagTypes BY <2>2, <2>4 DEF TagTypes
  <2> QED BY <2>5 DEF tag
<1> QED BY <1>1, <1>2

LEMMA MarksAre ==
  ASSUME NEW kind \in {"null", "EndCnt"} \cup Containers
  PROVE  Writable(kind, << >>)
BY DEF Writable, Containers

LEMMA TlvStarts ==
  ASSUME TlvInit
  PROVE  TlvInv
<1>1. CAPACITY \in Nat BY Sizes
<1>2. wb = WriteBuf(CAPACITY) /\ doc = << >> /\ field = 0 BY DEF TlvInit
<1>3. wb.ok /\ wb.end = 0 /\ wb \in WriteBufs(CAPACITY)
  <2>1. [i \in 1 .. CAPACITY |-> 0] \in Octets(CAPACITY) BY DEF Octets
  <2> QED BY <1>2, <2>1 DEF WriteBuf, WriteBufs
<1>4. doc \in Seq(Docs) /\ Len(doc) = 0 BY <1>2
<1>5. \A i \in 0 .. 0 : i = 0 BY SMT
<1>6. \A i \in 1 .. 0 : FALSE BY SMT
<1>7. Edge(0) = 0 BY DEF Edge
<1>8. EdgesRise
  <2>1. \A i \in 0 .. 0 : i <= Edge(i) /\ Edge(i) <= 0 BY <1>5, <1>7
  <2>2. \A i, j \in 0 .. 0 : ~ (i < j) BY SMT
  <2> QED BY <1>3, <1>4, <2>1, <2>2 DEF EdgesRise
<1>9. DocInv BY <1>1, <1>3, <1>4, <1>6, <1>7, <1>8 DEF DocInv, DocTypes, Tail_
<1> QED BY <1>2, <1>9 DEF TlvInv

LEMMA TlvStep ==
  ASSUME TlvInv, [TlvNext]_tlvVars
  PROVE  TlvInv'
<1>1. DocInv /\ field \in Nat /\ (field # 0 => value.fields \in Structs) BY DEF TlvInv
<1>2. ASSUME NEW tag \in Tags, NEW leaf \in Leaves, WriteLeaf(tag, leaf) PROVE TlvInv'
  <2> DEFINE call == CallOf(tag, leaf.kind, leaf.val)
  <2>1. call.tag = tag /\ call.kind = leaf.kind /\ call.val = leaf.val BY DEF CallOf
  <2>2. Perform(call) /\ UNCHANGED << value, field >> BY <1>2 DEF WriteLeaf
  <2>3. tag \in TagTypes /\ Writable(leaf.kind, leaf.val) BY TlvAssumption
  <2> HIDE DEF call
  <2>4. DocInv' BY <1>1, <2>1, <2>2, <2>3, PerformKeeps
  <2> QED BY <1>1, <2>2, <2>4 DEF TlvInv
<1>3. ASSUME NEW tag \in TagTypes, NEW kind \in {"null", "EndCnt"} \cup Containers,
             Perform(CallOf(tag, kind, << >>))
      PROVE  DocInv'
  <2> DEFINE call == CallOf(tag, kind, << >>)
  <2>1. call.tag = tag /\ call.kind = kind /\ call.val = << >> BY DEF CallOf
  <2>2. Perform(call) BY <1>3
  <2> HIDE DEF call
  <2> QED BY <1>1, <2>1, <2>2, MarksAre, PerformKeeps
<1>4. ASSUME NEW s \in Starts, StartContainer(s[1], s[2]) PROVE TlvInv'
  <2>1. s[1] \in TagTypes /\ s[2] \in Containers BY TlvAssumption
  <2>2. Perform(CallOf(s[1], s[2], << >>)) /\ UNCHANGED << value, field >> BY <1>4 DEF StartContainer
  <2>3. DocInv' BY <1>3, <2>1, <2>2
  <2> QED BY <1>1, <2>2, <2>3 DEF TlvInv
<1>5. ASSUME EndContainer PROVE TlvInv'
  <2>1. Perform(CallOf(ANON, "EndCnt", << >>)) /\ UNCHANGED << value, field >> BY <1>5 DEF EndContainer
  <2>2. DocInv' BY <1>3, <2>1, TagsAre
  <2> QED BY <1>1, <2>1, <2>2 DEF TlvInv
<1>6. ASSUME NEW v \in Structs, WriteStruct(v) PROVE TlvInv'
  <2>1. Perform(CallOf(ANON, "Struct", << >>)) /\ value'.fields = v /\ field' = 1
    BY <1>6 DEF WriteStruct
  <2>2. DocInv' BY <1>3, <2>1, TagsAre DEF Containers
  <2> QED BY <2>1, <2>2 DEF TlvInv
<1>7. ASSUME WriteField PROVE TlvInv'
  <2> DEFINE f == Schema[field]
             x == value.fields[field]
  <2>1. field \in DOMAIN Schema /\ FieldDone(f, x) /\ field' = field + 1 /\ value' = value
    BY <1>7 DEF WriteField
  <2>2. field # 0
    <3>1. \A i \in DOMAIN Schema : i \in Nat \ {0} BY TlvAssumption
    <3> QED BY <2>1, <3>1
  <2>3. value.fields \in Structs BY <1>1, <2>2
  <2>4. /\ f.tag \in Nat /\ x.st \in {"none", "null", "some"}
        /\ x.st = "some" => Writable(LeafKind(f.kind), x.val)
    <3>1. \A i \in DOMAIN Schema : Schema[i].tag \in Nat
      <4> DEFINE Fields == [tag : Nat, kind : STRING, optional : BOOLEAN]
      <4>1. \A y \in Fields : y.tag \in Nat OBVIOUS
      <4>2. Schema \in Seq(Fields) BY TlvAssumption
      <4> HIDE DEF Fields
      <4>3. \A i \in DOMAIN Schema : Schema[i] \in Fields BY <4>2
      <4> QED BY <4>1, <4>3
    <3>2. f.tag \in Nat BY <2>1, <3>1
    <3>3. /\ x.st \in {"none", "null", "some"}
          /\ x.st = "some" => Writable(LeafKind(f.kind), x.val)
      BY <2>1, <2>3, TlvAssumption
    <3> QED BY <3>2, <3>3
  <2>5. Context(f.tag) \in TagTypes BY <2>4, TagsAre
  <2> HIDE DEF f, x
  <2>6. CASE x.st = "none"
    <3>1. UNCHANGED << wb, doc >> BY <2>1, <2>6 DEF FieldDone
    <3> QED BY <1>1, <2>1, <2>2, <2>3, <3>1, RestKeeps DEF TlvInv
  <2>7. CASE x.st = "null"
    <3>1. Perform(CallOf(Context(f.tag), "null", << >>)) BY <2>1, <2>7 DEF FieldDone
    <3>2. DocInv' BY <1>3, <2>5, <3>1
    <3> QED BY <1>1, <2>1, <2>3, <3>2 DEF TlvInv
  <2>8. CASE x.st = "some"
    <3> DEFINE call == CallOf(Context(f.tag), LeafKind(f.kind), x.val)
    <3>1. Perform(call) BY <2>1, <2>8 DEF FieldDone
    <3>2. call.tag = Context(f.tag) /\ call.kind = LeafKind(f.kind) /\ call.val = x.val BY DEF CallOf
    <3> HIDE DEF call
    <3>3. DocInv' BY <1>1, <2>4, <2>5, <2>8, <3>1, <3>2, PerformKeeps
    <3> QED BY <1>1, <2>1, <2>3, <3>3 DEF TlvInv
  <2> QED BY <2>4, <2>6, <2>7, <2>8
<1>8. ASSUME FinishStruct PROVE TlvInv'
  <2>1. Perform(CallOf(ANON, "EndCnt", << >>)) /\ field' = 0 BY <1>8 DEF FinishStruct
  <2>2. DocInv' BY <1>3, <2>1, TagsAre
  <2> QED BY <2>1, <2>2 DEF TlvInv
<1>9. CASE UNCHANGED tlvVars
  <2>1. UNCHANGED << wb, doc >> /\ UNCHANGED << value, field >> BY <1>9 DEF tlvVars
  <2>2. DocInv' BY <1>1, <2>1, RestKeeps
  <2> QED BY <1>1, <2>1, <2>2 DEF TlvInv
<1> QED BY <1>2, <1>4, <1>5, <1>6, <1>7, <1>8, <1>9 DEF TlvNext

\* Of a document cut at any byte a reader gets the elements that are whole in what
\* is left, each as the call that wrote it was given it, and nothing else: for every
\* buffer, base, tags, values and struct, and however many calls were made, one of
\* which may have failed (TLVWriter of tlv/writer.rs read by TLVListIterator).
THEOREM CutsReadPrefix == TlvSpec => []CutReadsPrefix
<1>1. TlvInit => TlvInv BY TlvStarts
<1>2. TlvInv /\ [TlvNext]_tlvVars => TlvInv' BY TlvStep
<1>3. TlvInv => CutReadsPrefix BY CutIsRead DEF TlvInv
<1> QED BY <1>1, <1>2, <1>3, PTL DEF TlvSpec

=============================================================================
