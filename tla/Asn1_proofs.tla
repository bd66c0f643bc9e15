----------------------------- MODULE Asn1_proofs -----------------------------
(***************************************************************************)
(* Proof that the writer of certificates writes DER: WritesDer of Asn1,    *)
(* for every base, depth of nesting, length of the buffer and set of       *)
(* calls.                                                                  *)
(***************************************************************************)
EXTENDS Asn1, SequenceTheorems, TLAPS

(***************************************************************************)
(* Bytes of a buffer.                                                      *)
(***************************************************************************)

\* A slice has the bytes between two offsets.
LEMMA SliceBytes ==
  ASSUME NEW s \in Seq(Nat), NEW from \in Nat, NEW to \in Nat, from <= to, to <= Len(s)
  PROVE  /\ Slice(s, from, to) \in Seq(Nat) /\ Len(Slice(s, from, to)) = to - from
         /\ \A i \in 1 .. to - from : Slice(s, from, to)[i] = s[from + i]
<1>1. \A i \in from + 1 .. to : s[i] \in Nat OBVIOUS
<1>2. /\ from + 1 \in Int /\ to \in Int /\ to - (from + 1) + 1 = to - from
      /\ \A i \in 1 .. to - from : from + 1 + i - 1 = from + i
      /\ from + 1 <= to \/ to - from = 0
  OBVIOUS
<1>3. /\ SubSeq(s, from + 1, to) \in Seq(Nat)
      /\ Len(SubSeq(s, from + 1, to)) = IF from + 1 <= to THEN to - (from + 1) + 1 ELSE 0
      /\ \A i \in 1 .. to - (from + 1) + 1 : SubSeq(s, from + 1, to)[i] = s[from + 1 + i - 1]
  BY <1>1, <1>2, SubSeqProperties
<1>4. Len(SubSeq(s, from + 1, to)) = to - from BY <1>2, <1>3
<1>5. \A i \in 1 .. to - from : SubSeq(s, from + 1, to)[i] = s[from + i] BY <1>2, <1>3
<1> QED BY <1>3, <1>4, <1>5 DEF Slice

\* Overlay writes t from an offset on, and no other byte.
LEMMA OverlayBytes ==
  ASSUME NEW s \in Seq(Nat), NEW at \in Nat, NEW t \in Seq(Nat), at + Len(t) <= Len(s)
  PROVE  /\ Overlay(s, at, t) \in Seq(Nat) /\ Len(Overlay(s, at, t)) = Len(s)
         /\ \A i \in 1 .. Len(t) : Overlay(s, at, t)[at + i] = t[i]
         /\ \A i \in 1 .. Len(s) : i <= at => Overlay(s, at, t)[i] = s[i]
<1> DEFINE size == Len(s)
           more == Len(t)
           new == Overlay(s, at, t)
<1>1. size \in Nat /\ more \in Nat /\ at + more <= size /\ DOMAIN s = 1 .. size OBVIOUS
<1>2. \A i \in 1 .. size : s[i] \in Nat OBVIOUS
<1>3. \A i \in 1 .. more : t[i] \in Nat OBVIOUS
<1>4. new = [i \in 1 .. size |-> IF i \in at + 1 .. at + more THEN t[i - at] ELSE s[i]]
  BY <1>1 DEF Overlay
<1> HIDE DEF size, more, new
<1>5. \A i \in at + 1 .. at + more : i \in 1 .. size /\ i - at \in 1 .. more BY <1>1
<1>6. new \in [1 .. size -> Nat] BY <1>2, <1>3, <1>4, <1>5
<1>7. new \in Seq(Nat) /\ Len(new) = size BY <1>1, <1>6
<1>8. \A i \in 1 .. more : /\ at + i \in 1 .. size /\ at + i \in at + 1 .. at + more
                           /\ (at + i) - at = i
  BY <1>1
<1>9. \A i \in 1 .. more : new[at + i] = t[i] BY <1>4, <1>8
<1>10. \A i \in 1 .. size : i <= at => i \notin at + 1 .. at + more BY <1>1
<1>11. \A i \in 1 .. size : i <= at => new[i] = s[i] BY <1>4, <1>10
<1> QED BY <1>7, <1>9, <1>11 DEF size, more, new

\* Two buffers of a length that have the same bytes up to an offset.
Agree(s, t, upto) ==
  /\ t \in Seq(Nat) /\ Len(t) = Len(s)
  /\ \A i \in 1 .. Len(s) : i <= upto => t[i] = s[i]

LEMMA OverlayAgrees ==
  ASSUME NEW s \in Seq(Nat), NEW at \in Nat, NEW t \in Seq(Nat), at + Len(t) <= Len(s)
  PROVE  Agree(s, Overlay(s, at, t), at)
BY OverlayBytes DEF Agree

\* They agree up to every offset before it.
LEMMA AgreeBefore ==
  ASSUME NEW s \in Seq(Nat), NEW t, NEW m \in Nat, Agree(s, t, m), NEW n \in Nat, n <= m
  PROVE  Agree(s, t, n)
<1> DEFINE size == Len(s)
<1>1. size \in Nat OBVIOUS
<1>2. /\ t \in Seq(Nat) /\ Len(t) = size /\ \A i \in 1 .. size : i <= m => t[i] = s[i]
  BY DEF Agree
<1> HIDE DEF size
<1>3. \A i \in 1 .. size : i <= n => i <= m BY <1>1
<1>4. \A i \in 1 .. size : i <= n => t[i] = s[i] BY <1>2, <1>3
<1> QED BY <1>2, <1>4 DEF Agree, size

\* Their slices up to there are the same.
LEMMA SlicesAgree ==
  ASSUME NEW s \in Seq(Nat), NEW t, NEW from \in Nat, NEW to \in Nat,
         from <= to, to <= Len(s), Agree(s, t, to)
  PROVE  Slice(t, from, to) = Slice(s, from, to)
<1> DEFINE size == Len(s)
<1>1. size \in Nat /\ to <= size OBVIOUS
<1>2. /\ t \in Seq(Nat) /\ Len(t) = size /\ \A i \in 1 .. size : i <= to => t[i] = s[i]
  BY DEF Agree
<1>3. /\ Slice(s, from, to) \in Seq(Nat) /\ Len(Slice(s, from, to)) = to - from
      /\ \A i \in 1 .. to - from : Slice(s, from, to)[i] = s[from + i]
  BY SliceBytes
<1>4. /\ Slice(t, from, to) \in Seq(Nat) /\ Len(Slice(t, from, to)) = to - from
      /\ \A i \in 1 .. to - from : Slice(t, from, to)[i] = t[from + i]
  BY <1>1, <1>2, SliceBytes
<1> HIDE DEF size
<1>5. \A i \in 1 .. to - from : from + i \in 1 .. size /\ from + i <= to BY <1>1
<1>6. \A i \in 1 .. to - from : Slice(t, from, to)[i] = Slice(s, from, to)[i]
  BY <1>2, <1>3, <1>4, <1>5
<1> QED BY <1>3, <1>4, <1>6, SeqEqual

\* A slice that ends where what is written ends has it at its end.
LEMMA SliceGrows ==
  ASSUME NEW s \in Seq(Nat), NEW at \in Nat, NEW t \in Seq(Nat), at + Len(t) <= Len(s),
         NEW from \in Nat, from <= at
  PROVE  Slice(Overlay(s, at, t), from, at + Len(t)) = Slice(s, from, at) \o t
<1> DEFINE new == Overlay(s, at, t)
           size == Len(s)
           more == Len(t)
           to == at + more
           was == Slice(s, from, at)
           is == Slice(new, from, to)
<1>1. /\ new \in Seq(Nat) /\ Len(new) = size
      /\ \A i \in 1 .. more : new[at + i] = t[i]
      /\ \A i \in 1 .. size : i <= at => new[i] = s[i]
  BY OverlayBytes
<1>2. size \in Nat /\ more \in Nat /\ to \in Nat /\ to <= size OBVIOUS
<1> HIDE DEF new
<1>3. at <= size /\ from <= to
  <2> HIDE DEF size, more
  <2> QED BY <1>2
<1>4. /\ was \in Seq(Nat) /\ Len(was) = at - from
      /\ \A i \in 1 .. at - from : was[i] = s[from + i]
  BY <1>2, <1>3, SliceBytes
<1>5. /\ is \in Seq(Nat) /\ Len(is) = to - from
      /\ \A i \in 1 .. to - from : is[i] = new[from + i]
  <2> HIDE DEF to, size
  <2> QED BY <1>1, <1>2, <1>3, SliceBytes
<1> HIDE DEF was, is
<1>6. /\ was \o t \in Seq(Nat) /\ Len(was \o t) = Len(was) + more
      /\ \A i \in 1 .. Len(was) + more :
           (was \o t)[i] = IF i <= Len(was) THEN was[i] ELSE t[i - Len(was)]
  BY <1>4, ConcatProperties
<1>7. Len(was \o t) = to - from /\ Len(was) + more = to - from
  <2> DEFINE both == Len(was \o t)
             first == Len(was)
  <2>1. both = first + more /\ first = at - from BY <1>4, <1>6
  <2> HIDE DEF both, first, more
  <2>2. both = to - from /\ first + more = to - from BY <1>2, <2>1
  <2> QED BY <2>2 DEF both, first
<1>8. ASSUME NEW i \in 1 .. to - from PROVE is[i] = (was \o t)[i]
  <2>1. is[i] = new[from + i] BY <1>5
  <2>2. (was \o t)[i] = IF i <= at - from THEN was[i] ELSE t[i - (at - from)]
    BY <1>4, <1>6, <1>7
  <2>3. CASE i <= at - from
    <3> HIDE DEF size, more
    <3>1. i \in 1 .. at - from /\ from + i \in 1 .. size /\ from + i <= at
      BY <1>2, <1>3, <2>3
    <3>2. was[i] = s[from + i] BY <1>4, <3>1
    <3>3. new[from + i] = s[from + i] BY <1>1, <3>1
    <3> QED BY <2>1, <2>2, <2>3, <3>2, <3>3
  <2>4. CASE ~ (i <= at - from)
    <3> DEFINE j == i - (at - from)
    <3> HIDE DEF size, more
    <3>1. j \in 1 .. more /\ from + i = at + j BY <1>2, <1>3, <2>4
    <3> HIDE DEF j
    <3>2. new[at + j] = t[j] BY <1>1, <3>1
    <3> QED BY <2>1, <2>2, <2>4, <3>1, <3>2 DEF j
  <2> QED BY <2>3, <2>4
<1> HIDE DEF to
<1>9. is = was \o t BY <1>5, <1>6, <1>7, <1>8, SeqEqual
<1> QED BY <1>9 DEF is, was, new, to, more

\* The offset behind t, which is written at an offset of s.
Behind(s, at, t, to) == to = at + Len(t) /\ to <= Len(s)
Grew(s, off, t, end, m) == Slice(Overlay(s, off, t), m, end) = Slice(s, m, off) \o t

LEMMA SliceGrowsTo ==
  ASSUME NEW s \in Seq(Nat), NEW off \in Nat, NEW t \in Seq(Nat), NEW end, Behind(s, off, t, end),
         NEW m \in Nat, m <= off
  PROVE  Grew(s, off, t, end, m)
<1>1. off + Len(t) <= Len(s) /\ end = off + Len(t) BY DEF Behind
<1>2. Slice(Overlay(s, off, t), m, off + Len(t)) = Slice(s, m, off) \o t BY <1>1, SliceGrows
<1> QED BY <1>1, <1>2 DEF Grew

\* Joining sequences is associative.
LEMMA ConcatThree ==
  ASSUME NEW s \in Seq(Nat), NEW t \in Seq(Nat), NEW u \in Seq(Nat)
  PROVE  (s \o t) \o u = s \o (t \o u)
BY ConcatAssociative

\* A slice that ends one byte further.
LEMMA SliceNext ==
  ASSUME NEW s \in Seq(Nat), NEW from \in Nat, NEW to \in Nat, from <= to, to + 1 <= Len(s)
  PROVE  Slice(s, from, to + 1) = Slice(s, from, to) \o << s[to + 1] >>
<1>1. from + 1 \in 1 .. Len(s) /\ to + 1 \in from + 1 .. Len(s) OBVIOUS
<1>2. SubSeq(s, from + 1, to + 1) = SubSeq(s, from + 1, (to + 1) - 1) \o << s[to + 1] >>
  BY <1>1, SubSeqRecursiveSecond
<1>3. (to + 1) - 1 = to OBVIOUS
<1> QED BY <1>2, <1>3 DEF Slice

(***************************************************************************)
(* Lengths.                                                                *)
(***************************************************************************)

\* Division by the base gives two digits of it.
LEMMA Digits ==
  ASSUME NEW len \in Nat, LenFits(len)
  PROVE  /\ len \div BASE \in Der!Byte /\ len % BASE \in Der!Byte
         /\ len = (len \div BASE) * BASE + (len % BASE)
<1> DEFINE q == len \div BASE
           r == len % BASE
<1>1. BASE \in Nat /\ BASE > 2 BY Asn1Assumption
<1>2. q \in Nat /\ r \in 0 .. BASE - 1 /\ len = q * BASE + r
  BY <1>1
<1>3. q < BASE
  <2>1. SUFFICES ASSUME q >= BASE PROVE FALSE BY <1>1, <1>2
  <2>2. len < BASE * BASE BY DEF LenFits
  <2> HIDE DEF q, r
  <2>3. q * BASE >= BASE * BASE BY <1>1, <1>2, <2>1
  <2> DEFINE x == q * BASE
             y == BASE * BASE
  <2>4. x \in Nat /\ y \in Nat BY <1>1, <1>2
  <2> HIDE DEF x, y
  <2>5. len = x + r /\ x >= y /\ len < y BY <1>2, <2>2, <2>3 DEF x, y
  <2> QED BY <1>1, <1>2, <2>4, <2>5
<1> HIDE DEF q, r
<1>4. q \in Der!Byte /\ r \in Der!Byte BY <1>1, <1>2, <1>3 DEF Der!Byte
<1> QED BY <1>2, <1>4 DEF q, r

\* No two digits give the same length as two others.
LEMMA DigitsDiffer ==
  ASSUME NEW a \in Der!Byte, NEW b \in Der!Byte, NEW c \in Der!Byte, NEW d \in Der!Byte,
         a * BASE + b = c * BASE + d
  PROVE  a = c /\ b = d
<1>1. BASE \in Nat /\ BASE > 2 BY Asn1Assumption
<1>2. /\ a \in Nat /\ b \in Nat /\ c \in Nat /\ d \in Nat /\ b < BASE /\ d < BASE
  BY <1>1 DEF Der!Byte
<1>3. ASSUME NEW x \in Nat, NEW y \in Nat, NEW u \in Nat, NEW v \in Nat, v < BASE,
             x * BASE + u = y * BASE + v
      PROVE  ~ (x > y)
  <2>1. SUFFICES ASSUME x > y PROVE FALSE OBVIOUS
  <2>2. x * BASE >= (y + 1) * BASE /\ (y + 1) * BASE = y * BASE + BASE BY <1>1, <2>1
  <2> DEFINE m == x * BASE
             n == y * BASE
  <2>3. m \in Nat /\ n \in Nat BY <1>1
  <2>4. m >= n + BASE /\ m + u = n + v BY <1>3, <2>2
  <2> HIDE DEF m, n
  <2> QED BY <1>1, <1>3, <2>3, <2>4
<1>4. a = c BY <1>2, <1>3
<1>5. a * BASE \in Nat BY <1>1, <1>2
<1>6. b = d BY <1>2, <1>4, <1>5
<1> QED BY <1>4, <1>6

\* encode_len writes the length that DER has, in one to three bytes.
LEMMA LengthIsDer ==
  ASSUME NEW len \in Nat, LenFits(len)
  PROVE  /\ EncodedLen(len) = Der!DerLength(len)
         /\ EncodedLen(len) \in Seq(Nat) /\ Len(EncodedLen(len)) \in 1 .. RESERVE_LEN_BYTES
<1> DEFINE half == BASE \div 2
<1>1. BASE \in Nat /\ half \in Nat /\ half < BASE
  BY Asn1Assumption
<1> HIDE DEF half
<1>2. CASE len < half
  <2>1. BytesToEncodeLen(len) = 1 BY <1>1, <1>2 DEF BytesToEncodeLen, half
  <2>2. EncodedLen(len) = << len >> BY <2>1 DEF EncodedLen
  <2>3. Der!DerLength(len) = << len >> BY <1>2 DEF Der!DerLength, half
  <2> QED BY <2>2, <2>3 DEF RESERVE_LEN_BYTES
<1>3. CASE ~ (len < half) /\ len < BASE
  <2>1. ~ (len < half) /\ len >= half /\ len < BASE BY <1>1, <1>3
  <2>2. BytesToEncodeLen(len) = 2 BY <2>1 DEF BytesToEncodeLen, half
  <2>3. EncodedLen(len) = << half + 1, len >> BY <2>2 DEF EncodedLen, half
  <2>4. Der!DerLength(len) = << half + 1, len >> BY <1>3 DEF Der!DerLength, half
  <2> QED BY <1>1, <2>3, <2>4 DEF RESERVE_LEN_BYTES
<1>4. CASE ~ (len < half) /\ ~ (len < BASE)
  <2>1. ~ (len < half) /\ ~ (len >= half /\ len < BASE) BY <1>4
  <2>2. BytesToEncodeLen(len) = 3 BY <2>1 DEF BytesToEncodeLen, half
  <2> DEFINE q == len \div BASE
             r == len % BASE
             two == Der!TwoBytes(len)
  <2>3. EncodedLen(len) = << half + 2, q, r >> BY <2>2 DEF EncodedLen, half
  <2>4. Der!DerLength(len) = << half + 2, two[1], two[2] >> BY <1>4 DEF Der!DerLength, half
  <2>5. q \in Der!Byte /\ r \in Der!Byte /\ len = q * BASE + r BY Digits
  <2> HIDE DEF q, r
  <2>6. << q, r >> \in Der!Byte \X Der!Byte /\ len = << q, r >>[1] * BASE + << q, r >>[2]
    BY <2>5
  <2>7. two \in Der!Byte \X Der!Byte /\ len = two[1] * BASE + two[2]
    BY <2>6 DEF Der!TwoBytes
  <2> HIDE DEF two
  <2>8. two[1] = q /\ two[2] = r
    <3>1. two[1] \in Der!Byte /\ two[2] \in Der!Byte BY <2>7
    <3>2. two[1] * BASE + two[2] = q * BASE + r BY <2>5, <2>7
    <3> QED BY <2>5, <3>1, <3>2, DigitsDiffer
  <2>9. q \in Nat /\ r \in Nat BY <1>1, <2>5 DEF Der!Byte
  <2> QED BY <1>1, <2>3, <2>4, <2>8, <2>9 DEF RESERVE_LEN_BYTES
<1> QED BY <1>2, <1>3, <1>4

(***************************************************************************)
(* The values begun.                                                       *)
(***************************************************************************)
Started == [tag : Nat, body : Seq(Nat)]
Levels(wr) == 1 .. Len(wr.depth) + 1

\* The bodies of the values begun lie one behind the other, four bytes apart.
Nested(wr) ==
  /\ \A k \in Levels(wr) : /\ BodyFrom(wr, k) \in Nat /\ BodyTo(wr, k) \in Nat
                           /\ BodyFrom(wr, k) <= BodyTo(wr, k) /\ BodyTo(wr, k) <= wr.offset
  /\ \A j, k \in Levels(wr) : j < k => BodyTo(wr, j) + 4 <= BodyFrom(wr, k)

WriterType(wr) ==
  /\ wr \in [buf : Seq(Nat), offset : Nat, depth : Seq(Nat), ok : BOOLEAN]
  /\ wr.offset <= Len(wr.buf)

\* A writer in use.
Sound(wr) == WriterType(wr) /\ wr.ok /\ Nested(wr)

\* The writer has one value begun, and one for every start that is not ended.
LEMMA BegunType ==
  ASSUME NEW wr, Sound(wr)
  PROVE  /\ BegunBy(wr) \in Seq(Started) /\ Len(BegunBy(wr)) = Len(wr.depth) + 1
         /\ BegunBy(wr) # << >>
         /\ \A k \in Levels(wr) : BegunBy(wr)[k] = [tag |-> TagOf(wr, k), body |-> Body(wr, k)]
<1> DEFINE n == Len(wr.depth) + 1
           size == Len(wr.buf)
<1>1. n \in Nat /\ n >= 1 /\ 1 \in Levels(wr) /\ Levels(wr) = 1 .. n
  BY DEF Sound, WriterType, Levels
<1>2. size \in Nat /\ wr.buf \in Seq(Nat) /\ wr.offset \in Nat /\ wr.offset <= size
  BY DEF Sound, WriterType
<1> HIDE DEF n
<1>3. ASSUME NEW k \in Levels(wr) PROVE Body(wr, k) \in Seq(Nat)
  <2> DEFINE from == BodyFrom(wr, k)
             to == BodyTo(wr, k)
  <2>1. from \in Nat /\ to \in Nat /\ from <= to /\ to <= wr.offset BY DEF Sound, Nested
  <2> HIDE DEF from, to, size
  <2>2. to <= size BY <1>2, <2>1
  <2>3. Slice(wr.buf, from, to) \in Seq(Nat) BY <1>2, <2>1, <2>2, SliceBytes DEF size
  <2> QED BY <2>3 DEF Body, from, to
<1>4. ASSUME NEW k \in Levels(wr) PROVE TagOf(wr, k) \in Nat
  <2>1. CASE k = 1 BY <2>1 DEF TagOf
  <2>2. CASE k # 1
    <3> DEFINE from == BodyFrom(wr, k)
               to == BodyTo(wr, 1)
    <3>1. 1 < k BY <1>1, <2>2
    <3>2. to + 4 <= from BY <1>1, <3>1 DEF Sound, Nested
    <3>3. /\ to \in Nat /\ from \in Nat /\ from <= BodyTo(wr, k)
          /\ BodyTo(wr, k) <= wr.offset /\ BodyTo(wr, k) \in Nat
      BY <1>1 DEF Sound, Nested
    <3>4. TagOf(wr, k) = wr.buf[from - 3] BY <2>2 DEF TagOf, RESERVE_LEN_BYTES
    <3> HIDE DEF from, to, size
    <3>5. from - 3 \in 1 .. size BY <1>2, <3>2, <3>3
    <3> QED BY <1>2, <3>4, <3>5 DEF size
  <2> QED BY <2>1, <2>2
<1>5. BegunBy(wr) = [k \in 1 .. n |-> [tag |-> TagOf(wr, k), body |-> Body(wr, k)]]
  BY DEF BegunBy, n
<1>6. \A k \in 1 .. n : [tag |-> TagOf(wr, k), body |-> Body(wr, k)] \in Started
  BY <1>1, <1>3, <1>4 DEF Started
<1>7. BegunBy(wr) \in [1 .. n -> Started] BY <1>5, <1>6
<1>8. BegunBy(wr) \in Seq(Started) /\ Len(BegunBy(wr)) = n BY <1>1, <1>7
<1>9. \A k \in Levels(wr) : BegunBy(wr)[k] = [tag |-> TagOf(wr, k), body |-> Body(wr, k)]
  BY <1>1, <1>5
<1>10. BegunBy(wr) # << >> BY <1>1, <1>8
<1> QED BY <1>8, <1>9, <1>10 DEF n

\* What is put in the last of n values begun.
PutAt(values, n, bytes) ==
  [k \in 1 .. n |-> IF k = n THEN [tag |-> values[n].tag, body |-> values[n].body \o bytes]
                    ELSE values[k]]

LEMMA PutIs ==
  ASSUME NEW values \in Seq(Started), values # << >>, NEW bytes \in Seq(Nat),
         NEW n, n = Len(values)
  PROVE  Der!PutInto(values, bytes) = PutAt(values, n, bytes)
<1>1. n \in Nat /\ n >= 1 /\ values \in [1 .. n -> Started] OBVIOUS
<1>2. n \in 1 .. n BY <1>1
<1>3. values[n] \in Started BY <1>1, <1>2
<1>4. Der!PutInto(values, bytes) = [values EXCEPT ![n].body = values[n].body \o bytes]
  BY DEF Der!PutInto
<1> DEFINE new == [tag |-> values[n].tag, body |-> values[n].body \o bytes]
<1>5. [values[n] EXCEPT !.body = values[n].body \o bytes] = new
  <2> DEFINE x == values[n]
             b == x.body \o bytes
  <2>1. x \in [tag : Nat, body : Seq(Nat)] BY <1>3 DEF Started
  <2> HIDE DEF x, b
  <2>2. [x EXCEPT !.body = b] = [tag |-> x.tag, body |-> b] BY <2>1
  <2> QED BY <2>2 DEF x, b
<1>6. Der!PutInto(values, bytes) = [values EXCEPT ![n] = new] BY <1>4, <1>5
<1> HIDE DEF new
<1>7. [values EXCEPT ![n] = new] = [k \in 1 .. n |-> IF k = n THEN new ELSE values[k]]
  BY <1>1
<1> QED BY <1>6, <1>7 DEF new, PutAt

\* What is known of a level.
LEMMA LevelIs ==
  ASSUME NEW wr, Sound(wr), NEW k \in Levels(wr)
  PROVE  /\ k \in Nat /\ k >= 1 /\ k <= Len(wr.depth) + 1 /\ Len(wr.depth) \in Nat
         /\ BodyFrom(wr, k) \in Nat /\ BodyTo(wr, k) \in Nat
         /\ BodyFrom(wr, k) <= BodyTo(wr, k) /\ BodyTo(wr, k) <= wr.offset
         /\ BodyTo(wr, k) <= Len(wr.buf) /\ Len(wr.buf) \in Nat
         /\ k # 1 => BodyFrom(wr, k) - 3 \in 1 .. Len(wr.buf)
<1> DEFINE n == Len(wr.depth)
           size == Len(wr.buf)
           from == BodyFrom(wr, k)
           to == BodyTo(wr, k)
<1>1. n \in Nat /\ size \in Nat /\ wr.offset \in Nat /\ wr.offset <= size
  BY DEF Sound, WriterType
<1>2. k \in 1 .. n + 1 /\ 1 \in Levels(wr) BY <1>1 DEF Levels
<1>3. from \in Nat /\ to \in Nat /\ from <= to /\ to <= wr.offset BY DEF Sound, Nested
<1>4. k # 1 => from >= 4
  <2>1. SUFFICES ASSUME k # 1 PROVE from >= 4 OBVIOUS
  <2>2. 1 < k BY <1>1, <1>2, <2>1
  <2>3. BodyTo(wr, 1) \in Nat /\ BodyTo(wr, 1) + 4 <= from BY <1>2, <2>2 DEF Sound, Nested
  <2> HIDE DEF from
  <2> QED BY <1>3, <2>3
<1> HIDE DEF n, size, from, to
<1>5. k \in Nat /\ k >= 1 /\ k <= n + 1 /\ to <= size BY <1>1, <1>2, <1>3
<1>6. k # 1 => from - 3 \in 1 .. size BY <1>1, <1>3, <1>4
<1> QED BY <1>1, <1>3, <1>5, <1>6 DEF n, size, from, to

\* A level that another writer has too, with the bytes up to where it begins, has its tag.
LEMMA TagKept ==
  ASSUME NEW wr, Sound(wr), NEW k \in Levels(wr), NEW new,
         BodyFrom(new, k) = BodyFrom(wr, k), Agree(wr.buf, new.buf, BodyFrom(wr, k))
  PROVE  TagOf(new, k) = TagOf(wr, k)
<1>1. CASE k = 1 BY <1>1 DEF TagOf
<1>2. CASE k # 1
  <2> DEFINE from == BodyFrom(wr, k)
             at == from - 3
             size == Len(wr.buf)
  <2>1. at \in 1 .. size /\ from \in Nat BY <1>2, LevelIs
  <2>2. \A i \in 1 .. size : i <= from => new.buf[i] = wr.buf[i] BY DEF Agree
  <2>3. TagOf(new, k) = new.buf[at] /\ TagOf(wr, k) = wr.buf[at]
    BY <1>2 DEF TagOf, RESERVE_LEN_BYTES
  <2> HIDE DEF from, size
  <2>4. at <= from BY <2>1
  <2> QED BY <2>1, <2>2, <2>3, <2>4
<1> QED BY <1>1, <1>2

\* With those up to where it ends, it has its body.
LEMMA LevelKept ==
  ASSUME NEW wr, Sound(wr), NEW k \in Levels(wr), NEW new,
         BodyFrom(new, k) = BodyFrom(wr, k), BodyTo(new, k) = BodyTo(wr, k),
         NEW m \in Nat, BodyTo(wr, k) <= m, Agree(wr.buf, new.buf, m)
  PROVE  TagOf(new, k) = TagOf(wr, k) /\ Body(new, k) = Body(wr, k)
<1> DEFINE from == BodyFrom(wr, k)
           to == BodyTo(wr, k)
<1>1. from \in Nat /\ to \in Nat /\ from <= to /\ to <= Len(wr.buf) BY LevelIs
<1>2. wr.buf \in Seq(Nat) BY DEF Sound, WriterType
<1>3. from <= m /\ to <= m
  <2>1. to <= m OBVIOUS
  <2> HIDE DEF from, to
  <2> QED BY <1>1, <2>1
<1>4. Agree(wr.buf, new.buf, from) /\ Agree(wr.buf, new.buf, to)
  <2> HIDE DEF from, to
  <2> QED BY <1>1, <1>2, <1>3, AgreeBefore
<1>5. TagOf(new, k) = TagOf(wr, k) BY <1>4, TagKept
<1>6. Slice(new.buf, from, to) = Slice(wr.buf, from, to)
  <2> HIDE DEF from, to
  <2> QED BY <1>1, <1>2, <1>4, SlicesAgree
<1>7. Body(new, k) = Body(wr, k) BY <1>6 DEF Body
<1> QED BY <1>5, <1>7

\* The last value begun goes on to the end of what is written.
LEMMA LastEnds ==
  ASSUME NEW wr, Sound(wr), NEW n, n = Len(wr.depth) + 1
  PROVE  /\ n \in Levels(wr) /\ n \in Nat /\ n >= 1 /\ Levels(wr) = 1 .. n
         /\ BodyTo(wr, n) = wr.offset
<1>1. Len(wr.depth) \in Nat BY DEF Sound, WriterType
<1>2. n \in Nat /\ n >= 1 /\ n \in 1 .. n BY <1>1
<1> QED BY <1>2 DEF Levels, BodyTo

\* Bytes that are written at the end of a buffer are put in the last value begun.
LEMMA PutWrites ==
  ASSUME NEW wr, Sound(wr), NEW bytes \in Seq(Nat), wr.offset + Len(bytes) <= Len(wr.buf),
         NEW new,
         new = [wr EXCEPT !.buf = Overlay(wr.buf, wr.offset, bytes),
                          !.offset = wr.offset + Len(bytes)]
  PROVE  Sound(new) /\ BegunBy(new) = Der!PutInto(BegunBy(wr), bytes)
<1> DEFINE n == Len(wr.depth) + 1
           end == wr.offset
           to == end + Len(bytes)
<1>1. /\ wr.buf \in Seq(Nat) /\ wr.depth \in Seq(Nat) /\ end \in Nat /\ end <= Len(wr.buf)
      /\ Len(bytes) \in Nat /\ to \in Nat /\ end <= to
  BY DEF Sound, WriterType
<1>2. /\ new.buf = Overlay(wr.buf, end, bytes) /\ new.offset = to /\ new.depth = wr.depth
      /\ new.ok = TRUE
  <2> DEFINE b == Overlay(wr.buf, end, bytes)
  <2>1. wr \in [buf : Seq(Nat), offset : Nat, depth : Seq(Nat), ok : BOOLEAN] /\ wr.ok
    BY DEF Sound, WriterType
  <2>2. new = [wr EXCEPT !.buf = b, !.offset = to] OBVIOUS
  <2> HIDE DEF b, to
  <2>3. new.buf = b /\ new.offset = to /\ new.depth = wr.depth /\ new.ok = TRUE BY <2>1, <2>2
  <2> QED BY <2>3 DEF b
<1>3. new.buf \in Seq(Nat) /\ Len(new.buf) = Len(wr.buf) /\ Agree(wr.buf, new.buf, end)
  BY <1>1, <1>2, OverlayBytes, OverlayAgrees
<1>4. WriterType(new)
  <2> DEFINE b == Overlay(wr.buf, end, bytes)
  <2>1. wr \in [buf : Seq(Nat), offset : Nat, depth : Seq(Nat), ok : BOOLEAN]
    BY DEF Sound, WriterType
  <2>2. new = [wr EXCEPT !.buf = b, !.offset = to] OBVIOUS
  <2>3. to <= Len(new.buf) BY <1>3
  <2>4. b \in Seq(Nat) BY <1>2, <1>3
  <2> HIDE DEF b, to
  <2>5. new \in [buf : Seq(Nat), offset : Nat, depth : Seq(Nat), ok : BOOLEAN]
    BY <1>1, <2>1, <2>2, <2>4
  <2> QED BY <1>2, <2>3, <2>5 DEF WriterType
<1>5. n \in Levels(wr) /\ n \in Nat /\ Levels(wr) = 1 .. n /\ BodyTo(wr, n) = end
  BY LastEnds
<1>6. Levels(new) = 1 .. n BY <1>2, <1>5 DEF Levels
<1>7. \A k \in 1 .. n : /\ BodyFrom(new, k) = BodyFrom(wr, k)
                        /\ BodyTo(new, k) = IF k = n THEN to ELSE BodyTo(wr, k)
  BY <1>2 DEF BodyFrom, BodyTo
<1>8. Nested(new)
  <2>1. ASSUME NEW k \in 1 .. n
        PROVE  /\ BodyFrom(new, k) \in Nat /\ BodyTo(new, k) \in Nat
               /\ BodyFrom(new, k) <= BodyTo(new, k) /\ BodyTo(new, k) <= new.offset
    <3> DEFINE f == BodyFrom(wr, k)
               t == BodyTo(wr, k)
    <3>1. f \in Nat /\ t \in Nat /\ f <= t /\ t <= end BY <1>5, LevelIs
    <3>2. BodyFrom(new, k) = f /\ BodyTo(new, k) = IF k = n THEN to ELSE t BY <1>7
    <3> HIDE DEF f, t, to, end, n
    <3> QED BY <1>1, <1>2, <3>1, <3>2
  <2>2. ASSUME NEW j \in 1 .. n, NEW k \in 1 .. n, j < k
        PROVE  BodyTo(new, j) + 4 <= BodyFrom(new, k)
    <3>1. BodyTo(wr, j) + 4 <= BodyFrom(wr, k) BY <1>5, <2>2 DEF Sound, Nested
    <3>2. j # n BY <1>5, <2>2
    <3> QED BY <1>7, <3>1, <3>2
  <2> QED BY <1>6, <2>1, <2>2 DEF Nested
<1>9. Sound(new) BY <1>2, <1>4, <1>8 DEF Sound
<1>10. ASSUME NEW k \in 1 .. n, k # n
       PROVE  TagOf(new, k) = TagOf(wr, k) /\ Body(new, k) = Body(wr, k)
  <2>1. BodyTo(wr, k) <= end BY <1>5, LevelIs
  <2>2. BodyFrom(new, k) = BodyFrom(wr, k) /\ BodyTo(new, k) = BodyTo(wr, k) BY <1>7, <1>10
  <2> QED BY <1>1, <1>3, <1>5, <2>1, <2>2, LevelKept
<1>11. TagOf(new, n) = TagOf(wr, n) /\ Body(new, n) = Body(wr, n) \o bytes
  <2> DEFINE from == BodyFrom(wr, n)
  <2>1. from \in Nat /\ from <= end BY <1>5, LevelIs
  <2>2. n \in 1 .. n BY <1>5
  <2>3. BodyFrom(new, n) = from /\ BodyTo(new, n) = to BY <1>7, <2>2
  <2> HIDE DEF n
  <2>4. Agree(wr.buf, new.buf, from)
    <3> HIDE DEF from
    <3> QED BY <1>1, <1>3, <2>1, AgreeBefore
  <2>5. TagOf(new, n) = TagOf(wr, n) BY <1>5, <2>3, <2>4, TagKept
  <2>6. Slice(new.buf, from, to) = Slice(wr.buf, from, end) \o bytes
    <3> DEFINE buf == wr.buf
    <3>1. buf \in Seq(Nat) /\ end \in Nat /\ end + Len(bytes) <= Len(buf) BY <1>1
    <3> HIDE DEF from, end, buf
    <3>2. Slice(Overlay(buf, end, bytes), from, end + Len(bytes)) = Slice(buf, from, end) \o bytes
      BY <2>1, <3>1, SliceGrows
    <3> QED BY <1>2, <3>2 DEF buf
  <2>7. Body(new, n) = Body(wr, n) \o bytes BY <1>5, <2>3, <2>6 DEF Body
  <2> QED BY <2>5, <2>7
<1>12. BegunBy(new) = [k \in 1 .. n |-> [tag |-> TagOf(new, k), body |-> Body(new, k)]]
  BY <1>2 DEF BegunBy
<1>13. /\ BegunBy(wr) \in Seq(Started) /\ BegunBy(wr) # << >> /\ Len(BegunBy(wr)) = n
       /\ \A k \in 1 .. n : BegunBy(wr)[k] = [tag |-> TagOf(wr, k), body |-> Body(wr, k)]
  BY <1>5, BegunType
<1> DEFINE was == BegunBy(wr)
<1> USE DEF was
<1> HIDE DEF n
<1>14. /\ was \in Seq(Started) /\ was # << >> /\ n = Len(was)
       /\ \A k \in 1 .. n : was[k] = [tag |-> TagOf(wr, k), body |-> Body(wr, k)]
  BY <1>13
<1> HIDE DEF was
<1>15. Der!PutInto(was, bytes) = PutAt(was, n, bytes)
  BY <1>14, PutIs
<1>16. n \in 1 .. n BY <1>5
<1>17. ASSUME NEW k \in 1 .. n
       PROVE  [tag |-> TagOf(new, k), body |-> Body(new, k)] =
                IF k = n THEN [tag |-> was[n].tag, body |-> was[n].body \o bytes] ELSE was[k]
  <2>1. CASE k = n
    <3>1. was[n] = [tag |-> TagOf(wr, n), body |-> Body(wr, n)] BY <1>16, <1>14
    <3>2. was[n].tag = TagOf(wr, n) /\ was[n].body = Body(wr, n) BY <3>1
    <3> QED BY <1>11, <2>1, <3>2
  <2>2. CASE k # n BY <1>10, <1>14, <2>2
  <2> QED BY <2>1, <2>2
<1>18. BegunBy(new) = Der!PutInto(was, bytes) BY <1>12, <1>15, <1>17 DEF PutAt
<1> QED BY <1>9, <1>18 DEF was

(***************************************************************************)
(* The calls.                                                              *)
(***************************************************************************)

\* A call that fails leaves no writer in use.
LEMMA NoSpaceFails ==
  ASSUME NEW wr, Sound(wr)
  PROVE  ~ NoSpace(wr).ok
<1>1. wr \in [buf : Seq(Nat), offset : Nat, depth : Seq(Nat), ok : BOOLEAN]
  BY DEF Sound, WriterType
<1> QED BY <1>1 DEF NoSpace

\* A tag, a length and a content are a value of DER.
LEMMA TagLengthValueIs ==
  ASSUME NEW tag \in Nat, NEW content \in Seq(Nat), LenFits(Len(content))
  PROVE  /\ << tag >> \o EncodedLen(Len(content)) \o content = Der!TagLengthValue(tag, content)
         /\ Der!TagLengthValue(tag, content) \in Seq(Nat)
<1> DEFINE len == Len(content)
           bytes == EncodedLen(len)
<1>1. len \in Nat OBVIOUS
<1>2. bytes = Der!DerLength(len) /\ bytes \in Seq(Nat)
  <2> HIDE DEF len
  <2> QED BY <1>1, LengthIsDer DEF len
<1>3. << tag >> \o bytes \o content = Der!TagLengthValue(tag, content)
  BY <1>2 DEF Der!TagLengthValue
<1> HIDE DEF bytes
<1>4. << tag >> \in Seq(Nat) OBVIOUS
<1>5. << tag >> \o bytes \in Seq(Nat) BY <1>2, <1>4, ConcatProperties
<1>6. << tag >> \o bytes \o content \in Seq(Nat) BY <1>5, ConcatProperties
<1> QED BY <1>3, <1>6 DEF bytes

\* A value is put in the last value begun.
LEMMA ValueRefines ==
  ASSUME NEW wr, Sound(wr), NEW tag \in Nat, NEW content \in Seq(Nat),
         AppendTagLengthValue(wr, tag, content).ok
  PROVE  /\ Sound(AppendTagLengthValue(wr, tag, content))
         /\ BegunBy(AppendTagLengthValue(wr, tag, content)) =
              Der!PutInto(BegunBy(wr), Der!TagLengthValue(tag, content))
<1> DEFINE new == AppendTagLengthValue(wr, tag, content)
           all == << tag >> \o EncodedLen(Len(content)) \o content
           fits == LenFits(Len(content)) /\ wr.offset + Len(all) =< Len(wr.buf)
<1>1. new = IF wr.ok /\ fits
            THEN [wr EXCEPT !.buf = Overlay(wr.buf, wr.offset, all),
                            !.offset = wr.offset + Len(all)]
            ELSE NoSpace(wr)
  BY DEF AppendTagLengthValue
<1>2. fits
  <2>1. new.ok OBVIOUS
  <2> HIDE DEF new, fits
  <2> QED BY <1>1, <2>1, NoSpaceFails
<1>3. all = Der!TagLengthValue(tag, content) /\ all \in Seq(Nat) BY <1>2, TagLengthValueIs
<1>4. wr.ok BY DEF Sound
<1> HIDE DEF all
<1>5. new = [wr EXCEPT !.buf = Overlay(wr.buf, wr.offset, all), !.offset = wr.offset + Len(all)]
  BY <1>1, <1>2, <1>4
<1>6. wr.offset + Len(all) <= Len(wr.buf) BY <1>2
<1> HIDE DEF new, fits
<1>7. Sound(new) /\ BegunBy(new) = Der!PutInto(BegunBy(wr), all) BY <1>3, <1>5, <1>6, PutWrites
<1> QED BY <1>3, <1>7 DEF new

\* A compound is begun with its tag, behind which three bytes are left.
LEMMA StartIs ==
  ASSUME NEW wr, Sound(wr), NEW tag \in Nat, NEW new, new = AddCompound(wr, tag), new.ok
  PROVE  /\ wr.offset + 4 <= Len(wr.buf)
         /\ new \in [buf : Seq(Nat), offset : Nat, depth : Seq(Nat), ok : BOOLEAN]
         /\ new.buf = Overlay(wr.buf, wr.offset, << tag >>)
         /\ new.offset = wr.offset + 4
         /\ new.depth = Append(wr.depth, wr.offset + 4)
<1> DEFINE at == wr.offset + 1 + RESERVE_LEN_BYTES
           b == Overlay(wr.buf, wr.offset, << tag >>)
           d == Append(wr.depth, at)
           ok == Len(wr.depth) + 1 < MAX_DEPTH
<1>1. new = IF wr.ok /\ at =< Len(wr.buf)
            THEN [wr EXCEPT !.buf = b, !.offset = at, !.depth = d, !.ok = ok]
            ELSE NoSpace(wr)
  BY DEF AddCompound
<1>2. /\ wr \in [buf : Seq(Nat), offset : Nat, depth : Seq(Nat), ok : BOOLEAN]
      /\ wr.buf \in Seq(Nat) /\ wr.depth \in Seq(Nat) /\ wr.offset \in Nat
  BY DEF Sound, WriterType
<1>3. at = wr.offset + 4 /\ at \in Nat BY <1>2 DEF RESERVE_LEN_BYTES
<1>4. ok \in BOOLEAN BY DEF ok
<1>5. d \in Seq(Nat) BY <1>2, <1>3
<1>6. /\ at =< Len(wr.buf)
      /\ new = [wr EXCEPT !.buf = b, !.offset = at, !.depth = d, !.ok = ok]
  <2> HIDE DEF at, b, d, ok
  <2> QED BY <1>1, NoSpaceFails
<1>7. b \in Seq(Nat)
  <2>1. << tag >> \in Seq(Nat) /\ Len(<< tag >>) = 1 OBVIOUS
  <2>2. wr.offset + Len(<< tag >>) <= Len(wr.buf) BY <1>2, <1>3, <1>6, <2>1
  <2> QED BY <1>2, <2>1, <2>2, OverlayBytes
<1> HIDE DEF b, d, ok
<1>8. new \in [buf : Seq(Nat), offset : Nat, depth : Seq(Nat), ok : BOOLEAN]
  BY <1>2, <1>3, <1>4, <1>5, <1>6, <1>7
<1>9. new.buf = b /\ new.offset = at /\ new.depth = d BY <1>2, <1>6
<1> QED BY <1>3, <1>6, <1>8, <1>9 DEF b, d

\* A compound is a value that is begun inside the last one.
LEMMA StartRefines ==
  ASSUME NEW wr, Sound(wr), NEW tag \in Nat, AddCompound(wr, tag).ok
  PROVE  /\ Sound(AddCompound(wr, tag))
         /\ BegunBy(AddCompound(wr, tag)) = Append(BegunBy(wr), Der!Began(tag))
<1> DEFINE new == AddCompound(wr, tag)
           n == Len(wr.depth) + 1
           end == wr.offset
           at == end + 4
           size == Len(wr.buf)
<1>1. /\ at <= size
      /\ new \in [buf : Seq(Nat), offset : Nat, depth : Seq(Nat), ok : BOOLEAN] /\ new.ok
      /\ new.buf = Overlay(wr.buf, end, << tag >>)
      /\ new.offset = at /\ new.depth = Append(wr.depth, at)
  BY StartIs
<1>2. wr.buf \in Seq(Nat) /\ wr.depth \in Seq(Nat) /\ end \in Nat /\ size \in Nat /\ at \in Nat
  BY DEF Sound, WriterType
<1>3. n \in Levels(wr) /\ n \in Nat /\ n >= 1 /\ Levels(wr) = 1 .. n /\ BodyTo(wr, n) = end
  BY LastEnds
<1> HIDE DEF new
<1>4. /\ Len(new.buf) = size /\ Agree(wr.buf, new.buf, end) /\ new.buf[end + 1] = tag
  <2>1. << tag >> \in Seq(Nat) /\ Len(<< tag >>) = 1 /\ << tag >>[1] = tag OBVIOUS
  <2>2. end + Len(<< tag >>) <= Len(wr.buf) BY <1>1, <1>2, <2>1
  <2>3. 1 \in 1 .. Len(<< tag >>) BY <2>1
  <2> DEFINE one == << tag >>
             buf == wr.buf
             over == Overlay(buf, end, one)
  <2>4. /\ one \in Seq(Nat) /\ 1 \in 1 .. Len(one) /\ one[1] = tag
        /\ buf \in Seq(Nat) /\ end \in Nat /\ end + Len(one) <= Len(buf)
    BY <1>2, <2>1, <2>2, <2>3
  <2> HIDE DEF one, end, buf
  <2>5. /\ Len(over) = Len(buf) /\ \A i \in 1 .. Len(one) : over[end + i] = one[i]
    BY <2>4, OverlayBytes
  <2>6. Agree(buf, over, end) BY <2>4, OverlayAgrees
  <2> HIDE DEF over
  <2>7. over[end + 1] = tag BY <2>4, <2>5
  <2> QED BY <1>1, <2>5, <2>6, <2>7 DEF one, buf, over
<1>5. /\ Len(new.depth) = n /\ Len(new.depth) + 1 = n + 1 /\ new.depth[n] = at
      /\ \A k \in 1 .. n : k # n => new.depth[k] = wr.depth[k]
  <2> DEFINE m == Len(wr.depth)
             d == wr.depth
  <2>1. m \in Nat /\ n = m + 1 /\ d \in Seq(Nat) BY <1>2
  <2> HIDE DEF at
  <2>2. /\ Len(Append(d, at)) = m + 1 /\ Append(d, at)[m + 1] = at
        /\ \A i \in 1 .. m : Append(d, at)[i] = d[i]
    BY <1>2, AppendProperties
  <2> HIDE DEF m, n, d
  <2>3. \A k \in 1 .. n : k # n => k \in 1 .. m BY <2>1
  <2> QED BY <1>1, <2>1, <2>2, <2>3 DEF d
<1> HIDE DEF n
<1>6. Levels(new) = 1 .. n + 1 BY <1>5 DEF Levels
<1>7. \A k \in 1 .. n : BodyFrom(new, k) = BodyFrom(wr, k) /\ BodyTo(new, k) = BodyTo(wr, k)
  <2> SUFFICES ASSUME NEW k \in 1 .. n
               PROVE  BodyFrom(new, k) = BodyFrom(wr, k) /\ BodyTo(new, k) = BodyTo(wr, k)
    OBVIOUS
  <2>1. BodyFrom(new, k) = BodyFrom(wr, k)
    <3>1. k # 1 => k - 1 \in 1 .. n /\ k - 1 # n BY <1>3
    <3> QED BY <1>5, <3>1 DEF BodyFrom
  <2>2. BodyTo(new, k) = new.depth[k] - 4
    <3>1. k # Len(new.depth) + 1 BY <1>3, <1>5
    <3>2. BodyTo(new, k) = new.depth[k] - 1 - 3 BY <3>1 DEF BodyTo, RESERVE_LEN_BYTES
    <3>3. new.depth[k] \in Nat
      <4>1. new.depth \in Seq(Nat) /\ k \in 1 .. Len(new.depth) BY <1>1, <1>3, <1>5
      <4> QED BY <4>1
    <3> QED BY <3>2, <3>3
  <2>3. CASE k = n
    <3>1. new.depth[k] - 4 = end BY <1>2, <1>5, <2>3
    <3> QED BY <1>3, <2>1, <2>2, <2>3, <3>1
  <2>4. CASE k # n
    <3>1. new.depth[k] = wr.depth[k] BY <1>5, <2>4
    <3>2. wr.depth[k] \in Nat
      <4>1. k \in 1 .. Len(wr.depth) BY <1>2, <2>4 DEF n
      <4> QED BY <1>2, <4>1
    <3>3. k # Len(wr.depth) + 1 BY <2>4 DEF n
    <3>4. BodyTo(wr, k) = wr.depth[k] - 1 - 3 BY <3>3 DEF BodyTo, RESERVE_LEN_BYTES
    <3>5. BodyTo(wr, k) = wr.depth[k] - 4 BY <3>2, <3>4
    <3> QED BY <2>1, <2>2, <3>1, <3>5
  <2> QED BY <2>3, <2>4
<1>8. BodyFrom(new, n + 1) = at /\ BodyTo(new, n + 1) = at
  <2>1. n + 1 # 1 /\ (n + 1) - 1 = n BY <1>3
  <2>2. BodyFrom(new, n + 1) = at BY <1>5, <2>1 DEF BodyFrom
  <2>3. BodyTo(new, n + 1) = at BY <1>1, <1>5 DEF BodyTo
  <2> QED BY <2>2, <2>3
<1>9. \A k \in 1 .. n + 1 : k \in 1 .. n \/ k = n + 1 BY <1>3
<1>10. \A k \in 1 .. n : /\ BodyFrom(wr, k) \in Nat /\ BodyTo(wr, k) \in Nat
                         /\ BodyFrom(wr, k) <= BodyTo(wr, k) /\ BodyTo(wr, k) <= end
  BY <1>3, LevelIs
<1>11. Nested(new)
  <2>1. ASSUME NEW k \in 1 .. n + 1
        PROVE  /\ BodyFrom(new, k) \in Nat /\ BodyTo(new, k) \in Nat
               /\ BodyFrom(new, k) <= BodyTo(new, k) /\ BodyTo(new, k) <= new.offset
    <3>1. CASE k = n + 1
      <4> HIDE DEF at
      <4>1. at <= at BY <1>2
      <4> QED BY <1>1, <1>2, <1>8, <3>1, <4>1
    <3>2. CASE k \in 1 .. n
      <4> DEFINE t == BodyTo(wr, k)
      <4>1. t \in Nat /\ t <= end BY <1>10, <3>2
      <4> HIDE DEF t
      <4>2. t <= at BY <1>2, <4>1
      <4> QED BY <1>1, <1>7, <1>10, <3>2, <4>2 DEF t
    <3> QED BY <1>9, <3>1, <3>2
  <2>2. ASSUME NEW j \in 1 .. n + 1, NEW k \in 1 .. n + 1, j < k
        PROVE  BodyTo(new, j) + 4 <= BodyFrom(new, k)
    <3>1. j \in 1 .. n BY <1>3, <2>2
    <3>2. CASE k = n + 1
      <4> DEFINE t == BodyTo(wr, j)
      <4>1. t \in Nat /\ t <= end BY <1>10, <3>1
      <4> HIDE DEF t
      <4>2. t + 4 <= at BY <1>2, <4>1
      <4> QED BY <1>7, <1>8, <3>1, <3>2, <4>2 DEF t
    <3>3. CASE k \in 1 .. n
      <4>1. BodyTo(wr, j) + 4 <= BodyFrom(wr, k) BY <1>3, <2>2, <3>1, <3>3 DEF Sound, Nested
      <4> QED BY <1>7, <3>1, <3>3, <4>1
    <3> QED BY <1>9, <3>2, <3>3
  <2> QED BY <1>6, <2>1, <2>2 DEF Nested
<1>12. Sound(new) BY <1>1, <1>4, <1>11 DEF Sound, WriterType
<1>13. \A k \in 1 .. n : TagOf(new, k) = TagOf(wr, k) /\ Body(new, k) = Body(wr, k)
  BY <1>2, <1>3, <1>4, <1>7, <1>10, LevelKept
<1>14. TagOf(new, n + 1) = tag /\ Body(new, n + 1) = << >>
  <2>1. n + 1 # 1 /\ at - 3 = end + 1 BY <1>2, <1>3
  <2>2. TagOf(new, n + 1) = tag BY <1>4, <1>8, <2>1 DEF TagOf, RESERVE_LEN_BYTES
  <2>3. Slice(new.buf, at, at) = << >>
    <3>1. at + 1 \in Int /\ at \in Int /\ at < at + 1 BY <1>2
    <3> QED BY <3>1, SubSeqEmpty DEF Slice
  <2> QED BY <1>8, <2>2, <2>3 DEF Body
<1> DEFINE was == BegunBy(wr)
           is == BegunBy(new)
           one == Der!Began(tag)
<1>15. /\ was \in Seq(Started) /\ Len(was) = n
       /\ \A k \in 1 .. n : was[k] = [tag |-> TagOf(wr, k), body |-> Body(wr, k)]
  BY <1>3, BegunType DEF n
<1>16. /\ is \in Seq(Started) /\ Len(is) = n + 1
       /\ \A k \in 1 .. n + 1 : is[k] = [tag |-> TagOf(new, k), body |-> Body(new, k)]
  BY <1>5, <1>6, <1>12, BegunType
<1>17. one \in Started /\ one = [tag |-> tag, body |-> << >>] BY DEF Der!Began, Started
<1> HIDE DEF was, is, one
<1>18. /\ Append(was, one) \in Seq(Started) /\ Len(Append(was, one)) = n + 1
       /\ Append(was, one)[n + 1] = one
       /\ \A k \in 1 .. n : Append(was, one)[k] = was[k]
  BY <1>15, <1>17, AppendProperties
<1>19. ASSUME NEW k \in 1 .. n + 1 PROVE is[k] = Append(was, one)[k]
  <2>1. CASE k = n + 1
    <3>1. is[n + 1] = [tag |-> TagOf(new, n + 1), body |-> Body(new, n + 1)] BY <1>16, <2>1
    <3> QED BY <1>14, <1>17, <1>18, <2>1, <3>1
  <2>2. CASE k \in 1 .. n
    <3>1. is[k] = [tag |-> TagOf(new, k), body |-> Body(new, k)] BY <1>16
    <3>2. is[k] = was[k] BY <1>13, <1>15, <2>2, <3>1
    <3> QED BY <1>18, <2>2, <3>2
  <2> QED BY <1>9, <2>1, <2>2
<1>20. is = Append(was, one) BY <1>16, <1>18, <1>19, SeqEqual
<1> QED BY <1>12, <1>20 DEF new, was, is, one

\* Ending a compound writes its length before its content, which moves up to it.
EndsAs(wr, new, n, begin, len, bytes, at) ==
  /\ n \in Nat /\ n >= 2 /\ n - 1 \in 1 .. n /\ Levels(wr) = 1 .. n
  /\ len \in Nat /\ LenFits(len)
  /\ new = [wr EXCEPT !.buf = Overlay(Overlay(wr.buf, begin - 3, bytes), at,
                                      Slice(wr.buf, begin, wr.offset)),
                      !.depth = Front(wr.depth),
                      !.offset = wr.offset - (begin - at)]

LEMMA EndIs ==
  ASSUME NEW wr, Sound(wr), NEW new, new = EndCompound(wr), new.ok,
         NEW n, n = Len(wr.depth) + 1, NEW begin, begin = BodyFrom(wr, n),
         NEW len, len = wr.offset - begin, NEW bytes, bytes = EncodedLen(len),
         NEW at, at = begin - 3 + Len(bytes)
  PROVE  EndsAs(wr, new, n, begin, len, bytes, at)
<1> DEFINE d == wr.depth
           off == wr.offset
           moved == [wr EXCEPT !.buf = Overlay(Overlay(wr.buf, begin - 3, bytes), at,
                                               Slice(wr.buf, begin, off)),
                               !.depth = Front(d), !.offset = off - (begin - at)]
<1>1. d \in Seq(Nat) /\ off \in Nat BY DEF Sound, WriterType
<1>2. wr.ok BY DEF Sound
<1>3. ~ NoSpace(wr).ok BY NoSpaceFails
<1>4. d # << >>
  <2>1. SUFFICES ASSUME d = << >> PROVE FALSE OBVIOUS
  <2>2. new = NoSpace(wr) BY <2>1 DEF EndCompound
  <2> QED BY <1>3, <2>2
<1>5. n \in Nat /\ n >= 2 /\ n - 1 \in 1 .. n /\ n \in Levels(wr) /\ Levels(wr) = 1 .. n
  <2>1. Len(d) \in Nat /\ Len(d) # 0 BY <1>1, <1>4
  <2> DEFINE m == Len(d)
  <2>2. n = m + 1 /\ Levels(wr) = 1 .. m + 1 BY DEF Levels
  <2> HIDE DEF m
  <2>3. m \in Nat /\ m # 0 BY <2>1 DEF m
  <2>4. n \in Nat /\ n >= 2 /\ n - 1 \in 1 .. n /\ n \in 1 .. n BY <2>2, <2>3
  <2> QED BY <2>2, <2>4
<1>6. begin = Last(d)
  <2>1. n # 1 BY <1>5
  <2>2. n - 1 = Len(d) BY <1>1
  <2>3. BodyFrom(wr, n) = d[n - 1] BY <2>1 DEF BodyFrom
  <2> QED BY <2>2, <2>3 DEF Last
<1>7. begin \in Nat /\ begin <= BodyTo(wr, n) /\ BodyTo(wr, n) = off BY <1>5, LevelIs, LastEnds
<1>8. len \in Nat
  <2>1. begin <= off BY <1>7
  <2> HIDE DEF off
  <2> QED BY <1>1, <1>7, <2>1 DEF off
<1>9. new = IF ~ LenFits(len) THEN NoSpace(wr) ELSE moved
  BY <1>2, <1>4, <1>6 DEF EndCompound, RESERVE_LEN_BYTES
<1> HIDE DEF moved
<1>10. LenFits(len) /\ new = moved BY <1>3, <1>9
<1> QED BY <1>5, <1>8, <1>10 DEF EndsAs, moved

\* Where the bytes of a value that ends are: the tag is at tag, the length, of more bytes,
\* goes behind it, and the content, of len bytes, moves to at.
Places(from, tag, more, at, len, to, size) ==
  /\ from \in Nat /\ tag \in Nat \ {0} /\ more \in Nat /\ at \in Nat /\ len \in Nat
  /\ to \in Nat /\ size \in Nat
  /\ from + 1 <= tag /\ at = tag + more /\ to = at + len /\ to <= size

LEMMA PlacesAre ==
  ASSUME NEW from, NEW tag, NEW more, NEW at, NEW len, NEW to, NEW size,
         Places(from, tag, more, at, len, to, size)
  PROVE  /\ from <= tag /\ from <= at /\ tag <= size /\ tag <= at
         /\ tag - 1 \in Nat /\ from <= tag - 1 /\ tag - 1 <= size /\ tag - 1 <= tag
         /\ tag - 1 <= at /\ (tag - 1) + 1 = tag /\ tag \in 1 .. size
         /\ tag + more <= size /\ at + len <= size
BY DEF Places

HasMoved(s, new, from, tag, bytes, body, to) ==
  /\ new \in Seq(Nat) /\ Len(new) = Len(s) /\ Agree(s, new, tag - 1)
  /\ Slice(new, from, to) = Slice(s, from, tag - 1) \o (<< s[tag] >> \o bytes \o body)

\* The bytes of a value that ends stand behind those of the one around it: its tag, which
\* was there, its length, which is written, and its content, which moves.
LEMMA EndBytes ==
  ASSUME NEW s \in Seq(Nat), NEW bytes \in Seq(Nat), NEW body \in Seq(Nat),
         NEW from, NEW tag, NEW at, NEW to,
         Places(from, tag, Len(bytes), at, Len(body), to, Len(s))
  PROVE  HasMoved(s, Overlay(Overlay(s, tag, bytes), at, body), from, tag, bytes, body, to)
<1> DEFINE before == tag - 1
           head == Slice(s, from, before)
           t == << s[tag] >>
           mid == Overlay(s, tag, bytes)
           new == Overlay(mid, at, body)
<1>1. /\ from <= tag /\ from <= at /\ tag <= Len(s) /\ tag <= at
      /\ before \in Nat /\ from <= before /\ before <= Len(s) /\ before <= tag
      /\ before <= at /\ before + 1 = tag /\ tag \in 1 .. Len(s)
      /\ tag + Len(bytes) <= Len(s) /\ at + Len(body) <= Len(s)
  BY PlacesAre
<1>2. /\ from \in Nat /\ tag \in Nat /\ at \in Nat
      /\ to = at + Len(body) /\ at = tag + Len(bytes)
  BY DEF Places
<1> HIDE DEF before
<1>3. mid \in Seq(Nat) /\ Len(mid) = Len(s) /\ Agree(s, mid, tag)
  BY <1>1, <1>2, OverlayBytes, OverlayAgrees
<1> HIDE DEF mid
<1>4. at + Len(body) <= Len(mid) BY <1>1, <1>3
<1>5. new \in Seq(Nat) /\ Len(new) = Len(mid) /\ Agree(mid, new, at)
  BY <1>2, <1>3, <1>4, OverlayBytes, OverlayAgrees
<1>6. Slice(new, from, to) = Slice(mid, from, at) \o body
  <2>1. Behind(mid, at, body, to) BY <1>2, <1>4 DEF Behind
  <2>2. mid \in Seq(Nat) /\ from \in Nat /\ at \in Nat /\ from <= at BY <1>1, <1>2, <1>3
  <2>3. Grew(mid, at, body, to, from) BY <2>1, <2>2, SliceGrowsTo
  <2> QED BY <2>3 DEF Grew
<1>7. Slice(mid, from, at) = Slice(s, from, tag) \o bytes
  <2>1. Behind(s, tag, bytes, at) BY <1>1, <1>2 DEF Behind
  <2>2. from \in Nat /\ tag \in Nat /\ from <= tag BY <1>1, <1>2
  <2>3. Grew(s, tag, bytes, at, from) BY <2>1, <2>2, SliceGrowsTo
  <2> QED BY <2>3 DEF Grew, mid
<1> HIDE DEF new
<1>8. Agree(s, new, before)
  <2>1. Agree(s, mid, before) BY <1>1, <1>2, <1>3, AgreeBefore
  <2>2. Agree(mid, new, before) BY <1>1, <1>2, <1>3, <1>5, AgreeBefore
  <2> QED BY <1>3, <2>1, <2>2 DEF Agree
<1>9. Slice(s, from, tag) = head \o t
  <2>1. before + 1 <= Len(s) BY <1>1
  <2>2. Slice(s, from, before + 1) = Slice(s, from, before) \o << s[before + 1] >>
    BY <1>1, <1>2, <2>1, SliceNext
  <2> QED BY <1>1, <2>2
<1>10. head \in Seq(Nat) BY <1>1, <1>2, SliceBytes
<1>11. t \in Seq(Nat)
  <2>1. s[tag] \in Nat BY <1>1
  <2> QED BY <2>1
<1> HIDE DEF head, t
<1>12. ((head \o t) \o bytes) \o body = head \o ((t \o bytes) \o body)
  <2>1. (head \o t) \o bytes = head \o (t \o bytes) BY <1>10, <1>11, ConcatThree
  <2>2. t \o bytes \in Seq(Nat) BY <1>11, ConcatProperties
  <2> DEFINE tb == t \o bytes
  <2> HIDE DEF tb
  <2>3. (head \o tb) \o body = head \o (tb \o body)
    BY <1>10, <2>2, ConcatThree DEF tb
  <2> QED BY <2>1, <2>3 DEF tb
<1>13. Slice(new, from, to) = head \o ((t \o bytes) \o body)
  BY <1>2, <1>6, <1>7, <1>9, <1>12
<1>14. Len(new) = Len(s) BY <1>3, <1>5
<1> QED BY <1>5, <1>8, <1>13, <1>14 DEF HasMoved, before, head, t, mid, new

\* All values begun but the last.
LEMMA FrontIs ==
  ASSUME NEW S, NEW s \in Seq(S), s # << >>, NEW m, m = Len(s) - 1
  PROVE  /\ m \in Nat /\ Front(s) \in Seq(S) /\ Len(Front(s)) = m
         /\ \A i \in 1 .. m : Front(s)[i] = s[i]
<1>1. Len(s) \in Nat /\ Len(s) # 0 OBVIOUS
<1>2. m \in Nat /\ m <= Len(s) /\ m \in Int BY <1>1
<1>3. \A i \in 1 .. m : s[i] \in S BY <1>2
<1>4. Front(s) = SubSeq(s, 1, m) BY DEF Front
<1>5. /\ SubSeq(s, 1, m) \in Seq(S)
      /\ Len(SubSeq(s, 1, m)) = IF 1 <= m THEN m - 1 + 1 ELSE 0
      /\ \A i \in 1 .. m - 1 + 1 : SubSeq(s, 1, m)[i] = s[1 + i - 1]
  BY <1>2, <1>3, SubSeqProperties
<1>6. /\ m - 1 + 1 = m /\ (~ (1 <= m) => m = 0)
      /\ \A i \in 1 .. m : 1 + i - 1 = i
  BY <1>2
<1>7. Len(SubSeq(s, 1, m)) = m BY <1>5, <1>6
<1>8. \A i \in 1 .. m : SubSeq(s, 1, m)[i] = s[i] BY <1>5, <1>6
<1> QED BY <1>2, <1>4, <1>5, <1>7, <1>8

\* Where the bytes of the last value begun are, and those of the one around it.
LEMMA LastIs ==
  ASSUME NEW wr, Sound(wr), NEW n, n = Len(wr.depth) + 1, n >= 2, NEW m, m = n - 1
  PROVE  /\ m \in Levels(wr) /\ n \in Levels(wr) /\ m \in Nat /\ m < n /\ Len(wr.depth) = m
         /\ Levels(wr) = 1 .. n /\ m + 1 = n /\ m \in 1 .. m
         /\ BodyFrom(wr, n) \in Nat /\ BodyFrom(wr, n) <= wr.offset
         /\ BodyTo(wr, m) = BodyFrom(wr, n) - 4 /\ BodyTo(wr, n) = wr.offset
         /\ BodyFrom(wr, m) \in Nat /\ BodyFrom(wr, m) + 4 <= BodyFrom(wr, n)
         /\ BodyTo(wr, m) \in Nat
         /\ TagOf(wr, n) = wr.buf[BodyFrom(wr, n) - 3]
<1> DEFINE d == wr.depth
           begin == BodyFrom(wr, n)
<1>1. d \in Seq(Nat) /\ Len(d) \in Nat /\ n = Len(d) + 1 BY DEF Sound, WriterType
<1> HIDE DEF d
<1>2. m \in Nat /\ n \in Nat /\ m < n /\ Len(d) = m /\ m + 1 = n /\ m \in 1 .. n /\ m \in 1 .. m
      /\ n # 1 /\ m # n /\ n \in 1 .. n
  BY <1>1
<1>3. Levels(wr) = 1 .. n BY <1>1 DEF Levels, d
<1>4. /\ begin \in Nat /\ begin <= BodyTo(wr, n) /\ BodyTo(wr, n) = wr.offset
      /\ BodyFrom(wr, m) \in Nat /\ BodyTo(wr, m) \in Nat /\ BodyFrom(wr, m) <= BodyTo(wr, m)
  BY <1>2, <1>3, LevelIs, LastEnds DEF d
<1>5. begin = d[m] BY <1>2 DEF BodyFrom, d
<1>6. BodyTo(wr, m) = d[m] - 1 - 3
  <2>1. m # Len(wr.depth) + 1 BY <1>2 DEF d
  <2> QED BY <2>1 DEF BodyTo, RESERVE_LEN_BYTES, d
<1> HIDE DEF begin
<1>7. BodyTo(wr, m) = begin - 4 BY <1>4, <1>5, <1>6
<1>8. BodyFrom(wr, m) + 4 <= begin BY <1>4, <1>7
<1>9. TagOf(wr, n) = wr.buf[begin - 3] BY <1>2 DEF TagOf, RESERVE_LEN_BYTES, begin
<1> QED BY <1>2, <1>3, <1>4, <1>7, <1>8, <1>9 DEF begin, d

\* What is put in the value around the one that ends, whose level is n.
EndedBytes(wr, n) == << TagOf(wr, n) >> \o EncodedLen(Len(Body(wr, n))) \o Body(wr, n)

\* The writer new, of m levels, has those of wr below the last one, which ends: the bytes
\* of its value are behind those of the value around it.
Ends(wr, new, m) ==
  LET n == m + 1
      before == BodyFrom(wr, n) - 4
  IN /\ Levels(wr) = 1 .. n /\ LenFits(Len(Body(wr, n)))
     /\ new \in [buf : Seq(Nat), offset : Nat, depth : Seq(Nat), ok : BOOLEAN]
     /\ Len(new.buf) = Len(wr.buf) /\ new.offset <= Len(wr.buf)
     /\ Len(new.depth) = m - 1 /\ \A k \in 1 .. m - 1 : new.depth[k] = wr.depth[k]
     /\ before \in Nat /\ before <= new.offset /\ Agree(wr.buf, new.buf, before)
     /\ Slice(new.buf, BodyFrom(wr, m), new.offset) =
          Slice(wr.buf, BodyFrom(wr, m), before) \o EndedBytes(wr, n)

LEMMA EndDoes ==
  ASSUME NEW wr, Sound(wr), EndCompound(wr).ok
  PROVE  /\ Len(wr.depth) \in Nat \ {0}
         /\ Ends(wr, EndCompound(wr), Len(wr.depth))
<1> DEFINE new == EndCompound(wr)
           buf == wr.buf
           off == wr.offset
           m == Len(wr.depth)
           n == m + 1
           begin == BodyFrom(wr, n)
           tag == begin - 3
           from == BodyFrom(wr, m)
           len == off - begin
           bytes == EncodedLen(len)
           at == tag + Len(bytes)
           body == Slice(buf, begin, off)
           moved == Overlay(Overlay(buf, tag, bytes), at, body)
           to == off - (begin - at)
<1>1. /\ n \in Nat /\ n >= 2 /\ n - 1 \in 1 .. n /\ Levels(wr) = 1 .. n
      /\ len \in Nat /\ LenFits(len)
      /\ new = [wr EXCEPT !.buf = moved, !.depth = Front(wr.depth), !.offset = to]
  <2>1. /\ new = EndCompound(wr) /\ new.ok /\ n = Len(wr.depth) + 1 /\ begin = BodyFrom(wr, n)
        /\ len = wr.offset - begin /\ bytes = EncodedLen(len) /\ at = begin - 3 + Len(bytes)
    OBVIOUS
  <2> HIDE DEF new, n, begin, len, bytes, at
  <2>2. EndsAs(wr, new, n, begin, len, bytes, at) BY <2>1, EndIs
  <2> QED BY <2>2 DEF EndsAs
<1>2. /\ wr \in [buf : Seq(Nat), offset : Nat, depth : Seq(Nat), ok : BOOLEAN]
      /\ buf \in Seq(Nat) /\ off \in Nat /\ Len(buf) \in Nat /\ off <= Len(buf)
      /\ wr.depth \in Seq(Nat) /\ m \in Nat
  BY DEF Sound, WriterType
<1>3. m # 0 /\ m \in Nat \ {0} /\ m = n - 1 BY <1>1, <1>2
<1>4. /\ begin \in Nat /\ begin <= off /\ from \in Nat /\ from + 4 <= begin
      /\ TagOf(wr, n) = buf[tag] /\ BodyTo(wr, n) = off
  BY <1>1, <1>3, LastIs
<1>5. body \in Seq(Nat) /\ Len(body) = len BY <1>2, <1>4, SliceBytes
<1>6. Body(wr, n) = body BY <1>4 DEF Body
<1> HIDE DEF new, n, begin, body
<1>7. bytes \in Seq(Nat) /\ Len(bytes) \in 1 .. 3 /\ Len(bytes) \in Nat
  BY <1>1, LengthIsDer DEF RESERVE_LEN_BYTES
<1> HIDE DEF m
<1>8. /\ tag \in Nat \ {0} /\ from + 1 <= tag /\ at \in Nat /\ to = at + len
      /\ to \in Nat /\ to <= off /\ to <= Len(buf) /\ begin - 4 \in Nat /\ begin - 4 <= to
      /\ begin - 4 = tag - 1
  <2> DEFINE more == Len(bytes)
             size == Len(buf)
  <2>1. /\ off \in Nat /\ off <= size /\ size \in Nat /\ begin \in Nat /\ begin <= off
        /\ from \in Nat /\ from + 4 <= begin /\ more \in 1 .. 3
    BY <1>2, <1>4, <1>7
  <2> HIDE DEF bytes, off, from, more, size
  <2>2. at = tag + more BY DEF more
  <2> HIDE DEF at
  <2>3. tag \in Nat \ {0} /\ from + 1 <= tag /\ at \in Nat /\ at <= begin BY <2>1, <2>2
  <2>4. to = at + len /\ to \in Nat /\ to <= off /\ to <= size BY <2>1, <2>3
  <2>5. begin - 4 \in Nat /\ begin - 4 <= to /\ begin - 4 = tag - 1 BY <2>1, <2>2, <2>4
  <2> QED BY <2>3, <2>4, <2>5 DEF size
<1> HIDE DEF from, tag, len, bytes, to, moved
<1>9. Places(from, tag, Len(bytes), at, Len(body), to, Len(buf))
  <2>1. len \in Nat BY <1>1
  <2> QED BY <1>2, <1>4, <1>5, <1>7, <1>8, <2>1 DEF Places
<1> HIDE DEF at, buf
<1>10. /\ moved \in Seq(Nat) /\ Len(moved) = Len(buf) /\ Agree(buf, moved, tag - 1)
       /\ Slice(moved, from, to) = Slice(buf, from, tag - 1) \o (<< buf[tag] >> \o bytes \o body)
  <2>1. buf \in Seq(Nat) /\ bytes \in Seq(Nat) /\ body \in Seq(Nat) BY <1>2, <1>5, <1>7
  <2>2. HasMoved(buf, moved, from, tag, bytes, body, to) BY <1>9, <2>1, EndBytes DEF moved
  <2> QED BY <2>2 DEF HasMoved
<1>11. /\ m - 1 \in Nat /\ Front(wr.depth) \in Seq(Nat) /\ Len(Front(wr.depth)) = m - 1
       /\ \A i \in 1 .. m - 1 : Front(wr.depth)[i] = wr.depth[i]
  <2>1. wr.depth # << >>
    <3>1. Len(wr.depth) # 0 BY <1>3 DEF m
    <3>2. Len(<< >>) = 0 OBVIOUS
    <3> QED BY <3>1, <3>2
  <2> QED BY <1>2, <2>1, FrontIs DEF m
<1> DEFINE front == Front(wr.depth)
<1> HIDE DEF front, off
<1>12. /\ new \in [buf : Seq(Nat), offset : Nat, depth : Seq(Nat), ok : BOOLEAN]
       /\ new.buf = moved /\ new.depth = front /\ new.offset = to
  <2>1. new = [wr EXCEPT !.buf = moved, !.depth = front, !.offset = to] BY <1>1 DEF front
  <2>2. moved \in Seq(Nat) /\ front \in Seq(Nat) /\ to \in Nat BY <1>8, <1>10, <1>11 DEF front
  <2> QED BY <1>2, <2>1, <2>2
<1>13. EndedBytes(wr, n) = << buf[tag] >> \o bytes \o body
  BY <1>4, <1>5, <1>6 DEF EndedBytes, bytes
<1>14. LenFits(Len(Body(wr, n))) BY <1>1, <1>5, <1>6
<1>15. Slice(new.buf, from, new.offset) = Slice(buf, from, begin - 4) \o EndedBytes(wr, n)
  BY <1>8, <1>10, <1>12, <1>13
<1>16. Agree(buf, new.buf, begin - 4) BY <1>8, <1>10, <1>12
<1>17. Len(new.buf) = Len(buf) /\ new.offset <= Len(buf) /\ begin - 4 <= new.offset
  BY <1>8, <1>10, <1>12
<1>18. Len(new.depth) = m - 1 /\ \A i \in 1 .. m - 1 : new.depth[i] = wr.depth[i]
  BY <1>11, <1>12 DEF front
<1>19. Ends(wr, new, m)
  BY <1>1, <1>8, <1>12, <1>14, <1>15, <1>16, <1>17, <1>18 DEF Ends, n, begin, from, buf
<1> QED BY <1>3, <1>19 DEF m, new

\* The levels of a writer in which the last value has ended.
Ended(wr, new, m) ==
  /\ Sound(new) /\ Levels(new) = 1 .. m /\ m \in 1 .. m
  /\ \A k \in 1 .. m : k # m => TagOf(new, k) = TagOf(wr, k) /\ Body(new, k) = Body(wr, k)
  /\ TagOf(new, m) = TagOf(wr, m)
  /\ Body(new, m) = Body(wr, m) \o EndedBytes(wr, m + 1)

LEMMA EndedLevels ==
  ASSUME NEW wr, Sound(wr), NEW new, new.ok, NEW m \in Nat \ {0}, m = Len(wr.depth),
         Ends(wr, new, m)
  PROVE  Ended(wr, new, m)
<1> DEFINE n == m + 1
           before == BodyFrom(wr, n) - 4
           to == new.offset
<1>1. /\ Levels(wr) = 1 .. n
      /\ new \in [buf : Seq(Nat), offset : Nat, depth : Seq(Nat), ok : BOOLEAN]
      /\ Len(new.buf) = Len(wr.buf) /\ to <= Len(wr.buf)
      /\ Len(new.depth) = m - 1 /\ \A k \in 1 .. m - 1 : new.depth[k] = wr.depth[k]
      /\ before \in Nat /\ before <= to /\ Agree(wr.buf, new.buf, before)
      /\ Slice(new.buf, BodyFrom(wr, m), to) =
           Slice(wr.buf, BodyFrom(wr, m), before) \o EndedBytes(wr, n)
  BY DEF Ends
<1>2. n \in Nat /\ n >= 2 /\ m = n - 1 /\ n = Len(wr.depth) + 1 /\ m \in 1 .. m
  OBVIOUS
<1>3. /\ BodyTo(wr, m) = before /\ BodyFrom(wr, m) \in Nat /\ BodyFrom(wr, m) <= before
  <2>1. /\ BodyTo(wr, m) = before /\ BodyFrom(wr, m) \in Nat
        /\ BodyFrom(wr, m) + 4 <= BodyFrom(wr, n)
        /\ BodyFrom(wr, n) \in Nat
    BY <1>2, LastIs
  <2> QED BY <2>1
<1> HIDE DEF before, to
<1>4. /\ Levels(new) = 1 .. m /\ Len(new.depth) + 1 = m
      /\ \A k \in 1 .. m : k \in Levels(wr) /\ (k # m => k \in 1 .. m - 1)
      /\ \A k \in 1 .. m : k # 1 => k - 1 \in 1 .. m - 1
      /\ \A k \in 1 .. m : k # m => k # Len(wr.depth) + 1 /\ k # Len(new.depth) + 1
      /\ \A k \in 1 .. m - 1 : k \in 1 .. m
  BY <1>1, <1>2 DEF Levels
<1> HIDE DEF n
<1>5. \A k \in 1 .. m : /\ BodyFrom(new, k) = BodyFrom(wr, k)
                        /\ BodyTo(new, k) = IF k = m THEN to ELSE BodyTo(wr, k)
  <2>1. ASSUME NEW k \in 1 .. m PROVE BodyFrom(new, k) = BodyFrom(wr, k)
    BY <1>1, <1>4 DEF BodyFrom
  <2>2. ASSUME NEW k \in 1 .. m, k = m PROVE BodyTo(new, k) = to
    BY <1>4, <2>2 DEF BodyTo, to
  <2>3. ASSUME NEW k \in 1 .. m, k # m PROVE BodyTo(new, k) = BodyTo(wr, k)
    <3>1. new.depth[k] = wr.depth[k] BY <1>1, <1>4, <2>3
    <3>2. k # Len(wr.depth) + 1 /\ k # Len(new.depth) + 1 BY <1>4, <2>3
    <3> QED BY <3>1, <3>2 DEF BodyTo
  <2> QED BY <2>1, <2>2, <2>3
<1>6. \A k \in 1 .. m : /\ BodyFrom(wr, k) \in Nat /\ BodyTo(wr, k) \in Nat
                        /\ BodyFrom(wr, k) <= BodyTo(wr, k)
  BY <1>4, LevelIs
<1>7. ASSUME NEW k \in 1 .. m, k # m PROVE BodyTo(wr, k) <= before
  <2>1. k < m BY <1>7
  <2>2. BodyTo(wr, k) + 4 <= BodyFrom(wr, m) BY <1>2, <1>4, <2>1 DEF Sound, Nested
  <2>3. BodyTo(wr, k) \in Nat BY <1>6
  <2> QED BY <1>1, <1>3, <2>2, <2>3
<1>8. to \in Nat BY <1>1 DEF to
<1>9. Nested(new)
  <2>1. ASSUME NEW k \in 1 .. m
        PROVE  /\ BodyFrom(new, k) \in Nat /\ BodyTo(new, k) \in Nat
               /\ BodyFrom(new, k) <= BodyTo(new, k) /\ BodyTo(new, k) <= to
    <3>1. CASE k = m
      <4>1. BodyFrom(wr, m) <= to /\ to <= to BY <1>1, <1>3, <1>8
      <4> QED BY <1>3, <1>5, <1>8, <3>1, <4>1
    <3>2. CASE k # m
      <4> DEFINE t == BodyTo(wr, k)
      <4>1. t \in Nat /\ t <= before BY <1>6, <1>7, <3>2
      <4> HIDE DEF t
      <4>2. t <= to BY <1>1, <1>8, <4>1
      <4> QED BY <1>5, <1>6, <3>2, <4>2 DEF t
    <3> QED BY <3>1, <3>2
  <2>2. ASSUME NEW j \in 1 .. m, NEW k \in 1 .. m, j < k
        PROVE  BodyTo(new, j) + 4 <= BodyFrom(new, k)
    <3>1. j # m BY <2>2
    <3>2. BodyTo(wr, j) + 4 <= BodyFrom(wr, k) BY <1>4, <2>2 DEF Sound, Nested
    <3> QED BY <1>5, <3>1, <3>2
  <2> QED BY <1>4, <2>1, <2>2 DEF Nested, to
<1>10. Sound(new)
  <2>1. new.offset <= Len(new.buf) BY <1>1 DEF to
  <2> QED BY <1>1, <1>9, <2>1 DEF Sound, WriterType
<1>11. ASSUME NEW k \in 1 .. m, k # m
       PROVE  TagOf(new, k) = TagOf(wr, k) /\ Body(new, k) = Body(wr, k)
  <2>1. /\ BodyFrom(new, k) = BodyFrom(wr, k) /\ BodyTo(new, k) = BodyTo(wr, k)
        /\ k \in Levels(wr) /\ BodyTo(wr, k) <= before
    BY <1>4, <1>5, <1>7, <1>11
  <2> QED BY <1>1, <2>1, LevelKept
<1>12. TagOf(new, m) = TagOf(wr, m)
  <2>1. Agree(wr.buf, new.buf, BodyFrom(wr, m))
    <3>1. wr.buf \in Seq(Nat) BY DEF Sound, WriterType
    <3> QED BY <1>1, <1>3, <3>1, AgreeBefore
  <2> QED BY <1>2, <1>4, <1>5, <2>1, TagKept
<1>13. Body(new, m) = Body(wr, m) \o EndedBytes(wr, n)
  <2>1. Body(new, m) = Slice(new.buf, BodyFrom(wr, m), to) BY <1>2, <1>5 DEF Body
  <2>2. Body(wr, m) = Slice(wr.buf, BodyFrom(wr, m), before) BY <1>3 DEF Body
  <2> QED BY <1>1, <2>1, <2>2
<1> QED BY <1>2, <1>4, <1>10, <1>11, <1>12, <1>13 DEF n, Ended

\* Ending a compound puts its value in the one around it.
LEMMA EndRefines ==
  ASSUME NEW wr, Sound(wr), EndCompound(wr).ok
  PROVE  /\ Sound(EndCompound(wr)) /\ Len(BegunBy(wr)) > 1
         /\ BegunBy(EndCompound(wr)) =
              Der!PutInto(Front(BegunBy(wr)),
                          Der!TagLengthValue(Last(BegunBy(wr)).tag, Last(BegunBy(wr)).body))
<1> DEFINE new == EndCompound(wr)
           m == Len(wr.depth)
           n == m + 1
           was == BegunBy(wr)
           is == BegunBy(new)
           front == Front(was)
           bytes == EndedBytes(wr, n)
<1>1. m \in Nat \ {0} /\ Ends(wr, new, m) BY EndDoes
<1>2. new.ok OBVIOUS
<1>3. m = Len(wr.depth) OBVIOUS
<1> HIDE DEF new, m
<1>4. /\ Sound(new) /\ Levels(new) = 1 .. m /\ m \in 1 .. m
      /\ \A k \in 1 .. m : k # m => TagOf(new, k) = TagOf(wr, k) /\ Body(new, k) = Body(wr, k)
      /\ TagOf(new, m) = TagOf(wr, m) /\ Body(new, m) = Body(wr, m) \o bytes
  <2>1. Ended(wr, new, m) BY <1>1, <1>2, <1>3, EndedLevels
  <2> QED BY <2>1 DEF Ended
<1>5. Levels(wr) = 1 .. n /\ LenFits(Len(Body(wr, n))) BY <1>1 DEF Ends
<1>6. n \in Nat /\ n > 1 /\ n \in 1 .. n /\ m = n - 1 /\ n # 0 BY <1>1
<1>7. /\ was \in Seq(Started) /\ Len(was) = n /\ was # << >>
      /\ \A k \in 1 .. n : was[k] = [tag |-> TagOf(wr, k), body |-> Body(wr, k)]
  BY <1>3, <1>5, BegunType
<1>8. /\ is \in Seq(Started) /\ Len(is) = m
      /\ \A k \in 1 .. m : is[k] = [tag |-> TagOf(new, k), body |-> Body(new, k)]
  <2>1. Len(new.depth) \in Nat BY <1>4 DEF Sound, WriterType
  <2>2. /\ is \in Seq(Started) /\ Len(is) = Len(new.depth) + 1
        /\ \A k \in 1 .. m : is[k] = [tag |-> TagOf(new, k), body |-> Body(new, k)]
    BY <1>4, BegunType
  <2>3. Len(new.depth) + 1 = m
    <3> DEFINE l == Len(new.depth) + 1
    <3>1. l \in Nat /\ l >= 1 /\ 1 .. l = 1 .. m BY <1>4, <2>1 DEF Levels
    <3> HIDE DEF l
    <3>2. l \in 1 .. l BY <3>1
    <3>3. l \in 1 .. m /\ m \in 1 .. l BY <1>4, <3>1, <3>2
    <3>4. l = m BY <1>1, <3>1, <3>3
    <3> QED BY <3>4 DEF l
  <2> QED BY <2>2, <2>3
<1> HIDE DEF was, is, n
<1>9. /\ front \in Seq(Started) /\ Len(front) = m /\ \A k \in 1 .. m : front[k] = was[k]
  BY <1>6, <1>7, FrontIs
<1>10. Last(was).tag = TagOf(wr, n) /\ Last(was).body = Body(wr, n)
  <2>1. Last(was) = was[n] BY <1>7 DEF Last
  <2>2. was[n] = [tag |-> TagOf(wr, n), body |-> Body(wr, n)] BY <1>6, <1>7
  <2> QED BY <2>1, <2>2
<1>11. TagOf(wr, n) \in Nat /\ Body(wr, n) \in Seq(Nat)
  <2>1. was[n] \in Started BY <1>6, <1>7
  <2>2. was[n].tag \in Nat /\ was[n].body \in Seq(Nat) BY <2>1 DEF Started
  <2>3. was[n] = [tag |-> TagOf(wr, n), body |-> Body(wr, n)] BY <1>6, <1>7
  <2> QED BY <2>2, <2>3
<1>12. /\ bytes = Der!TagLengthValue(TagOf(wr, n), Body(wr, n)) /\ bytes \in Seq(Nat)
  BY <1>5, <1>11, TagLengthValueIs DEF EndedBytes
<1> HIDE DEF bytes, front
<1>13. front # << >> /\ m = Len(front)
  <2>1. Len(front) # 0 BY <1>1, <1>9
  <2>2. Len(<< >>) = 0 OBVIOUS
  <2> QED BY <1>9, <2>1, <2>2
<1>14. Der!PutInto(front, bytes) = PutAt(front, m, bytes) BY <1>9, <1>12, <1>13, PutIs
<1>15. ASSUME NEW k \in 1 .. m
       PROVE  is[k] = IF k = m THEN [tag |-> front[m].tag, body |-> front[m].body \o bytes]
                      ELSE front[k]
  <2>1. is[k] = [tag |-> TagOf(new, k), body |-> Body(new, k)] BY <1>8
  <2>2. k \in 1 .. n BY <1>1, <1>6
  <2>3. front[k] = [tag |-> TagOf(wr, k), body |-> Body(wr, k)] BY <1>7, <1>9, <2>2
  <2>4. CASE k = m
    <3>1. front[m].tag = TagOf(wr, m) /\ front[m].body = Body(wr, m) BY <2>3, <2>4
    <3> QED BY <1>4, <2>1, <2>4, <3>1
  <2>5. CASE k # m BY <1>4, <2>1, <2>3, <2>5
  <2> QED BY <2>4, <2>5
<1>16. is = PutAt(front, m, bytes)
  <2>1. is = [k \in 1 .. m |-> is[k]] BY <1>8
  <2> QED BY <1>15, <2>1 DEF PutAt
<1>17. Len(was) > 1 BY <1>6, <1>7
<1> QED BY <1>4, <1>10, <1>12, <1>14, <1>16, <1>17 DEF new, was, is, front

(***************************************************************************)
(* Every step is one of DerValue.                                          *)
(***************************************************************************)

\* The writer is sound until a call fails.
IInv == w.ok => Sound(w)

LEMMA InitDer == Asn1Init => IInv /\ Der!Init
<1> SUFFICES ASSUME Asn1Init PROVE IInv /\ Der!Init OBVIOUS
<1> DEFINE buf == [i \in 1 .. ASN1_LEN |-> 0]
<1>1. w = [buf |-> buf, offset |-> 0, depth |-> << >>, ok |-> TRUE]
  BY DEF Asn1Init, ASN1Writer
<1>2. ASN1_LEN \in Nat BY Asn1Assumption
<1>3. buf \in Seq(Nat) /\ Len(buf) = ASN1_LEN
  <2>1. buf \in [1 .. ASN1_LEN -> Nat] OBVIOUS
  <2> HIDE DEF buf
  <2> QED BY <1>2, <2>1
<1> HIDE DEF buf
<1>4. w.buf = buf /\ w.offset = 0 /\ w.depth = << >> /\ w.ok = TRUE BY <1>1
<1>5. Len(w.depth) + 1 = 1 BY <1>4
<1>6. w \in [buf : Seq(Nat), offset : Nat, depth : Seq(Nat), ok : BOOLEAN] BY <1>1, <1>3
<1>7. BodyFrom(w, 1) = 0 /\ BodyTo(w, 1) = 0 BY <1>4, <1>5 DEF BodyFrom, BodyTo
<1>8. Levels(w) = 1 .. 1 BY <1>5 DEF Levels
<1>9. Nested(w) BY <1>4, <1>7, <1>8 DEF Nested
<1>10. Sound(w) BY <1>2, <1>3, <1>4, <1>6, <1>9 DEF Sound, WriterType
<1>11. TagOf(w, 1) = 0 BY DEF TagOf
<1>12. Body(w, 1) = << >>
  <2>1. Slice(buf, 0, 0) = << >> BY SubSeqEmpty DEF Slice
  <2> QED BY <1>4, <1>7, <2>1 DEF Body
<1>13. BegunBy(w) = [k \in 1 .. 1 |-> [tag |-> TagOf(w, k), body |-> Body(w, k)]]
  BY <1>5 DEF BegunBy
<1>14. BegunBy(w) = << [tag |-> 0, body |-> << >>] >>
  <2> DEFINE one == [tag |-> 0, body |-> << >>]
  <2>1. \A k \in 1 .. 1 : [tag |-> TagOf(w, k), body |-> Body(w, k)] = one BY <1>11, <1>12
  <2> HIDE DEF one
  <2>2. BegunBy(w) = [k \in 1 .. 1 |-> one] BY <1>13, <2>1
  <2>3. [k \in 1 .. 1 |-> one] = << one >> OBVIOUS
  <2> QED BY <2>2, <2>3 DEF one
<1>15. Der!Init BY <1>4, <1>14 DEF Begun, Der!Init, Der!Began
<1> QED BY <1>10, <1>15 DEF IInv

LEMMA StepDer == IInv /\ [Asn1Next]_asn1Vars => IInv' /\ [Der!Next]_Begun
<1> SUFFICES ASSUME IInv, [Asn1Next]_asn1Vars PROVE IInv' /\ [Der!Next]_Begun
  OBVIOUS
<1>1. CASE UNCHANGED asn1Vars BY <1>1 DEF asn1Vars, IInv, Begun
<1>2. ASSUME NEW call \in Calls, Do_(call) PROVE IInv' /\ Der!Do(call)
  <2> DEFINE stack == Begun
  <2>1. w.ok /\ w' = Apply(w, call) BY <1>2 DEF Do_
  <2>2. Sound(w) BY <2>1 DEF IInv
  <2>3. stack = BegunBy(w) BY <2>1 DEF Begun
  <2>4. stack # << >> BY <2>2, <2>3, BegunType
  <2>5. call.tag \in Nat /\ call.content \in Seq(Nat)
        /\ call.op \in {"start", "end", "value", "fail"}
    BY Asn1Assumption
  <2> HIDE DEF stack
  <2>6. CASE ~ w'.ok
    <3>1. Begun' = << >> BY <2>6 DEF Begun
    <3>2. Der!Do(call) BY <3>1 DEF Der!Do, Der!Fail
    <3> QED BY <2>6, <3>2 DEF IInv
  <2>7. CASE w'.ok
    <3>1. Begun' = BegunBy(w') BY <2>7 DEF Begun
    <3>2. SUFFICES Sound(w') /\ Der!Do(call) BY DEF IInv
    <3>3. CASE call.op = "value"
      <4>1. w' = AppendTagLengthValue(w, call.tag, call.content) BY <2>1, <3>3 DEF Apply
      <4>2. Sound(w') /\ BegunBy(w') =
              Der!PutInto(BegunBy(w), Der!TagLengthValue(call.tag, call.content))
        BY <2>2, <2>5, <2>7, <4>1, ValueRefines
      <4>3. Der!Value(call.tag, call.content)
        BY <2>3, <2>4, <3>1, <4>2 DEF Der!Value, stack
      <4> QED BY <3>3, <4>2, <4>3 DEF Der!Do
    <3>4. CASE call.op = "start"
      <4>1. w' = AddCompound(w, call.tag) BY <2>1, <3>4 DEF Apply
      <4>2. Sound(w') /\ BegunBy(w') = Append(BegunBy(w), Der!Began(call.tag))
        BY <2>2, <2>5, <2>7, <4>1, StartRefines
      <4>3. Der!Start(call.tag) BY <2>3, <2>4, <3>1, <4>2 DEF Der!Start, stack
      <4> QED BY <3>4, <4>2, <4>3 DEF Der!Do
    <3>5. CASE call.op = "end"
      <4>1. w' = EndCompound(w) BY <2>1, <3>5 DEF Apply
      <4>2. /\ Sound(w') /\ Len(BegunBy(w)) > 1
            /\ BegunBy(w') =
                 Der!PutInto(Front(BegunBy(w)),
                             Der!TagLengthValue(Last(BegunBy(w)).tag, Last(BegunBy(w)).body))
        BY <2>2, <2>7, <4>1, EndRefines
      <4>3. Der!End
        <5> DEFINE was == BegunBy(w)
                   is == BegunBy(w')
        <5> HIDE DEF was, is
        <5>1. Begun = was /\ Begun' = is BY <2>3, <3>1 DEF stack, was, is
        <5>2. /\ Len(was) > 1
              /\ is = Der!PutInto(Front(was), Der!TagLengthValue(Last(was).tag, Last(was).body))
          BY <4>2 DEF was, is
        <5>3. Len(Begun) > 1 BY <5>1, <5>2
        <5>4. Begun' = Der!PutInto(Front(Begun),
                                   Der!TagLengthValue(Last(Begun).tag, Last(Begun).body))
          BY <5>1, <5>2
        <5> QED BY <5>3, <5>4 DEF Der!End, Der!Front, Der!Last, Front, Last
      <4> QED BY <3>5, <4>2, <4>3 DEF Der!Do
    <3>6. CASE call.op = "fail"
      <4>1. w' = NoSpace(w) BY <2>1, <3>6 DEF Apply
      <4> QED BY <2>2, <2>7, <4>1, NoSpaceFails
    <3> QED BY <2>5, <3>3, <3>4, <3>5, <3>6
  <2> QED BY <2>6, <2>7
<1>3. (\E call \in Calls : Der!Do(call)) => [Der!Next]_Begun BY DEF Der!Next
<1> QED BY <1>1, <1>2, <1>3 DEF Asn1Next

\* The writer makes DER of the calls: a value or a compound that is ended is put behind
\* the content of the one around it, with its tag and its length in the fewest bytes,
\* at every depth, and whatever was moved when the values inside it ended.
THEOREM EncodesDer == Asn1Spec => WritesDer
<1>1. Asn1Spec => []IInv BY InitDer, StepDer, PTL DEF Asn1Spec
<1> QED BY <1>1, InitDer, StepDer, PTL DEF Asn1Spec, WritesDer, Der!Spec

=============================================================================
