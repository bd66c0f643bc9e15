--------------------------- MODULE Library_proofs ---------------------------
(***************************************************************************)
(* Proofs about the libraries: PacketPool, for every size of the pools,    *)
(* and Datagram, for all headers, payloads, keys and sizes of a buffer.    *)
(***************************************************************************)
EXTENDS Datagram, PacketPool, SequenceTheorems, TLAPS

(***************************************************************************)
(* The two pools that a packet takes a slot of.                            *)
(***************************************************************************)
\* The slots are those of the slab, and what they hold are indices of buffers.
PoolTypes ==
  /\ boxes \subseteq Indices
  /\ pool \in [Indices -> Indices]

PoolInv == PoolTypes /\ PoolsAgree

\* A packet that is made gets a buffer that no other has.
LEMMA NewPacketAgrees ==
  ASSUME PoolInv, NewPacket
  PROVE  PoolInv'
<1> PICK index \in FirstFree(buffers), slot \in FirstFree(map) :
      /\ buffers' = buffers \union {index} /\ map' = map \union {slot}
      /\ pool' = [pool EXCEPT ![slot] = index] /\ boxes' = boxes \union {slot}
  BY DEF NewPacket
<1>1. index \in Indices \ buffers /\ slot \in Indices \ boxes
  BY DEF FirstFree, PoolInv, PoolsAgree
<1>2. \A b \in boxes : pool'[b] = pool[b] BY <1>1 DEF PoolInv, PoolTypes
<1>3. pool'[slot] = index BY <1>1 DEF PoolInv, PoolTypes
<1>4. buffers' = {pool'[b] : b \in boxes'} BY <1>2, <1>3 DEF PoolInv, PoolsAgree
<1>5. ASSUME NEW a \in boxes', NEW b \in boxes', pool'[a] = pool'[b]
      PROVE  a = b
  BY <1>1, <1>2, <1>3, <1>5 DEF PoolInv, PoolsAgree
<1>6. PoolTypes' BY <1>1 DEF PoolInv, PoolTypes
<1> QED BY <1>4, <1>5, <1>6 DEF PoolInv, PoolsAgree

\* A packet that is dropped gives back its own buffer and no other's.
LEMMA DropPacketAgrees ==
  ASSUME PoolInv, NEW slot \in Indices, DropPacket(slot)
  PROVE  PoolInv'
<1>1. boxes' = boxes \ {slot} /\ pool' = pool BY DEF DropPacket
<1>2. buffers' = {pool[b] : b \in boxes \ {slot}} BY DEF DropPacket, PoolInv, PoolsAgree
<1> QED BY <1>1, <1>2 DEF DropPacket, PoolInv, PoolTypes, PoolsAgree

\* Both pools say the same of every packet, whatever the order in which packets
\* are made and dropped: BufferPool::alloc and free, Slab::new and free.
THEOREM PoolsAlwaysAgree == PoolSpec => []PoolsAgree
<1>1. PoolInit => PoolInv BY PoolAssumption DEF PoolInit, PoolInv, PoolTypes, PoolsAgree, Indices
<1>2. PoolInv /\ [PoolNext]_poolVars => PoolInv'
  <2> SUFFICES ASSUME PoolInv, [PoolNext]_poolVars PROVE PoolInv' OBVIOUS
  <2>1. CASE NewPacket BY <2>1, NewPacketAgrees
  <2>2. CASE NewPacketFails \/ UNCHANGED poolVars
    BY <2>2 DEF NewPacketFails, poolVars, PoolInv, PoolTypes, PoolsAgree
  <2>3. CASE \E slot \in Indices : DropPacket(slot) BY <2>3, DropPacketAgrees
  <2> QED BY <2>1, <2>2, <2>3 DEF PoolNext
<1>3. PoolInv => PoolsAgree BY DEF PoolInv
<1> QED BY <1>1, <1>2, <1>3, PTL DEF PoolSpec

(***************************************************************************)
(* Where a sequence occurs in another.                                     *)
(***************************************************************************)
OccursAt(s, off, t) ==
  /\ off + Len(t) <= Len(s)
  /\ \A i \in 1 .. Len(t) : s[off + i] = t[i]

\* Two sequences that are joined occur in the result, one behind the other.
LEMMA Joins ==
  ASSUME NEW s \in Seq(Nat), NEW t \in Seq(Nat)
  PROVE  /\ s \o t \in Seq(Nat) /\ Len(s \o t) = Len(s) + Len(t)
         /\ OccursAt(s \o t, 0, s) /\ OccursAt(s \o t, Len(s), t)
<1>1. /\ s \o t \in Seq(Nat) /\ Len(s \o t) = Len(s) + Len(t)
      /\ \A i \in 1 .. Len(s) + Len(t) :
           (s \o t)[i] = IF i <= Len(s) THEN s[i] ELSE t[i - Len(s)]
  BY ConcatProperties
<1>2. Len(s) \in Nat /\ Len(t) \in Nat OBVIOUS
<1>3. \A i \in 1 .. Len(s) : i \in 1 .. Len(s) + Len(t) /\ i <= Len(s) /\ 0 + i = i
  BY <1>2
<1>4. \A i \in 1 .. Len(t) :
        /\ Len(s) + i \in 1 .. Len(s) + Len(t)
        /\ ~ (Len(s) + i <= Len(s))
        /\ (Len(s) + i) - Len(s) = i
  BY <1>2
<1>5. OccursAt(s \o t, 0, s) BY <1>1, <1>2, <1>3 DEF OccursAt
<1>6. OccursAt(s \o t, Len(s), t) BY <1>1, <1>2, <1>4 DEF OccursAt
<1> QED BY <1>1, <1>5, <1>6

\* What occurs in a part of a sequence occurs in the sequence.
LEMMA OccursIn ==
  ASSUME NEW s \in Seq(Nat), NEW t \in Seq(Nat), NEW u \in Seq(Nat),
         NEW m \in Nat, NEW n \in Nat, OccursAt(s, m, t), OccursAt(t, n, u)
  PROVE  OccursAt(s, m + n, u)
<1>1. Len(s) \in Nat /\ Len(t) \in Nat /\ Len(u) \in Nat OBVIOUS
<1>2. \A i \in 1 .. Len(u) : n + i \in 1 .. Len(t) /\ (m + n) + i = m + (n + i)
  <2> DEFINE tn == Len(t)
             un == Len(u)
  <2>1. tn \in Nat /\ un \in Nat /\ n + un <= tn BY <1>1 DEF OccursAt
  <2> HIDE DEF tn, un
  <2>2. \A i \in 1 .. un : n + i \in 1 .. tn /\ (m + n) + i = m + (n + i) BY <2>1
  <2> QED BY <2>2 DEF tn, un
<1>3. ASSUME NEW i \in 1 .. Len(u) PROVE s[(m + n) + i] = u[i]
  <2> DEFINE j == n + i
  <2>1. j \in 1 .. Len(t) /\ (m + n) + i = m + j BY <1>2
  <2>2. t[j] = u[i] BY DEF OccursAt
  <2> HIDE DEF j
  <2>3. s[m + j] = t[j] BY <2>1 DEF OccursAt
  <2> QED BY <2>1, <2>2, <2>3
<1>4. (m + n) + Len(u) <= Len(s) BY <1>1 DEF OccursAt
<1> QED BY <1>3, <1>4 DEF OccursAt

\* What is read of a sequence that was cut off at n.
LEMMA CutIs ==
  ASSUME NEW s \in Seq(Nat), NEW n \in 0 .. Len(s)
  PROVE  /\ SubSeq(s, 1, n) \in Seq(Nat) /\ Len(SubSeq(s, 1, n)) = n
         /\ \A i \in 1 .. n : SubSeq(s, 1, n)[i] = s[i]
<1>1. \A i \in 1 .. n : s[i] \in Nat OBVIOUS
<1>2. n \in Nat /\ n - 1 + 1 = n /\ \A i \in 1 .. n : 1 + i - 1 = i OBVIOUS
<1> QED BY <1>1, <1>2, SubSeqProperties

\* Slice is the bytes between two offsets.
LEMMA SliceIs ==
  ASSUME NEW s \in Seq(Nat), NEW m \in Nat, NEW n \in Nat, m <= n, n <= Len(s)
  PROVE  /\ Slice(s, m, n) \in Seq(Nat) /\ Len(Slice(s, m, n)) = n - m
         /\ \A i \in 1 .. n - m : Slice(s, m, n)[i] = s[m + i]
<1>1. \A i \in (m + 1) .. n : s[i] \in Nat OBVIOUS
<1>2. /\ m + 1 \in Int /\ n \in Int /\ n - (m + 1) + 1 = n - m
      /\ \A i \in 1 .. n - m : (m + 1) + i - 1 = m + i
      /\ m + 1 <= n \/ n - m = 0
  OBVIOUS
<1>3. /\ SubSeq(s, m + 1, n) \in Seq(Nat)
      /\ Len(SubSeq(s, m + 1, n)) = IF m + 1 <= n THEN n - (m + 1) + 1 ELSE 0
      /\ \A i \in 1 .. n - (m + 1) + 1 : SubSeq(s, m + 1, n)[i] = s[(m + 1) + i - 1]
  BY <1>1, <1>2, SubSeqProperties
<1>4. Len(SubSeq(s, m + 1, n)) = n - m BY <1>2, <1>3
<1>5. \A i \in 1 .. n - m : SubSeq(s, m + 1, n)[i] = s[m + i] BY <1>2, <1>3
<1> QED BY <1>3, <1>4, <1>5 DEF Slice

\* Of the first bytes of s, the slice where t stands is t.
LEMMA ReadBack ==
  ASSUME NEW s \in Seq(Nat), NEW t \in Seq(Nat), NEW m \in Nat, OccursAt(s, m, t),
         NEW n \in 0 .. Len(s), m + Len(t) <= n
  PROVE  Slice(SubSeq(s, 1, n), m, m + Len(t)) = t
<1> DEFINE c == SubSeq(s, 1, n)
           k == Len(t)
<1>1. /\ c \in Seq(Nat) /\ Len(c) = n /\ \A i \in 1 .. n : c[i] = s[i] BY CutIs
<1>2. k \in Nat /\ m + k \in Nat /\ m <= m + k /\ m + k <= n /\ (m + k) - m = k OBVIOUS
<1> HIDE DEF c
<1>3. /\ Slice(c, m, m + k) \in Seq(Nat) /\ Len(Slice(c, m, m + k)) = k
      /\ \A i \in 1 .. k : Slice(c, m, m + k)[i] = c[m + i]
  <2> DEFINE top == m + k
  <2>1. top \in Nat /\ m <= top /\ top <= Len(c) /\ top - m = k BY <1>1, <1>2
  <2> HIDE DEF k, top
  <2>2. /\ Slice(c, m, top) \in Seq(Nat) /\ Len(Slice(c, m, top)) = top - m
        /\ \A i \in 1 .. top - m : Slice(c, m, top)[i] = c[m + i]
    BY <1>1, <2>1, SliceIs
  <2> QED BY <2>1, <2>2 DEF top
<1>4. \A i \in 1 .. k : m + i \in 1 .. n BY <1>2
<1>5. \A i \in 1 .. k : Slice(c, m, m + k)[i] = t[i]
  BY <1>1, <1>3, <1>4 DEF OccursAt
<1> HIDE DEF k
<1>6. Slice(c, m, m + k) = t BY <1>3, <1>5, SeqEqual DEF k
<1> QED BY <1>6 DEF c, k

\* The end of a sequence that was cut off is the beginning of what stood at its end.
LEMMA RestBack ==
  ASSUME NEW s \in Seq(Nat), NEW t \in Seq(Nat), NEW m \in Nat, OccursAt(s, m, t),
         NEW n \in 0 .. Len(s), NEW k \in 0 .. Len(t), m + k <= n
  PROVE  Slice(SubSeq(s, 1, n), m, m + k) = SubSeq(t, 1, k)
<1> DEFINE u == SubSeq(t, 1, k)
<1>1. u \in Seq(Nat) /\ Len(u) = k /\ \A i \in 1 .. k : u[i] = t[i] BY CutIs
<1>2. OccursAt(s, m, u)
  <2>1. \A i \in 1 .. k : i \in 1 .. Len(t) OBVIOUS
  <2>2. m + k <= Len(s) OBVIOUS
  <2> HIDE DEF u
  <2> QED BY <1>1, <2>1, <2>2 DEF OccursAt
<1> HIDE DEF u
<1>3. Slice(SubSeq(s, 1, n), m, m + Len(u)) = u BY <1>1, <1>2, ReadBack
<1> QED BY <1>1, <1>3 DEF u

(***************************************************************************)
(* Buffers that are written.                                               *)
(***************************************************************************)
WriteBufs(size) == [buf : Octets(size), start : Nat, end : Nat, ok : BOOLEAN]

\* The buffer b has the size, and s written in it from start on.
Filled(b, size, start, s) ==
  /\ b \in WriteBufs(size) /\ b.ok /\ b.start = start /\ b.end = start + Len(s)
  /\ start + Len(s) <= size
  /\ \A i \in 1 .. Len(s) : b.buf[start + i] = s[i]

\* What a buffer is filled with is what Written returns.
LEMMA FilledIsWritten ==
  ASSUME NEW size \in Nat, NEW start \in Nat, NEW s \in Seq(Nat), NEW b,
         Filled(b, size, start, s)
  PROVE  Written(b) = s
<1> DEFINE buf == b.buf
<1>1. buf \in Seq(Nat) /\ Len(buf) = size
  <2>1. buf \in [1 .. size -> Nat] BY DEF Filled, WriteBufs, Octets
  <2> HIDE DEF buf
  <2> QED BY <2>1
<1>2. \A i \in 1 .. Len(s) : buf[start + i] = s[i] BY DEF Filled
<1>3. Len(s) \in Nat /\ start + Len(s) <= size BY DEF Filled
<1>4. Written(b) = Slice(buf, start, start + Len(s)) BY DEF Written, Filled
<1> HIDE DEF buf
<1>5. SubSeq(buf, 1, size) = buf BY <1>1, SubSeqFull
<1>6. OccursAt(buf, start, s) BY <1>1, <1>2, <1>3 DEF OccursAt
<1>7. size \in 0 .. Len(buf) BY <1>1
<1>8. Slice(SubSeq(buf, 1, size), start, start + Len(s)) = s
  BY <1>1, <1>3, <1>6, <1>7, ReadBack
<1> QED BY <1>4, <1>5, <1>8

\* Overlay writes t from an offset on, and no other byte.
LEMMA OverlayIs ==
  ASSUME NEW size \in Nat, NEW buf \in Octets(size), NEW at \in Nat, NEW t \in Seq(Nat),
         at + Len(t) <= size
  PROVE  /\ Overlay(buf, at, t) \in Octets(size)
         /\ \A i \in 1 .. Len(t) : Overlay(buf, at, t)[at + i] = t[i]
         /\ \A i \in 1 .. size : i <= at \/ i > at + Len(t) => Overlay(buf, at, t)[i] = buf[i]
<1>1. buf \in [1 .. size -> Nat] /\ DOMAIN buf = 1 .. size /\ Len(t) \in Nat BY DEF Octets
<1>2. \A i \in at + 1 .. at + Len(t) : i \in 1 .. size /\ i - at \in 1 .. Len(t) BY <1>1
<1>3. \A i \in 1 .. Len(t) : t[i] \in Nat OBVIOUS
<1>4. Overlay(buf, at, t) =
        [i \in 1 .. size |-> IF i \in at + 1 .. at + Len(t) THEN t[i - at] ELSE buf[i]]
  BY <1>1 DEF Overlay
<1>5. Overlay(buf, at, t) \in Octets(size) BY <1>1, <1>2, <1>3, <1>4 DEF Octets
<1>6. \A i \in 1 .. Len(t) : /\ at + i \in 1 .. size /\ at + i \in at + 1 .. at + Len(t)
                             /\ (at + i) - at = i
  BY <1>1
<1>7. \A i \in 1 .. Len(t) : Overlay(buf, at, t)[at + i] = t[i] BY <1>4, <1>6
<1>8. \A i \in 1 .. size : i <= at \/ i > at + Len(t) => i \notin at + 1 .. at + Len(t)
  BY <1>1
<1>9. \A i \in 1 .. size : i <= at \/ i > at + Len(t) => Overlay(buf, at, t)[i] = buf[i]
  BY <1>4, <1>8
<1> QED BY <1>5, <1>7, <1>9

\* What is copied to the end of a buffer stands behind what was there.
LEMMA CopyFills ==
  ASSUME NEW size \in Nat, NEW start \in Nat, NEW s \in Seq(Nat), NEW t \in Seq(Nat), NEW b,
         Filled(b, size, start, s), start + Len(s) + Len(t) <= size
  PROVE  Filled(CopyFromSlice(b, t), size, start, s \o t)
<1> DEFINE end == start + Len(s)
           buf == b.buf
           new == Overlay(buf, end, t)
           c == CopyFromSlice(b, t)
<1>1. /\ buf \in Octets(size) /\ b.ok /\ b.start = start /\ b.end = end /\ b.ok \in BOOLEAN
      /\ \A i \in 1 .. Len(s) : buf[start + i] = s[i]
  BY DEF Filled, WriteBufs
<1>2. end \in Nat /\ end + Len(t) <= size /\ Len(s) \in Nat /\ Len(t) \in Nat OBVIOUS
<1>3. Len(buf) = size BY <1>1 DEF Octets
<1>4. b \in WriteBufs(size) BY DEF Filled
<1>5. c = [b EXCEPT !.buf = new, !.end = end + Len(t)]
  <2>1. b.ok /\ b.end + Len(t) =< Len(b.buf) BY <1>1, <1>2, <1>3
  <2>2. c = [b EXCEPT !.buf = Overlay(b.buf, b.end, t), !.end = b.end + Len(t)]
    BY <2>1 DEF CopyFromSlice
  <2> QED BY <1>1, <2>2
<1> HIDE DEF buf, end, c
<1>6. /\ new \in Octets(size) /\ \A i \in 1 .. Len(t) : new[end + i] = t[i]
      /\ \A i \in 1 .. size : i <= end \/ i > end + Len(t) => new[i] = buf[i]
  BY <1>1, <1>2, OverlayIs
<1> HIDE DEF new
<1>7. end + Len(t) \in Nat BY <1>2
<1>8. /\ c \in WriteBufs(size) /\ c.ok /\ c.start = start /\ c.end = end + Len(t) /\ c.buf = new
  BY <1>1, <1>4, <1>5, <1>6, <1>7 DEF WriteBufs
<1>9. /\ s \o t \in Seq(Nat) /\ Len(s \o t) = Len(s) + Len(t)
      /\ \A i \in 1 .. Len(s) + Len(t) :
           (s \o t)[i] = IF i <= Len(s) THEN s[i] ELSE t[i - Len(s)]
  BY ConcatProperties
<1>10. ASSUME NEW i \in 1 .. Len(s) + Len(t) PROVE new[start + i] = (s \o t)[i]
  <2>1. CASE i <= Len(s)
    <3>1. i \in 1 .. Len(s) /\ start + i \in 1 .. size /\ start + i <= end
      BY <1>2, <2>1 DEF end
    <3> QED BY <1>1, <1>6, <1>9, <2>1, <3>1
  <2>2. CASE ~ (i <= Len(s))
    <3> DEFINE j == i - Len(s)
    <3>1. j \in 1 .. Len(t) /\ start + i = end + j BY <1>2, <2>2 DEF end
    <3>2. (s \o t)[i] = t[j] BY <1>9, <2>2
    <3> HIDE DEF j
    <3> QED BY <1>6, <3>1, <3>2
  <2> QED BY <2>1, <2>2
<1> QED BY <1>2, <1>8, <1>9, <1>10 DEF Filled, end, c

\* What is put in front stands before what was there.
LEMMA PrependFills ==
  ASSUME NEW size \in Nat, NEW start \in Nat, NEW s \in Seq(Nat), NEW t \in Seq(Nat), NEW b,
         Filled(b, size, start, s), Len(t) <= start
  PROVE  Filled(Prepend(b, t), size, start - Len(t), t \o s)
<1> DEFINE from == start - Len(t)
           buf == b.buf
           new == Overlay(buf, from, t)
           c == Prepend(b, t)
<1>1. /\ buf \in Octets(size) /\ b.ok /\ b.start = start /\ b.end = start + Len(s)
      /\ b \in WriteBufs(size) /\ start + Len(s) <= size
      /\ \A i \in 1 .. Len(s) : buf[start + i] = s[i]
  BY DEF Filled, WriteBufs
<1>2. from \in Nat /\ from + Len(t) = start /\ Len(s) \in Nat /\ Len(t) \in Nat OBVIOUS
<1>3. start + Len(s) <= size BY DEF Filled
<1>4. c = [b EXCEPT !.buf = new, !.start = from] BY <1>1 DEF Prepend
<1> HIDE DEF buf, from, c
<1>5. /\ new \in Octets(size) /\ \A i \in 1 .. Len(t) : new[from + i] = t[i]
      /\ \A i \in 1 .. size : i <= from \/ i > start => new[i] = buf[i]
  <2>1. from + Len(t) <= size BY <1>2, <1>3
  <2> QED BY <1>1, <1>2, <2>1, OverlayIs
<1> HIDE DEF new
<1>6. /\ c \in WriteBufs(size) /\ c.ok /\ c.start = from /\ c.end = start + Len(s) /\ c.buf = new
  BY <1>1, <1>2, <1>4, <1>5 DEF WriteBufs
<1>7. /\ t \o s \in Seq(Nat) /\ Len(t \o s) = Len(t) + Len(s)
      /\ \A i \in 1 .. Len(t) + Len(s) :
           (t \o s)[i] = IF i <= Len(t) THEN t[i] ELSE s[i - Len(t)]
  BY ConcatProperties
<1>8. ASSUME NEW i \in 1 .. Len(t) + Len(s) PROVE new[from + i] = (t \o s)[i]
  <2>1. CASE i <= Len(t) BY <1>5, <1>7, <2>1
  <2>2. CASE ~ (i <= Len(t))
    <3> DEFINE j == i - Len(t)
    <3>1. j \in 1 .. Len(s) /\ from + i = start + j BY <1>2, <2>2
    <3>2. start + j \in 1 .. size /\ start + j > start BY <1>2, <1>3, <3>1
    <3>3. (t \o s)[i] = s[j] BY <1>7, <2>2
    <3> HIDE DEF j
    <3> QED BY <1>1, <1>5, <3>1, <3>3, <3>2
  <2> QED BY <2>1, <2>2
<1>9. from + Len(t \o s) = start + Len(s)
  <2> DEFINE m == Len(t)
             n == Len(s)
  <2>1. m \in Nat /\ n \in Nat /\ from \in Nat /\ from + m = start BY <1>2
  <2> HIDE DEF m, n
  <2>2. from + (m + n) = start + n BY <2>1
  <2> QED BY <1>7, <2>2 DEF m, n
<1>10. Filled(c, size, from, t \o s)
  BY <1>6, <1>7, <1>8, <1>3, <1>9 DEF Filled
<1> QED BY <1>10 DEF from, c

\* A call that does not fit fails, and so does every one after a failure.
LEMMA StaysFailed ==
  ASSUME NEW size \in Nat, NEW b \in WriteBufs(size), NEW t \in Seq(Nat)
  PROVE  /\ ~ (b.ok /\ b.end + Len(t) <= size) =>
              CopyFromSlice(b, t) \in WriteBufs(size) /\ ~ CopyFromSlice(b, t).ok
         /\ ~ b.ok => Prepend(b, t) \in WriteBufs(size) /\ ~ Prepend(b, t).ok
<1>1. Len(b.buf) = size BY DEF WriteBufs, Octets
<1>2. Failed(b) \in WriteBufs(size) /\ ~ Failed(b).ok BY DEF Failed, WriteBufs
<1>3. ~ (b.ok /\ b.end + Len(t) <= size) => CopyFromSlice(b, t) = Failed(b)
  BY <1>1 DEF CopyFromSlice
<1>4. ~ b.ok => Prepend(b, t) = Failed(b) BY DEF Prepend
<1> QED BY <1>2, <1>3, <1>4

(***************************************************************************)
(* Headers as bytes.                                                       *)
(***************************************************************************)
\* A byte of flags says which they are.
LEMMA FlagsBack ==
  ASSUME NEW names \in {MsgFlags, ExchFlags}, NEW flags \in SUBSET Range(names)
  PROVE  /\ FlagBits(flags, names) \in Nat /\ IsFlags(FlagBits(flags, names), names)
         /\ FromBits(FlagBits(flags, names), names) = flags
<1> DEFINE On(fs, f, bit) == IF f \in fs THEN bit ELSE 0
<1>1. /\ DOMAIN MsgFlags = 1 .. 3 /\ DOMAIN ExchFlags = 1 .. 5
      /\ MsgFlags[1] = "DSIZ_UNICAST_NODEID" /\ MsgFlags[2] = "DSIZ_GROUPCAST_NODEID"
      /\ MsgFlags[3] = "SRC_ADDR_PRESENT"
      /\ ExchFlags[1] = "INITIATOR" /\ ExchFlags[2] = "ACK" /\ ExchFlags[3] = "RELIABLE"
      /\ ExchFlags[4] = "SECEX" /\ ExchFlags[5] = "VENDOR"
  BY DEF MsgFlags, ExchFlags
<1>2. /\ Range(MsgFlags) = {"DSIZ_UNICAST_NODEID", "DSIZ_GROUPCAST_NODEID", "SRC_ADDR_PRESENT"}
      /\ Range(ExchFlags) = {"INITIATOR", "ACK", "RELIABLE", "SECEX", "VENDOR"}
  <2>1. 1 .. 3 = {1, 2, 3} /\ 1 .. 5 = {1, 2, 3, 4, 5} OBVIOUS
  <2> QED BY <1>1, <2>1 DEF Range
<1>3. \A fs : FlagBits(fs, MsgFlags) =
                On(fs, "DSIZ_UNICAST_NODEID", 1) + On(fs, "DSIZ_GROUPCAST_NODEID", 2)
                + On(fs, "SRC_ADDR_PRESENT", 4)
  <2>1. /\ 1 \in 1 .. 3 /\ 2 \in 1 .. 3 /\ 3 \in 1 .. 3 /\ 4 \notin 1 .. 3 /\ 5 \notin 1 .. 3
    OBVIOUS
  <2> QED BY <1>1, <2>1 DEF FlagBits
<1>4. \A fs : FlagBits(fs, ExchFlags) =
                On(fs, "INITIATOR", 1) + On(fs, "ACK", 2) + On(fs, "RELIABLE", 4)
                + On(fs, "SECEX", 8) + On(fs, "VENDOR", 16)
  <2>1. 1 \in 1 .. 5 /\ 2 \in 1 .. 5 /\ 3 \in 1 .. 5 /\ 4 \in 1 .. 5 /\ 5 \in 1 .. 5
    OBVIOUS
  <2> QED BY <1>1, <2>1 DEF FlagBits
<1>5. FlagBits(flags, names) \in Nat BY <1>3, <1>4
<1>6. ASSUME NEW fs \in SUBSET Range(names), FlagBits(fs, names) = FlagBits(flags, names)
      PROVE  fs = flags
  <2>1. CASE names = MsgFlags
    <3>1. \A f \in Range(MsgFlags) : f \in fs <=> f \in flags
      <4>1. \A f \in {"DSIZ_UNICAST_NODEID", "DSIZ_GROUPCAST_NODEID", "SRC_ADDR_PRESENT"} :
              f \in fs <=> f \in flags
        BY <1>3, <1>6, <2>1
      <4> QED BY <1>2, <4>1
    <3> QED BY <2>1, <3>1
  <2>2. CASE names = ExchFlags
    <3>1. \A f \in Range(ExchFlags) : f \in fs <=> f \in flags
      <4>1. \A f \in {"INITIATOR", "ACK", "RELIABLE", "SECEX", "VENDOR"} :
              f \in fs <=> f \in flags
        BY <1>4, <1>6, <2>2
      <4> QED BY <1>2, <4>1
    <3> QED BY <2>2, <3>1
  <2> QED BY <2>1, <2>2
<1>7. IsFlags(FlagBits(flags, names), names) BY DEF IsFlags
<1> QED BY <1>5, <1>6, <1>7 DEF FromBits

PlainFixed(h) == << FlagBits(h.flags, MsgFlags) >> \o h.sess_id \o << 0 >> \o h.ctr
PlainBytes(h) == PlainFixed(h) \o h.peer_nodeid
ProtoFixed(h) == << FlagBits(h.flags, ExchFlags), h.opcode >> \o h.exch_id \o h.proto_id
ProtoBytes(h) == ProtoFixed(h) \o h.vendor \o h.ack

\* A number of n bytes is a sequence of length n.
LEMMA OctetsAre ==
  ASSUME NEW n \in Nat, NEW s \in Octets(n)
  PROVE  s \in Seq(Nat) /\ Len(s) = n
BY DEF Octets

\* What set_dest_u64 makes of a header is one.
LEMMA DestIsHdr ==
  ASSUME NEW plain \in PlainHdr, NEW key, NEW peer \in Octets(8) \union {<< >>}
  PROVE  /\ SetDest(plain, key, peer) \in PlainHdr
         /\ SetDest(plain, key, peer).sess_id = plain.sess_id
BY DEF SetDest, PlainHdr

\* The node of a header that is read back, which is none for a destination alone.
NodeOf(h) == Understood(h).peer_nodeid

LEMMA UnderstoodIs ==
  ASSUME NEW h \in PlainHdr
  PROVE  /\ Understood(h) = [flags |-> h.flags, sess_id |-> h.sess_id, ctr |-> h.ctr,
                             peer_nodeid |-> NodeOf(h)]
         /\ NodeOf(h) = IF "SRC_ADDR_PRESENT" \in h.flags THEN h.peer_nodeid ELSE << >>
BY DEF Understood, NodeOf, PlainHdr

\* The plain header's fields stand where PlainHdr::encode puts them.
LEMMA PlainParts ==
  ASSUME NEW h \in PlainHdr
  PROVE  LET w == PlainBytes(h)
             node == NodeOf(h)
         IN
           /\ w \in Seq(Nat) /\ h.peer_nodeid \in Seq(Nat)
           /\ PlainFixed(h) \in Seq(Nat) /\ Len(PlainFixed(h)) = 8
           /\ Len(w) = 8 + Len(h.peer_nodeid)
           /\ Len(h.peer_nodeid) = (IF h.peer_nodeid = << >> THEN 0 ELSE 8)
           /\ node \in Seq(Nat)
           /\ IF "SRC_ADDR_PRESENT" \in h.flags THEN Len(node) = 8 ELSE node = << >>
           /\ Len(node) <= Len(h.peer_nodeid)
           /\ h.flags \in SUBSET Range(MsgFlags)
           /\ w[1] = FlagBits(h.flags, MsgFlags)
           /\ OccursAt(w, 1, h.sess_id) /\ OccursAt(w, 4, h.ctr) /\ OccursAt(w, 8, node)
           /\ Len(h.sess_id) = 2 /\ Len(h.ctr) = 4
           /\ h.sess_id \in Seq(Nat) /\ h.ctr \in Seq(Nat)
<1> DEFINE a == << FlagBits(h.flags, MsgFlags) >>
           b == a \o h.sess_id
           c == b \o << 0 >>
           d == c \o h.ctr
           w == d \o h.peer_nodeid
<1>1. /\ h.flags \in SUBSET {"SRC_ADDR_PRESENT", "DSIZ_UNICAST_NODEID"}
      /\ h.sess_id \in Octets(2) /\ h.ctr \in Octets(4)
      /\ h.peer_nodeid \in Octets(8) \union {<< >>}
      /\ h.flags # {} <=> h.peer_nodeid # << >>
  BY DEF PlainHdr
<1>2. h.flags \in SUBSET Range(MsgFlags)
  <2>1. /\ 1 \in DOMAIN MsgFlags /\ MsgFlags[1] = "DSIZ_UNICAST_NODEID"
        /\ 3 \in DOMAIN MsgFlags /\ MsgFlags[3] = "SRC_ADDR_PRESENT"
    BY DEF MsgFlags
  <2>2. {"SRC_ADDR_PRESENT", "DSIZ_UNICAST_NODEID"} \subseteq Range(MsgFlags) BY <2>1 DEF Range
  <2> QED BY <1>1, <2>2
<1>3. h.sess_id \in Seq(Nat) /\ Len(h.sess_id) = 2 /\ h.ctr \in Seq(Nat) /\ Len(h.ctr) = 4
  BY <1>1, OctetsAre
<1>4. /\ h.peer_nodeid \in Seq(Nat)
      /\ Len(h.peer_nodeid) = (IF h.peer_nodeid = << >> THEN 0 ELSE 8)
  <2>1. CASE h.peer_nodeid # << >>
    <3>1. h.peer_nodeid \in Octets(8) BY <1>1, <2>1
    <3> QED BY <2>1, <3>1, OctetsAre
  <2>2. CASE h.peer_nodeid = << >>
    <3>1. << >> \in Seq(Nat) /\ Len(<< >>) = 0 OBVIOUS
    <3> QED BY <2>2, <3>1
  <2> QED BY <2>1, <2>2
<1>5. a \in Seq(Nat) /\ Len(a) = 1 /\ a[1] = FlagBits(h.flags, MsgFlags)
  <2>1. FlagBits(h.flags, MsgFlags) \in Nat BY <1>2, FlagsBack
  <2> HIDE DEF PlainBytes
  <2> QED BY <2>1
<1> HIDE DEF a
<1>6. b \in Seq(Nat) /\ Len(b) = 3 /\ OccursAt(b, 0, a) /\ OccursAt(b, 1, h.sess_id)
  <2>1. a \in Seq(Nat) /\ h.sess_id \in Seq(Nat) BY <1>3, <1>5
  <2>2. /\ b \in Seq(Nat) /\ Len(b) = Len(a) + Len(h.sess_id)
        /\ OccursAt(b, 0, a) /\ OccursAt(b, Len(a), h.sess_id)
    BY <2>1, Joins
  <2> HIDE DEF b
  <2> QED BY <2>2, <1>3, <1>5
<1> HIDE DEF b
<1>7. c \in Seq(Nat) /\ Len(c) = 4 /\ OccursAt(c, 0, b)
  <2>1. << 0 >> \in Seq(Nat) /\ Len(<< 0 >>) = 1 OBVIOUS
  <2>2. c \in Seq(Nat) /\ Len(c) = Len(b) + Len(<< 0 >>) /\ OccursAt(c, 0, b)
    BY <1>6, <2>1, Joins
  <2> HIDE DEF c
  <2> QED BY <1>6, <2>1, <2>2
<1> HIDE DEF c
<1>8. d \in Seq(Nat) /\ Len(d) = 8 /\ OccursAt(d, 0, c) /\ OccursAt(d, 4, h.ctr)
  <2>1. c \in Seq(Nat) /\ h.ctr \in Seq(Nat) BY <1>3, <1>7
  <2>2. /\ d \in Seq(Nat) /\ Len(d) = Len(c) + Len(h.ctr)
        /\ OccursAt(d, 0, c) /\ OccursAt(d, Len(c), h.ctr)
    BY <2>1, Joins
  <2> HIDE DEF d
  <2> QED BY <2>2, <1>3, <1>7
<1> HIDE DEF d
<1>9. /\ w \in Seq(Nat) /\ Len(w) = 8 + Len(h.peer_nodeid) /\ OccursAt(w, 0, d)
      /\ OccursAt(w, 8, h.peer_nodeid)
  BY <1>4, <1>8, Joins
<1> HIDE DEF w
<1>10. OccursAt(d, 0, b) /\ OccursAt(d, 0, a) /\ OccursAt(d, 1, h.sess_id)
  <2>1. OccursAt(d, 0 + 0, b) BY <1>6, <1>7, <1>8, OccursIn
  <2>2. OccursAt(d, 0 + 0, a) BY <1>5, <1>6, <1>8, <2>1, OccursIn
  <2>3. OccursAt(d, 0 + 1, h.sess_id) BY <1>3, <1>6, <1>8, <2>1, OccursIn
  <2> QED BY <2>1, <2>2, <2>3
<1>11. OccursAt(w, 1, h.sess_id)
  <2>1. OccursAt(w, 0 + 1, h.sess_id) BY <1>3, <1>8, <1>9, <1>10, OccursIn
  <2> QED BY <2>1
<1>12. OccursAt(w, 4, h.ctr)
  <2>1. OccursAt(w, 0 + 4, h.ctr) BY <1>3, <1>8, <1>9, OccursIn
  <2> QED BY <2>1
<1>13. w[1] = a[1]
  <2>1. OccursAt(w, 0 + 0, a) BY <1>5, <1>8, <1>9, <1>10, OccursIn
  <2>2. 1 \in 1 .. Len(a) BY <1>5
  <2> QED BY <2>1, <2>2 DEF OccursAt
<1>14. PlainFixed(h) = d BY DEF PlainFixed, a, b, c, d
<1>15. PlainBytes(h) = w BY <1>14 DEF PlainBytes, w
<1> DEFINE node == NodeOf(h)
<1>16. /\ node \in Seq(Nat) /\ OccursAt(w, 8, node) /\ Len(node) <= Len(h.peer_nodeid)
       /\ IF "SRC_ADDR_PRESENT" \in h.flags THEN Len(node) = 8 ELSE node = << >>
  <2>1. CASE "SRC_ADDR_PRESENT" \in h.flags
    <3>1. node = h.peer_nodeid /\ h.peer_nodeid # << >> BY <1>1, <2>1, UnderstoodIs
    <3> HIDE DEF node
    <3> DEFINE m == Len(h.peer_nodeid)
    <3>2. m = 8 /\ Len(node) = m BY <1>4, <3>1
    <3> HIDE DEF m
    <3>3. Len(node) = 8 /\ Len(node) <= m BY <3>2
    <3> QED BY <1>4, <1>9, <2>1, <3>1, <3>3 DEF m
  <2>2. CASE "SRC_ADDR_PRESENT" \notin h.flags
    <3>1. node = << >> BY <2>2, UnderstoodIs
    <3> HIDE DEF node
    <3>2. node \in Seq(Nat) /\ Len(node) = 0 BY <3>1
    <3> DEFINE m == Len(h.peer_nodeid)
               k == Len(w)
    <3>3. m \in Nat /\ k = 8 + m BY <1>4, <1>9
    <3> HIDE DEF m, k
    <3>4. 8 + 0 <= k /\ 0 <= m BY <3>3
    <3>5. OccursAt(w, 8, node) BY <3>2, <3>4 DEF OccursAt, k
    <3> QED BY <2>2, <3>1, <3>2, <3>4, <3>5 DEF m
  <2> QED BY <2>1, <2>2
<1> HIDE DEF node
<1> QED BY <1>2, <1>3, <1>4, <1>5, <1>8, <1>9, <1>11, <1>12, <1>13, <1>14, <1>15, <1>16 DEF node

\* The protocol header's fields stand where ProtoHdr::encode puts them.
LEMMA ProtoParts ==
  ASSUME NEW h \in ProtoHdr
  PROVE  LET w == ProtoBytes(h) IN
           /\ w \in Seq(Nat) /\ Len(w) = 6 + Len(h.vendor) + Len(h.ack)
           /\ ProtoFixed(h) \in Seq(Nat) /\ Len(ProtoFixed(h)) = 6
           /\ IF "VENDOR" \in h.flags THEN Len(h.vendor) = 2 ELSE h.vendor = << >>
           /\ IF "ACK" \in h.flags THEN Len(h.ack) = 4 ELSE h.ack = << >>
           /\ h.flags \in SUBSET Range(ExchFlags)
           /\ w[1] = FlagBits(h.flags, ExchFlags) /\ w[2] = h.opcode
           /\ OccursAt(w, 2, h.exch_id) /\ OccursAt(w, 4, h.proto_id)
           /\ OccursAt(w, 6, h.vendor) /\ OccursAt(w, 6 + Len(h.vendor), h.ack)
           /\ Len(h.exch_id) = 2 /\ Len(h.proto_id) = 2
           /\ h.exch_id \in Seq(Nat) /\ h.proto_id \in Seq(Nat)
           /\ h.vendor \in Seq(Nat) /\ h.ack \in Seq(Nat)
<1> DEFINE a == << FlagBits(h.flags, ExchFlags), h.opcode >>
           b == a \o h.exch_id
           c == b \o h.proto_id
           d == c \o h.vendor
           w == d \o h.ack
<1>1. /\ h.flags \in SUBSET {"VENDOR", "SECEX", "RELIABLE", "ACK", "INITIATOR"}
      /\ h.opcode \in Nat /\ h.exch_id \in Octets(2) /\ h.proto_id \in Octets(2)
      /\ h.vendor \in Octets(2) \union {<< >>} /\ h.ack \in Octets(4) \union {<< >>}
      /\ "VENDOR" \in h.flags <=> h.vendor # << >>
      /\ "ACK" \in h.flags <=> h.ack # << >>
  BY DEF ProtoHdr
<1>2. h.flags \in SUBSET Range(ExchFlags)
  <2>1. /\ DOMAIN ExchFlags = 1 .. 5
        /\ ExchFlags[1] = "INITIATOR" /\ ExchFlags[2] = "ACK" /\ ExchFlags[3] = "RELIABLE"
        /\ ExchFlags[4] = "SECEX" /\ ExchFlags[5] = "VENDOR"
    BY DEF ExchFlags
  <2>2. 1 \in 1 .. 5 /\ 2 \in 1 .. 5 /\ 3 \in 1 .. 5 /\ 4 \in 1 .. 5 /\ 5 \in 1 .. 5 OBVIOUS
  <2>3. {"VENDOR", "SECEX", "RELIABLE", "ACK", "INITIATOR"} \subseteq Range(ExchFlags)
    BY <2>1, <2>2 DEF Range
  <2> QED BY <1>1, <2>3
<1>3. /\ h.exch_id \in Seq(Nat) /\ Len(h.exch_id) = 2
      /\ h.proto_id \in Seq(Nat) /\ Len(h.proto_id) = 2
  BY <1>1, OctetsAre
<1>4. /\ h.vendor \in Seq(Nat)
      /\ IF "VENDOR" \in h.flags THEN Len(h.vendor) = 2 ELSE h.vendor = << >>
  <2>1. CASE "VENDOR" \in h.flags
    <3>1. h.vendor \in Octets(2) BY <1>1, <2>1
    <3> QED BY <2>1, <3>1, OctetsAre
  <2>2. CASE "VENDOR" \notin h.flags
    <3>1. h.vendor = << >> BY <1>1, <2>2
    <3>2. << >> \in Seq(Nat) OBVIOUS
    <3> QED BY <2>2, <3>1, <3>2
  <2> QED BY <2>1, <2>2
<1>5. /\ h.ack \in Seq(Nat)
      /\ IF "ACK" \in h.flags THEN Len(h.ack) = 4 ELSE h.ack = << >>
  <2>1. CASE "ACK" \in h.flags
    <3>1. h.ack \in Octets(4) BY <1>1, <2>1
    <3> QED BY <2>1, <3>1, OctetsAre
  <2>2. CASE "ACK" \notin h.flags
    <3>1. h.ack = << >> BY <1>1, <2>2
    <3>2. << >> \in Seq(Nat) OBVIOUS
    <3> QED BY <2>2, <3>1, <3>2
  <2> QED BY <2>1, <2>2
<1>6. /\ a \in Seq(Nat) /\ Len(a) = 2
      /\ a[1] = FlagBits(h.flags, ExchFlags) /\ a[2] = h.opcode
  <2>1. FlagBits(h.flags, ExchFlags) \in Nat BY <1>2, FlagsBack
  <2> QED BY <1>1, <2>1
<1> HIDE DEF a
<1>7. b \in Seq(Nat) /\ Len(b) = 4 /\ OccursAt(b, 0, a) /\ OccursAt(b, 2, h.exch_id)
  <2>1. /\ b \in Seq(Nat) /\ Len(b) = Len(a) + Len(h.exch_id)
        /\ OccursAt(b, 0, a) /\ OccursAt(b, Len(a), h.exch_id)
    BY <1>3, <1>6, Joins
  <2> HIDE DEF b
  <2> QED BY <2>1, <1>3, <1>6
<1> HIDE DEF b
<1>8. c \in Seq(Nat) /\ Len(c) = 6 /\ OccursAt(c, 0, b) /\ OccursAt(c, 4, h.proto_id)
  <2>1. /\ c \in Seq(Nat) /\ Len(c) = Len(b) + Len(h.proto_id)
        /\ OccursAt(c, 0, b) /\ OccursAt(c, Len(b), h.proto_id)
    BY <1>3, <1>7, Joins
  <2> HIDE DEF c
  <2> QED BY <2>1, <1>3, <1>7
<1> HIDE DEF c
<1>9. /\ d \in Seq(Nat) /\ Len(d) = 6 + Len(h.vendor)
      /\ OccursAt(d, 0, c) /\ OccursAt(d, 6, h.vendor)
  <2>1. /\ d \in Seq(Nat) /\ Len(d) = Len(c) + Len(h.vendor)
        /\ OccursAt(d, 0, c) /\ OccursAt(d, Len(c), h.vendor)
    BY <1>4, <1>8, Joins
  <2> HIDE DEF d
  <2> QED BY <2>1, <1>8
<1> HIDE DEF d
<1>10. /\ w \in Seq(Nat) /\ Len(w) = 6 + Len(h.vendor) + Len(h.ack)
       /\ OccursAt(w, 0, d) /\ OccursAt(w, 6 + Len(h.vendor), h.ack)
  <2>1. /\ w \in Seq(Nat) /\ Len(w) = Len(d) + Len(h.ack)
        /\ OccursAt(w, 0, d) /\ OccursAt(w, Len(d), h.ack)
    BY <1>5, <1>9, Joins
  <2> HIDE DEF w
  <2> QED BY <2>1, <1>9
<1> HIDE DEF w
<1>11. OccursAt(w, 0, c) /\ OccursAt(w, 0, b) /\ OccursAt(w, 0, a)
  <2>1. OccursAt(w, 0 + 0, c) BY <1>8, <1>9, <1>10, OccursIn
  <2>2. OccursAt(w, 0 + 0, b) BY <1>7, <1>8, <1>10, <2>1, OccursIn
  <2>3. OccursAt(w, 0 + 0, a) BY <1>6, <1>7, <1>10, <2>2, OccursIn
  <2> QED BY <2>1, <2>2, <2>3
<1>12. OccursAt(w, 2, h.exch_id) /\ OccursAt(w, 4, h.proto_id) /\ OccursAt(w, 6, h.vendor)
  <2>1. OccursAt(w, 0 + 2, h.exch_id) BY <1>3, <1>7, <1>10, <1>11, OccursIn
  <2>2. OccursAt(w, 0 + 4, h.proto_id) BY <1>3, <1>8, <1>10, <1>11, OccursIn
  <2>3. OccursAt(w, 0 + 6, h.vendor) BY <1>4, <1>9, <1>10, OccursIn
  <2> QED BY <2>1, <2>2, <2>3
<1>13. w[1] = a[1] /\ w[2] = a[2]
  <2>1. 1 \in 1 .. Len(a) /\ 2 \in 1 .. Len(a) BY <1>6
  <2>2. w[0 + 1] = a[1] /\ w[0 + 2] = a[2] BY <1>11, <2>1 DEF OccursAt
  <2> QED BY <2>2
<1>14. ProtoFixed(h) = c BY DEF ProtoFixed, a, b, c
<1>15. ProtoBytes(h) = w BY <1>14 DEF ProtoBytes, d, w
<1> QED BY <1>2, <1>3, <1>4, <1>5, <1>6, <1>8, <1>10, <1>12, <1>13, <1>14, <1>15

(***************************************************************************)
(* Sending.                                                                *)
(***************************************************************************)

\* A new buffer, and one with space reserved at its front, has nothing written in it.
LEMMA EmptyIsFilled ==
  ASSUME NEW size \in Nat, NEW start \in Nat, start <= size
  PROVE  /\ Filled(WriteBuf(size), size, 0, << >>)
         /\ Filled(Reserve(WriteBuf(size), start), size, start, << >>)
<1> DEFINE zeros == [i \in 1 .. size |-> 0]
           b == WriteBuf(size)
           r == Reserve(b, start)
<1>1. zeros \in Octets(size) BY DEF Octets
<1>2. b = [buf |-> zeros, start |-> 0, end |-> 0, ok |-> TRUE] BY DEF WriteBuf
<1> HIDE DEF zeros, b
<1>3. b \in WriteBufs(size) /\ b.start = 0 /\ b.end = 0 /\ b.ok BY <1>1, <1>2 DEF WriteBufs
<1>4. r = [b EXCEPT !.start = start, !.end = start] BY <1>3 DEF Reserve
<1> HIDE DEF r
<1>5. r \in WriteBufs(size) /\ r.start = start /\ r.end = start /\ r.ok
  BY <1>3, <1>4 DEF WriteBufs
<1>6. Len(<< >>) = 0 OBVIOUS
<1>7. start + 0 = start /\ 0 + 0 = 0 /\ 0 <= size /\ \A i \in 1 .. 0 : FALSE OBVIOUS
<1>8. Filled(b, size, 0, << >>) BY <1>3, <1>6, <1>7 DEF Filled
<1>9. Filled(r, size, start, << >>) BY <1>5, <1>6, <1>7 DEF Filled
<1> QED BY <1>8, <1>9 DEF b, r

\* PlainHdr::encode and ProtoHdr::encode do not fail: their buffers have the length of the
\* longest header.
LEMMA PlainIsEncoded ==
  ASSUME NEW h \in PlainHdr
  PROVE  EncodePlain(h).ok /\ Written(EncodePlain(h)) = PlainBytes(h)
<1> DEFINE size == MAX_PLAIN_HDR_LEN
           b == CopyFromSlice(WriteBuf(size), PlainFixed(h))
           c == CopyFromSlice(b, h.peer_nodeid)
<1>1. size = 26 /\ size \in Nat /\ 0 \in Nat BY DEF MAX_PLAIN_HDR_LEN
<1>2. /\ PlainFixed(h) \in Seq(Nat) /\ Len(PlainFixed(h)) = 8
      /\ h.peer_nodeid \in Seq(Nat) /\ Len(h.peer_nodeid) <= 8
      /\ PlainBytes(h) \in Seq(Nat)
  <2>1. Len(h.peer_nodeid) = (IF h.peer_nodeid = << >> THEN 0 ELSE 8) BY PlainParts
  <2>2. Len(h.peer_nodeid) <= 8 BY <2>1
  <2>3. /\ PlainFixed(h) \in Seq(Nat) /\ Len(PlainFixed(h)) = 8
        /\ h.peer_nodeid \in Seq(Nat) /\ PlainBytes(h) \in Seq(Nat)
    BY PlainParts
  <2> QED BY <2>2, <2>3
<1>3. << >> \in Seq(Nat) /\ Len(<< >>) = 0 /\ << >> \o PlainFixed(h) = PlainFixed(h)
  BY <1>2, ConcatEmptySeq
<1>4. EncodePlain(h) = c BY DEF EncodePlain, PlainFixed
<1> HIDE DEF size
<1>5. Filled(WriteBuf(size), size, 0, << >>) BY <1>1, EmptyIsFilled
<1>6. Filled(b, size, 0, PlainFixed(h))
  <2>1. 0 + Len(<< >>) + Len(PlainFixed(h)) <= size BY <1>1, <1>2, <1>3
  <2>2. Filled(b, size, 0, << >> \o PlainFixed(h)) BY <1>1, <1>2, <1>3, <1>5, <2>1, CopyFills
  <2> QED BY <1>3, <2>2
<1> HIDE DEF b
<1>7. Filled(c, size, 0, PlainBytes(h))
  <2>1. 0 + Len(PlainFixed(h)) + Len(h.peer_nodeid) <= size BY <1>1, <1>2
  <2>2. Filled(c, size, 0, PlainFixed(h) \o h.peer_nodeid)
    BY <1>1, <1>2, <1>6, <2>1, CopyFills
  <2> QED BY <2>2 DEF PlainBytes
<1> HIDE DEF c
<1>8. Written(c) = PlainBytes(h) BY <1>1, <1>2, <1>7, FilledIsWritten
<1> QED BY <1>4, <1>7, <1>8 DEF Filled

\* ProtoHdr::encode always fits and writes the header.
LEMMA ProtoIsEncoded ==
  ASSUME NEW h \in ProtoHdr
  PROVE  EncodeProto(h).ok /\ Written(EncodeProto(h)) = ProtoBytes(h)
<1> DEFINE size == MAX_PROTO_HDR_LEN
           b == CopyFromSlice(WriteBuf(size), ProtoFixed(h))
           c == IF "VENDOR" \notin h.flags THEN b ELSE CopyFromSlice(b, h.vendor)
           d == IF "ACK" \notin h.flags THEN c ELSE CopyFromSlice(c, h.ack)
<1>1. size = 12 /\ size \in Nat /\ 0 \in Nat BY DEF MAX_PROTO_HDR_LEN
<1>2. /\ ProtoFixed(h) \in Seq(Nat) /\ Len(ProtoFixed(h)) = 6
      /\ h.vendor \in Seq(Nat) /\ h.ack \in Seq(Nat)
      /\ IF "VENDOR" \in h.flags THEN Len(h.vendor) = 2 ELSE h.vendor = << >>
      /\ IF "ACK" \in h.flags THEN Len(h.ack) = 4 ELSE h.ack = << >>
      /\ ProtoBytes(h) \in Seq(Nat)
  BY ProtoParts
<1>3. << >> \in Seq(Nat) /\ Len(<< >>) = 0 /\ << >> \o ProtoFixed(h) = ProtoFixed(h)
  BY <1>2, ConcatEmptySeq
<1>4. EncodeProto(h) = d
  <2>1. /\ "VENDOR" \in h.flags => h.vendor # << >>
        /\ "ACK" \in h.flags => h.ack # << >>
    BY DEF ProtoHdr
  <2> QED BY <2>1 DEF EncodeProto, ProtoFixed
<1> HIDE DEF size
<1>5. Filled(WriteBuf(size), size, 0, << >>) BY <1>1, EmptyIsFilled
<1>6. Filled(b, size, 0, ProtoFixed(h))
  <2>1. 0 + Len(<< >>) + Len(ProtoFixed(h)) <= size BY <1>1, <1>2, <1>3
  <2>2. Filled(b, size, 0, << >> \o ProtoFixed(h)) BY <1>1, <1>2, <1>3, <1>5, <2>1, CopyFills
  <2> QED BY <1>3, <2>2
<1> HIDE DEF b
<1> DEFINE s == ProtoFixed(h) \o h.vendor
<1>7. Filled(c, size, 0, s) /\ s \in Seq(Nat) /\ Len(s) <= 8
  <2>1. s \in Seq(Nat) /\ Len(s) = 6 + Len(h.vendor)
    <3>1. Len(ProtoFixed(h)) = 6 BY <1>2
    <3>2. s \in Seq(Nat) /\ Len(s) = Len(ProtoFixed(h)) + Len(h.vendor) BY <1>2, Joins
    <3> HIDE DEF s
    <3> QED BY <3>1, <3>2
  <2>2. CASE "VENDOR" \in h.flags
    <3>1. Len(ProtoFixed(h)) = 6 BY <1>2
    <3>2. Len(h.vendor) = 2 BY <1>2, <2>2
    <3> HIDE DEF s
    <3>3. Len(s) = 8 BY <2>1, <3>2
    <3>4. 0 + Len(ProtoFixed(h)) + Len(h.vendor) <= size /\ Len(s) <= 8
      BY <1>1, <3>1, <3>2, <3>3
    <3>5. Filled(CopyFromSlice(b, h.vendor), size, 0, s)
      BY <1>1, <1>2, <1>6, <3>4, CopyFills DEF s
    <3> QED BY <2>1, <2>2, <3>4, <3>5
  <2>3. CASE "VENDOR" \notin h.flags
    <3>1. h.vendor = << >> BY <1>2, <2>3
    <3>2. s = ProtoFixed(h) BY <1>2, <3>1, ConcatEmptySeq
    <3> HIDE DEF s
    <3>3. Len(s) = 6 /\ s \in Seq(Nat) BY <1>2, <3>2
    <3>4. Len(s) <= 8 BY <3>3
    <3> QED BY <1>6, <2>3, <3>2, <3>3, <3>4
  <2> QED BY <2>2, <2>3
<1>8. ProtoBytes(h) = s \o h.ack BY DEF ProtoBytes
<1> HIDE DEF s, c
<1>9. Filled(d, size, 0, s \o h.ack)
  <2>1. CASE "ACK" \in h.flags
    <3>1. Len(h.ack) = 4 /\ Len(s) \in Nat /\ Len(s) <= 8 BY <1>2, <1>7, <2>1
    <3>2. 0 + Len(s) + Len(h.ack) <= size BY <1>1, <3>1
    <3>3. Filled(CopyFromSlice(c, h.ack), size, 0, s \o h.ack)
      BY <1>1, <1>2, <1>7, <3>2, CopyFills
    <3> QED BY <2>1, <3>3
  <2>2. CASE "ACK" \notin h.flags
    <3>1. s \o h.ack = s BY <1>2, <1>7, <2>2, ConcatEmptySeq
    <3> QED BY <1>7, <2>2, <3>1
  <2> QED BY <2>1, <2>2
<1> HIDE DEF d
<1>10. Filled(d, size, 0, ProtoBytes(h)) BY <1>8, <1>9
<1>11. Written(d) = ProtoBytes(h) BY <1>1, <1>2, <1>10, FilledIsWritten
<1> QED BY <1>4, <1>10, <1>11 DEF Filled

\* What is sent behind the plain header: it is sealed with a MIC if there is a key.
Text(proto, payload) == ProtoBytes(proto) \o payload
Sealed(proto, payload, key) ==
  IF key = << >> THEN Text(proto, payload) ELSE Text(proto, payload) \o Mic

\* Both headers fit the place that is reserved for them.
LEMMA HdrLengths ==
  ASSUME NEW plain \in PlainHdr, NEW proto \in ProtoHdr
  PROVE  /\ PlainBytes(plain) \in Seq(Nat) /\ Len(PlainBytes(plain)) \in 8 .. 16
         /\ ProtoBytes(proto) \in Seq(Nat) /\ Len(ProtoBytes(proto)) \in 6 .. 12
         /\ Len(PlainBytes(plain)) = (IF plain.peer_nodeid = << >> THEN 8 ELSE 16)
<1>1. /\ PlainBytes(plain) \in Seq(Nat) /\ Len(PlainBytes(plain)) \in 8 .. 16
      /\ Len(PlainBytes(plain)) = (IF plain.peer_nodeid = << >> THEN 8 ELSE 16)
  <2>1. /\ PlainBytes(plain) \in Seq(Nat)
        /\ Len(PlainBytes(plain)) = 8 + Len(plain.peer_nodeid)
        /\ Len(plain.peer_nodeid) = (IF plain.peer_nodeid = << >> THEN 0 ELSE 8)
    BY PlainParts
  <2>2. Len(PlainBytes(plain)) = (IF plain.peer_nodeid = << >> THEN 8 ELSE 16) BY <2>1
  <2>3. Len(PlainBytes(plain)) \in 8 .. 16 BY <2>2
  <2> QED BY <2>1, <2>2, <2>3
<1>2. ProtoBytes(proto) \in Seq(Nat) /\ Len(ProtoBytes(proto)) \in 6 .. 12
  <2>1. /\ ProtoBytes(proto) \in Seq(Nat)
        /\ Len(ProtoBytes(proto)) = 6 + Len(proto.vendor) + Len(proto.ack)
        /\ IF "VENDOR" \in proto.flags THEN Len(proto.vendor) = 2 ELSE proto.vendor = << >>
        /\ IF "ACK" \in proto.flags THEN Len(proto.ack) = 4 ELSE proto.ack = << >>
    BY ProtoParts
  <2>2. Len(proto.vendor) \in {0, 2}
    <3>1. CASE "VENDOR" \in proto.flags BY <2>1, <3>1
    <3>2. CASE "VENDOR" \notin proto.flags
      <4>1. proto.vendor = << >> BY <2>1, <3>2
      <4> QED BY <4>1
    <3> QED BY <3>1, <3>2
  <2>3. Len(proto.ack) \in {0, 4}
    <3>1. CASE "ACK" \in proto.flags BY <2>1, <3>1
    <3>2. CASE "ACK" \notin proto.flags
      <4>1. proto.ack = << >> BY <2>1, <3>2
      <4> QED BY <4>1
    <3> QED BY <3>1, <3>2
  <2>4. Len(ProtoBytes(proto)) \in 6 .. 12
    <3> DEFINE m == Len(proto.vendor)
               n == Len(proto.ack)
    <3>1. Len(ProtoBytes(proto)) = 6 + m + n BY <2>1
    <3>2. m \in {0, 2} /\ n \in {0, 4} BY <2>2, <2>3
    <3> HIDE DEF m, n
    <3>3. 6 + m + n \in 6 .. 12 BY <3>2
    <3> QED BY <3>1, <3>3
  <2> QED BY <2>1, <2>4
<1> QED BY <1>1, <1>2

\* What is sealed is the protocol header, the payload and, with a key, the MIC.
LEMMA SealedIs ==
  ASSUME NEW proto \in ProtoHdr, NEW payload \in Seq(Nat), NEW key
  PROVE  LET text == Text(proto, payload)
             tail == Sealed(proto, payload, key)
         IN /\ Mic \in Seq(Nat) /\ Len(Mic) = 16
            /\ text \in Seq(Nat) /\ Len(text) = Len(ProtoBytes(proto)) + Len(payload)
            /\ tail \in Seq(Nat) /\ OccursAt(tail, 0, text)
            /\ Len(tail) = Len(text) + (IF key = << >> THEN 0 ELSE 16)
            /\ key # << >> => OccursAt(tail, Len(text), Mic)
<1> DEFINE text == Text(proto, payload)
           tail == Sealed(proto, payload, key)
           p == ProtoBytes(proto)
<1>1. Mic \in Seq(Nat) /\ Len(Mic) = 16
  <2>1. Mic \in [1 .. 16 -> Nat] BY DEF Mic, MIC_LEN
  <2>2. 16 \in Nat OBVIOUS
  <2> QED BY <2>1, <2>2, OctetsAre DEF Octets
<1>2. p \in Seq(Nat) BY ProtoParts
<1> HIDE DEF p
<1>3. text \in Seq(Nat) /\ Len(text) = Len(p) + Len(payload) BY <1>2, Joins DEF Text, p
<1>4. tail = IF key = << >> THEN text ELSE text \o Mic BY DEF Sealed
<1> HIDE DEF text, tail
<1>5. Len(text) \in Nat /\ OccursAt(text, 0, text) BY <1>3 DEF OccursAt
<1>6. /\ text \o Mic \in Seq(Nat) /\ Len(text \o Mic) = Len(text) + Len(Mic)
      /\ OccursAt(text \o Mic, 0, text) /\ OccursAt(text \o Mic, Len(text), Mic)
  BY <1>1, <1>3, Joins
<1>7. CASE key = << >>
  <2>1. tail = text BY <1>4, <1>7
  <2>2. Len(text) = Len(text) + 0 BY <1>5
  <2> QED BY <1>1, <1>3, <1>5, <1>7, <2>1, <2>2 DEF text, tail, p
<1>8. CASE key # << >>
  <2>1. tail = text \o Mic BY <1>4, <1>8
  <2>2. Len(tail) = Len(text) + 16 BY <1>1, <1>6, <2>1
  <2> QED BY <1>1, <1>3, <1>6, <1>8, <2>1, <2>2 DEF text, tail, p
<1> QED BY <1>7, <1>8

\* do_send: the headers, the payload and the MIC stand in the datagram one after the other,
\* and what was sealed is the text with the plain header that goes before it.
LEMMA SentIs ==
  ASSUME NEW given, NEW proto \in ProtoHdr, NEW payload \in Seq(Nat), NEW key, NEW peer,
         NEW plain \in PlainHdr, plain = SetDest(given, key, peer),
         Iv(given) = Iv(plain),
         DoSend(given, proto, payload, key, peer).ok
  PROVE  DoSend(given, proto, payload, key, peer) =
           [ok |-> TRUE, bytes |-> PlainBytes(plain) \o Sealed(proto, payload, key),
            seal |-> << key, Iv(plain), PlainBytes(plain), Text(proto, payload) >>]
<1> DEFINE size == MAX_RX_BUF_SIZE
           empty == Reserve(WriteBuf(size), HDR_RESERVE)
           body == CopyFromSlice(empty, payload)
           p == ProtoBytes(proto)
           q == PlainBytes(plain)
           text == Prepend(body, p)
           sealed == IF key = << >> THEN text ELSE CopyFromSlice(text, Mic)
           full == Prepend(sealed, q)
           word == Text(proto, payload)
           tail == Sealed(proto, payload, key)
<1>1. size \in Nat /\ HDR_RESERVE = 38 /\ Len(payload) \in Nat
  BY DatagramAssumption DEF HDR_RESERVE, MAX_PLAIN_HDR_LEN, MAX_PROTO_HDR_LEN
<1>2. /\ p \in Seq(Nat) /\ Len(p) \in 6 .. 12 /\ q \in Seq(Nat) /\ Len(q) \in 8 .. 16
  BY HdrLengths
<1>3. DoSend(given, proto, payload, key, peer) =
        [ok |-> full.ok, bytes |-> Written(full),
         seal |-> << key, Iv(plain), q, Written(text) >>]
  <2>1. EncodeProto(proto).ok /\ Written(EncodeProto(proto)) = p BY ProtoIsEncoded
  <2>2. EncodePlain(plain).ok /\ Written(EncodePlain(plain)) = q BY PlainIsEncoded
  <2> HIDE DEF p, q
  <2> QED BY <2>1, <2>2 DEF DoSend
<1>4. /\ Mic \in Seq(Nat) /\ Len(Mic) = 16 /\ word \in Seq(Nat) /\ tail \in Seq(Nat)
      /\ word = p \o payload /\ tail = IF key = << >> THEN word ELSE word \o Mic
  BY SealedIs DEF Text, Sealed
<1> HIDE DEF p, q, word, tail
<1>5. full.ok BY <1>3
<1> HIDE DEF full
<1>6. 38 <= size /\ 38 + Len(payload) <= size
  <2>1. empty = [WriteBuf(size) EXCEPT !.start = 38, !.end = 38] BY <1>1 DEF Reserve, WriteBuf
  <2>2. WriteBuf(size) \in WriteBufs(size)
    BY <1>1, EmptyIsFilled DEF Filled
  <2> HIDE DEF empty
  <2>3. empty \in WriteBufs(size) /\ empty.end = 38 BY <2>1, <2>2 DEF WriteBufs
  <2>4. SUFFICES ASSUME ~ (38 + Len(payload) <= size) PROVE FALSE BY <1>1
  <2>5. body \in WriteBufs(size) /\ ~ body.ok BY <1>1, <2>3, <2>4, StaysFailed
  <2> HIDE DEF body
  <2>6. text \in WriteBufs(size) /\ ~ text.ok BY <1>1, <1>2, <2>5, StaysFailed
  <2> HIDE DEF text
  <2>7. sealed \in WriteBufs(size) /\ ~ sealed.ok BY <1>1, <1>4, <2>6, StaysFailed
  <2> HIDE DEF sealed
  <2> QED BY <1>1, <1>2, <1>5, <2>7, StaysFailed DEF full
<1>7. Filled(empty, size, 38, << >>) BY <1>1, <1>6, EmptyIsFilled
<1> HIDE DEF empty
<1>8. Filled(body, size, 38, payload)
  <2>1. << >> \in Seq(Nat) /\ << >> \o payload = payload BY ConcatEmptySeq
  <2>2. Len(<< >>) = 0 OBVIOUS
  <2>3. 38 + Len(<< >>) + Len(payload) <= size BY <1>1, <1>6, <2>2
  <2>4. Filled(body, size, 38, << >> \o payload) BY <1>1, <1>7, <2>1, <2>3, CopyFills
  <2> QED BY <2>1, <2>4
<1> HIDE DEF body
<1> DEFINE start == 38 - Len(p)
<1>9. Filled(text, size, start, word) /\ start \in Nat /\ start >= 26
  <2>1. Len(p) <= 38 /\ start \in Nat /\ start >= 26
    <3> DEFINE m == Len(p)
    <3>1. m \in 6 .. 12 BY <1>2
    <3> HIDE DEF m
    <3>2. m <= 38 /\ 38 - m \in Nat /\ 38 - m >= 26 BY <3>1
    <3> QED BY <3>2 DEF m
  <2>2. Filled(text, size, 38 - Len(p), p \o payload) BY <1>1, <1>2, <1>8, <2>1, PrependFills
  <2> QED BY <1>4, <2>1, <2>2
<1> HIDE DEF start, text
<1>10. Written(text) = word BY <1>1, <1>4, <1>9, FilledIsWritten
<1>11. Filled(sealed, size, start, tail)
  <2>1. CASE key = << >> BY <1>4, <1>9, <2>1
  <2>2. CASE key # << >>
    <3>1. sealed = CopyFromSlice(text, Mic) /\ tail = word \o Mic BY <1>4, <2>2
    <3>2. text \in WriteBufs(size) /\ text.end = start + Len(word) /\ text.ok
      BY <1>9 DEF Filled
    <3>3. start + Len(word) + Len(Mic) <= size
      <4>1. SUFFICES ASSUME ~ (text.ok /\ text.end + Len(Mic) <= size) PROVE FALSE
        BY <3>2
      <4>2. sealed \in WriteBufs(size) /\ ~ sealed.ok
        BY <1>1, <1>4, <3>1, <3>2, <4>1, StaysFailed
      <4> HIDE DEF sealed
      <4> QED BY <1>1, <1>2, <1>5, <4>2, StaysFailed DEF full
    <3> QED BY <1>1, <1>4, <1>9, <3>1, <3>3, CopyFills
  <2> QED BY <2>1, <2>2
<1> HIDE DEF sealed
<1>12. Filled(full, size, start - Len(q), q \o tail) /\ start - Len(q) \in Nat
  <2>1. Len(q) <= start /\ start - Len(q) \in Nat
    <3> DEFINE m == Len(q)
    <3>1. m \in 8 .. 16 BY <1>2
    <3> HIDE DEF m
    <3>2. m <= start /\ start - m \in Nat BY <1>9, <3>1
    <3> QED BY <3>2 DEF m
  <2> QED BY <1>1, <1>2, <1>4, <1>9, <1>11, <2>1, PrependFills DEF full
<1>13. Written(full) = q \o tail
  <2>1. q \o tail \in Seq(Nat) BY <1>2, <1>4, Joins
  <2> QED BY <1>1, <1>12, <2>1, FilledIsWritten
<1> QED BY <1>3, <1>5, <1>10, <1>13 DEF p, q, word, tail, full

(***************************************************************************)
(* Receiving.                                                              *)
(***************************************************************************)
\* A buffer that holds the first len bytes of s and is to read left bytes from off on.
Cursor(s, len, off, left) ==
  [buf |-> SubSeq(s, 1, len), read_off |-> off, left |-> left, ok |-> TRUE]

\* parse_head_with advances the cursor, if that many bytes are left.
LEMMA HeadIs ==
  ASSUME NEW s \in Seq(Nat), NEW len \in Nat, NEW off \in Nat, NEW left \in Nat, NEW n \in Nat
  PROVE  LET pb == Cursor(s, len, off, left) IN
           /\ left >= n => ParseHead(pb, n) = Cursor(s, len, off + n, left - n)
           /\ ~ left >= n => ParseHead(pb, n) = Failed(pb)
BY DEF ParseHead, Cursor

\* A part of n bytes that is there if the flag is: what is read of it.
Took(pb, flag, flags, n) == IF flag \in flags THEN ParseHead(pb, n) ELSE pb

\* The same for a part that may be absent.
LEMMA TookIs ==
  ASSUME NEW s \in Seq(Nat), NEW len \in Nat, NEW off \in Nat, NEW left \in Nat,
         NEW flag, NEW flags, NEW n \in Nat, NEW t \in Seq(Nat),
         IF flag \in flags THEN Len(t) = n ELSE t = << >>
  PROVE  LET pb == Cursor(s, len, off, left)
             got == Took(pb, flag, flags, n)
         IN /\ left >= Len(t) => got = Cursor(s, len, off + Len(t), left - Len(t))
            /\ ~ left >= Len(t) => got = Failed(pb)
<1> DEFINE pb == Cursor(s, len, off, left)
           got == Took(pb, flag, flags, n)
<1>1. CASE flag \in flags
  <2>1. Len(t) = n /\ got = ParseHead(pb, n) BY <1>1 DEF Took
  <2> HIDE DEF got
  <2> QED BY <2>1, HeadIs DEF got
<1>2. CASE flag \notin flags
  <2>1. t = << >> BY <1>2
  <2>2. Len(t) = 0 BY <2>1
  <2>3. off + 0 = off /\ left - 0 = left /\ left >= 0 OBVIOUS
  <2>4. got = pb BY <1>2 DEF Took
  <2> QED BY <2>2, <2>3, <2>4
<1> QED BY <1>1, <1>2

\* A field that stands in the part that arrived is read as it was written.
LEMMA FieldIs ==
  ASSUME NEW s \in Seq(Nat), NEW len \in 0 .. Len(s), NEW off \in Nat, NEW left \in Nat,
         NEW t \in Seq(Nat), NEW n \in Nat, NEW pos \in Nat, Len(t) = n,
         NEW m \in Nat, m = off + pos, OccursAt(s, m, t), m + n <= len
  PROVE  Field(Cursor(s, len, off, left), n, pos) = t
<1>1. Slice(SubSeq(s, 1, len), m, m + Len(t)) = t BY ReadBack
<1> QED BY <1>1 DEF Field, Cursor

\* What is unread of the part that arrived is the beginning of what was sent there.
LeftOf(s, t, len, off, left) ==
  OccursAt(s, off, t) /\ len \in 0 .. Len(s) /\ left \in 0 .. Len(t) /\ off + left <= len

LEMMA UnreadIs ==
  ASSUME NEW s \in Seq(Nat), NEW t \in Seq(Nat), NEW off \in Nat, NEW len, NEW left,
         LeftOf(s, t, len, off, left)
  PROVE  Unread(Cursor(s, len, off, left)) = SubSeq(t, 1, left)
<1>1. Slice(SubSeq(s, 1, len), off, off + left) = SubSeq(t, 1, left) BY RestBack DEF LeftOf
<1> QED BY <1>1 DEF Unread, Cursor

\* A single byte is read as it was sent.
LEMMA ByteIs ==
  ASSUME NEW s \in Seq(Nat), NEW len \in 0 .. Len(s), NEW off \in Nat, NEW left \in Nat,
         NEW pos \in Nat, off + pos + 1 <= len
  PROVE  Field(Cursor(s, len, off, left), 1, pos)[1] = s[off + pos + 1]
<1> DEFINE c == SubSeq(s, 1, len)
           m == off + pos
<1>1. c \in Seq(Nat) /\ Len(c) = len /\ \A i \in 1 .. len : c[i] = s[i] BY CutIs
<1>2. /\ m \in Nat /\ m + 1 \in Nat /\ m <= m + 1 /\ m + 1 <= len /\ (m + 1) - m = 1
      /\ 1 \in 1 .. 1 /\ m + 1 \in 1 .. len
  OBVIOUS
<1>3. Field(Cursor(s, len, off, left), 1, pos) = Slice(c, m, m + 1) BY DEF Field, Cursor
<1> HIDE DEF c, m
<1>4. \A i \in 1 .. 1 : Slice(c, m, m + 1)[i] = c[m + i]
  <2> DEFINE n == m + 1
  <2>1. n \in Nat /\ m <= n /\ n <= len /\ n - m = 1 BY <1>2
  <2> HIDE DEF n
  <2>2. \A i \in 1 .. n - m : Slice(c, m, n)[i] = c[m + i]
    <3>1. m \in Nat BY <1>2
    <3> QED BY <1>1, <2>1, <3>1, SliceIs
  <2> QED BY <2>1, <2>2 DEF n
<1>5. Slice(c, m, m + 1)[1] = c[m + 1] BY <1>2, <1>4
<1>6. c[m + 1] = s[m + 1] BY <1>1, <1>2
<1> QED BY <1>3, <1>5, <1>6 DEF m

\* How many bytes of a plain header are read: those of a destination are not.
ReadLen(h) == 8 + Len(NodeOf(h))

\* PlainHdr::decode reads that part of the header back if all of it arrived, and refuses
\* it if not.
LEMMA PlainIsDecoded ==
  ASSUME NEW h \in PlainHdr, NEW s \in Seq(Nat), OccursAt(s, 0, PlainBytes(h)),
         NEW len \in 0 .. Len(s)
  PROVE  LET got == DecodePlain(Cursor(s, len, 0, len))
             q == ReadLen(h)
         IN /\ len >= q => got = [pb |-> Cursor(s, len, q, len - q), hdr |-> << Understood(h) >>]
            /\ ~ len >= q => ~ got.pb.ok /\ got.pb.buf = SubSeq(s, 1, len)
<1> DEFINE pb == Cursor(s, len, 0, len)
           w == PlainBytes(h)
           node == NodeOf(h)
           q == 8 + Len(node)
           fixed == ParseHead(pb, 8)
           source == ParseHead(fixed, 8)
           flags == FromBits(pb.buf[1], MsgFlags)
           got == DecodePlain(pb)
           end == IF "SRC_ADDR_PRESENT" \in flags THEN source ELSE fixed
           hdr == [flags |-> flags, sess_id |-> Field(pb, 2, 1), ctr |-> Field(pb, 4, 4),
                   peer_nodeid |-> IF "SRC_ADDR_PRESENT" \in flags /\ source.ok
                                   THEN Field(fixed, 8, 0) ELSE << >>]
<1>1. /\ w \in Seq(Nat) /\ node \in Seq(Nat)
      /\ Len(w) = 8 + Len(h.peer_nodeid) /\ Len(node) <= Len(h.peer_nodeid)
      /\ IF "SRC_ADDR_PRESENT" \in h.flags THEN Len(node) = 8 ELSE node = << >>
      /\ h.flags \in SUBSET Range(MsgFlags)
      /\ w[1] = FlagBits(h.flags, MsgFlags)
      /\ OccursAt(w, 1, h.sess_id) /\ OccursAt(w, 4, h.ctr) /\ OccursAt(w, 8, node)
      /\ Len(h.sess_id) = 2 /\ Len(h.ctr) = 4
      /\ h.sess_id \in Seq(Nat) /\ h.ctr \in Seq(Nat)
  BY PlainParts
<1> HIDE DEF node
<1>2. q \in 8 .. 16 /\ q \in Nat /\ len \in Nat /\ Len(w) \in Nat /\ 1 <= Len(w)
  <2>1. Len(node) \in {0, 8}
    <3>1. CASE "SRC_ADDR_PRESENT" \in h.flags BY <1>1, <3>1
    <3>2. CASE "SRC_ADDR_PRESENT" \notin h.flags
      <4>1. node = << >> BY <1>1, <3>2
      <4> QED BY <4>1
    <3> QED BY <3>1, <3>2
  <2>2. q \in 8 .. 16
    <3> DEFINE i == Len(node)
    <3>1. i \in {0, 8} BY <2>1
    <3> HIDE DEF i
    <3>2. 8 + i \in 8 .. 16 BY <3>1
    <3> QED BY <3>2 DEF i
  <2> DEFINE m == Len(h.peer_nodeid)
             k == Len(w)
             j == Len(node)
  <2>3. k = 8 + m /\ j <= m /\ j \in {0, 8} /\ k \in Nat BY <1>1, <2>1
  <2> HIDE DEF m, k, j
  <2>4. 1 <= k /\ k \in Nat
    <3>1. h.peer_nodeid \in Octets(8) \union {<< >>} BY DEF PlainHdr
    <3>2. m \in Nat
      <4>1. CASE h.peer_nodeid = << >> BY <4>1 DEF m
      <4>2. CASE h.peer_nodeid # << >>
        <5>1. h.peer_nodeid \in Octets(8) BY <3>1, <4>2
        <5>2. 8 \in Nat OBVIOUS
        <5>3. Len(h.peer_nodeid) = 8 BY <5>1, <5>2, OctetsAre
        <5> QED BY <5>3 DEF m
      <4> QED BY <4>1, <4>2
    <3> QED BY <2>3, <3>2
  <2> QED BY <2>2, <2>4 DEF k
<1> HIDE DEF w
<1>3. got = IF ~fixed.ok THEN [pb |-> fixed, hdr |-> << >>]
            ELSE IF ~IsFlags(pb.buf[1], MsgFlags) THEN [pb |-> Failed(pb), hdr |-> << >>]
            ELSE [pb |-> end, hdr |-> << hdr >>]
  BY DEF DecodePlain
<1>4. pb.buf = SubSeq(s, 1, len) /\ pb.left = len /\ pb.ok BY DEF Cursor
<1> HIDE DEF q
<1>5. CASE ~ (len >= 8)
  <2>1. fixed = Failed(pb) BY <1>4, <1>5 DEF ParseHead
  <2>2. ~ fixed.ok /\ fixed.buf = SubSeq(s, 1, len) BY <2>1 DEF Failed, Cursor
  <2>3. got.pb = fixed BY <1>3, <2>2
  <2>4. ~ len >= q BY <1>2, <1>5
  <2> QED BY <2>2, <2>3, <2>4 DEF q, node, ReadLen
<1>6. CASE len >= 8
  <2>1. fixed = Cursor(s, len, 8, len - 8) /\ fixed.ok
    <3>1. 0 \in Nat /\ 8 \in Nat /\ 0 + 8 = 8 OBVIOUS
    <3>2. fixed = Cursor(s, len, 0 + 8, len - 8) BY <1>2, <1>6, <3>1, HeadIs
    <3>3. Cursor(s, len, 8, len - 8).ok BY DEF Cursor
    <3> QED BY <3>1, <3>2, <3>3
  <2>2. pb.buf[1] = FlagBits(h.flags, MsgFlags)
    <3>1. SubSeq(s, 1, len)[1] = s[1] BY <1>2, <1>6, CutIs
    <3>2. s[0 + 1] = w[1]
      <4>1. 1 \in 1 .. Len(w) BY <1>2
      <4> QED BY <4>1 DEF OccursAt, w
    <3>3. w[1] = FlagBits(h.flags, MsgFlags) BY <1>1
    <3>4. pb.buf[1] = SubSeq(s, 1, len)[1] BY <1>4
    <3>5. s[1] = w[1] BY <3>2
    <3> QED BY <3>1, <3>3, <3>4, <3>5
  <2>3. IsFlags(pb.buf[1], MsgFlags) /\ flags = h.flags BY <1>1, <2>2, FlagsBack
  <2>4. got = [pb |-> end, hdr |-> << hdr >>] BY <1>3, <2>1, <2>3
  <2> HIDE DEF got, fixed, flags
  <2>5. end = Took(fixed, "SRC_ADDR_PRESENT", h.flags, 8) BY <2>3 DEF Took
  <2>6. /\ len - 8 >= Len(node) =>
             end = Cursor(s, len, 8 + Len(node), (len - 8) - Len(node))
        /\ ~ (len - 8 >= Len(node)) => end = Failed(fixed)
    <3> DEFINE eight == 8
               left == len - 8
               flag == "SRC_ADDR_PRESENT"
    <3>1. left \in Nat /\ eight \in Nat /\ len \in Nat BY <1>2, <1>6
    <3>2. /\ node \in Seq(Nat)
          /\ IF flag \in h.flags THEN Len(node) = eight ELSE node = << >>
      BY <1>1
    <3>3. fixed = Cursor(s, len, eight, left) /\ end = Took(fixed, flag, h.flags, eight)
      BY <2>1, <2>5
    <3> HIDE DEF end, eight, left, flag
    <3>4. /\ left >= Len(node) =>
               end = Cursor(s, len, eight + Len(node), left - Len(node))
          /\ ~ (left >= Len(node)) => end = Failed(fixed)
      BY <3>1, <3>2, <3>3, TookIs
    <3> QED BY <3>4 DEF eight, left
  <2> HIDE DEF end
  <2>7. CASE ~ (len >= q)
    <3>1. ~ (len - 8 >= Len(node))
      <4> DEFINE n == Len(node)
      <4>1. n \in Nat /\ q = 8 + n BY <1>1 DEF q
      <4> HIDE DEF n
      <4>2. ~ (len - 8 >= n) BY <1>2, <2>7, <4>1
      <4> QED BY <4>2 DEF n
    <3>2. end = Failed(fixed) BY <2>6, <3>1
    <3>3. ~ end.ok /\ end.buf = SubSeq(s, 1, len) BY <2>1, <3>2 DEF Failed, Cursor
    <3> QED BY <2>4, <2>7, <3>3 DEF got, q, node, ReadLen
  <2>8. CASE len >= q
    <3>1. /\ len - 8 >= Len(node) /\ 8 + Len(node) = q
          /\ (len - 8) - Len(node) = len - q
      <4> DEFINE n == Len(node)
      <4>1. n \in Nat /\ q = 8 + n BY <1>1 DEF q
      <4> HIDE DEF n
      <4>2. len - 8 >= n /\ (len - 8) - n = len - q /\ 8 + n = q BY <1>2, <2>8, <4>1
      <4> QED BY <4>2 DEF n
    <3>2. end = Cursor(s, len, q, len - q) BY <2>6, <3>1
    <3>3. OccursAt(s, 1, h.sess_id) /\ OccursAt(s, 4, h.ctr)
      <4>1. OccursAt(s, 0 + 1, h.sess_id) /\ OccursAt(s, 0 + 4, h.ctr)
        BY <1>1, OccursIn DEF w
      <4> QED BY <4>1
    <3>4. Field(pb, 2, 1) = h.sess_id
      <4> DEFINE off == 0
                 pos == 1
                 n == 2
      <4>1. /\ off \in Nat /\ pos \in Nat /\ n \in Nat /\ len \in Nat
            /\ pos = off + pos /\ pos + n <= len
        BY <1>2, <1>6
      <4>2. h.sess_id \in Seq(Nat) /\ Len(h.sess_id) = n /\ OccursAt(s, pos, h.sess_id) BY <1>1, <3>3
      <4> HIDE DEF off, pos, n
      <4>3. Field(Cursor(s, len, off, len), n, pos) = h.sess_id BY <4>1, <4>2, FieldIs
      <4> QED BY <4>3 DEF off, pos, n
    <3>5. Field(pb, 4, 4) = h.ctr
      <4> DEFINE off == 0
                 pos == 4
                 n == 4
      <4>1. /\ off \in Nat /\ pos \in Nat /\ n \in Nat /\ len \in Nat
            /\ pos = off + pos /\ pos + n <= len
        BY <1>2, <1>6
      <4>2. h.ctr \in Seq(Nat) /\ Len(h.ctr) = n /\ OccursAt(s, pos, h.ctr) BY <1>1, <3>3
      <4> HIDE DEF off, pos, n
      <4>3. Field(Cursor(s, len, off, len), n, pos) = h.ctr BY <4>1, <4>2, FieldIs
      <4> QED BY <4>3 DEF off, pos, n
    <3>6. hdr.peer_nodeid = node
      <4>1. CASE "SRC_ADDR_PRESENT" \in h.flags
        <5>1. Len(node) = 8 BY <1>1, <4>1
        <5>2. source = end BY <2>3, <4>1 DEF end
        <5>3. source.ok BY <3>2, <5>2 DEF Cursor
        <5>4. OccursAt(s, 8, node)
          <6>1. OccursAt(s, 0 + 8, node) BY <1>1, OccursIn DEF w
          <6> QED BY <6>1
        <5>5. 8 + 8 <= len /\ 8 = 8 + 0 BY <1>2, <2>8, <3>1, <5>1
        <5>6. Field(Cursor(s, len, 8, len - 8), 8, 0) = node
          <6> DEFINE off == 8
                     pos == 0
                     n == 8
                     left == len - 8
          <6>1. /\ off \in Nat /\ pos \in Nat /\ n \in Nat /\ left \in Nat
                /\ off = off + pos /\ off + n <= len
            BY <1>2, <1>6, <5>5
          <6>2. /\ node \in Seq(Nat) /\ Len(node) = n
                /\ OccursAt(s, off, node)
            BY <1>1, <5>1, <5>4
          <6> HIDE DEF off, pos, n, left
          <6>3. Field(Cursor(s, len, off, left), n, pos) = node BY <6>1, <6>2, FieldIs
          <6> QED BY <6>3 DEF off, pos, n, left
        <5> QED BY <2>1, <2>3, <4>1, <5>3, <5>6
      <4>2. CASE "SRC_ADDR_PRESENT" \notin h.flags BY <1>1, <2>3, <4>2
      <4> QED BY <4>1, <4>2
    <3>7. hdr = Understood(h)
      <4>1. Understood(h) = [flags |-> h.flags, sess_id |-> h.sess_id, ctr |-> h.ctr,
                             peer_nodeid |-> node]
        BY UnderstoodIs DEF node
      <4>2. hdr = [flags |-> h.flags, sess_id |-> h.sess_id, ctr |-> h.ctr,
                   peer_nodeid |-> hdr.peer_nodeid]
        BY <2>3, <3>4, <3>5
      <4> HIDE DEF hdr
      <4> QED BY <3>6, <4>1, <4>2
    <3> HIDE DEF hdr
    <3>8. got = [pb |-> Cursor(s, len, q, len - q), hdr |-> << Understood(h) >>]
      BY <2>4, <3>2, <3>7
    <3> QED BY <2>8, <3>8 DEF got, q, node, ReadLen
  <2> QED BY <2>7, <2>8
<1> QED BY <1>2, <1>5, <1>6

\* ProtoHdr::decode, which may stop short of what arrived (the MIC follows).
LEMMA ProtoIsDecoded ==
  ASSUME NEW h \in ProtoHdr, NEW s \in Seq(Nat), NEW q \in Nat, OccursAt(s, q, ProtoBytes(h)),
         NEW len \in 0 .. Len(s), NEW left \in Nat, q + left <= len
  PROVE  LET got == DecodeProto(Cursor(s, len, q, left))
             r == Len(ProtoBytes(h))
         IN /\ left >= r => got = [pb |-> Cursor(s, len, q + r, left - r), hdr |-> << h >>]
            /\ ~ left >= r => ~ got.pb.ok
<1> DEFINE pb == Cursor(s, len, q, left)
           w == ProtoBytes(h)
           r == Len(w)
           v == Len(h.vendor)
           a == Len(h.ack)
           byte == Field(pb, 1, 0)[1]
           fixed == ParseHead(pb, 6)
           flags == FromBits(byte, ExchFlags)
           vendor == IF "VENDOR" \in flags THEN ParseHead(fixed, 2) ELSE fixed
           ack == IF "ACK" \in flags THEN ParseHead(vendor, 4) ELSE vendor
           got == DecodeProto(pb)
           hdr == [flags |-> flags, opcode |-> Field(pb, 1, 1)[1],
                   exch_id |-> Field(pb, 2, 2), proto_id |-> Field(pb, 2, 4),
                   vendor |-> IF "VENDOR" \in flags THEN Field(fixed, 2, 0) ELSE << >>,
                   ack |-> IF "ACK" \in flags THEN Field(vendor, 4, 0) ELSE << >>]
<1>1. /\ w \in Seq(Nat) /\ r = 6 + v + a
      /\ h.vendor \in Seq(Nat) /\ h.ack \in Seq(Nat)
      /\ IF "VENDOR" \in h.flags THEN v = 2 ELSE h.vendor = << >>
      /\ IF "ACK" \in h.flags THEN a = 4 ELSE h.ack = << >>
      /\ h.flags \in SUBSET Range(ExchFlags)
      /\ w[1] = FlagBits(h.flags, ExchFlags) /\ w[2] = h.opcode
      /\ OccursAt(w, 2, h.exch_id) /\ OccursAt(w, 4, h.proto_id)
      /\ OccursAt(w, 6, h.vendor) /\ OccursAt(w, 6 + v, h.ack)
      /\ Len(h.exch_id) = 2 /\ Len(h.proto_id) = 2
      /\ h.exch_id \in Seq(Nat) /\ h.proto_id \in Seq(Nat)
  BY ProtoParts
<1>2. v \in Nat /\ a \in Nat /\ r \in Nat /\ len \in Nat /\ r = 6 + v + a
  <2>1. w \in Seq(Nat) /\ h.vendor \in Seq(Nat) /\ h.ack \in Seq(Nat) BY <1>1
  <2>2. r = 6 + v + a BY <1>1
  <2> HIDE DEF w
  <2>3. r \in Nat /\ v \in Nat /\ a \in Nat BY <2>1
  <2> HIDE DEF r, v, a
  <2> QED BY <2>2, <2>3
<1>3. got = IF ~fixed.ok THEN [pb |-> fixed, hdr |-> << >>]
            ELSE IF ~IsFlags(byte, ExchFlags) \/ ~ack.ok
                 THEN [pb |-> Failed(pb), hdr |-> << >>]
            ELSE [pb |-> ack, hdr |-> << hdr >>]
  BY DEF DecodeProto
<1> HIDE DEF w, r, v, a
<1>4. CASE ~ (left >= 6)
  <2>1. fixed = Failed(pb) BY <1>4 DEF ParseHead, Cursor
  <2>2. ~ fixed.ok BY <2>1 DEF Failed, Cursor
  <2>3. got.pb = fixed BY <1>3, <2>2
  <2>4. ~ left >= r BY <1>2, <1>4
  <2> QED BY <2>2, <2>3, <2>4 DEF r, w
<1>5. CASE left >= 6
  <2>1. fixed = Cursor(s, len, q + 6, left - 6) /\ fixed.ok
    <3> DEFINE six == 6
    <3>1. six \in Nat /\ left >= six BY <1>5
    <3> HIDE DEF six
    <3>2. ParseHead(pb, six) = Cursor(s, len, q + six, left - six) BY <1>2, <3>1, HeadIs
    <3>3. Cursor(s, len, q + 6, left - 6).ok BY DEF Cursor
    <3> QED BY <3>2, <3>3 DEF six
  <2>2. s[q + 1] = w[1] /\ s[q + 2] = w[2]
    <3>1. 1 \in 1 .. r /\ 2 \in 1 .. r BY <1>2
    <3> QED BY <3>1 DEF OccursAt, w, r
  <2>3. byte = FlagBits(h.flags, ExchFlags) /\ Field(pb, 1, 1)[1] = h.opcode
    <3> DEFINE zero == 0
               one == 1
    <3>1. /\ zero \in Nat /\ one \in Nat /\ q + zero + 1 <= len /\ q + one + 1 <= len
          /\ q + zero + 1 = q + 1 /\ q + one + 1 = q + 2
      BY <1>2, <1>5
    <3> HIDE DEF zero, one
    <3>2. Field(pb, 1, zero)[1] = s[q + zero + 1] BY <3>1, ByteIs
    <3>3. Field(pb, 1, one)[1] = s[q + one + 1] BY <3>1, ByteIs
    <3>4. Field(pb, 1, zero)[1] = w[1] /\ Field(pb, 1, one)[1] = w[2]
      BY <2>2, <3>1, <3>2, <3>3
    <3> QED BY <1>1, <3>4 DEF zero, one
  <2>4. IsFlags(byte, ExchFlags) /\ flags = h.flags BY <1>1, <2>3, FlagsBack
  <2>5. got = IF ~ack.ok THEN [pb |-> Failed(pb), hdr |-> << >>]
              ELSE [pb |-> ack, hdr |-> << hdr >>]
    BY <1>3, <2>1, <2>4
  <2> DEFINE off == q + 6
             rest == left - 6
  <2>6. off \in Nat /\ rest \in Nat BY <1>5
  <2>7. /\ rest >= v => vendor = Cursor(s, len, off + v, rest - v)
        /\ ~ rest >= v => vendor = Failed(fixed)
    <3> DEFINE two == 2
               flag == "VENDOR"
    <3>1. two \in Nat OBVIOUS
    <3>2. fixed = Cursor(s, len, off, rest) /\ vendor = Took(fixed, flag, h.flags, two)
      BY <2>1, <2>4 DEF Took
    <3>3. /\ IF flag \in h.flags THEN Len(h.vendor) = two ELSE h.vendor = << >>
          /\ h.vendor \in Seq(Nat)
      BY <1>1 DEF v
    <3> HIDE DEF two, flag, off, rest, vendor, fixed
    <3> QED BY <1>2, <2>6, <3>1, <3>2, <3>3, TookIs DEF v
  <2> DEFINE off2 == off + v
             rest2 == rest - v
  <2>8. rest >= v /\ rest2 >= a => ack = Cursor(s, len, off2 + a, rest2 - a)
    <3> DEFINE four == 4
               flag == "ACK"
    <3>1. SUFFICES ASSUME rest >= v, rest2 >= a PROVE ack = Cursor(s, len, off2 + a, rest2 - a)
      OBVIOUS
    <3>2. four \in Nat OBVIOUS
    <3>3. vendor = Cursor(s, len, off2, rest2) /\ ack = Took(vendor, flag, h.flags, four)
      BY <2>4, <2>7, <3>1 DEF Took
    <3>4. /\ IF flag \in h.flags THEN Len(h.ack) = four ELSE h.ack = << >>
          /\ h.ack \in Seq(Nat)
      BY <1>1 DEF a
    <3>5. off2 \in Nat /\ rest2 \in Nat BY <1>2, <2>6, <3>1
    <3> HIDE DEF four, flag, off, rest, off2, rest2, vendor, ack
    <3> QED BY <1>2, <3>1, <3>2, <3>3, <3>4, <3>5, TookIs DEF a
  <2>9. ~ (rest >= v /\ rest2 >= a) => ~ ack.ok
    <3>1. CASE ~ (rest >= v)
      <4>1. vendor = Failed(Cursor(s, len, off, rest)) BY <2>1, <2>7, <3>1
      <4>2. ~ vendor.ok /\ ~ Failed(vendor).ok BY <4>1 DEF Failed, Cursor
      <4> HIDE DEF vendor
      <4>3. ack = vendor \/ ack = Failed(vendor) BY <4>2 DEF ParseHead
      <4> QED BY <4>2, <4>3
    <3>2. CASE rest >= v /\ ~ (rest2 >= a)
      <4>1. vendor = Cursor(s, len, off2, rest2) BY <2>7, <3>2
      <4>2. off2 \in Nat /\ rest2 \in Nat BY <1>2, <2>6, <3>2
      <4> DEFINE four == 4
                 flag == "ACK"
      <4>3. four \in Nat /\ ack = Took(vendor, flag, h.flags, four) BY <2>4 DEF Took
      <4>4. /\ IF flag \in h.flags THEN Len(h.ack) = four ELSE h.ack = << >>
            /\ h.ack \in Seq(Nat)
        BY <1>1 DEF a
      <4> HIDE DEF four, flag, off, rest, off2, rest2, vendor, ack
      <4>5. /\ ack = Took(Cursor(s, len, off2, rest2), flag, h.flags, four)
            /\ ~ (rest2 >= Len(h.ack)) /\ len \in Nat
        BY <1>2, <3>2, <4>1, <4>3 DEF a
      <4>6. ~ (rest2 >= Len(h.ack)) => ack = Failed(Cursor(s, len, off2, rest2))
        <5>1. off2 \in Nat /\ rest2 \in Nat /\ four \in Nat /\ len \in Nat BY <4>2, <4>3, <4>5
        <5> DEFINE it == Cursor(s, len, off2, rest2)
                   had == Took(it, flag, h.flags, four)
        <5>2. had = ack BY <4>5
        <5>3. ~ (rest2 >= Len(h.ack)) => had = Failed(it) BY <4>4, <5>1, TookIs
        <5> HIDE DEF had
        <5> QED BY <5>2, <5>3
      <4> QED BY <4>5, <4>6 DEF Failed, Cursor
    <3> QED BY <3>1, <3>2
  <2> HIDE DEF got, fixed, flags, vendor, ack, byte
  <2>10. CASE ~ (left >= r)
    <3>1. ~ (rest >= v /\ rest2 >= a) BY <1>2, <2>10
    <3>2. ~ ack.ok BY <2>9, <3>1
    <3>3. got.pb = Failed(pb) BY <2>5, <3>2
    <3>4. ~ Failed(pb).ok BY DEF Failed, Cursor
    <3> QED BY <2>10, <3>3, <3>4 DEF got, r, w
  <2>11. CASE left >= r
    <3>1. rest >= v /\ rest2 >= a /\ off2 + a = q + r /\ rest2 - a = left - r
      BY <1>2, <2>11
    <3>2. ack = Cursor(s, len, q + r, left - r) BY <2>8, <3>1
    <3>3. ack.ok BY <3>2 DEF Cursor
    <3>4. hdr.exch_id = h.exch_id /\ hdr.proto_id = h.proto_id
      <4> DEFINE n == 2
                 two == 2
                 four == 4
      <4>1. /\ two \in Nat /\ four \in Nat /\ q + two \in Nat /\ q + four \in Nat /\ n \in Nat
            /\ (q + two) + n <= len /\ (q + four) + n <= len
        BY <1>2, <1>5
      <4>2. /\ OccursAt(w, two, h.exch_id) /\ OccursAt(w, four, h.proto_id)
            /\ Len(h.exch_id) = n /\ Len(h.proto_id) = n
            /\ h.exch_id \in Seq(Nat) /\ h.proto_id \in Seq(Nat)
        BY <1>1
      <4>3. hdr.exch_id = Field(pb, n, two) /\ hdr.proto_id = Field(pb, n, four) OBVIOUS
      <4> HIDE DEF n, two, four, hdr
      <4>4. OccursAt(s, q + two, h.exch_id) /\ OccursAt(s, q + four, h.proto_id)
        BY <1>1, <4>1, <4>2, OccursIn DEF w
      <4>5. Field(pb, n, two) = h.exch_id BY <1>2, <4>1, <4>2, <4>4, FieldIs
      <4>6. Field(pb, n, four) = h.proto_id BY <1>2, <4>1, <4>2, <4>4, FieldIs
      <4> QED BY <4>3, <4>5, <4>6
    <3>5. hdr.vendor = h.vendor
      <4>1. CASE "VENDOR" \notin h.flags
        <5>1. h.vendor = << >> BY <1>1, <4>1
        <5> QED BY <2>4, <4>1, <5>1
      <4>2. CASE "VENDOR" \in h.flags
        <5> DEFINE zero == 0
                   two == 2
                   six == 6
        <5>1. /\ zero \in Nat /\ two \in Nat /\ six \in Nat /\ off = off + zero
              /\ off = q + six
          BY <2>6
        <5>2. Len(h.vendor) = two /\ h.vendor \in Seq(Nat) /\ OccursAt(w, six, h.vendor)
          BY <1>1, <4>2 DEF v
        <5>3. off + two <= len
          <6>1. v = 2 BY <1>1, <4>2
          <6> QED BY <1>2, <2>11, <6>1
        <5>4. fixed = Cursor(s, len, off, rest) BY <2>1
        <5>5. hdr.vendor = Field(fixed, two, zero) BY <2>4, <4>2
        <5> HIDE DEF zero, two, six, off, rest, hdr
        <5>6. OccursAt(s, off, h.vendor) BY <1>1, <5>1, <5>2, OccursIn DEF w
        <5>7. Field(fixed, two, zero) = h.vendor
          BY <1>2, <2>6, <5>1, <5>2, <5>3, <5>4, <5>6, FieldIs
        <5> QED BY <5>5, <5>7
      <4> QED BY <4>1, <4>2
    <3>6. hdr.ack = h.ack
      <4>1. CASE "ACK" \notin h.flags
        <5>1. h.ack = << >> BY <1>1, <4>1
        <5> QED BY <2>4, <4>1, <5>1
      <4>2. CASE "ACK" \in h.flags
        <5> DEFINE zero == 0
                   four == 4
                   six == 6 + v
        <5>1. /\ zero \in Nat /\ four \in Nat /\ six \in Nat /\ off2 = off2 + zero
              /\ off2 = q + six /\ off2 \in Nat /\ rest2 \in Nat
          BY <1>2, <2>6, <3>1
        <5>2. Len(h.ack) = four /\ h.ack \in Seq(Nat) /\ OccursAt(w, six, h.ack)
          BY <1>1, <4>2 DEF a
        <5>3. off2 + four <= len
          <6>1. a = 4 BY <1>1, <4>2
          <6> QED BY <1>2, <2>11, <6>1
        <5>4. vendor = Cursor(s, len, off2, rest2) BY <2>7, <3>1
        <5>5. hdr.ack = Field(vendor, four, zero) BY <2>4, <4>2
        <5> HIDE DEF zero, four, six, off, off2, rest2, hdr
        <5>6. OccursAt(s, off2, h.ack) BY <1>1, <5>1, <5>2, OccursIn DEF w
        <5>7. Field(vendor, four, zero) = h.ack
          BY <1>2, <5>1, <5>2, <5>3, <5>4, <5>6, FieldIs
        <5> QED BY <5>5, <5>7
      <4> QED BY <4>1, <4>2
    <3>7. hdr = h
      <4>1. h = [flags |-> h.flags, opcode |-> h.opcode, exch_id |-> h.exch_id,
                 proto_id |-> h.proto_id, vendor |-> h.vendor, ack |-> h.ack]
        BY DEF ProtoHdr
      <4>2. hdr = [flags |-> h.flags, opcode |-> h.opcode, exch_id |-> hdr.exch_id,
                   proto_id |-> hdr.proto_id, vendor |-> hdr.vendor, ack |-> hdr.ack]
        BY <2>3, <2>4
      <4> HIDE DEF hdr
      <4> QED BY <3>4, <3>5, <3>6, <4>1, <4>2
    <3> HIDE DEF hdr
    <3>8. got = [pb |-> Cursor(s, len, q + r, left - r), hdr |-> << h >>]
      BY <2>5, <3>2, <3>3, <3>7
    <3> QED BY <2>11, <3>8 DEF got, r, w
  <2> QED BY <2>10, <2>11
<1> QED BY <1>4, <1>5

\* Where the parts of a datagram stand in it, and how long they are.
IsDatagram(s, q, r, n, plain, proto, payload, key) ==
  LET tail == Sealed(proto, payload, key)
  IN /\ s \in Seq(Nat) /\ Len(s) = q + Len(tail)
     /\ Len(tail) = (r + n) + (IF key = << >> THEN 0 ELSE 16)
     /\ q = Len(PlainBytes(plain)) /\ r = Len(ProtoBytes(proto)) /\ n = Len(payload)
     /\ q \in Nat /\ r \in Nat /\ n \in Nat
     /\ OccursAt(s, 0, PlainBytes(plain)) /\ OccursAt(s, q, tail)
     /\ OccursAt(s, q, ProtoBytes(proto)) /\ OccursAt(s, q + r, payload)

\* What was sealed.
IsSeal(seal, plain, proto, payload, key) ==
  seal = << key, Iv(plain), PlainBytes(plain), Text(proto, payload) >>

\* A message of a session that has a key, whose header names no node.
InSession(plain, key) == key # << >> /\ plain.peer_nodeid = << >>

\* What is sealed names no node.
SealsNoNode(plain, key) == key # << >> => plain.peer_nodeid = << >>

\* The first len bytes are read up to q, and left of them are still to be read.
IsCut(s, len, q, left) == len \in 0 .. Len(s) /\ q + left = len

\* The two headers and the payload stand in the datagram in this order.
LEMMA PartsOccur ==
  ASSUME NEW plain \in PlainHdr, NEW proto \in ProtoHdr, NEW payload \in Seq(Nat), NEW key
  PROVE  IsDatagram(PlainBytes(plain) \o Sealed(proto, payload, key), Len(PlainBytes(plain)),
                    Len(ProtoBytes(proto)), Len(payload), plain, proto, payload, key)
<1> DEFINE w == PlainBytes(plain)
           p == ProtoBytes(proto)
           text == Text(proto, payload)
           tail == Sealed(proto, payload, key)
           s == w \o tail
<1>1. w \in Seq(Nat) /\ p \in Seq(Nat) BY HdrLengths
<1>2. /\ text \in Seq(Nat) /\ Len(text) = Len(p) + Len(payload)
      /\ tail \in Seq(Nat) /\ OccursAt(tail, 0, text)
      /\ Len(tail) = Len(text) + (IF key = << >> THEN 0 ELSE 16)
  BY SealedIs
<1> HIDE DEF w, p
<1>3. OccursAt(text, 0, p) /\ OccursAt(text, Len(p), payload)
  BY <1>1, Joins DEF Text, p
<1> HIDE DEF text, tail
<1>4. /\ s \in Seq(Nat) /\ Len(s) = Len(w) + Len(tail)
      /\ OccursAt(s, 0, w) /\ OccursAt(s, Len(w), tail)
  BY <1>1, <1>2, Joins
<1> HIDE DEF s
<1> DEFINE wn == Len(w)
           pn == Len(p)
           zero == 0
<1>5. wn \in Nat /\ pn \in Nat /\ zero \in Nat /\ wn + zero = wn BY <1>1
<1>6. /\ OccursAt(s, wn, tail) /\ OccursAt(tail, zero, text)
      /\ OccursAt(text, zero, p) /\ OccursAt(text, pn, payload)
  BY <1>2, <1>3, <1>4
<1> HIDE DEF wn, pn, zero
<1>7. OccursAt(s, wn + zero, text) BY <1>2, <1>4, <1>5, <1>6, OccursIn
<1>8. OccursAt(s, wn, text) BY <1>5, <1>7
<1>9. OccursAt(s, wn + zero, p) BY <1>1, <1>2, <1>4, <1>5, <1>6, <1>8, OccursIn
<1>10. OccursAt(s, wn + pn, payload) BY <1>1, <1>2, <1>4, <1>5, <1>6, <1>8, OccursIn
<1>11. OccursAt(s, Len(w), p) /\ OccursAt(s, Len(w) + Len(p), payload)
  BY <1>5, <1>9, <1>10 DEF wn, pn
<1>12. Len(tail) = (Len(p) + Len(payload)) + (IF key = << >> THEN 0 ELSE 16) BY <1>2
<1>13. Len(w) \in Nat /\ Len(p) \in Nat /\ Len(payload) \in Nat BY <1>1
<1> QED BY <1>4, <1>11, <1>12, <1>13 DEF IsDatagram, w, p, tail, s

\* decrypt_in_place gives back the text that was sealed if the datagram arrived whole, and
\* refuses it if it was cut anywhere.
LEMMA OpenIs ==
  ASSUME NEW plain \in PlainHdr, NEW proto \in ProtoHdr, NEW payload \in Seq(Nat), NEW key,
         InSession(plain, key),
         NEW q \in Nat, NEW r \in Nat, NEW n \in Nat,
         NEW s \in Seq(Nat), IsDatagram(s, q, r, n, plain, proto, payload, key),
         IsSeal(wire.seal, plain, proto, payload, key),
         NEW len \in Nat, NEW left \in Nat, IsCut(s, len, q, left)
  PROVE  LET pb == Cursor(s, len, q, left) IN
           /\ len = Len(s) => Open(pb, plain, key) = Cursor(s, len, q, r + n)
           /\ len # Len(s) => Open(pb, plain, key) = Failed(pb)
<1> DEFINE pb == Cursor(s, len, q, left)
           w == PlainBytes(plain)
           text == Text(proto, payload)
           tail == Sealed(proto, payload, key)
           u == SubSeq(tail, 1, left)
           tn == r + n
           sn == Len(s)
           got == Open(pb, plain, key)
<1>1. key # << >> /\ plain.peer_nodeid = << >> BY DEF InSession
<1>2. q + left = len /\ len \in 0 .. sn BY DEF IsCut
<1>3. /\ w \in Seq(Nat) /\ Len(w) = 8 /\ Len(w) = q
      /\ Mic \in Seq(Nat) /\ Len(Mic) = 16 /\ text \in Seq(Nat) /\ tail \in Seq(Nat)
      /\ Len(text) = tn /\ Len(tail) = tn + 16 /\ sn = q + (tn + 16)
      /\ OccursAt(tail, 0, text) /\ OccursAt(tail, tn, Mic)
      /\ OccursAt(s, 0, w) /\ OccursAt(s, q, tail)
  <2>1. w \in Seq(Nat) /\ Len(w) = 8 BY <1>1, HdrLengths
  <2>2. /\ q = Len(w) /\ Len(tail) = tn + 16 /\ OccursAt(s, 0, w) /\ OccursAt(s, q, tail)
        /\ sn = q + Len(tail) /\ Len(ProtoBytes(proto)) = r /\ Len(payload) = n
    BY <1>1 DEF IsDatagram
  <2>3. /\ Mic \in Seq(Nat) /\ Len(Mic) = 16 /\ text \in Seq(Nat) /\ tail \in Seq(Nat)
        /\ Len(text) = Len(ProtoBytes(proto)) + Len(payload)
        /\ OccursAt(tail, 0, text) /\ OccursAt(tail, Len(text), Mic)
    BY <1>1, SealedIs
  <2> HIDE DEF w, text, tail, sn
  <2>4. Len(text) = tn BY <2>2, <2>3
  <2> HIDE DEF tn
  <2>5. OccursAt(tail, tn, Mic) /\ sn = q + (tn + 16) BY <2>2, <2>3, <2>4
  <2> QED BY <2>1, <2>2, <2>3, <2>4, <2>5
<1>4. tn \in Nat OBVIOUS
<1> HIDE DEF w, text, tail, tn, sn
<1>5. left <= tn + 16 /\ (len = sn <=> left = tn + 16)
  <2>1. sn = q + (tn + 16) BY <1>3
  <2> QED BY <1>4, <1>2, <2>1
<1>6. pb.left = left /\ pb.read_off = q /\ pb.buf = SubSeq(s, 1, len) /\ pb.ok BY DEF Cursor
<1>7. Parsed(pb) = w
  <2> DEFINE zero == 0
  <2>1. zero \in Nat /\ zero + q = q /\ q <= len /\ len \in 0 .. Len(s) BY <1>2 DEF sn
  <2>2. OccursAt(s, zero, w) BY <1>3
  <2>3. Parsed(pb) = Slice(SubSeq(s, 1, len), zero, q) BY <1>6 DEF Parsed
  <2>4. w \in Seq(Nat) /\ Len(w) = q BY <1>3
  <2> HIDE DEF zero
  <2>5. zero + Len(w) <= len BY <2>1, <2>4
  <2>6. Slice(SubSeq(s, 1, len), zero, zero + Len(w)) = w BY <2>1, <2>2, <2>4, <2>5, ReadBack
  <2> QED BY <2>1, <2>3, <2>4, <2>6
<1>8. left \in 0 .. Len(tail)
  <2>1. left \in 0 .. tn + 16 BY <1>4, <1>5
  <2> QED BY <1>3, <2>1
<1>9. Unread(pb) = u
  <2>1. OccursAt(s, q, tail) /\ q + left <= len /\ tail \in Seq(Nat) BY <1>3, <1>2
  <2>2. LeftOf(s, tail, len, q, left) BY <1>8, <1>2, <2>1 DEF LeftOf, sn
  <2> QED BY <2>1, <2>2, UnreadIs
<1>10. got = IF left < 16 THEN Failed(pb)
            ELSE IF /\ SubSeq(u, left - 16 + 1, left) = Mic
                    /\ wire.seal = << key, Iv(plain), w, SubSeq(u, 1, left - 16) >>
            THEN TakeTail(pb, 16) ELSE Failed(pb)
  <2>1. Len(w) = 8 BY <1>3
  <2> HIDE DEF pb, u
  <2> QED BY <1>6, <1>7, <1>9, <2>1 DEF Open, AAD_LEN, MIC_LEN
<1>11. wire.seal = << key, Iv(plain), w, text >> BY DEF IsSeal, w, text
<1> HIDE DEF got
<1>12. CASE len = sn
  <2>1. left = tn + 16 /\ ~ (left < 16) /\ left - 16 = tn /\ 16 <= left
    BY <1>4, <1>5, <1>12
  <2>2. SubSeq(tail, 1, Len(tail)) = tail BY <1>3, SubSeqFull
  <2>3. u = tail
    <3>1. left = Len(tail) BY <1>3, <2>1
    <3> QED BY <2>2, <3>1
  <2> DEFINE m == Len(tail)
             zero == 0
  <2>4. /\ m \in 0 .. Len(tail) /\ m = tn + 16 /\ zero \in Nat
        /\ OccursAt(tail, zero, text) /\ OccursAt(tail, tn, Mic)
        /\ tail \in Seq(Nat) /\ text \in Seq(Nat) /\ Mic \in Seq(Nat)
        /\ Len(text) = tn /\ Len(Mic) = 16
    BY <1>3
  <2>5. SubSeq(tail, 1, m) = tail BY <2>2
  <2> HIDE DEF m
  <2>6. SubSeq(u, left - 16 + 1, left) = Mic
    <3>1. tn + Len(Mic) <= m BY <1>4, <2>4
    <3>2. Slice(SubSeq(tail, 1, m), tn, tn + Len(Mic)) = Mic BY <1>4, <2>4, <3>1, ReadBack
    <3>3. Slice(tail, tn, tn + 16) = Mic BY <2>4, <2>5, <3>2
    <3> QED BY <2>1, <2>3, <3>3 DEF Slice
  <2>7. SubSeq(u, 1, left - 16) = text
    <3>1. zero + tn = tn /\ zero + tn <= m BY <1>4, <2>4
    <3> HIDE DEF zero
    <3>2. zero + Len(text) <= m BY <2>4, <3>1
    <3>3. Slice(SubSeq(tail, 1, m), zero, zero + Len(text)) = text
      BY <2>4, <3>2, ReadBack
    <3>4. Slice(tail, zero, tn) = text BY <2>4, <2>5, <3>1, <3>3
    <3>5. SubSeq(tail, 1, tn) = text BY <3>4 DEF Slice, zero
    <3> QED BY <2>1, <2>3, <3>5
  <2>8. got = TakeTail(pb, 16)
    <3> HIDE DEF u, pb
    <3> QED BY <1>10, <1>11, <2>1, <2>6, <2>7
  <2>9. TakeTail(pb, 16) = [pb EXCEPT !.left = @ - 16]
    <3> HIDE DEF pb
    <3> QED BY <1>6, <2>1 DEF TakeTail
  <2>10. got = Cursor(s, len, q, left - 16) BY <2>8, <2>9 DEF Cursor
  <2> QED BY <1>12, <2>1, <2>10 DEF got, tn, sn
<1>13. CASE len # sn
  <2>1. left < tn + 16 BY <1>4, <1>5, <1>13
  <2>2. CASE left < 16
    <3>1. got = Failed(pb) BY <1>10, <2>2
    <3> QED BY <1>13, <3>1 DEF got, sn
  <2>3. CASE ~ (left < 16)
    <3> DEFINE k == left - 16
    <3>1. k \in Nat /\ k <= left /\ k < tn BY <1>4, <2>1, <2>3
    <3>2. u \in Seq(Nat) /\ Len(u) = left BY <1>3, <1>8, CutIs
    <3> HIDE DEF k, u
    <3>3. k \in 0 .. left BY <3>1
    <3>4. Len(SubSeq(u, 1, k)) = k BY <3>2, <3>3, CutIs
    <3>5. SubSeq(u, 1, k) # text
      <4>1. Len(text) = tn BY <1>3
      <4> QED BY <1>4, <3>1, <3>4, <4>1
    <3>6. wire.seal # << key, Iv(plain), w, SubSeq(u, 1, left - 16) >>
      BY <1>11, <3>5 DEF k
    <3>7. got = Failed(pb) BY <1>10, <3>6
    <3> QED BY <1>13, <3>7 DEF got, sn
  <2> QED BY <2>2, <2>3
<1> QED BY <1>12, <1>13

\* ProtoDecode of what arrived of a datagram: it is refused, which happens only to one that was
\* cut, or the protocol header is read back, and what is then unread is the payload's beginning.
DecodesRest(s, len, left, q, r, n, plain, proto, key) ==
  LET pb == Cursor(s, len, q, left)
      text == IF key = << >> THEN pb ELSE Open(pb, plain, key)
      got == DecodeProto(text)
  IN IF text.ok /\ got.pb.ok
     THEN \E rest \in 0 .. n :
            /\ got = [pb |-> Cursor(s, len, q + r, rest), hdr |-> << proto >>]
            /\ (q + r) + rest <= len
            /\ len = Len(s) => rest = n
            /\ key # << >> => len = Len(s)
     ELSE len # Len(s)

LEMMA RestIsDecoded ==
  ASSUME NEW plain \in PlainHdr, NEW proto \in ProtoHdr, NEW payload \in Seq(Nat), NEW key,
         SealsNoNode(plain, key),
         NEW q \in Nat, NEW r \in Nat, NEW n \in Nat,
         NEW s \in Seq(Nat), IsDatagram(s, q, r, n, plain, proto, payload, key),
         IsSeal(wire.seal, plain, proto, payload, key),
         NEW len \in Nat, NEW left \in Nat, IsCut(s, len, q, left)
  PROVE  DecodesRest(s, len, left, q, r, n, plain, proto, key)
<1> DEFINE pb == Cursor(s, len, q, left)
           text == IF key = << >> THEN pb ELSE Open(pb, plain, key)
           got == DecodeProto(text)
           sn == Len(s)
<1>1. /\ sn = q + ((r + n) + (IF key = << >> THEN 0 ELSE 16))
      /\ OccursAt(s, q, ProtoBytes(proto)) /\ Len(ProtoBytes(proto)) = r
  <2> DEFINE tn == Len(Sealed(proto, payload, key))
  <2>1. /\ sn = q + tn /\ tn = (r + n) + (IF key = << >> THEN 0 ELSE 16)
        /\ OccursAt(s, q, ProtoBytes(proto)) /\ Len(ProtoBytes(proto)) = r
    BY DEF IsDatagram
  <2> HIDE DEF tn, sn
  <2> QED BY <2>1
<1>2. len \in 0 .. sn /\ q + left = len BY DEF IsCut
<1>3. ASSUME NEW more \in Nat, q + more <= len
      PROVE  LET it == DecodeProto(Cursor(s, len, q, more))
             IN /\ more >= r =>
                     it = [pb |-> Cursor(s, len, q + r, more - r), hdr |-> << proto >>]
                /\ ~ more >= r => ~ it.pb.ok
  <2>1. OccursAt(s, q, ProtoBytes(proto)) BY <1>1
  <2>2. LET it == DecodeProto(Cursor(s, len, q, more))
            pn == Len(ProtoBytes(proto))
        IN /\ more >= pn => it = [pb |-> Cursor(s, len, q + pn, more - pn), hdr |-> << proto >>]
           /\ ~ more >= pn => ~ it.pb.ok
    BY <1>2, <1>3, <2>1, ProtoIsDecoded DEF sn
  <2> QED BY <1>1, <2>2
<1> HIDE DEF sn
<1>4. CASE key = << >>
  <2>1. text = Cursor(s, len, q, left) /\ text.ok BY <1>4 DEF Cursor
  <2>2. sn = q + (r + n) BY <1>1, <1>4
  <2> HIDE DEF text
  <2>3. /\ left >= r => got = [pb |-> Cursor(s, len, q + r, left - r), hdr |-> << proto >>]
        /\ ~ left >= r => ~ got.pb.ok
    <3>1. q + left <= len BY <1>2
    <3> QED BY <1>3, <2>1, <3>1
  <2> HIDE DEF got
  <2>4. CASE left >= r
    <3> DEFINE rest == left - r
    <3>1. rest \in 0 .. n /\ (q + r) + rest <= len /\ (len = sn => rest = n)
      <4>1. q + left <= q + (r + n) BY <1>2, <2>2
      <4>2. len = sn => q + left = q + (r + n) BY <1>2, <2>2
      <4> QED BY <1>2, <2>4, <4>1, <4>2
    <3>2. got = [pb |-> Cursor(s, len, q + r, rest), hdr |-> << proto >>] BY <2>3, <2>4
    <3>3. got.pb.ok BY <3>2 DEF Cursor
    <3> HIDE DEF rest
    <3> QED BY <1>4, <2>1, <3>1, <3>2, <3>3 DEF DecodesRest, text, got, sn
  <2>5. CASE ~ (left >= r)
    <3>1. len # sn BY <1>2, <2>2, <2>5
    <3>2. ~ got.pb.ok BY <2>3, <2>5
    <3> QED BY <3>1, <3>2 DEF DecodesRest, text, got, sn
  <2> QED BY <2>4, <2>5
<1>5. CASE key # << >>
  <2>1. /\ len = sn => text = Cursor(s, len, q, r + n)
        /\ len # sn => text = Failed(pb)
    <3>1. InSession(plain, key) /\ IsCut(s, len, q, left) /\ len \in Nat
      BY <1>5 DEF InSession, SealsNoNode
    <3>2. LET it == Cursor(s, len, q, left) IN
            /\ len = Len(s) => Open(it, plain, key) = Cursor(s, len, q, r + n)
            /\ len # Len(s) => Open(it, plain, key) = Failed(it)
      BY <3>1, OpenIs
    <3> QED BY <1>5, <3>2 DEF sn
  <2>2. CASE len # sn
    <3>1. ~ text.ok BY <2>1, <2>2 DEF Failed, Cursor
    <3> QED BY <2>2, <3>1 DEF DecodesRest, text, sn
  <2>3. CASE len = sn
    <3> DEFINE more == r + n
    <3>1. text = Cursor(s, len, q, more) BY <2>1, <2>3
    <3>2. more \in Nat /\ q + more <= len /\ more >= r /\ more - r = n /\ (q + r) + n <= len
      BY <1>1, <1>2, <1>5, <2>3
    <3> HIDE DEF more, text
    <3>3. text.ok BY <3>1 DEF Cursor
    <3>4. got = [pb |-> Cursor(s, len, q + r, more - r), hdr |-> << proto >>]
      BY <1>3, <3>1, <3>2
    <3> HIDE DEF got
    <3>5. got = [pb |-> Cursor(s, len, q + r, n), hdr |-> << proto >>] BY <3>2, <3>4
    <3>6. got.pb.ok BY <3>5 DEF Cursor
    <3>7. n \in 0 .. n OBVIOUS
    <3> QED BY <2>3, <3>2, <3>3, <3>5, <3>6, <3>7 DEF DecodesRest, text, got, sn
  <2> QED BY <2>2, <2>3
<1> QED BY <1>4, <1>5

\* A datagram that cannot be read is not opened: what is sealed is more than the eight bytes
\* of its header.
LEMMA NotOpened ==
  ASSUME NEW plain \in PlainHdr, NEW proto \in ProtoHdr, NEW payload, NEW key,
         key # << >>, plain.peer_nodeid # << >>,
         IsSeal(wire.seal, plain, proto, payload, key), NEW pb
  PROVE  Open(pb, Understood(plain), key) = Failed(pb)
<1>1. Len(PlainBytes(plain)) = 16 BY HdrLengths
<1>2. wire.seal[3] = PlainBytes(plain) BY DEF IsSeal
<1>3. SUFFICES ASSUME Open(pb, Understood(plain), key) # Failed(pb) PROVE FALSE
  OBVIOUS
<1>4. /\ Len(Parsed(pb)) = 8
      /\ wire.seal = << key, Iv(Understood(plain)), Parsed(pb),
                        SubSeq(Unread(pb), 1, pb.left - MIC_LEN) >>
  BY <1>3 DEF Open, AAD_LEN
<1>5. Parsed(pb) = PlainBytes(plain) BY <1>2, <1>4
<1> DEFINE k == Len(PlainBytes(plain))
<1>6. k = 16 /\ k = 8 BY <1>1, <1>4, <1>5
<1> HIDE DEF k
<1> QED BY <1>6

(***************************************************************************)
(* What a receiver's packet holds of the datagram that was sent.           *)
(***************************************************************************)
Received(state, pb, plain, proto) ==
  [state |-> state, pb |-> pb, plain |-> plain, proto |-> proto]

\* The packet p holds the first len bytes of s and was decoded as far as its state says.
Arrived(p, len, s, plain) ==
  \/ p = Received("Uninit", Cursor(s, len, 0, len), << >>, << >>)
  \/ \E left \in Nat :
       /\ IsCut(s, len, ReadLen(plain), left)
       /\ p = Received("PlainDecode", Cursor(s, len, ReadLen(plain), left),
                       << Understood(plain) >>, << >>)

\* It was cut, or cannot be read.
Refused(p, len, s, plain, key) ==
  \/ p.state = "refused" /\ ~ Legible(plain, key)
  \/ /\ p.state = "refused" \/ (p.state = "panic" /\ key # << >>)
     /\ p.pb.buf = SubSeq(s, 1, len) /\ len # Len(s)

\* It cannot be read, and was taken for something else.
Misread(p, plain, key) ==
  /\ p.state = "ProtoDecode" /\ p.plain = << Understood(plain) >>
  /\ ~ Legible(plain, key) /\ key = << >>

Accepted(p, len, s, q, r, n, plain, proto, key) ==
  \E rest \in 0 .. n :
    /\ p = Received("ProtoDecode", Cursor(s, len, q + r, rest), << plain >>, << proto >>)
    /\ (q + r) + rest <= len
    /\ len = Len(s) => rest = n
    /\ key # << >> => len = Len(s)
    /\ Legible(plain, key)

Holds(p, s, plain, proto, payload, key) ==
  LET q == Len(PlainBytes(plain))
      r == Len(ProtoBytes(proto))
      n == Len(payload)
  IN \E len \in 0 .. Len(s) : \/ Arrived(p, len, s, plain)
                              \/ Refused(p, len, s, plain, key)
                              \/ Misread(p, plain, key)
                              \/ Accepted(p, len, s, q, r, n, plain, proto, key)

\* Nothing was sent, or the packet holds a part of what was.
SentInv(plain, proto, payload, key) ==
  /\ (key # << >>) = (plain.sess_id # << 0, 0 >>)
  /\ sent = << [plain |-> plain, proto |-> proto, payload |-> payload, key |-> key] >>
  /\ wire.ok =>
       wire = [ok |-> TRUE, bytes |-> PlainBytes(plain) \o Sealed(proto, payload, key),
               seal |-> << key, Iv(plain), PlainBytes(plain), Text(proto, payload) >>]
  /\ rx = NoPacket \/ (wire.ok /\ Holds(rx, wire.bytes, plain, proto, payload, key))

DatagramInv ==
  \/ sent = << >> /\ ~ wire.ok /\ rx = NoPacket
  \/ \E plain \in PlainHdr, proto \in ProtoHdr, payload \in Seq(Nat), key \in Keys :
       SentInv(plain, proto, payload, key)

\* What do_send makes is a datagram, and its seal is over its parts.
LEMMA WireIs ==
  ASSUME NEW plain \in PlainHdr, NEW proto \in ProtoHdr, NEW payload \in Seq(Nat), NEW key,
         SentInv(plain, proto, payload, key), wire.ok
  PROVE  /\ IsDatagram(wire.bytes, Len(PlainBytes(plain)), Len(ProtoBytes(proto)), Len(payload),
                       plain, proto, payload, key)
         /\ IsSeal(wire.seal, plain, proto, payload, key)
<1>1. wire = [ok |-> TRUE, bytes |-> PlainBytes(plain) \o Sealed(proto, payload, key),
              seal |-> << key, Iv(plain), PlainBytes(plain), Text(proto, payload) >>]
  BY DEF SentInv
<1>2. wire.bytes = PlainBytes(plain) \o Sealed(proto, payload, key) BY <1>1
<1>3. wire.seal = << key, Iv(plain), PlainBytes(plain), Text(proto, payload) >> BY <1>1
<1>4. IsSeal(wire.seal, plain, proto, payload, key) BY <1>3 DEF IsSeal
<1> QED BY <1>2, <1>4, PartsOccur

\* What is read of a header is no longer than the header.
LEMMA ReadIsShorter ==
  ASSUME NEW plain \in PlainHdr
  PROVE  /\ ReadLen(plain) \in Nat /\ Len(PlainBytes(plain)) \in Nat
         /\ ReadLen(plain) <= Len(PlainBytes(plain))
         /\ Understood(plain) = plain => ReadLen(plain) = Len(PlainBytes(plain))
         /\ Understood(plain).sess_id = plain.sess_id
<1> DEFINE a == Len(NodeOf(plain))
           b == Len(plain.peer_nodeid)
           w == Len(PlainBytes(plain))
<1>1. /\ NodeOf(plain) \in Seq(Nat) /\ PlainBytes(plain) \in Seq(Nat) /\ a <= b /\ w = 8 + b
      /\ b = (IF plain.peer_nodeid = << >> THEN 0 ELSE 8)
  BY PlainParts
<1>2. a \in Nat /\ b \in Nat BY <1>1
<1>3. Understood(plain) = plain => a = b BY DEF NodeOf
<1>4. Understood(plain).sess_id = plain.sess_id BY UnderstoodIs
<1>5. ReadLen(plain) = 8 + a BY DEF ReadLen
<1> HIDE DEF a, b, w
<1>6. 8 + a \in Nat /\ w \in Nat /\ 8 + a <= w BY <1>1, <1>2
<1> QED BY <1>1, <1>3, <1>4, <1>5, <1>6 DEF w

\* Packet::plain_hdr_decode.
LEMMA PlainHdrDecodeHolds ==
  ASSUME NEW plain \in PlainHdr, NEW s \in Seq(Nat), OccursAt(s, 0, PlainBytes(plain)),
         NEW len \in 0 .. Len(s), Len(PlainBytes(plain)) <= Len(s), NEW key,
         rx = Received("Uninit", Cursor(s, len, 0, len), << >>, << >>), PlainHdrDecode
  PROVE  Arrived(rx', len, s, plain) \/ Refused(rx', len, s, plain, key)
<1> DEFINE q == ReadLen(plain)
           hdr == Understood(plain)
           got == DecodePlain(rx.pb)
<1>1. rx' = [rx EXCEPT !.pb = got.pb, !.plain = got.hdr,
                       !.state = IF got.pb.ok THEN "PlainDecode" ELSE "refused"]
  BY DEF PlainHdrDecode
<1>2. rx.pb = Cursor(s, len, 0, len) BY DEF Received
<1>3. /\ len >= q => got = [pb |-> Cursor(s, len, q, len - q), hdr |-> << hdr >>]
      /\ ~ len >= q => ~ got.pb.ok /\ got.pb.buf = SubSeq(s, 1, len)
  BY <1>2, PlainIsDecoded
<1>4. rx' = Received(IF got.pb.ok THEN "PlainDecode" ELSE "refused", got.pb, got.hdr, << >>)
  BY <1>1 DEF Received
<1>5. q \in Nat /\ len \in Nat BY ReadIsShorter
<1> HIDE DEF q, got, hdr
<1>6. CASE len >= q
  <2> DEFINE left == len - q
  <2>1. left \in Nat /\ q + left = len BY <1>5, <1>6
  <2>2. got = [pb |-> Cursor(s, len, q, left), hdr |-> << hdr >>] BY <1>3, <1>6
  <2> HIDE DEF left
  <2>3. got.pb.ok BY <2>2 DEF Cursor
  <2>4. rx' = Received("PlainDecode", Cursor(s, len, q, left), << hdr >>, << >>)
    BY <1>4, <2>2, <2>3
  <2>5. IsCut(s, len, q, left) BY <2>1 DEF IsCut
  <2> QED BY <2>1, <2>4, <2>5 DEF Arrived, q, hdr
<1>7. CASE ~ (len >= q)
  <2>1. ~ got.pb.ok /\ got.pb.buf = SubSeq(s, 1, len) BY <1>3, <1>7
  <2>2. rx' = Received("refused", got.pb, got.hdr, << >>) BY <1>4, <2>1
  <2>3. rx'.state = "refused" /\ rx'.pb.buf = SubSeq(s, 1, len) BY <2>1, <2>2 DEF Received
  <2> DEFINE sn == Len(s)
             w == Len(PlainBytes(plain))
  <2>4. sn \in Nat /\ w <= sn /\ w \in Nat /\ q <= w BY ReadIsShorter DEF q
  <2> HIDE DEF sn, w
  <2>5. len # sn BY <1>5, <1>7, <2>4
  <2> QED BY <2>3, <2>5 DEF Refused, sn
<1> QED BY <1>6, <1>7

\* A text shorter than its MIC is a part of one that was cut.
LEMMA ShortIsCut ==
  ASSUME NEW plain \in PlainHdr, NEW proto, NEW payload, NEW key, key # << >>,
         NEW q \in Nat, NEW r \in Nat, NEW n \in Nat,
         NEW s, IsDatagram(s, q, r, n, plain, proto, payload, key),
         NEW len, NEW left \in Nat, IsCut(s, len, ReadLen(plain), left), left < 16
  PROVE  len # Len(s)
<1> DEFINE sn == Len(s)
           tn == Len(Sealed(proto, payload, key))
           k == ReadLen(plain)
<1>1. sn = q + tn /\ tn = (r + n) + 16 BY DEF IsDatagram
<1>2. k \in Nat /\ k <= q BY ReadIsShorter DEF IsDatagram
<1>3. k + left = len BY DEF IsCut
<1> HIDE DEF sn, tn, k
<1>4. len # sn BY <1>1, <1>2, <1>3
<1> QED BY <1>4 DEF sn

\* Packet::proto_decode of a datagram that can be read.
LEMMA LegibleDecodes ==
  ASSUME NEW plain \in PlainHdr, NEW proto \in ProtoHdr, NEW payload \in Seq(Nat), NEW key,
         Legible(plain, key),
         NEW q \in Nat, NEW r \in Nat, NEW n \in Nat,
         NEW s \in Seq(Nat), IsDatagram(s, q, r, n, plain, proto, payload, key),
         IsSeal(wire.seal, plain, proto, payload, key),
         NEW len, NEW left \in Nat, IsCut(s, len, q, left),
         rx.pb = Cursor(s, len, q, left), rx.plain = << plain >>,
         NEW text, text = IF key = << >> THEN rx.pb ELSE Open(rx.pb, plain, key),
         rx' = IF text.ok /\ DecodeProto(text).pb.ok
               THEN Received("ProtoDecode", DecodeProto(text).pb, rx.plain, DecodeProto(text).hdr)
               ELSE Received("refused", rx.pb, rx.plain, << >>)
  PROVE  Accepted(rx', len, s, q, r, n, plain, proto, key) \/ Refused(rx', len, s, plain, key)
<1> DEFINE got == DecodeProto(text)
<1>1. len \in 0 .. Len(s) /\ q + left = len BY DEF IsCut
<1>2. IF text.ok /\ got.pb.ok
      THEN \E rest \in 0 .. n :
             /\ got = [pb |-> Cursor(s, len, q + r, rest), hdr |-> << proto >>]
             /\ (q + r) + rest <= len
             /\ len = Len(s) => rest = n
             /\ key # << >> => len = Len(s)
      ELSE len # Len(s)
  <2>1. SealsNoNode(plain, key) /\ len \in Nat BY <1>1 DEF SealsNoNode, Legible
  <2>2. DecodesRest(s, len, left, q, r, n, plain, proto, key) BY <2>1, RestIsDecoded
  <2> QED BY <2>2 DEF DecodesRest
<1> HIDE DEF got
<1>3. CASE text.ok /\ got.pb.ok
  <2>1. PICK rest \in 0 .. n :
          /\ got = [pb |-> Cursor(s, len, q + r, rest), hdr |-> << proto >>]
          /\ (q + r) + rest <= len
          /\ len = Len(s) => rest = n
          /\ key # << >> => len = Len(s)
    BY <1>2, <1>3
  <2>2. rx' = Received("ProtoDecode", got.pb, << plain >>, got.hdr) BY <1>3 DEF got
  <2>3. rx' = Received("ProtoDecode", Cursor(s, len, q + r, rest), << plain >>, << proto >>)
    BY <2>1, <2>2
  <2> QED BY <2>1, <2>3 DEF Accepted
<1>4. CASE ~ (text.ok /\ got.pb.ok)
  <2>1. rx' = Received("refused", rx.pb, << plain >>, << >>) BY <1>4 DEF got
  <2>2. rx'.state = "refused" /\ rx'.pb = rx.pb BY <2>1 DEF Received
  <2>3. Cursor(s, len, q, left).buf = SubSeq(s, 1, len) BY DEF Cursor
  <2>4. rx'.pb.buf = SubSeq(s, 1, len) BY <2>2, <2>3
  <2> QED BY <1>2, <1>4, <2>2, <2>4 DEF Refused
<1> QED BY <1>3, <1>4

\* Packet::proto_decode opens what the session seals, and decodes what comes of it.
LEMMA ProtoDecodeIs ==
  ASSUME NEW p, NEW hdr, NEW key, rx = Received("PlainDecode", p, << hdr >>, << >>),
         sent[1].key = key, (IF hdr.sess_id = << 0, 0 >> THEN << >> ELSE key) = key,
         ProtoDecode
  PROVE  LET text == IF key = << >> THEN p ELSE Open(p, hdr, key)
             got == DecodeProto(text)
         IN rx' = IF key # << >> /\ OpenPanics(p) THEN Received("panic", p, << hdr >>, << >>)
                  ELSE IF text.ok /\ got.pb.ok
                  THEN Received("ProtoDecode", got.pb, << hdr >>, got.hdr)
                  ELSE Received("refused", p, << hdr >>, << >>)
<1> DEFINE text == IF key = << >> THEN p ELSE Open(p, hdr, key)
           got == DecodeProto(text)
<1>1. rx.pb = p /\ rx.plain = << hdr >> /\ rx.plain[1] = hdr BY DEF Received
<1>2. rx' = IF key # << >> /\ OpenPanics(p) THEN [rx EXCEPT !.state = "panic"]
            ELSE IF text.ok /\ got.pb.ok
            THEN [rx EXCEPT !.pb = got.pb, !.proto = got.hdr, !.state = "ProtoDecode"]
            ELSE [rx EXCEPT !.state = "refused"]
  BY <1>1 DEF ProtoDecode
<1> HIDE DEF text, got
<1>3. CASE key # << >> /\ OpenPanics(p)
  <2>1. rx' = Received("panic", p, << hdr >>, << >>) BY <1>2, <1>3 DEF Received
  <2> QED BY <1>3, <2>1
<1>4. CASE ~ (key # << >> /\ OpenPanics(p)) /\ (text.ok /\ got.pb.ok)
  <2>1. rx' = [rx EXCEPT !.pb = got.pb, !.proto = got.hdr, !.state = "ProtoDecode"]
    BY <1>2, <1>4
  <2>2. rx' = Received("ProtoDecode", got.pb, << hdr >>, got.hdr) BY <2>1 DEF Received
  <2> QED BY <1>4, <2>2 DEF text, got
<1>5. CASE ~ (key # << >> /\ OpenPanics(p)) /\ ~ (text.ok /\ got.pb.ok)
  <2>1. rx' = Received("refused", p, << hdr >>, << >>) BY <1>2, <1>5 DEF Received
  <2> QED BY <1>5, <2>1 DEF text, got
<1> QED BY <1>3, <1>4, <1>5

\* Packet::proto_decode.
LEMMA ProtoDecodeHolds ==
  ASSUME NEW plain \in PlainHdr, NEW proto \in ProtoHdr, NEW payload \in Seq(Nat), NEW key,
         (key # << >>) = (plain.sess_id # << 0, 0 >>),
         sent = << [plain |-> plain, proto |-> proto, payload |-> payload, key |-> key] >>,
         NEW q \in Nat, NEW r \in Nat, NEW n \in Nat,
         NEW s \in Seq(Nat), IsDatagram(s, q, r, n, plain, proto, payload, key),
         IsSeal(wire.seal, plain, proto, payload, key),
         NEW len, NEW left \in Nat, IsCut(s, len, ReadLen(plain), left),
         rx = Received("PlainDecode", Cursor(s, len, ReadLen(plain), left),
                       << Understood(plain) >>, << >>),
         ProtoDecode
  PROVE  \/ Accepted(rx', len, s, q, r, n, plain, proto, key)
         \/ Refused(rx', len, s, plain, key) \/ Misread(rx', plain, key)
<1> DEFINE hdr == Understood(plain)
           pb == Cursor(s, len, ReadLen(plain), left)
           text == IF key = << >> THEN pb ELSE Open(pb, hdr, key)
           got == DecodeProto(text)
<1>1. rx.pb = pb /\ rx.plain = << hdr >> /\ rx.plain[1] = hdr BY DEF Received
<1>2. sent[1].key = key OBVIOUS
<1>3. (IF hdr.sess_id = << 0, 0 >> THEN << >> ELSE key) = key BY ReadIsShorter
<1>4. rx' = IF key # << >> /\ OpenPanics(pb) THEN Received("panic", pb, << hdr >>, << >>)
            ELSE IF text.ok /\ got.pb.ok
            THEN Received("ProtoDecode", got.pb, << hdr >>, got.hdr)
            ELSE Received("refused", pb, << hdr >>, << >>)
  BY <1>2, <1>3, ProtoDecodeIs
<1>5. CASE key # << >> /\ OpenPanics(pb)
  <2>1. rx' = Received("panic", pb, << hdr >>, << >>) BY <1>4, <1>5
  <2>2. rx'.state = "panic" /\ rx'.pb.buf = SubSeq(s, 1, len) BY <2>1 DEF Received, Cursor
  <2>3. left < 16
    <3>1. pb.left = left BY DEF Cursor
    <3> QED BY <1>5, <3>1 DEF OpenPanics, MIC_LEN
  <2>4. len # Len(s) BY <1>5, <2>3, ShortIsCut
  <2> QED BY <1>5, <2>2, <2>4 DEF Refused
<1>6. ASSUME ~ (key # << >> /\ OpenPanics(pb))
      PROVE  rx' = IF text.ok /\ got.pb.ok
                   THEN Received("ProtoDecode", got.pb, << hdr >>, got.hdr)
                   ELSE Received("refused", pb, << hdr >>, << >>)
  BY <1>4, <1>6
<1>7. CASE ~ (key # << >> /\ OpenPanics(pb)) /\ Legible(plain, key)
  <2>1. hdr = plain /\ ReadLen(plain) = Len(PlainBytes(plain)) BY <1>7, ReadIsShorter DEF Legible
  <2>2. ReadLen(plain) = q BY <2>1 DEF IsDatagram
  <2>3. IsCut(s, len, q, left) /\ pb = Cursor(s, len, q, left) BY <2>2
  <2>4. rx.pb = Cursor(s, len, q, left) /\ rx.plain = << plain >> BY <1>1, <2>1, <2>3
  <2>5. text = IF key = << >> THEN rx.pb ELSE Open(rx.pb, plain, key) BY <1>1, <2>1
  <2>6. rx' = IF text.ok /\ DecodeProto(text).pb.ok
              THEN Received("ProtoDecode", DecodeProto(text).pb, rx.plain, DecodeProto(text).hdr)
              ELSE Received("refused", rx.pb, rx.plain, << >>)
    BY <1>1, <1>6, <1>7
  <2> HIDE DEF text
  <2> QED BY <1>7, <2>3, <2>4, <2>5, <2>6, LegibleDecodes
<1>8. CASE ~ (key # << >> /\ OpenPanics(pb)) /\ ~ Legible(plain, key)
  <2>1. CASE text.ok /\ got.pb.ok
    <3>1. rx' = Received("ProtoDecode", got.pb, << hdr >>, got.hdr) BY <1>6, <1>8, <2>1
    <3>2. rx'.state = "ProtoDecode" /\ rx'.plain = << hdr >> BY <3>1 DEF Received
    <3>3. key = << >>
      <4>1. SUFFICES ASSUME key # << >> PROVE FALSE OBVIOUS
      <4>2. plain.peer_nodeid # << >>
        <5>1. SUFFICES ASSUME plain.peer_nodeid = << >> PROVE FALSE OBVIOUS
        <5>2. NodeOf(plain) = plain.peer_nodeid BY <5>1, UnderstoodIs
        <5>3. Understood(plain) = plain BY <5>2, UnderstoodIs DEF PlainHdr
        <5> QED BY <1>8, <5>1, <5>3 DEF Legible
      <4>3. text = Failed(pb) BY <4>1, <4>2, NotOpened
      <4>4. ~ text.ok
        <5> HIDE DEF text
        <5> QED BY <4>3 DEF Failed, Cursor
      <4> QED BY <2>1, <4>4
    <3> QED BY <1>8, <3>2, <3>3 DEF Misread
  <2>2. CASE ~ (text.ok /\ got.pb.ok)
    <3>1. rx' = Received("refused", pb, << hdr >>, << >>) BY <1>6, <1>8, <2>2
    <3>2. rx'.state = "refused" BY <3>1 DEF Received
    <3> QED BY <1>8, <3>2 DEF Refused
  <2> QED BY <2>1, <2>2
<1> QED BY <1>5, <1>7, <1>8

\* SessionMgr::recv and the two decodings keep it, whatever part of the datagram arrives.
LEMMA ReceivingHolds ==
  ASSUME NEW plain \in PlainHdr, NEW proto \in ProtoHdr, NEW payload \in Seq(Nat), NEW key,
         SentInv(plain, proto, payload, key), wire.ok,
         (\E len \in 0 .. Len(wire.bytes) : Arrive(len)) \/ PlainHdrDecode \/ ProtoDecode
  PROVE  SentInv(plain, proto, payload, key)'
<1> DEFINE s == wire.bytes
           q == Len(PlainBytes(plain))
           r == Len(ProtoBytes(proto))
           n == Len(payload)
<1>1. (key # << >>) = (plain.sess_id # << 0, 0 >>) BY DEF SentInv
<1>2. /\ sent = << [plain |-> plain, proto |-> proto, payload |-> payload, key |-> key] >>
      /\ wire = [ok |-> TRUE, bytes |-> PlainBytes(plain) \o Sealed(proto, payload, key),
                 seal |-> << key, Iv(plain), PlainBytes(plain), Text(proto, payload) >>]
      /\ rx = NoPacket \/ Holds(rx, s, plain, proto, payload, key)
  BY DEF SentInv
<1>3. /\ IsDatagram(s, q, r, n, plain, proto, payload, key)
      /\ IsSeal(wire.seal, plain, proto, payload, key)
  BY WireIs
<1>4. /\ s \in Seq(Nat) /\ OccursAt(s, 0, PlainBytes(plain))
      /\ q \in Nat /\ r \in Nat /\ n \in Nat
  BY <1>3 DEF IsDatagram
<1>5. sent' = sent /\ wire' = wire BY DEF Arrive, PlainHdrDecode, ProtoDecode
<1>6. SUFFICES Holds(rx', s, plain, proto, payload, key)
  BY <1>1, <1>2, <1>5 DEF SentInv
<1> HIDE DEF s, q, r, n
<1>7. \A len \in 0 .. Len(s) :
        \/ Arrived(rx', len, s, plain) \/ Refused(rx', len, s, plain, key)
        \/ Misread(rx', plain, key) \/ Accepted(rx', len, s, q, r, n, plain, proto, key)
        => Holds(rx', s, plain, proto, payload, key)
  BY DEF Holds, q, r, n
<1>8. CASE \E len \in 0 .. Len(wire.bytes) : Arrive(len)
  <2>1. PICK len \in 0 .. Len(s) : Arrive(len) BY <1>8 DEF s
  <2>2. rx' = Received("Uninit", Cursor(s, len, 0, len), << >>, << >>)
    BY <2>1 DEF Arrive, NoPacket, Received, ParseBuf, Cursor, s
  <2> QED BY <1>7, <2>1, <2>2 DEF Arrived
<1>9. ASSUME rx.state = "Uninit" \/ rx.state = "PlainDecode"
      PROVE  \E len \in 0 .. Len(s) : Arrived(rx, len, s, plain)
  <2>1. rx # NoPacket BY <1>9 DEF NoPacket
  <2>2. PICK len \in 0 .. Len(s) :
          \/ Arrived(rx, len, s, plain) \/ Refused(rx, len, s, plain, key)
          \/ Misread(rx, plain, key) \/ Accepted(rx, len, s, q, r, n, plain, proto, key)
    BY <1>2, <2>1 DEF Holds, q, r, n
  <2>3. ~ Refused(rx, len, s, plain, key) /\ ~ Misread(rx, plain, key)
    BY <1>9 DEF Refused, Misread
  <2>4. ~ Accepted(rx, len, s, q, r, n, plain, proto, key) BY <1>9 DEF Accepted, Received
  <2> QED BY <2>2, <2>3, <2>4
<1>10. CASE PlainHdrDecode
  <2>1. rx.state = "Uninit" BY <1>10 DEF PlainHdrDecode
  <2>2. PICK len \in 0 .. Len(s) : Arrived(rx, len, s, plain) BY <1>9, <2>1
  <2>3. rx = Received("Uninit", Cursor(s, len, 0, len), << >>, << >>)
    BY <2>1, <2>2 DEF Arrived, Received
  <2>4. q <= Len(s) BY <1>4 DEF OccursAt, q
  <2>5. Arrived(rx', len, s, plain) \/ Refused(rx', len, s, plain, key)
    BY <1>4, <1>10, <2>3, <2>4, PlainHdrDecodeHolds DEF q
  <2> QED BY <1>7, <2>5
<1>11. CASE ProtoDecode
  <2>1. rx.state = "PlainDecode" BY <1>11 DEF ProtoDecode
  <2>2. PICK len \in 0 .. Len(s) : Arrived(rx, len, s, plain) BY <1>9, <2>1
  <2>3. PICK left \in Nat :
          /\ IsCut(s, len, ReadLen(plain), left)
          /\ rx = Received("PlainDecode", Cursor(s, len, ReadLen(plain), left),
                           << Understood(plain) >>, << >>)
    BY <2>1, <2>2 DEF Arrived, Received
  <2>4. \/ Accepted(rx', len, s, q, r, n, plain, proto, key)
        \/ Refused(rx', len, s, plain, key) \/ Misread(rx', plain, key)
    BY <1>1, <1>2, <1>3, <1>4, <1>11, <2>3, ProtoDecodeHolds
  <2> QED BY <1>7, <2>4
<1> QED BY <1>8, <1>10, <1>11

\* Every step keeps the invariant: one datagram is sent, and received as it is.
LEMMA DatagramInvHolds ==
  ASSUME DatagramInv, [DatagramNext]_datagramVars
  PROVE  DatagramInv'
<1>1. CASE UNCHANGED datagramVars
  <2>1. sent' = sent /\ wire' = wire /\ rx' = rx BY <1>1 DEF datagramVars
  <2>2. CASE sent = << >> /\ ~ wire.ok /\ rx = NoPacket
    <3>1. sent' = << >> /\ ~ wire'.ok /\ rx' = NoPacket' BY <2>1, <2>2 DEF NoPacket
    <3> QED BY <3>1 DEF DatagramInv
  <2>3. CASE \E plain \in PlainHdr, proto \in ProtoHdr, payload \in Seq(Nat), key \in Keys :
               SentInv(plain, proto, payload, key)
    <3>1. PICK plain \in PlainHdr, proto \in ProtoHdr, payload \in Seq(Nat), key \in Keys :
            SentInv(plain, proto, payload, key)
      BY <2>3
    <3>2. SentInv(plain, proto, payload, key)'
      BY <2>1, <3>1 DEF SentInv, Holds, Arrived, Refused, Misread, Accepted, NoPacket
    <3> QED BY <3>2 DEF DatagramInv
  <2> QED BY <2>2, <2>3 DEF DatagramInv
<1>2. ASSUME NEW given \in PlainHdrs, NEW proto \in ProtoHdrs, NEW payload \in Payloads,
             NEW key \in Keys, NEW peer \in PeerNodes, Send(given, proto, payload, key, peer)
      PROVE  DatagramInv'
  <2> DEFINE plain == SetDest(given, key, peer)
  <2>1. /\ given \in PlainHdr /\ proto \in ProtoHdr /\ payload \in Seq(Nat)
        /\ peer \in Octets(8) \union {<< >>}
    BY HeadersAssumption
  <2>2. plain \in PlainHdr /\ plain.sess_id = given.sess_id BY <1>2, <2>1, DestIsHdr DEF Send
  <2>3. Iv(given) = Iv(plain) BY <2>1 DEF Iv, SetDest, PlainHdr
  <2>4. /\ sent = << >> /\ (key # << >>) = (given.sess_id # << 0, 0 >>)
        /\ sent' = << [plain |-> plain, proto |-> proto, payload |-> payload, key |-> key] >>
        /\ wire' = DoSend(given, proto, payload, key, peer) /\ rx' = rx
    BY <1>2 DEF Send
  <2> HIDE DEF plain
  <2>5. rx = NoPacket BY <2>4 DEF DatagramInv, SentInv
  <2>6. wire'.ok =>
          wire' = [ok |-> TRUE, bytes |-> PlainBytes(plain) \o Sealed(proto, payload, key),
                   seal |-> << key, Iv(plain), PlainBytes(plain), Text(proto, payload) >>]
    BY <2>1, <2>2, <2>3, <2>4, SentIs DEF plain
  <2>7. rx' = NoPacket' BY <2>4, <2>5 DEF NoPacket
  <2>8. SentInv(plain, proto, payload, key)' BY <2>2, <2>4, <2>6, <2>7 DEF SentInv
  <2> QED BY <2>1, <2>2, <2>8 DEF DatagramInv
<1>3. CASE (\E len \in 0 .. Len(wire.bytes) : Arrive(len)) \/ PlainHdrDecode \/ ProtoDecode
  <2>1. wire.ok /\ sent # << >>
    <3>1. wire.ok \/ rx.state # "none"
      BY <1>3 DEF Arrive, PlainHdrDecode, ProtoDecode
    <3>2. wire.ok \/ rx # NoPacket BY <3>1 DEF NoPacket
    <3>3. PICK plain \in PlainHdr, proto \in ProtoHdr, payload \in Seq(Nat), key \in Keys :
            SentInv(plain, proto, payload, key)
      BY <3>2 DEF DatagramInv
    <3>4. sent # << >>
      <4>1. sent = << [plain |-> plain, proto |-> proto, payload |-> payload, key |-> key] >>
        BY <3>3 DEF SentInv
      <4> QED BY <4>1
    <3> QED BY <3>2, <3>3, <3>4 DEF SentInv
  <2>2. PICK plain \in PlainHdr, proto \in ProtoHdr, payload \in Seq(Nat), key \in Keys :
          SentInv(plain, proto, payload, key)
    BY <2>1 DEF DatagramInv
  <2>3. SentInv(plain, proto, payload, key)' BY <1>3, <2>1, <2>2, ReceivingHolds
  <2> QED BY <2>3 DEF DatagramInv
<1> QED BY <1>1, <1>2, <1>3 DEF DatagramNext

\* What the packet holds is then what the property says of it.
LEMMA HoldsWhatWasSent ==
  ASSUME NEW plain \in PlainHdr, NEW proto \in ProtoHdr, NEW payload \in Seq(Nat), NEW key,
         SentInv(plain, proto, payload, key), wire.ok, rx # NoPacket
  PROVE  AcceptedIsSent
<1> DEFINE s == wire.bytes
           q == Len(PlainBytes(plain))
           r == Len(ProtoBytes(proto))
           n == Len(payload)
           whole == Len(rx.pb.buf) = Len(s)
<1>1. IsDatagram(s, q, r, n, plain, proto, payload, key) BY WireIs
<1>2. /\ s \in Seq(Nat) /\ OccursAt(s, q + r, payload) /\ q \in Nat /\ r \in Nat /\ n \in Nat
  BY <1>1 DEF IsDatagram
<1>3. /\ sent[1].plain = plain /\ sent[1].proto = proto
      /\ sent[1].payload = payload /\ sent[1].key = key
  BY DEF SentInv
<1>4. \E len \in 0 .. Len(s) : \/ Arrived(rx, len, s, plain)
                               \/ Refused(rx, len, s, plain, key)
                               \/ Misread(rx, plain, key)
                               \/ Accepted(rx, len, s, q, r, n, plain, proto, key)
  BY DEF SentInv, Holds
<1> HIDE DEF s, q, r, n
<1>5. PICK len \in 0 .. Len(s) : \/ Arrived(rx, len, s, plain)
                                 \/ Refused(rx, len, s, plain, key)
                                 \/ Misread(rx, plain, key)
                                 \/ Accepted(rx, len, s, q, r, n, plain, proto, key)
  BY <1>4
<1>6. Len(SubSeq(s, 1, len)) = len BY <1>2, <1>5, CutIs
<1>7. CASE Arrived(rx, len, s, plain)
  <2>1. rx.state = "Uninit" \/ rx.state = "PlainDecode" BY <1>7 DEF Arrived, Received
  <2> QED BY <2>1 DEF AcceptedIsSent
<1>8. CASE Refused(rx, len, s, plain, key)
  <2>1. \/ rx.state = "refused" /\ ~ Legible(plain, key)
        \/ (rx.state = "refused" \/ (rx.state = "panic" /\ key # << >>)) /\ ~ whole
    BY <1>6, <1>8 DEF Refused
  <2> HIDE DEF whole
  <2> QED BY <1>3, <2>1 DEF AcceptedIsSent, whole, s
<1>9. CASE Misread(rx, plain, key)
  <2>1. /\ rx.state = "ProtoDecode" /\ rx.plain = << Understood(plain) >>
        /\ ~ Legible(plain, key) /\ key = << >>
    BY <1>9 DEF Misread
  <2> QED BY <1>3, <2>1 DEF AcceptedIsSent
<1>10. CASE Accepted(rx, len, s, q, r, n, plain, proto, key)
  <2>1. PICK rest \in 0 .. n :
          /\ rx = Received("ProtoDecode", Cursor(s, len, q + r, rest), << plain >>, << proto >>)
          /\ (q + r) + rest <= len
          /\ len = Len(s) => rest = n
          /\ key # << >> => len = Len(s)
          /\ Legible(plain, key)
    BY <1>10 DEF Accepted
  <2> DEFINE off == q + r
  <2>2. /\ rx.state = "ProtoDecode" /\ rx.pb = Cursor(s, len, off, rest)
        /\ rx.plain = << plain >> /\ rx.proto = << proto >>
    BY <2>1 DEF Received
  <2>3. rx.pb.buf = SubSeq(s, 1, len) BY <2>2 DEF Cursor
  <2>4. whole <=> len = Len(s) BY <1>6, <2>3
  <2>5. LeftOf(s, payload, len, off, rest) /\ off \in Nat
    BY <1>2, <2>1 DEF LeftOf, n
  <2> HIDE DEF off, whole
  <2>6. Unread(rx.pb) = SubSeq(payload, 1, rest) BY <1>1, <1>2, <2>2, <2>5, UnreadIs
  <2>7. rest = n => Unread(rx.pb) = payload
    <3>1. SubSeq(payload, 1, Len(payload)) = payload BY <1>1, SubSeqFull
    <3> QED BY <2>6, <3>1 DEF n
  <2>8. IsPrefix(Unread(rx.pb), payload)
    <3>1. rest \in 0 .. Len(payload) BY DEF n
    <3>2. Len(SubSeq(payload, 1, rest)) = rest BY <1>1, <3>1, CutIs
    <3>3. Len(SubSeq(payload, 1, rest)) <= Len(payload) BY <1>1, <3>1, <3>2
    <3> QED BY <2>6, <3>2, <3>3 DEF IsPrefix
  <2>9. Understood(plain) = plain BY <2>1 DEF Legible
  <2> QED BY <1>3, <2>1, <2>2, <2>4, <2>7, <2>8, <2>9 DEF AcceptedIsSent, whole, s
<1> QED BY <1>5, <1>7, <1>8, <1>9, <1>10

\* Packet::plain_hdr_decode and proto_decode give back what do_send sent, for every header,
\* payload, key and node of a peer, and every length of a packet's buffer: of a datagram that
\* this decoder can read, both headers, and all of the payload or, of one in the clear that
\* was cut, its beginning.  A whole one that it can read is not refused, none that is whole
\* or in the clear makes it panic, and one that was sealed is accepted only when it is whole.
THEOREM AcceptedIsAlwaysSent == DatagramSpec => []AcceptedIsSent
<1>1. DatagramInit => DatagramInv BY DEF DatagramInit, DatagramInv
<1>2. DatagramInv /\ [DatagramNext]_datagramVars => DatagramInv' BY DatagramInvHolds
<1>3. DatagramInv => AcceptedIsSent
  <2>1. CASE rx = NoPacket BY <2>1 DEF AcceptedIsSent, NoPacket
  <2>2. ASSUME DatagramInv, rx # NoPacket PROVE AcceptedIsSent
    BY <2>2, HoldsWhatWasSent DEF DatagramInv, SentInv
  <2> QED BY <2>1, <2>2
<1> QED BY <1>1, <1>2, <1>3, PTL DEF DatagramSpec
=============================================================================
