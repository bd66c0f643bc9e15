------------------------------ MODULE Buffers ------------------------------
(***************************************************************************)
(* The two cursors over a byte buffer of utils/: WriteBuf, which grows at  *)
(* its end and, into space reserved at the front, at its start; and        *)
(* ParseBuf, which is consumed from its head and from its tail.  A call    *)
(* that does not fit changes nothing and fails: ok goes FALSE, and every   *)
(* call after it is skipped, which is what the `?` after each call does.   *)
(***************************************************************************)
EXTENDS Naturals, SequencesExt

Slice(buf, from, to) == SubSeq(buf, from + 1, to)
Overlay(buf, at, src) ==
  [i \in DOMAIN buf |-> IF i \in at + 1 .. at + Len(src) THEN src[i - at] ELSE buf[i]]

WriteBuf(len) == [buf |-> [i \in 1 .. len |-> 0], start |-> 0, end |-> 0, ok |-> TRUE]

Failed(b) == [b EXCEPT !.ok = FALSE]

Reserve(wb, n) ==
  IF wb.end # 0 \/ wb.start # 0 THEN Failed(wb) ELSE [wb EXCEPT !.start = n, !.end = n]

CopyFromSlice(wb, src) ==
  IF wb.ok /\ wb.end + Len(src) =< Len(wb.buf)
  THEN [wb EXCEPT !.buf = Overlay(@, wb.end, src), !.end = @ + Len(src)]
  ELSE Failed(wb)

Prepend(wb, src) ==
  IF wb.ok /\ Len(src) =< wb.start
  THEN [wb EXCEPT !.buf = Overlay(@, wb.start - Len(src), src), !.start = @ - Len(src)]
  ELSE Failed(wb)

RewindTailTo(wb, end) == [wb EXCEPT !.end = end]
ForwardTailBy(wb, n) == [wb EXCEPT !.end = @ + n]
Written(wb) == Slice(wb.buf, wb.start, wb.end)

ParseBuf(buf, len) == [buf |-> SubSeq(buf, 1, len), read_off |-> 0, left |-> len, ok |-> TRUE]

Unread(pb) == Slice(pb.buf, pb.read_off, pb.read_off + pb.left)
Parsed(pb) == Slice(pb.buf, 0, pb.read_off)

\* parse_head_with: the next n bytes, and the buffer after them.
Peek(pb, n) == Slice(pb.buf, pb.read_off, pb.read_off + n)
ParseHead(pb, n) ==
  IF pb.ok /\ pb.left >= n
  THEN [pb EXCEPT !.read_off = @ + n, !.left = @ - n]
  ELSE Failed(pb)

TakeTail(pb, n) == IF pb.ok /\ n =< pb.left THEN [pb EXCEPT !.left = @ - n] ELSE Failed(pb)
=============================================================================
