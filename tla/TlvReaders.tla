----------------------------- MODULE TlvReaders -----------------------------
(***************************************************************************)
(* What is built on the list iterator of Tlv: iterating over and comparing *)
(* containers (tlv/parser.rs), and the conversions of tlv/traits.rs and of *)
(* the derive macros.                                                      *)
(***************************************************************************)
EXTENDS Tlv, TLC

IsContainer(elem) == elem.type \in Containers

----------------------------------------------------------------------------
\* TLVContainerIterator: the elements of one container, skipping the insides
\* of those that are containers themselves.
Enter(elem) ==
  [list |-> [current |-> elem.val[1], left |-> elem.val[2]], prev |-> FALSE, consumed |-> FALSE]

RECURSIVE SkipToEndBug(_, _, _)
SkipToEndBug(buf, it, nest) ==
  LET step == Next_(buf, it) IN
  IF step.elem = NONE THEN step
  ELSE IF step.elem.type = "EndCnt" THEN Next_(buf, step.it)
  ELSE SkipToEndBug(buf, step.it, 0)

RECURSIVE SkipToEnd(_, _, _)
SkipToEnd(buf, it, nest) ==
  LET step == Next_(buf, it) IN
  CASE step.elem = NONE -> step
    [] step.elem.type = "EndCnt" /\ nest = 0 -> Next_(buf, step.it)
    [] step.elem.type = "EndCnt" /\ nest > 0 -> SkipToEnd(buf, step.it, nest - 1)
    [] OTHER -> SkipToEnd(buf, step.it, IF IsContainer(step.elem) THEN nest + 1 ELSE nest)

Stepped(c, step, ended) ==
  [c |-> [list |-> step.it, consumed |-> ended,
          prev |-> IF ended \/ step.elem = NONE THEN c.prev ELSE IsContainer(step.elem)],
   elem |-> IF ended THEN NONE ELSE step.elem]

StepIn(c, step) == Stepped(c, step, step.elem.type = "EndCnt")

ContainerNext(buf, c) ==
  IF c.consumed THEN [c |-> c, elem |-> NONE]
  ELSE StepIn(c, IF c.prev THEN SkipToEnd(buf, c.list, 0) ELSE Next_(buf, c.list))

RECURSIVE Rest(_, _)
Rest(buf, c) ==
  LET step == ContainerNext(buf, c)
  IN IF step.elem = NONE THEN << >> ELSE << step.elem >> \o Rest(buf, step.c)
Children(buf, elem) == Rest(buf, Enter(elem))

FindTag(buf, elem, n) ==
  LET found == SelectSeq(Children(buf, elem), LAMBDA e : e.tag = Context(n))
  IN IF found = << >> THEN NONE ELSE found[1]

\* PartialEq: two containers are walked together, to the end of the first.
SameHeadBug(a, b) == IF IsContainer(a) THEN a.type = b.type ELSE a.type = b.type /\ a.val = b.val
SameHead(a, b) ==
  /\ IF IsContainer(a) THEN a.type = b.type ELSE a.type = b.type /\ a.val = b.val
  /\ a.tag = b.tag

RECURSIVE SameWalk(_, _, _, _)
SameWalk(buf, ours, theirs, nest) ==
  LET us == Next_(buf, ours)
      them == Next_(buf, theirs)
  IN CASE (us.elem = NONE) # (them.elem = NONE) -> FALSE
       [] us.elem = NONE /\ them.elem = NONE -> TRUE
       [] us.elem.type = "EndCnt" /\ them.elem # NONE ->
            nest = 0 \/ SameWalk(buf, us.it, them.it, nest - 1)
       [] OTHER ->
            /\ SameHead(us.elem, them.elem)
            /\ SameWalk(buf, us.it, them.it, IF IsContainer(us.elem) THEN nest + 1 ELSE nest)

Equal(buf, a, b) ==
  IF IsContainer(a)
  THEN IsContainer(b) /\ SameWalk(buf, Enter(a).list, Enter(b).list, 0)
  ELSE a.tag = b.tag /\ a.type = b.type /\ a.val = b.val

----------------------------------------------------------------------------
(* FromTLV: what an element is as a value of a Rust type.  A result is a    *)
(* state, "some", "none" (an absent Option), "null" or "err", and a value.  *)

Some(val) == [st |-> "some", val |-> val]
Is(st) == [st |-> st, val |-> << >>]

UintKinds == << "u8", "u16", "u32", "u64" >>
UintFrom(kind, e) ==
  LET n == CHOOSE i \in 1 .. 4 : UintKinds[i] = kind
  IN IF \E i \in 1 .. n : e.type = << "U8", "U16", "U32", "U64" >>[i]
     THEN Some(Widened(e.val, 2 ^ (n - 1))) ELSE Is("err")

BoolFrom(e) ==
  CASE e.type = "False" -> Some(<< 0 >>) [] e.type = "True" -> Some(<< 1 >>) [] OTHER -> Is("err")
SliceFrom(e) == IF e.type \in Strings THEN Some(e.val) ELSE Is("err")

\* Nullable<u8>, and Option of anything: only a missing element is None.
NullableFrom(e) == IF e.type = "Null" THEN Is("null") ELSE UintFrom("u8", e)

\* TLVArrayOwned<u8>, and [u8; N] as the code converts them: one element that
\* is not of the type spoils the whole array.
Bytes(elems) == FlattenSeq([i \in DOMAIN elems |-> UintFrom("u8", elems[i]).val])
AllBytes(elems) == \A i \in DOMAIN elems : elems[i].type = "U8"
OwnedFrom(buf, e) ==
  IF e.type = "Array" /\ AllBytes(Children(buf, e)) THEN Some(Bytes(Children(buf, e))) ELSE Is("err")
FixedFrom(buf, e, n) ==
  IF e.type # "Array" THEN Is("err")
  ELSE LET all == Children(buf, e)
           first == SubSeq(all, 1, IF Len(all) < n THEN Len(all) ELSE n)
       IN IF AllBytes(first) THEN Some(Widened(Bytes(first), n)) ELSE Is("err")

\* TLVArray<u8>: read lazily, up to the first element that is not of the type.
ArrayIter(buf, e) ==
  LET all == Children(buf, e)
      good == {n \in 0 .. Len(all) : AllBytes(SubSeq(all, 1, n))}
  IN Bytes(SubSeq(all, 1, CHOOSE n \in good : \A m \in good : m =< n))

From(buf, kind, e) ==
  CASE kind \in {"u8", "u16", "u32", "u64"} -> UintFrom(kind, e)
    [] kind = "bool" -> BoolFrom(e)
    [] kind = "ostr" -> SliceFrom(e)
    [] kind = "nullable" -> NullableFrom(e)

NotFound(f) == IF f.optional THEN Is("none") ELSE Is("err")

\* The derived from_tlv of a struct: one walk over a Struct, in which a field
\* whose tag is not the one at hand is absent; or, `unordered`, a search for
\* each tag in whatever container it is.
OrderedBug(buf, elem, schema) ==
  FoldLeft(LAMBDA acc, f :
             IF acc.step.elem # NONE
             THEN [step |-> ContainerNext(buf, acc.step.c),
                   out |-> acc.out \o << From(buf, f.kind, acc.step.elem) >>]
             ELSE [acc EXCEPT !.out = @ \o << NotFound(f) >>],
           [step |-> ContainerNext(buf, Enter(elem)), out |-> << >>], schema).out

Ordered(buf, elem, schema) ==
  IF elem.type # "Struct" THEN [i \in DOMAIN schema |-> Is("err")]
  ELSE
  FoldLeft(LAMBDA acc, f :
             IF acc.step.elem # NONE /\ acc.step.elem.tag = Context(f.tag)
             THEN [step |-> ContainerNext(buf, acc.step.c),
                   out |-> acc.out \o << From(buf, f.kind, acc.step.elem) >>]
             ELSE [acc EXCEPT !.out = @ \o << NotFound(f) >>],
           [step |-> ContainerNext(buf, Enter(elem)), out |-> << >>], schema).out

Unordered(buf, elem, schema) ==
  [i \in DOMAIN schema |->
     LET e == FindTag(buf, elem, schema[i].tag)
     IN IF e = NONE THEN NotFound(schema[i]) ELSE From(buf, schema[i].kind, e)]

\* The derived from_tlv of an enum whose variants are the fields: the first
\* element alone says which variant it is.
EnumFrom(buf, elem, schema) ==
  LET first == ContainerNext(buf, Enter(elem)).elem
      variant == {i \in DOMAIN schema : first.tag = Context(schema[i].tag)}
  IN IF elem.type # "Struct" \/ first = NONE \/ variant = {} THEN << 0, Is("err") >>
     ELSE LET i == CHOOSE i \in variant : TRUE IN << i, From(buf, schema[i].kind, first) >>

----------------------------------------------------------------------------
Written_ == Elements(wb.buf, wb.end)

\* How deep element j is below the container i: 0 for its own elements.
Opens(E, i, j) == Cardinality({k \in i + 1 .. j : IsContainer(E[k])})
Closes(E, i, j) == Cardinality({k \in i + 1 .. j : E[k].type = "EndCnt"})
Direct(E, i) ==
  SelectSeq([j \in 1 .. Len(E) |-> j],
            LAMBDA j : /\ j > i /\ E[j].type # "EndCnt"
                       /\ Opens(E, i, j - 1) = Closes(E, i, j - 1)
                       /\ \A k \in i .. j : Opens(E, i, k) >= Closes(E, i, k))

\* Iterating over a container gives its own elements, in order: none of a
\* container inside it, and none of what comes after it.
ChildrenAreDirect ==
  LET E == Written_
  IN \A i \in DOMAIN E : IsContainer(E[i]) =>
       LET own == Direct(E, i)
       IN Children(wb.buf, E[i]) = [k \in DOMAIN own |-> E[own[k]]]

KindsOf(elems) ==
  [k \in DOMAIN elems |->
     IF IsContainer(elems[k]) THEN [elems[k] EXCEPT !.val = << >>] ELSE elems[k]]

\* Two containers that are equal, either way round, hold the same elements.
\* One way round is not enough: the walk ends with the first of them.
SameContents(a, b) ==
  Equal(wb.buf, a, b) /\ Equal(wb.buf, b, a) =>
    KindsOf(Children(wb.buf, a)) = KindsOf(Children(wb.buf, b))
EqualBothWays ==
  LET E == SelectSeq(Written_, IsContainer)
  IN \A i, j \in DOMAIN E : SameContents(E[i], E[j])

\* A derived struct written whole is read back field for field, in both ways
\* of reading it; read as an enum, it is the variant of its first field.
FieldsOf(elem) ==
  /\ Ordered(wb.buf, elem, Schema) = value.fields
  /\ Unordered(wb.buf, elem, Schema) = value.fields
  /\ LET given == {i \in DOMAIN Schema : value.fields[i].st # "none"}
     IN \A i \in given : (\A j \in given : i =< j) =>
          EnumFrom(wb.buf, elem, Schema) = << i, value.fields[i] >>
StructReadsBack == wb.ok /\ value.at # 0 /\ field = 0 => FieldsOf(Written_[value.at])

\* Whatever a struct holds, the walk and the search agree while its tags rise
\* and are all known; and an array of bytes reads the same lazily, as a
\* vector and, as far as it goes, as an array of fixed length.
Rising(elems) ==
  /\ \A k \in DOMAIN elems : elems[k].tag \in {Context(Schema[i].tag) : i \in DOMAIN Schema}
  /\ \A k, l \in DOMAIN elems : k < l => elems[k].tag[2][1] < elems[l].tag[2][1]
ArraysAgree(elems, owned, lazy, fixed) ==
  /\ IsPrefix(lazy, Bytes(elems))
  /\ owned.st = "some" =>
       /\ owned.val = lazy
       /\ fixed = Some(Widened(SubSeq(lazy, 1, IF Len(lazy) < 2 THEN Len(lazy) ELSE 2), 2))
ReadersAgree(e, elems) ==
  /\ e.type = "Struct" /\ Rising(elems) =>
       Ordered(wb.buf, e, Schema) = Unordered(wb.buf, e, Schema)
  /\ e.type = "Array" =>
       ArraysAgree(elems, OwnedFrom(wb.buf, e), ArrayIter(wb.buf, e), FixedFrom(wb.buf, e, 2))
DecodersAgree ==
  LET E == SelectSeq(Written_, IsContainer)
  IN \A i \in DOMAIN E : ReadersAgree(E[i], Children(wb.buf, E[i]))

=============================================================================
