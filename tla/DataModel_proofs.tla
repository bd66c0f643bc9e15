-------------------------- MODULE DataModel_proofs --------------------------
(***************************************************************************)
(* Proofs of the properties of DataModel, for every number of fabrics and  *)
(* entries, every set of requests and any number of restarts and failures. *)
(*                                                                         *)
(* The first half is about tables (AclTable): what storing and loading, a  *)
(* torn file and each list operation make of the entries of each fabric.   *)
(***************************************************************************)
EXTENDS DataModel, FiniteSetTheorems, TLAPS

(***************************************************************************)
(* Finite sets of numbers, counted from below.                             *)
(***************************************************************************)
Upto(D, s)  == {r \in D : r <= s}
Below(D, s) == {r \in D : r < s}

LEMMA LeastNumber ==
  ASSUME NEW T, T \subseteq Nat, T # {}
  PROVE  \E x \in T : \A y \in T : x <= y
<1> DEFINE R == {ss \in Nat \X Nat : ss[1] < ss[2]}
<1>1. IsWellFoundedOn(R, Nat) BY NatLessThanWellFounded DEF OpToRel
<1>2. \A x, y \in Nat : <<y, x>> \in R <=> y < x OBVIOUS
<1> HIDE DEF R
<1>3. PICK x \in T : \A y \in T : ~ (<<y, x>> \in R) BY <1>1, WFMin
<1>4. ASSUME NEW y \in T PROVE x <= y
  <2>1. x \in Nat /\ y \in Nat OBVIOUS
  <2>2. ~ (y < x) BY <1>2, <1>3, <2>1
  <2> QED BY <2>1, <2>2
<1> QED BY <1>4

\* The ranks of the elements of a set are 1 .. n, each once.
LEMMA Ranks ==
  ASSUME NEW D \in SUBSET Nat, IsFiniteSet(D)
  PROVE  /\ Cardinality(D) \in Nat
         /\ \A s \in D : /\ Cardinality(Upto(D, s)) \in 1 .. Cardinality(D)
                         /\ Cardinality(Below(D, s)) = Cardinality(Upto(D, s)) - 1
         /\ \A s, t \in D : s < t => Cardinality(Upto(D, s)) < Cardinality(Upto(D, t))
         /\ \A k \in 1 .. Cardinality(D) : \E s \in D : Cardinality(Upto(D, s)) = k
<1>1. \A r \in D : r \in Nat OBVIOUS
<1>2. Cardinality(D) \in Nat BY FS_CardinalityType
<1>3. ASSUME NEW s \in D
      PROVE  /\ IsFiniteSet(Upto(D, s)) /\ Cardinality(Upto(D, s)) \in 1 .. Cardinality(D)
             /\ Cardinality(Below(D, s)) = Cardinality(Upto(D, s)) - 1
  <2>1. Upto(D, s) \in SUBSET D /\ s \in Upto(D, s) BY DEF Upto
  <2>2. IsFiniteSet(Upto(D, s)) /\ Cardinality(Upto(D, s)) <= Cardinality(D)
    BY <2>1, FS_Subset
  <2>3. Cardinality(Upto(D, s)) \in Nat /\ Cardinality(Upto(D, s)) # 0
    BY <2>1, <2>2, FS_CardinalityType, FS_EmptySet
  <2>4. Below(D, s) = Upto(D, s) \ {s}
    <3>1. \A r \in D : r < s <=> r <= s /\ r # s BY <1>1
    <3> QED BY <3>1 DEF Upto, Below
  <2>5. Cardinality(Below(D, s)) = Cardinality(Upto(D, s)) - 1
    BY <2>1, <2>2, <2>4, FS_RemoveElement
  <2> QED BY <1>2, <2>2, <2>3, <2>5
<1>4. ASSUME NEW s \in D, NEW t \in D, s < t
      PROVE  Cardinality(Upto(D, s)) < Cardinality(Upto(D, t))
  <2>1. Upto(D, s) \in SUBSET Upto(D, t) /\ t \in Upto(D, t) /\ t \notin Upto(D, s)
    <3>1. \A r \in D : r <= s => r <= t BY <1>1, <1>4
    <3>2. t \in Nat /\ s \in Nat BY <1>1
    <3>3. ~ (t <= s) /\ t <= t BY <1>4, <3>2
    <3> QED BY <3>1, <3>3 DEF Upto
  <2>2. /\ Cardinality(Upto(D, s)) <= Cardinality(Upto(D, t))
        /\ Cardinality(Upto(D, s)) # Cardinality(Upto(D, t))
    BY <1>3, <2>1, FS_Subset
  <2>3. Cardinality(Upto(D, s)) \in Nat /\ Cardinality(Upto(D, t)) \in Nat
    BY <1>2, <1>3
  <2> QED BY <2>2, <2>3
<1>5. \A k \in 1 .. Cardinality(D) : \E s \in D : Cardinality(Upto(D, s)) = k
  <2> DEFINE f == [s \in D |-> Cardinality(Upto(D, s))]
  <2>1. f \in [D -> 1 .. Cardinality(D)] BY <1>3
  <2>2. \A s, t \in D : s # t => f[s] # f[t]
    <3>1. \A s, t \in D : s < t \/ t < s \/ s = t OBVIOUS
    <3>2. \A s \in D : Cardinality(Upto(D, s)) \in Nat BY <1>2, <1>3
    <3> QED BY <1>4, <3>1, <3>2
  <2> HIDE DEF f
  <2>3. f \in Injection(D, 1 .. Cardinality(D)) BY <2>1, <2>2 DEF Injection, IsInjective
  <2>4. IsFiniteSet(1 .. Cardinality(D)) /\ Cardinality(1 .. Cardinality(D)) = Cardinality(D)
    BY <1>2, FS_Interval
  <2>5. f \in Surjection(D, 1 .. Cardinality(D)) BY <2>3, <2>4, FS_Injection
  <2> QED BY <2>5 DEF Surjection, f
<1> QED BY <1>2, <1>3, <1>4, <1>5

(***************************************************************************)
(* Tables.                                                                 *)
(***************************************************************************)
LEMMA SlotsAre ==
  /\ Slots \in SUBSET Nat /\ IsFiniteSet(Slots)
  /\ Cardinality(Slots) = ENTRIES_PER_FABRIC * MAX_SUPPORTED_FABRICS
  /\ \A n \in Nat : n <= Cardinality(Slots) => 1 .. n \subseteq Slots
<1> DEFINE top == ENTRIES_PER_FABRIC * MAX_SUPPORTED_FABRICS
<1>1. top \in Nat BY AclAssumption
<1>2. Slots = 1 .. top BY DEF Slots
<1> HIDE DEF top
<1>3. IsFiniteSet(Slots) /\ Cardinality(Slots) = top BY <1>1, <1>2, FS_Interval
<1>4. \A n \in Nat : n <= top => 1 .. n \subseteq 1 .. top BY <1>1
<1> QED BY <1>1, <1>2, <1>3, <1>4 DEF top

LEMMA TableSlots ==
  ASSUME NEW tbl, DOMAIN tbl \subseteq Slots
  PROVE  /\ DOMAIN tbl \in SUBSET Nat /\ IsFiniteSet(DOMAIN tbl)
         /\ Cardinality(DOMAIN tbl) \in Nat /\ Cardinality(DOMAIN tbl) <= Cardinality(Slots)
         /\ \A f : /\ FabricSlots(tbl, f) \in SUBSET Nat
                   /\ FabricSlots(tbl, f) \in SUBSET DOMAIN tbl
                   /\ IsFiniteSet(FabricSlots(tbl, f))
                   /\ Cardinality(FabricSlots(tbl, f)) \in Nat
<1>1. DOMAIN tbl \in SUBSET Slots /\ DOMAIN tbl \in SUBSET Nat BY SlotsAre
<1>2. IsFiniteSet(DOMAIN tbl) /\ Cardinality(DOMAIN tbl) <= Cardinality(Slots)
  BY <1>1, SlotsAre, FS_Subset
<1>3. \A f : FabricSlots(tbl, f) \in SUBSET DOMAIN tbl BY DEF FabricSlots
<1>4. \A f : IsFiniteSet(FabricSlots(tbl, f)) BY <1>2, <1>3, FS_Subset
<1>5. \A f : FabricSlots(tbl, f) \in SUBSET Nat BY <1>1, <1>3
<1> QED BY <1>1, <1>2, <1>3, <1>4, <1>5, FS_CardinalityType

\* A table that has no more of any fabric is within its quota as well.
LEMMA FewerWithinQuota ==
  ASSUME NEW tbl, DOMAIN tbl \subseteq Slots, WithinQuota(tbl), NEW new,
         \A f \in Fabrics : FabricSlots(new, f) \subseteq FabricSlots(tbl, f)
  PROVE  WithinQuota(new)
<1> SUFFICES ASSUME NEW f \in Fabrics
             PROVE  Cardinality(FabricSlots(new, f)) <= ENTRIES_PER_FABRIC
  BY DEF WithinQuota
<1>1. FabricSlots(new, f) \in SUBSET FabricSlots(tbl, f) OBVIOUS
<1>2. IsFiniteSet(FabricSlots(tbl, f)) /\ Cardinality(FabricSlots(tbl, f)) \in Nat
  BY TableSlots
<1>3. /\ Cardinality(FabricSlots(new, f)) <= Cardinality(FabricSlots(tbl, f))
      /\ Cardinality(FabricSlots(new, f)) \in Nat
  BY <1>1, <1>2, FS_Subset, FS_CardinalityType
<1>4. Cardinality(FabricSlots(tbl, f)) <= ENTRIES_PER_FABRIC BY DEF WithinQuota
<1> QED BY <1>2, <1>3, <1>4, AclAssumption

(***************************************************************************)
(* The image that is stored.                                               *)
(***************************************************************************)
SlotOf(tbl, k) == CHOOSE s \in DOMAIN tbl : RankOf(tbl, s) = k

\* Operate comes back as Manage, the rest as it was.
LEMMA PrivilegeStored ==
  ASSUME NEW p \in {VIEW, OPERATE, MANAGE, ADMIN}
  PROVE  PrivilegeFromTlv[PrivilegeToTlv(p)] = IF p = OPERATE THEN MANAGE ELSE p
<1>1. /\ PrivilegeToTlv(VIEW) = 1 /\ PrivilegeToTlv(OPERATE) = 4
      /\ PrivilegeToTlv(MANAGE) = 4 /\ PrivilegeToTlv(ADMIN) = 5
  BY DEF PrivilegeToTlv, VIEW, OPERATE, MANAGE, ADMIN
<1>2. /\ PrivilegeFromTlv[1] = VIEW /\ PrivilegeFromTlv[4] = MANAGE
      /\ PrivilegeFromTlv[5] = ADMIN
  BY DEF PrivilegeFromTlv
<1>3. VIEW # OPERATE /\ ADMIN # OPERATE
  BY DEF VIEW, OPERATE, ADMIN
<1> QED BY <1>1, <1>2, <1>3

\* The entries of a table are numbered in the order of their slots.
LEMMA SlotsByRank ==
  ASSUME NEW tbl, DOMAIN tbl \subseteq Slots
  PROVE  LET n == Cardinality(DOMAIN tbl) IN
         /\ \A k \in 1 .. n : SlotOf(tbl, k) \in DOMAIN tbl /\ RankOf(tbl, SlotOf(tbl, k)) = k
         /\ \A s \in DOMAIN tbl : RankOf(tbl, s) \in 1 .. n /\ SlotOf(tbl, RankOf(tbl, s)) = s
<1> DEFINE D == DOMAIN tbl
           n == Cardinality(D)
<1>1. D \in SUBSET Nat /\ IsFiniteSet(D) /\ n \in Nat BY TableSlots
<1>2. \A s : RankOf(tbl, s) = Cardinality(Upto(D, s)) BY DEF RankOf, Upto
<1>3. \A s \in D : RankOf(tbl, s) \in 1 .. n BY <1>1, <1>2, Ranks
<1>4. \A s, t \in D : RankOf(tbl, s) = RankOf(tbl, t) => s = t
  <2>1. \A s, t \in D : s < t => RankOf(tbl, s) < RankOf(tbl, t) BY <1>1, <1>2, Ranks
  <2>2. \A s \in D : s \in Nat /\ RankOf(tbl, s) \in Nat BY <1>1, <1>3
  <2> QED BY <2>1, <2>2
<1>5. \A k \in 1 .. n : \E s \in D : RankOf(tbl, s) = k BY <1>1, <1>2, Ranks
<1>6. \A k \in 1 .. n : SlotOf(tbl, k) \in D /\ RankOf(tbl, SlotOf(tbl, k)) = k
  BY <1>5 DEF SlotOf
<1> QED BY <1>3, <1>4, <1>6

\* What is stored is a table without gaps: the same entries, in the same order.
LEMMA ImageIs ==
  ASSUME NEW tbl, IsTable(tbl)
  PROVE  /\ IsTable(Image(tbl))
         /\ DOMAIN Image(tbl) = 1 .. Cardinality(DOMAIN tbl)
         /\ Cardinality(DOMAIN Image(tbl)) = Cardinality(DOMAIN tbl)
         /\ \A k \in DOMAIN Image(tbl) :
              LET e == tbl[SlotOf(tbl, k)] IN
                /\ SlotOf(tbl, k) \in DOMAIN tbl /\ e \in Entry
                /\ Image(tbl)[k] = [e EXCEPT !.privilege =
                                      IF e.privilege = OPERATE THEN MANAGE ELSE e.privilege]
<1> DEFINE n == Cardinality(DOMAIN tbl)
<1>1. DOMAIN tbl \subseteq Slots /\ tbl \in [DOMAIN tbl -> Entry] BY DEF IsTable
<1>2. n \in Nat /\ 1 .. n \subseteq Slots BY <1>1, TableSlots, SlotsAre
<1>3. DOMAIN Image(tbl) = 1 .. n BY DEF Image
<1>4. Cardinality(1 .. n) = n BY <1>2, FS_Interval
<1>5. ASSUME NEW k \in 1 .. n
      PROVE  LET e == tbl[SlotOf(tbl, k)] IN
               /\ SlotOf(tbl, k) \in DOMAIN tbl /\ e \in Entry
               /\ Image(tbl)[k] = [e EXCEPT !.privilege =
                                     IF e.privilege = OPERATE THEN MANAGE ELSE e.privilege]
               /\ Image(tbl)[k] \in Entry
  <2> DEFINE e == tbl[SlotOf(tbl, k)]
             p == IF e.privilege = OPERATE THEN MANAGE ELSE e.privilege
  <2>1. SlotOf(tbl, k) \in DOMAIN tbl BY <1>1, SlotsByRank
  <2>2. e \in Entry BY <1>1, <2>1
  <2>3. e.privilege \in {VIEW, OPERATE, MANAGE, ADMIN} BY <2>2 DEF Entry
  <2>4. Image(tbl)[k] = [e EXCEPT !.privilege = PrivilegeFromTlv[PrivilegeToTlv(@)]]
    BY DEF Image, SlotOf
  <2>5. PrivilegeFromTlv[PrivilegeToTlv(e.privilege)] = p BY <2>3, PrivilegeStored
  <2>6. Image(tbl)[k] = [e EXCEPT !.privilege = p] BY <2>4, <2>5
  <2>7. p \in {VIEW, OPERATE, MANAGE, ADMIN} BY <2>3
  <2> HIDE DEF e, p
  <2>8. [e EXCEPT !.privilege = p] \in Entry BY <2>2, <2>7 DEF Entry
  <2> QED BY <2>1, <2>2, <2>6, <2>8 DEF e, p
<1>6. Image(tbl) \in [1 .. n -> Entry]
  <2>1. Image(tbl) = [k \in 1 .. n |-> Image(tbl)[k]] BY DEF Image
  <2> QED BY <1>5, <2>1
<1> QED BY <1>2, <1>3, <1>4, <1>5, <1>6 DEF IsTable

LEMMA ImageWithinQuota ==
  ASSUME NEW tbl, IsTable(tbl), WithinQuota(tbl)
  PROVE  WithinQuota(Image(tbl))
<1> SUFFICES ASSUME NEW f \in Fabrics
             PROVE  Cardinality(FabricSlots(Image(tbl), f)) <= ENTRIES_PER_FABRIC
  BY DEF WithinQuota
<1> DEFINE S == FabricSlots(Image(tbl), f)
           T == FabricSlots(tbl, f)
           g == [k \in S |-> SlotOf(tbl, k)]
<1>1. DOMAIN tbl \subseteq Slots BY DEF IsTable
<1>2. S \subseteq 1 .. Cardinality(DOMAIN tbl) /\ S \subseteq DOMAIN Image(tbl)
  BY ImageIs DEF FabricSlots
<1>3. \A k \in S : SlotOf(tbl, k) \in T
  <2> SUFFICES ASSUME NEW k \in S PROVE SlotOf(tbl, k) \in T
    OBVIOUS
  <2> DEFINE e == tbl[SlotOf(tbl, k)]
             p == IF e.privilege = OPERATE THEN MANAGE ELSE e.privilege
  <2>1. SlotOf(tbl, k) \in DOMAIN tbl /\ e \in Entry /\ Image(tbl)[k] = [e EXCEPT !.privilege = p]
    BY <1>2, ImageIs
  <2> HIDE DEF e, p
  <2>2. Image(tbl)[k].fab = e.fab BY <2>1 DEF Entry
  <2> QED BY <2>1, <2>2 DEF FabricSlots, e
<1>4. \A j, k \in S : SlotOf(tbl, j) = SlotOf(tbl, k) => j = k BY <1>1, <1>2, SlotsByRank
<1>5. IsFiniteSet(T) /\ Cardinality(T) \in Nat /\ Cardinality(T) <= ENTRIES_PER_FABRIC
  BY <1>1, TableSlots DEF WithinQuota
<1> HIDE DEF S, T
<1>6. g \in Injection(S, T) BY <1>3, <1>4 DEF Injection, IsInjective
<1>7. IsFiniteSet(S) /\ Cardinality(S) <= Cardinality(T) BY <1>5, <1>6, FS_Injection
<1>8. Cardinality(S) \in Nat BY <1>7, FS_CardinalityType
<1> QED BY <1>5, <1>7, <1>8, AclAssumption DEF S

\* Tables of which the file holds a part: no gaps, and no more of any fabric.
PartOf(new, tbl) ==
  /\ IsTable(new) /\ DOMAIN new = 1 .. Cardinality(DOMAIN new)
  /\ \A f \in Fabrics : FabricSlots(new, f) \subseteq FabricSlots(tbl, f)

LEMMA TornIsPart ==
  ASSUME NEW img, IsTable(img), DOMAIN img = 1 .. Cardinality(DOMAIN img), NEW t \in Torn(img)
  PROVE  PartOf(t, img)
<1> DEFINE n == Cardinality(DOMAIN img)
<1>1. n \in Nat /\ n <= Cardinality(Slots) /\ img \in [1 .. n -> Entry]
  BY TableSlots DEF IsTable
<1>2. ASSUME NEW k \in 0 .. n, t \in [1 .. k -> Entry],
             \A s \in 1 .. k : t[s] = img[s] \/ t[s].fab = NoFabric
      PROVE  PartOf(t, img)
  <2>1. DOMAIN t = 1 .. k /\ k \in Nat /\ 1 .. k \subseteq 1 .. n BY <1>1, <1>2
  <2>2. Cardinality(1 .. k) = k BY <2>1, FS_Interval
  <2>3. 1 .. k \subseteq Slots BY <1>1, <2>1, SlotsAre
  <2>4. NoFabric \notin Fabrics BY AclAssumption DEF NoFabric, Fabrics
  <2>5. \A f \in Fabrics : FabricSlots(t, f) \subseteq FabricSlots(img, f)
    BY <1>1, <1>2, <2>1, <2>4 DEF FabricSlots
  <2> QED BY <1>2, <2>1, <2>2, <2>3, <2>5 DEF PartOf, IsTable
<1>3. CASE \E k \in 0 .. n : t = [s \in 1 .. k |-> img[s]]
  <2>1. PICK k \in 0 .. n : t = [s \in 1 .. k |-> img[s]] BY <1>3
  <2>2. \A s \in 1 .. k : s \in 1 .. n BY <1>1
  <2>3. t \in [1 .. k -> Entry] BY <1>1, <2>1, <2>2
  <2> QED BY <1>2, <2>1, <2>3
<1>4. CASE \E k \in 1 .. n :
             t = [s \in 1 .. k |-> IF s < k THEN img[s] ELSE [img[s] EXCEPT !.fab = NoFabric]]
  <2>1. PICK k \in 1 .. n :
          t = [s \in 1 .. k |-> IF s < k THEN img[s] ELSE [img[s] EXCEPT !.fab = NoFabric]]
    BY <1>4
  <2>2. \A s \in 1 .. k : s \in 1 .. n /\ img[s] \in Entry BY <1>1
  <2>3. \A e \in Entry : LET c == [e EXCEPT !.fab = NoFabric] IN c \in Entry /\ c.fab = NoFabric
    BY DEF Entry
  <2>4. t \in [1 .. k -> Entry] BY <2>1, <2>2, <2>3
  <2>5. \A s \in 1 .. k : t[s] = img[s] \/ t[s].fab = NoFabric BY <2>1, <2>2, <2>3
  <2>6. k \in 0 .. n BY <1>1
  <2> QED BY <1>2, <2>4, <2>5, <2>6
<1> QED BY <1>3, <1>4 DEF Torn

(***************************************************************************)
(* List operations.                                                        *)
(***************************************************************************)
LEMMA FirstFreeIsFree ==
  ASSUME NEW tbl, FreeSlots(tbl) # {}
  PROVE  FirstFree(tbl) \in Slots /\ FirstFree(tbl) \notin DOMAIN tbl
<1>1. FreeSlots(tbl) \subseteq Nat BY SlotsAre DEF FreeSlots
<1>2. \E s \in FreeSlots(tbl) : \A r \in FreeSlots(tbl) : s <= r BY <1>1, LeastNumber
<1>3. FirstFree(tbl) \in FreeSlots(tbl) BY <1>2 DEF FirstFree
<1> QED BY <1>3 DEF FreeSlots

\* The entries of fabric f are in new what and where they were in tbl.
SameFor(new, tbl, f) ==
  /\ FabricSlots(new, f) = FabricSlots(tbl, f)
  /\ \A s \in FabricSlots(tbl, f) : new[s] = tbl[s]

\* What any list operation of fabric fab may make of a table.
KeepsOthers(new, tbl, fab) ==
  /\ IsTable(new) /\ WithinQuota(new)
  /\ \A f : f # fab => SameFor(new, tbl, f)

LEMMA AddedKeeps ==
  ASSUME NEW tbl, IsTable(tbl), WithinQuota(tbl), NEW fab \in Fabrics, CanAdd(tbl, fab),
         NEW e \in Entry, e.fab = fab
  PROVE  /\ KeepsOthers(Added(tbl, e), tbl, fab)
         /\ FabricSlots(Added(tbl, e), fab) = FabricSlots(tbl, fab) \cup {FirstFree(tbl)}
<1> DEFINE new == Added(tbl, e)
           free == FirstFree(tbl)
<1>1. /\ free \in Slots /\ free \notin DOMAIN tbl
      /\ Cardinality(FabricSlots(tbl, fab)) < ENTRIES_PER_FABRIC
  BY FirstFreeIsFree DEF CanAdd
<1>2. DOMAIN tbl \subseteq Slots /\ tbl \in [DOMAIN tbl -> Entry] BY DEF IsTable
<1> HIDE DEF free
<1>3. /\ new \in [DOMAIN tbl \cup {free} -> Entry]
      /\ new[free] = e /\ \A s \in DOMAIN tbl : new[s] = tbl[s]
  BY <1>1, <1>2 DEF Added, free
<1> HIDE DEF new
<1>4. IsTable(new) BY <1>1, <1>2, <1>3 DEF IsTable
<1>5. FabricSlots(new, fab) = FabricSlots(tbl, fab) \cup {free} BY <1>1, <1>3 DEF FabricSlots
<1>6. \A f : f # fab => SameFor(new, tbl, f) BY <1>1, <1>3 DEF FabricSlots, SameFor
<1>7. WithinQuota(new)
  <2> SUFFICES ASSUME NEW f \in Fabrics
               PROVE  Cardinality(FabricSlots(new, f)) <= ENTRIES_PER_FABRIC
    BY DEF WithinQuota
  <2>1. IsFiniteSet(FabricSlots(tbl, f)) /\ Cardinality(FabricSlots(tbl, f)) \in Nat
    BY <1>2, TableSlots
  <2>2. CASE f # fab BY <1>6, <2>2 DEF SameFor, WithinQuota
  <2>3. CASE f = fab
    <3>1. free \notin FabricSlots(tbl, f) BY <1>1 DEF FabricSlots
    <3>2. Cardinality(FabricSlots(new, f)) = Cardinality(FabricSlots(tbl, f)) + 1
      BY <1>5, <2>1, <2>3, <3>1, FS_AddElement
    <3> QED BY <1>1, <2>1, <2>3, <3>2, AclAssumption
  <2> QED BY <2>2, <2>3
<1> QED BY <1>4, <1>5, <1>6, <1>7 DEF KeepsOthers, new, free

LEMMA WithoutKeeps ==
  ASSUME NEW tbl, IsTable(tbl), WithinQuota(tbl), NEW fab, NEW S, S \subseteq FabricSlots(tbl, fab)
  PROVE  /\ KeepsOthers(Without(tbl, S), tbl, fab)
         /\ FabricSlots(Without(tbl, S), fab) = FabricSlots(tbl, fab) \ S
<1> DEFINE new == Without(tbl, S)
<1>1. DOMAIN tbl \subseteq Slots /\ tbl \in [DOMAIN tbl -> Entry] BY DEF IsTable
<1>2. new \in [DOMAIN tbl \ S -> Entry] /\ \A s \in DOMAIN tbl \ S : new[s] = tbl[s]
  BY <1>1 DEF Without
<1> HIDE DEF new
<1>3. IsTable(new) BY <1>1, <1>2 DEF IsTable
<1>4. FabricSlots(new, fab) = FabricSlots(tbl, fab) \ S BY <1>2 DEF FabricSlots
<1>5. \A f : f # fab => SameFor(new, tbl, f) BY <1>2 DEF FabricSlots, SameFor
<1>6. \A f \in Fabrics : FabricSlots(new, f) \subseteq FabricSlots(tbl, f)
  BY <1>4, <1>5 DEF SameFor
<1>7. WithinQuota(new) BY <1>1, <1>6, FewerWithinQuota
<1> QED BY <1>3, <1>4, <1>5, <1>7 DEF KeepsOthers, new

LEMMA ReplacedKeeps ==
  ASSUME NEW tbl, IsTable(tbl), WithinQuota(tbl), NEW fab, NEW S, S \subseteq FabricSlots(tbl, fab),
         NEW e \in Entry, e.fab = fab
  PROVE  /\ KeepsOthers(Replaced(tbl, S, e), tbl, fab)
         /\ FabricSlots(Replaced(tbl, S, e), fab) = FabricSlots(tbl, fab)
<1> DEFINE new == Replaced(tbl, S, e)
<1>1. DOMAIN tbl \subseteq Slots /\ tbl \in [DOMAIN tbl -> Entry] BY DEF IsTable
<1>2. /\ new \in [DOMAIN tbl -> Entry]
      /\ \A s \in DOMAIN tbl : new[s] = IF s \in S THEN e ELSE tbl[s]
  BY <1>1 DEF Replaced
<1> HIDE DEF new
<1>3. IsTable(new) BY <1>1, <1>2 DEF IsTable
<1>4. FabricSlots(new, fab) = FabricSlots(tbl, fab) BY <1>2 DEF FabricSlots
<1>5. \A f : f # fab => SameFor(new, tbl, f) BY <1>2 DEF FabricSlots, SameFor
<1>6. \A f \in Fabrics : FabricSlots(new, f) \subseteq FabricSlots(tbl, f)
  BY <1>4, <1>5 DEF SameFor
<1>7. WithinQuota(new) BY <1>1, <1>6, FewerWithinQuota
<1> QED BY <1>3, <1>4, <1>5, <1>7 DEF KeepsOthers, new

(***************************************************************************)
(* The list a fabric sees.                                                 *)
(***************************************************************************)
RankIn(tbl, f, s) == Cardinality(Upto(FabricSlots(tbl, f), s))

LEMMA RankedSlots ==
  ASSUME NEW tbl, DOMAIN tbl \subseteq Slots, NEW f
  PROVE  LET D == FabricSlots(tbl, f) IN
         /\ \A s \in D : /\ RankIn(tbl, f, s) \in 1 .. Cardinality(D)
                         /\ NthSlot(tbl, f, RankIn(tbl, f, s) - 1) = {s}
         /\ \A k \in 1 .. Cardinality(D) : \E s \in D : RankIn(tbl, f, s) = k
<1> DEFINE D == FabricSlots(tbl, f)
<1>1. D \in SUBSET Nat /\ IsFiniteSet(D) /\ Cardinality(D) \in Nat BY TableSlots
<1>2. \A i : NthSlot(tbl, f, i) = {s \in D : Cardinality(Below(D, s)) = i}
  BY DEF NthSlot, Below
<1>3. \A s : RankIn(tbl, f, s) = Cardinality(Upto(D, s)) BY DEF RankIn
<1> HIDE DEF D
<1>4. \A s \in D : /\ RankIn(tbl, f, s) \in 1 .. Cardinality(D)
                   /\ Cardinality(Below(D, s)) = RankIn(tbl, f, s) - 1
  BY <1>1, <1>3, Ranks
<1>5. \A s, t \in D : s < t => RankIn(tbl, f, s) < RankIn(tbl, f, t) BY <1>1, <1>3, Ranks
<1>6. \A s \in D : s \in Nat /\ RankIn(tbl, f, s) \in Nat BY <1>1, <1>4
<1>7. \A s, t \in D : RankIn(tbl, f, s) = RankIn(tbl, f, t) => s = t BY <1>5, <1>6
<1>8. ASSUME NEW s \in D PROVE NthSlot(tbl, f, RankIn(tbl, f, s) - 1) = {s}
  <2>1. \A t \in D : Cardinality(Below(D, t)) = RankIn(tbl, f, s) - 1 <=> t = s
    BY <1>4, <1>6, <1>7
  <2> QED BY <1>2, <2>1
<1>9. \A k \in 1 .. Cardinality(D) : \E s \in D : RankIn(tbl, f, s) = k
  BY <1>1, <1>3, Ranks
<1> QED BY <1>4, <1>8, <1>9 DEF D

\* The list has at the rank of each slot of the fabric the entry there.
LEMMA ListIs ==
  ASSUME NEW tbl, DOMAIN tbl \subseteq Slots, NEW f
  PROVE  LET D == FabricSlots(tbl, f) IN
         /\ DOMAIN FabricList(tbl, f) = 1 .. Cardinality(D)
         /\ FabricList(tbl, f) = [k \in 1 .. Cardinality(D) |-> FabricList(tbl, f)[k]]
         /\ \A s \in D : FabricList(tbl, f)[RankIn(tbl, f, s)] = tbl[s]
<1>1. ASSUME NEW s \in FabricSlots(tbl, f)
      PROVE  FabricList(tbl, f)[RankIn(tbl, f, s)] = tbl[s]
  <2> DEFINE k == RankIn(tbl, f, s)
  <2>1. k \in 1 .. Cardinality(FabricSlots(tbl, f)) /\ NthSlot(tbl, f, k - 1) = {s}
    BY RankedSlots
  <2>2. (CHOOSE t \in {s} : TRUE) = s OBVIOUS
  <2> HIDE DEF k
  <2>3. FabricList(tbl, f)[k] = tbl[CHOOSE t \in NthSlot(tbl, f, k - 1) : TRUE]
    BY <2>1 DEF FabricList
  <2> QED BY <2>1, <2>2, <2>3 DEF k
<1>2. DOMAIN FabricList(tbl, f) = 1 .. Cardinality(FabricSlots(tbl, f)) BY DEF FabricList
<1>3. FabricList(tbl, f) =
        [k \in 1 .. Cardinality(FabricSlots(tbl, f)) |-> FabricList(tbl, f)[k]]
  BY DEF FabricList
<1> QED BY <1>1, <1>2, <1>3

\* A list with these entries at these ranks is the list.
LEMMA ListIsOnly ==
  ASSUME NEW tbl, DOMAIN tbl \subseteq Slots, NEW f, NEW S, NEW L \in Seq(S),
         Len(L) = Cardinality(FabricSlots(tbl, f)),
         \A s \in FabricSlots(tbl, f) : L[RankIn(tbl, f, s)] = tbl[s]
  PROVE  FabricList(tbl, f) = L
<1> DEFINE n == Cardinality(FabricSlots(tbl, f))
<1>1. DOMAIN L = 1 .. n /\ L = [k \in 1 .. n |-> L[k]] OBVIOUS
<1>2. ASSUME NEW k \in 1 .. n PROVE FabricList(tbl, f)[k] = L[k]
  <2>1. PICK s \in FabricSlots(tbl, f) : RankIn(tbl, f, s) = k BY RankedSlots
  <2> QED BY <2>1, ListIs
<1>3. FabricList(tbl, f) = [k \in 1 .. n |-> FabricList(tbl, f)[k]] BY ListIs
<1> QED BY <1>1, <1>2, <1>3

LEMMA ListType ==
  ASSUME NEW tbl, IsTable(tbl), NEW f
  PROVE  /\ FabricList(tbl, f) \in Seq(Entry)
         /\ Len(FabricList(tbl, f)) = Cardinality(FabricSlots(tbl, f))
<1> DEFINE n == Cardinality(FabricSlots(tbl, f))
           L == FabricList(tbl, f)
<1>1. DOMAIN tbl \subseteq Slots /\ tbl \in [DOMAIN tbl -> Entry] BY DEF IsTable
<1>2. n \in Nat BY <1>1, TableSlots
<1>3. ASSUME NEW k \in 1 .. n PROVE L[k] \in Entry
  <2>1. PICK s \in FabricSlots(tbl, f) : RankIn(tbl, f, s) = k BY <1>1, RankedSlots
  <2>2. L[k] = tbl[s] /\ s \in DOMAIN tbl BY <1>1, <2>1, ListIs DEF FabricSlots
  <2> QED BY <1>1, <2>2
<1>4. L = [k \in 1 .. n |-> L[k]] BY <1>1, ListIs
<1> HIDE DEF n, L
<1>5. L \in [1 .. n -> Entry] BY <1>3, <1>4
<1> QED BY <1>2, <1>5 DEF n, L

LEMMA SameList ==
  ASSUME NEW tbl, NEW new, DOMAIN tbl \subseteq Slots, DOMAIN new \subseteq Slots, NEW f,
         SameFor(new, tbl, f)
  PROVE  FabricList(new, f) = FabricList(tbl, f)
<1> DEFINE n == Cardinality(FabricSlots(tbl, f))
<1>1. FabricSlots(new, f) = FabricSlots(tbl, f) BY DEF SameFor
<1>2. ASSUME NEW k \in 1 .. n PROVE FabricList(new, f)[k] = FabricList(tbl, f)[k]
  <2>1. PICK s \in FabricSlots(tbl, f) : RankIn(tbl, f, s) = k BY RankedSlots
  <2>2. RankIn(new, f, s) = k BY <1>1, <2>1 DEF RankIn
  <2>3. FabricList(new, f)[k] = new[s] BY <1>1, <2>2, ListIs
  <2>4. FabricList(tbl, f)[k] = tbl[s] BY <2>1, ListIs
  <2> QED BY <2>3, <2>4 DEF SameFor
<1>3. FabricList(tbl, f) = [k \in 1 .. n |-> FabricList(tbl, f)[k]] BY ListIs
<1>4. FabricList(new, f) = [k \in 1 .. n |-> FabricList(new, f)[k]] BY <1>1, ListIs
<1> QED BY <1>2, <1>3, <1>4

(***************************************************************************)
(* The operations of DataModel.                                            *)
(***************************************************************************)
ListOp == [kind : {"DeleteList"}]
            \cup [kind : {"DeleteItem"}, index : Nat]
            \cup [kind : {"EditItem"}, index : Nat, data : AttrValue]
            \cup [kind : {"AddItem"}, data : AttrValue]

LEMMA AccessorsHaveFabrics ==
  ASSUME NEW acc \in Accessors
  PROVE  acc.fab \in Fabrics
<1>1. PICK s \in DeviceSessions : acc = AccessorOf(s) BY DEF Accessors
<1>2. 0 \in Fabrics BY AclAssumption DEF Fabrics
<1> QED BY <1>1, <1>2, DataModelAssumption DEF AccessorOf

LEMMA ClippedType ==
  ASSUME NEW S, NEW s \in Seq(S), NEW n \in Nat
  PROVE  Clipped(s, n) \in Seq(S) /\ Len(Clipped(s, n)) <= n
<1>1. CASE Len(s) > n
  <2>1. n \in 0 .. Len(s) BY <1>1
  <2>2. SubSeq(s, 1, n) \in Seq(S) /\ Len(SubSeq(s, 1, n)) = n BY <2>1
  <2> QED BY <1>1, <2>2 DEF Clipped
<1>2. CASE ~ (Len(s) > n) BY <1>2 DEF Clipped
<1> QED BY <1>1, <1>2

\* What is added or put in the place of an entry is one of the writer's fabric.
LEMMA DecodedIsEntry ==
  ASSUME NEW d \in AttrValue, d.kind = "item", Decodable(d), NEW fab \in Fabrics
  PROVE  DecodedFor(d, fab) \in Entry /\ DecodedFor(d, fab).fab = fab
<1>1. d \in ListItem BY DEF AttrValue, Datum
<1>2. d.subjects \in Seq(Ids) /\ d.targets \in Seq(Target) BY <1>1 DEF ListItem
<1>3. d.privilege \in {1, 3, 4, 5} /\ d.auth_mode \in {"Pase", "Case", "Group"} BY DEF Decodable
<1>4. PrivilegeFromTlv[d.privilege] \in {VIEW, OPERATE, MANAGE, ADMIN}
  BY <1>3 DEF PrivilegeFromTlv
<1>5. /\ Clipped(d.subjects, SUBJECTS_PER_ENTRY) \in
           {s \in Seq(Ids) : Len(s) <= SUBJECTS_PER_ENTRY}
      /\ Clipped(d.targets, TARGETS_PER_ENTRY) \in
           {s \in Seq(Target) : Len(s) <= TARGETS_PER_ENTRY}
  BY <1>2, ClippedType, AclAssumption
<1> QED BY <1>3, <1>4, <1>5 DEF DecodedFor, Entry

LEMMA OpKeeps ==
  ASSUME IsTable(acl), WithinQuota(acl), NEW op \in ListOp, NEW fab \in Fabrics,
         OpResult(op, fab).err = "ok"
  PROVE  KeepsOthers(OpResult(op, fab).tbl, acl, fab)
<1> DEFINE hit == NthSlot(acl, fab, op.index)
           entry == DecodedFor(op.data, fab)
<1>1. hit \subseteq FabricSlots(acl, fab) BY DEF NthSlot
<1>2. ASSUME op.kind \in {"EditItem", "AddItem"}, op.data.kind = "item", Decodable(op.data)
      PROVE  entry \in Entry /\ entry.fab = fab
  <2>1. op.data \in AttrValue BY <1>2 DEF ListOp
  <2> QED BY <1>2, <2>1, DecodedIsEntry
<1>3. CASE op.kind = "DeleteList"
  <2>1. OpResult(op, fab).tbl = Without(acl, FabricSlots(acl, fab)) BY <1>3 DEF OpResult
  <2> QED BY <2>1, WithoutKeeps
<1>4. CASE op.kind = "DeleteItem"
  <2>1. OpResult(op, fab).tbl = Without(acl, hit) BY <1>4 DEF OpResult
  <2> QED BY <1>1, <2>1, WithoutKeeps
<1>5. CASE op.kind = "EditItem"
  <2>1. /\ OpResult(op, fab).tbl = Replaced(acl, hit, entry)
        /\ op.data.kind = "item" /\ Decodable(op.data)
    BY <1>5 DEF OpResult
  <2> HIDE DEF hit, entry
  <2> QED BY <1>1, <1>2, <1>5, <2>1, ReplacedKeeps
<1>6. CASE op.kind = "AddItem"
  <2>1. /\ OpResult(op, fab).tbl = Added(acl, entry) /\ CanAdd(acl, fab)
        /\ op.data.kind = "item" /\ Decodable(op.data)
    BY <1>6 DEF OpResult
  <2> HIDE DEF entry
  <2> QED BY <1>2, <1>6, <2>1, AddedKeeps
<1> QED BY <1>3, <1>4, <1>5, <1>6 DEF ListOp

LEMMA ListOpsType ==
  ASSUME NEW d \in AttrData
  PROVE  ListOps(d) \in Seq(ListOp) /\ ListOps(d) # << >>
<1>1. d.data \in AttrValue BY DEF AttrData
<1>2. ASSUME NEW x \in AttrValue PROVE [kind |-> "AddItem", data |-> x] \in ListOp
  BY DEF ListOp
<1>3. CASE d.index # None
  <2>1. d.index \in Nat BY <1>3 DEF AttrData
  <2>2. d.index % IndexMod \in Nat BY <2>1, DataModelAssumption
  <2>3. /\ [kind |-> "DeleteItem", index |-> d.index % IndexMod] \in ListOp
        /\ [kind |-> "EditItem", index |-> d.index % IndexMod, data |-> d.data] \in ListOp
    BY <1>1, <2>2 DEF ListOp
  <2>4. \A op \in ListOp : <<op>> \in Seq(ListOp) /\ <<op>> # << >> OBVIOUS
  <2> QED BY <1>3, <2>3, <2>4 DEF ListOps
<1>4. CASE d.index = None /\ d.data.kind = "array"
  <2> DEFINE add == [k \in DOMAIN d.data.items |->
                       [kind |-> "AddItem", data |-> d.data.items[k]]]
  <2>1. d.data.items \in Seq(Datum) BY <1>1, <1>4 DEF AttrValue, Datum, ListItem
  <2>2. /\ DOMAIN d.data.items = 1 .. Len(d.data.items) /\ Len(d.data.items) \in Nat
        /\ \A k \in DOMAIN d.data.items : d.data.items[k] \in AttrValue
    BY <2>1 DEF AttrValue
  <2>3. add \in Seq(ListOp)
    <3>1. add \in [1 .. Len(d.data.items) -> ListOp] BY <1>2, <2>2
    <3> QED BY <2>2, <3>1
  <2>4. [kind |-> "DeleteList"] \in ListOp BY DEF ListOp
  <2>5. ListOps(d) = <<[kind |-> "DeleteList"]>> \o add BY <1>4 DEF ListOps
  <2> HIDE DEF add
  <2> QED BY <2>3, <2>4, <2>5
<1>5. CASE d.index = None /\ d.data.kind # "array"
  <2>1. ListOps(d) = <<[kind |-> "AddItem", data |-> d.data]>> BY <1>5 DEF ListOps
  <2> QED BY <1>1, <1>2, <2>1
<1> QED BY <1>3, <1>4, <1>5

LEMMA ClusterNames ==
  DOMAIN AttributeIds = {"Descriptor", "BasicInfo", "GenComm", "NwComm", "Noc", "Acl", "OnOff"}
BY DEF AttributeIds

\* The paths of requests and those the node makes of them.  (That the names of the
\* node are in STRING is a fact the provers do not have.)
NodeNames == {"ep0", "ep1", "Descriptor", "BasicInfo", "GenComm", "NwComm", "Noc", "Acl",
              "OnOff", "BreadCrumb"}
Names    == STRING \cup {None} \cup NodeNames
PathType == [endpoint : Names, cluster : Names, leaf : Names]

LEMMA PathsAre == AttrPath \subseteq PathType /\ ListPath \in PathType
BY DEF AttrPath, PathType, Names, NodeNames, ListPath

\* What is let in has been checked, and is in a cluster of the node.
LEMMA AcceptedIs ==
  ASSUME NEW d \in AttrData, NEW acc, NEW p \in Accepting(acc, d)
  PROVE  /\ p \in PathType /\ At(p) \in Clusters
         /\ WriteCheck(acc, p, d) = "ok"
<1>1. PICK at \in Clusters : p = [d.path EXCEPT !.endpoint = at[1], !.cluster = at[2]]
  BY DEF Accepting
<1>2. /\ at \in {"ep0", "ep1"} \X DOMAIN AttributeIds /\ at = <<at[1], at[2]>>
      /\ at[1] \in {"ep0", "ep1"}
  BY DEF Clusters
<1>3. at[1] \in Names /\ at[2] \in Names
  <2>1. at[1] \in Names BY <1>2 DEF Names, NodeNames
  <2>2. at[2] \in DOMAIN AttributeIds BY <1>2
  <2>3. at[2] \in Names BY <2>2, ClusterNames DEF Names, NodeNames
  <2> QED BY <2>1, <2>3
<1>4. d.path \in PathType BY PathsAre DEF AttrData
<1>5. p \in PathType /\ p.endpoint = at[1] /\ p.cluster = at[2]
  <2> DEFINE e == at[1]
             c == at[2]
  <2>1. p = [d.path EXCEPT !.endpoint = e, !.cluster = c] BY <1>1
  <2>2. e \in Names /\ c \in Names BY <1>3
  <2> HIDE DEF e, c
  <2>3. p \in PathType /\ p.endpoint = e /\ p.cluster = c
    BY <1>4, <2>1, <2>2 DEF PathType
  <2> QED BY <2>3 DEF e, c
<1> QED BY <1>2, <1>5 DEF Accepting, At

\* A refusal is never a success.
Statuses == {"ok", "DataVersionMismatch", "UnsupportedEndpoint", "UnsupportedCluster",
             "UnsupportedAttribute", "UnsupportedWrite", "UnsupportedAccess", "NotFound",
             "Failure"}

LEMMA WalkErrors ==
  ASSUME NEW path \in PathType
  PROVE  VisitClusters(path).err \in Statuses
<1>1. ASSUME NEW walks, NEW wildcard, DOMAIN walks \subseteq Nat,
             \A k \in DOMAIN walks : walks[k].err \in Statuses
      PROVE  ForEach(walks, wildcard).err \in Statuses
  <2>1. CASE wildcard \/ Failed(walks) = {} BY <2>1 DEF ForEach, Joined, Statuses
  <2>2. CASE ~ wildcard /\ Failed(walks) # {}
    <3>1. Failed(walks) \subseteq DOMAIN walks /\ Failed(walks) \subseteq Nat
      BY <1>1 DEF Failed
    <3>2. \E k \in Failed(walks) : \A j \in Failed(walks) : k <= j BY <2>2, <3>1, LeastNumber
    <3>3. Min(Failed(walks)) \in DOMAIN walks BY <3>1, <3>2 DEF Min
    <3> QED BY <1>1, <2>2, <3>3 DEF ForEach, Joined
  <2> QED BY <2>1, <2>2
<1>2. ASSUME NEW walks, NEW name, NEW missing \in Statuses, DOMAIN walks \subseteq Nat,
             \A k \in DOMAIN walks : walks[k].err \in Statuses
      PROVE  Level(walks, name, missing).err \in Statuses
  BY <1>1, <1>2 DEF Level
<1>3. ASSUME NEW T, NEW ids \in Seq(T), NEW name
      PROVE  Named(ids, name) \in Seq(Elements(ids)) /\ DOMAIN Named(ids, name) \subseteq Nat
  <2>1. ids \in Seq(Elements(ids))
    <3>1. ids \in [1 .. Len(ids) -> Elements(ids)] BY DEF Elements
    <3> QED BY <3>1
  <2>2. \A n \in Elements(ids) : <<n>> \in Seq(Elements(ids)) OBVIOUS
  <2>3. << >> \in Seq(Elements(ids)) OBVIOUS
  <2>4. \A t \in Seq(Elements(ids)) : DOMAIN t \subseteq Nat OBVIOUS
  <2>5. Named(ids, name) \in Seq(Elements(ids)) BY <2>1, <2>2, <2>3 DEF Named
  <2> QED BY <2>4, <2>5
<1>4. ASSUME NEW at \in PathType, at.endpoint \in {"ep0", "ep1"}
      PROVE  VisitClustersOf(at, FALSE).err \in Statuses
  <2> DEFINE ids == Named(ClusterIds[at.endpoint], at.cluster)
             walks == [k \in DOMAIN ids |-> Visited([at EXCEPT !.cluster = ids[k]])]
  <2>1. ClusterIds[at.endpoint] \in Seq(NodeNames)
    <3>1. /\ ClusterIds.ep0 = <<"Descriptor", "BasicInfo", "GenComm", "NwComm", "Noc", "Acl">>
          /\ ClusterIds.ep1 = <<"Descriptor", "OnOff">>
      BY DEF ClusterIds
    <3>2. <<"Descriptor", "BasicInfo", "GenComm", "NwComm", "Noc", "Acl">> \in Seq(NodeNames)
      BY DEF NodeNames
    <3>3. <<"Descriptor", "OnOff">> \in Seq(NodeNames) BY DEF NodeNames
    <3> QED BY <1>4, <3>1, <3>2, <3>3
  <2>2. DOMAIN ids \subseteq Nat BY <1>3, <2>1
  <2>3. VisitClustersOf(at, FALSE) = Level(walks, at.cluster, "UnsupportedCluster")
    BY DEF VisitClustersOf
  <2> HIDE DEF ids
  <2>4. DOMAIN walks \subseteq Nat /\ \A k \in DOMAIN walks : walks[k].err \in Statuses
    BY <2>2 DEF Visited, Statuses
  <2>5. "UnsupportedCluster" \in Statuses BY DEF Statuses
  <2> HIDE DEF walks
  <2> QED BY <1>2, <2>3, <2>4, <2>5
<1> DEFINE ids == Named(EndpointIds, path.endpoint)
           walks == [k \in DOMAIN ids |-> VisitClustersOf([path EXCEPT !.endpoint = ids[k]], FALSE)]
<1>5. EndpointIds \in Seq(NodeNames) /\ Elements(EndpointIds) = {"ep0", "ep1"}
  <2>1. EndpointIds \in Seq(NodeNames) BY DEF EndpointIds, NodeNames
  <2>2. DOMAIN EndpointIds = {1, 2} /\ EndpointIds[1] = "ep0" /\ EndpointIds[2] = "ep1"
    BY DEF EndpointIds
  <2> QED BY <2>1, <2>2 DEF Elements
<1>6. ids \in Seq({"ep0", "ep1"}) /\ DOMAIN ids \subseteq Nat
  BY <1>3, <1>5
<1>7. VisitClusters(path) = Level(walks, path.endpoint, "UnsupportedEndpoint")
  BY DEF VisitClusters, VisitEndpoints
<1> HIDE DEF ids
<1>8. ASSUME NEW k \in DOMAIN ids PROVE walks[k].err \in Statuses
  <2> DEFINE at == [path EXCEPT !.endpoint = ids[k]]
  <2>1. ids[k] \in {"ep0", "ep1"} BY <1>6
  <2>2. ids[k] \in Names BY <2>1 DEF Names, NodeNames
  <2>3. at \in PathType /\ at.endpoint = ids[k] BY <2>2 DEF PathType
  <2>4. walks[k] = VisitClustersOf(at, FALSE) OBVIOUS
  <2> HIDE DEF at, walks
  <2> QED BY <1>4, <2>1, <2>3, <2>4
<1>9. "UnsupportedEndpoint" \in Statuses BY DEF Statuses
<1>10. DOMAIN walks \subseteq Nat BY <1>6
<1>11. \A k \in DOMAIN walks : walks[k].err \in Statuses BY <1>8
<1> HIDE DEF walks
<1> QED BY <1>2, <1>7, <1>9, <1>10, <1>11

(***************************************************************************)
(* The inductive invariant.                                                *)
(***************************************************************************)
Outcomes == Statuses \cup {"Success", "ConstraintError", "ResourceExhausted"}
Reply    == [path : PathType, status : Outcomes]

Values == [BreadCrumb : Nat, OnOff : BOOLEAN]

\* A write under way: its items, the answers to those that are done, and the operations
\* left of the next one, if it writes the list.
Underway(r) ==
  /\ r = [acc |-> r.acc, items |-> r.items, ops |-> r.ops, out |-> r.out, was |-> r.was]
  /\ r.acc \in Accessors /\ r.items \in Seq(AttrData)
  /\ r.ops \in Seq(ListOp) /\ r.out \in Seq(Seq(Reply))
  /\ r.ops # << >> => /\ Len(r.out) < Len(r.items)
                      /\ Covers(r.items[Len(r.out) + 1].path, ListPath)

TInv ==
  /\ IsTable(acl)
  /\ IsTable(aclFile) /\ DOMAIN aclFile = 1 .. Cardinality(DOMAIN aclFile)
  /\ vals \in Values
  /\ vers \in [Clusters -> 0 .. VerMod - 1]
  /\ req # NoReq => Underway(req)
  /\ served \in 0 .. MaxRequests /\ boots \in 0 .. MaxBoots

\* What has been answered so far is true of the file, and nothing else has been
\* answered meanwhile.
AckInv ==
  req # NoReq =>
    resp = NoResp /\ (AllSucceeded(req.items, req.out) => aclFile = Image(acl))

IInv == TInv /\ FabricQuota /\ AckInv /\ AckedIsStored

(***************************************************************************)
(* What the requests and their answers are made of.                        *)
(***************************************************************************)
LEMMA NodeClusters ==
  <<"ep0", "Acl">> \in Clusters /\ <<"ep0", "GenComm">> \in Clusters /\ <<"ep1", "OnOff">> \in Clusters
<1>1. /\ <<"ep0", "Acl">> \in {"ep0", "ep1"} \X DOMAIN AttributeIds
      /\ <<"ep0", "GenComm">> \in {"ep0", "ep1"} \X DOMAIN AttributeIds
      /\ <<"ep1", "OnOff">> \in {"ep0", "ep1"} \X DOMAIN AttributeIds
  BY ClusterNames
<1>2. /\ ClusterIds.ep0 = <<"Descriptor", "BasicInfo", "GenComm", "NwComm", "Noc", "Acl">>
      /\ ClusterIds.ep1 = <<"Descriptor", "OnOff">>
  BY DEF ClusterIds
<1>3. "Acl" \in Elements(ClusterIds.ep0) /\ "GenComm" \in Elements(ClusterIds.ep0)
  <2>1. 6 \in DOMAIN ClusterIds.ep0 /\ 3 \in DOMAIN ClusterIds.ep0 BY <1>2
  <2> QED BY <1>2, <2>1 DEF Elements
<1>4. "OnOff" \in Elements(ClusterIds.ep1)
  <2>1. 2 \in DOMAIN ClusterIds.ep1 BY <1>2
  <2> QED BY <1>2, <2>1 DEF Elements
<1> QED BY <1>1, <1>3, <1>4 DEF Clusters

LEMMA BumpedIs ==
  ASSUME NEW v \in [Clusters -> 0 .. VerMod - 1], NEW at \in Clusters
  PROVE  /\ Bumped(v, at) \in [Clusters -> 0 .. VerMod - 1]
         /\ Bumped(v, at)[at] # v[at]
         /\ \A other \in Clusters : other # at => Bumped(v, at)[other] = v[other]
<1> DEFINE b == [v EXCEPT ![at] = (v[at] + 1) % VerMod]
<1>1. VerMod \in Nat /\ VerMod > 1 BY DataModelAssumption
<1>2. v[at] \in 0 .. VerMod - 1 OBVIOUS
<1>3. \A n \in 0 .. VerMod - 1 : (n + 1) % VerMod \in 0 .. VerMod - 1 /\ (n + 1) % VerMod # n
  <2> SUFFICES ASSUME NEW n \in 0 .. VerMod - 1
               PROVE  (n + 1) % VerMod \in 0 .. VerMod - 1 /\ (n + 1) % VerMod # n
    OBVIOUS
  <2>1. CASE n + 1 = VerMod
    <3>1. (n + 1) % VerMod = 0 BY <1>1, <2>1
    <3> QED BY <1>1, <2>1, <3>1
  <2>2. CASE n + 1 < VerMod
    <3>1. (n + 1) % VerMod = n + 1 BY <1>1, <2>2
    <3> QED BY <1>1, <2>2, <3>1
  <2> QED BY <1>1, <2>1, <2>2
<1>4. (v[at] + 1) % VerMod \in 0 .. VerMod - 1 /\ (v[at] + 1) % VerMod # v[at] BY <1>2, <1>3
<1>5. /\ b \in [Clusters -> 0 .. VerMod - 1] /\ b[at] = (v[at] + 1) % VerMod
      /\ \A other \in Clusters : other # at => b[other] = v[other]
  BY <1>4
<1> QED BY <1>4, <1>5 DEF Bumped

LEMMA CheckStatus ==
  ASSUME NEW acc, NEW p, NEW d
  PROVE  WriteCheck(acc, p, d) \in Statuses
BY DEF WriteCheck, Statuses

LEMMA RefusalsAre ==
  ASSUME NEW acc, NEW d \in AttrData
  PROVE  /\ Refusals(acc, d) \in Seq(Reply)
         /\ \A a \in Elements(Refusals(acc, d)) : a.status # "Success"
<1> DEFINE err == VisitClusters(d.path).err
           last == IF err # "ok" THEN err ELSE WriteCheck(acc, d.path, d)
<1>1. d.path \in PathType BY PathsAre DEF AttrData
<1>2. err \in Statuses BY <1>1, WalkErrors
<1>3. last \in Statuses BY <1>2, CheckStatus
<1>4. \/ Refusals(acc, d) = << >>
      \/ Refusals(acc, d) = <<Answer(d.path, "UnsupportedCluster")>>
      \/ Refusals(acc, d) = <<Answer(d.path, "UnsupportedAttribute")>>
      \/ Refusals(acc, d) = <<Answer(d.path, last)>>
  BY DEF Refusals
<1> HIDE DEF last
<1>5. ASSUME NEW st \in Statuses, Refusals(acc, d) = <<Answer(d.path, st)>>
      PROVE  /\ Refusals(acc, d) \in Seq(Reply)
             /\ \A a \in Elements(Refusals(acc, d)) : a.status # "Success"
  <2>1. Answer(d.path, st) \in Reply /\ Answer(d.path, st).status # "Success"
    BY <1>1 DEF Answer, Reply, Outcomes, Statuses
  <2>2. \A a : Elements(<<a>>) = {a} BY DEF Elements
  <2> QED BY <1>5, <2>1, <2>2
<1>6. "UnsupportedCluster" \in Statuses /\ "UnsupportedAttribute" \in Statuses BY DEF Statuses
<1>7. CASE Refusals(acc, d) = << >>
  <2>1. << >> \in Seq(Reply) /\ Elements(<< >>) = {} BY DEF Elements
  <2> QED BY <1>7, <2>1
<1> QED BY <1>3, <1>4, <1>5, <1>6, <1>7

LEMMA ElementsAre ==
  ASSUME NEW T, NEW s \in Seq(T), NEW t \in Seq(T), NEW e
  PROVE  /\ Elements(s \o t) = Elements(s) \cup Elements(t)
         /\ e \in T => Elements(Append(s, e)) = Elements(s) \cup {e}
<1>1. ASSUME NEW u \in Seq(T) PROVE Elements(s \o u) = Elements(s) \cup Elements(u)
  <2>1. /\ DOMAIN (s \o u) = 1 .. Len(s) + Len(u) /\ DOMAIN s = 1 .. Len(s)
        /\ DOMAIN u = 1 .. Len(u) /\ Len(s) \in Nat /\ Len(u) \in Nat
    OBVIOUS
  <2>2. \A k \in 1 .. Len(s) : (s \o u)[k] = s[k] OBVIOUS
  <2>3. \A k \in 1 .. Len(u) : k + Len(s) \in 1 .. Len(s) + Len(u) /\ (s \o u)[k + Len(s)] = u[k]
    BY <2>1
  <2>4. ASSUME NEW k \in 1 .. Len(s) + Len(u), k \notin 1 .. Len(s)
        PROVE  k - Len(s) \in 1 .. Len(u) /\ (s \o u)[k] = u[k - Len(s)]
    <3> DEFINE n == k - Len(s)
    <3>1. n \in 1 .. Len(u) /\ k = n + Len(s) BY <2>1, <2>4
    <3> HIDE DEF n
    <3>2. (s \o u)[n + Len(s)] = u[n] BY <2>3, <3>1
    <3>3. (s \o u)[k] = u[n] BY <3>1, <3>2
    <3> QED BY <3>1, <3>3 DEF n
  <2>5. Elements(s) \cup Elements(u) \subseteq Elements(s \o u)
    <3>1. \A k \in DOMAIN s : k \in DOMAIN (s \o u) /\ (s \o u)[k] = s[k] BY <2>1, <2>2
    <3>2. \A k \in DOMAIN u : \E j \in DOMAIN (s \o u) : (s \o u)[j] = u[k] BY <2>1, <2>3
    <3> QED BY <3>1, <3>2 DEF Elements
  <2>6. Elements(s \o u) \subseteq Elements(s) \cup Elements(u)
    BY <2>1, <2>2, <2>4 DEF Elements
  <2> QED BY <2>5, <2>6
<1>2. ASSUME e \in T PROVE Elements(Append(s, e)) = Elements(s) \cup {e}
  <2>1. <<e>> \in Seq(T) /\ Append(s, e) = s \o <<e>> BY <1>2
  <2>2. Elements(<<e>>) = {e} BY DEF Elements
  <2> QED BY <1>1, <2>1, <2>2
<1> QED BY <1>1, <1>2

\* What the answers to one more item say of the success of all.
LEMMA SucceededWith ==
  ASSUME NEW items, NEW out \in Seq(Seq(Reply)), NEW more \in Seq(Reply),
         AllSucceeded(items, Append(out, more))
  PROVE  IF Covers(items[Len(out) + 1].path, ListPath)
           THEN more = <<Answer(ListPath, "Success")>> ELSE AllSucceeded(items, out)
<1> DEFINE n == Len(out) + 1
           all == Append(out, more)
           NamedIn(a) == {k \in DOMAIN a : Covers(items[k].path, ListPath)}
<1>1. /\ DOMAIN out = 1 .. Len(out) /\ DOMAIN all = DOMAIN out \cup {n} /\ n \notin DOMAIN out
      /\ all[n] = more /\ \A k \in DOMAIN out : all[k] = out[k]
  <2>1. /\ Len(out) \in Nat /\ DOMAIN out = 1 .. Len(out) /\ DOMAIN all = 1 .. Len(out) + 1
        /\ all[Len(out) + 1] = more /\ \A k \in 1 .. Len(out) : all[k] = out[k]
    OBVIOUS
  <2>2. 1 .. Len(out) + 1 = (1 .. Len(out)) \cup {Len(out) + 1} /\ Len(out) + 1 \notin 1 .. Len(out)
    BY <2>1
  <2> QED BY <2>1, <2>2
<1>2. NamedIn(all) # {} /\ \A k \in NamedIn(all) : all[k] = <<Answer(ListPath, "Success")>>
  BY DEF AllSucceeded
<1> HIDE DEF n, all
<1>3. CASE Covers(items[n].path, ListPath) BY <1>1, <1>2, <1>3 DEF n
<1>4. CASE ~ Covers(items[n].path, ListPath)
  <2>1. NamedIn(all) = NamedIn(out) BY <1>1, <1>4
  <2>2. NamedIn(out) # {} /\ \A k \in NamedIn(out) : out[k] = <<Answer(ListPath, "Success")>>
    BY <1>1, <1>2, <2>1
  <2> QED BY <1>4, <2>2 DEF AllSucceeded, n
<1> QED BY <1>3, <1>4

\* Requests with these fields, for an action that rewrites some of them.
Exactly(acc, items, ops, out, was) ==
  [acc : {acc}, items : {items}, ops : {ops}, out : {out}, was : {was}]

LEMMA HasFields ==
  ASSUME NEW r, Underway(r)
  PROVE  r \in Exactly(r.acc, r.items, r.ops, r.out, r.was)
<1> DEFINE a == r.acc
           t == r.items
           o == r.ops
           u == r.out
           w == r.was
<1>1. r = [acc |-> a, items |-> t, ops |-> o, out |-> u, was |-> w] BY DEF Underway
<1> HIDE DEF a, t, o, u, w
<1>2. r \in [acc : {a}, items : {t}, ops : {o}, out : {u}, was : {w}] BY <1>1
<1> QED BY <1>2 DEF Exactly, a, t, o, u, w

\* Operations are left of the write of the list only.
Fitting(ops, items, out) ==
  ops # << >> => Len(out) < Len(items) /\ Covers(items[Len(out) + 1].path, ListPath)

LEMMA FieldsType ==
  ASSUME NEW acc \in Accessors, NEW items \in Seq(AttrData), NEW ops \in Seq(ListOp),
         NEW out \in Seq(Seq(Reply)), NEW was,
         Fitting(ops, items, out), NEW r \in Exactly(acc, items, ops, out, was)
  PROVE  /\ Underway(r)
         /\ r.acc = acc /\ r.items = items /\ r.ops = ops /\ r.out = out /\ r.was = was
<1>1. /\ r.acc = acc /\ r.items = items /\ r.ops = ops /\ r.out = out /\ r.was = was
      /\ r = [acc |-> r.acc, items |-> r.items, ops |-> r.ops, out |-> r.out, was |-> r.was]
  BY DEF Exactly
<1> QED BY <1>1 DEF Underway, Fitting

\* The item in hand is an AttrData.
LEMMA ItemIs ==
  ASSUME Underway(req), Len(req.out) < Len(req.items)
  PROVE  Item \in AttrData
<1>1. req.items \in Seq(AttrData) /\ Len(req.out) \in Nat /\ Len(req.items) \in Nat
  BY DEF Underway
<1>2. Len(req.out) + 1 \in 1 .. Len(req.items) BY <1>1
<1> QED BY <1>1, <1>2 DEF Item

\* The item in hand is answered.
LEMMA AnsweredItem ==
  ASSUME Underway(req), NEW more \in Seq(Reply),
         req' \in Exactly(req.acc, req.items, << >>, Append(req.out, more), req.was)
  PROVE  /\ Underway(req') /\ req'.items = req.items
         /\ AllSucceeded(req'.items, req'.out) =>
              IF Covers(Item.path, ListPath)
                THEN more = <<Answer(ListPath, "Success")>> ELSE AllSucceeded(req.items, req.out)
<1> DEFINE out == Append(req.out, more)
           ops == << >>
<1>1. /\ req.out \in Seq(Seq(Reply)) /\ req.items \in Seq(AttrData) /\ req.acc \in Accessors
      /\ out \in Seq(Seq(Reply)) /\ ops \in Seq(ListOp)
  BY DEF Underway
<1>2. Fitting(ops, req.items, out) BY DEF Fitting
<1>3. req' \in Exactly(req.acc, req.items, ops, out, req.was) OBVIOUS
<1> HIDE DEF out, ops
<1>4. Underway(req') /\ req'.items = req.items /\ req'.out = out
  BY <1>1, <1>2, <1>3, FieldsType
<1> QED BY <1>1, <1>4, SucceededWith DEF out, Item

LEMMA AnswersItem ==
  ASSUME Underway(req), NEW more \in Seq(Reply),
         req' = [req EXCEPT !.ops = << >>, !.out = Append(req.out, more)]
  PROVE  /\ Underway(req') /\ req'.items = req.items
         /\ AllSucceeded(req'.items, req'.out) =>
              IF Covers(Item.path, ListPath)
                THEN more = <<Answer(ListPath, "Success")>> ELSE AllSucceeded(req.items, req.out)
<1>1. req' \in Exactly(req.acc, req.items, << >>, Append(req.out, more), req.was)
  BY HasFields DEF Exactly
<1> QED BY <1>1, AnsweredItem

(***************************************************************************)
(* The steps.                                                              *)
(***************************************************************************)
LEMMA InitInv == Init => IInv
<1> SUFFICES ASSUME Init PROVE IInv
  OBVIOUS
<1>1. IsTable(acl) /\ WithinQuota(acl) BY TablesAssumption DEF Init
<1>2. /\ IsTable(aclFile) /\ DOMAIN aclFile = 1 .. Cardinality(DOMAIN aclFile)
      /\ WithinQuota(aclFile)
  BY <1>1, ImageIs, ImageWithinQuota DEF Init
<1>3. vals \in Values BY DEF Init, Values
<1>4. vers \in [Clusters -> 0 .. VerMod - 1]
  <2>1. 0 \in 0 .. VerMod - 1 BY DataModelAssumption
  <2> QED BY <2>1 DEF Init
<1>5. served \in 0 .. MaxRequests /\ boots \in 0 .. MaxBoots BY DataModelAssumption DEF Init
<1>6. req = NoReq /\ resp.kind = "none" BY DEF Init, NoResp
<1> QED BY <1>1, <1>2, <1>3, <1>4, <1>5, <1>6
        DEF IInv, TInv, FabricQuota, AckInv, AckedIsStored

\* The write under way goes on, its table and its file as they are.
LEMMA Continues ==
  ASSUME IInv, req # NoReq, Underway(req'), vals' \in Values,
         vers' \in [Clusters -> 0 .. VerMod - 1],
         AllSucceeded(req'.items, req'.out) => AllSucceeded(req.items, req.out),
         UNCHANGED <<acl, aclFile, resp, served, boots>>
  PROVE  IInv'
<1>1. TInv' BY DEF IInv, TInv
<1>2. FabricQuota' BY DEF IInv, FabricQuota
<1>3. AckInv' BY DEF IInv, AckInv
<1>4. resp' = NoResp BY DEF IInv, AckInv
<1>5. AckedIsStored' BY <1>4 DEF AckedIsStored, NoResp
<1> QED BY <1>1, <1>2, <1>3, <1>5 DEF IInv

LEMMA AnswersOnly ==
  ASSUME IInv, req = NoReq, req' = NoReq, resp'.kind # "write", vals' \in Values,
         vers' \in [Clusters -> 0 .. VerMod - 1], served' = served + 1, served < MaxRequests,
         UNCHANGED <<acl, aclFile, boots>>
  PROVE  IInv'
<1>1. served' \in 0 .. MaxRequests BY DataModelAssumption DEF IInv, TInv
<1>2. TInv' BY <1>1 DEF IInv, TInv
<1>3. FabricQuota' /\ AckInv' /\ AckedIsStored' BY DEF IInv, FabricQuota, AckInv, AckedIsStored
<1> QED BY <1>2, <1>3 DEF IInv

LEMMA ReadStep ==
  ASSUME IInv, NEW r \in ReadRequests, Read(r)
  PROVE  IInv'
<1>1. req' = NoReq /\ req = NoReq /\ resp'.kind = "read" BY DEF Read
<1>2. vals' \in Values /\ vers' \in [Clusters -> 0 .. VerMod - 1] BY DEF Read, IInv, TInv
<1> QED BY <1>1, <1>2, AnswersOnly DEF Read

LEMMA InvokeStep ==
  ASSUME IInv, NEW path \in Commands, Invoke(path)
  PROVE  IInv'
<1>1. req' = NoReq /\ req = NoReq /\ resp'.kind = "invoke" BY DEF Invoke
<1>2. vals \in Values /\ vers \in [Clusters -> 0 .. VerMod - 1] BY DEF IInv, TInv
<1>3. OnOffAfter(path.leaf) \in BOOLEAN BY <1>2 DEF OnOffAfter, Values
<1>4. vals' \in Values BY <1>2, <1>3 DEF Invoke, Values
<1>5. vers' \in [Clusters -> 0 .. VerMod - 1]
  <2>1. Bumped(vers, <<"ep1", "OnOff">>) \in [Clusters -> 0 .. VerMod - 1]
    BY <1>2, BumpedIs, NodeClusters
  <2> QED BY <1>2, <2>1 DEF Invoke
<1> QED BY <1>1, <1>4, <1>5, AnswersOnly DEF Invoke

LEMMA ReceiveStep ==
  ASSUME IInv, NEW w \in WriteRequests, ReceiveWrite(w)
  PROVE  IInv'
<1>1. w.acc \in Accessors /\ w.items \in Seq(AttrData) BY RequestsAssumption
<1>2. << >> \in Seq(ListOp) /\ << >> \in Seq(Seq(Reply)) OBVIOUS
<1>3. Underway(req') /\ req'.out = << >> BY <1>1, <1>2 DEF ReceiveWrite, Underway
<1>4. \A items : ~ AllSucceeded(items, << >>) BY DEF AllSucceeded
<1>5. served' \in 0 .. MaxRequests BY DataModelAssumption DEF IInv, TInv, ReceiveWrite
<1>6. TInv' BY <1>3, <1>5 DEF IInv, TInv, ReceiveWrite
<1>7. FabricQuota' BY DEF IInv, FabricQuota, ReceiveWrite
<1>8. AckInv' BY <1>3, <1>4 DEF AckInv, ReceiveWrite
<1>9. AckedIsStored' BY DEF AckedIsStored, ReceiveWrite, NoResp
<1> QED BY <1>6, <1>7, <1>8, <1>9 DEF IInv

LEMMA RefuseStep ==
  ASSUME IInv, RefuseItem
  PROVE  IInv'
<1> DEFINE more == Refusals(req.acc, Item)
<1>1. /\ req # NoReq /\ Underway(req) /\ req.ops = << >> /\ Len(req.out) < Len(req.items)
      /\ req' = [req EXCEPT !.out = Append(req.out, more)]
  BY DEF RefuseItem, ItemLeft, IInv, TInv
<1>2. more \in Seq(Reply) /\ \A a \in Elements(more) : a.status # "Success"
  BY <1>1, ItemIs, RefusalsAre
<1> HIDE DEF more
<1>3. more # <<Answer(ListPath, "Success")>>
  <2>1. Elements(<<Answer(ListPath, "Success")>>) = {Answer(ListPath, "Success")} BY DEF Elements
  <2> QED BY <1>2, <2>1 DEF Answer
<1>4. req' = [req EXCEPT !.ops = << >>, !.out = Append(req.out, more)] BY <1>1 DEF Underway
<1>5. Underway(req') /\ (AllSucceeded(req'.items, req'.out) => AllSucceeded(req.items, req.out))
  BY <1>1, <1>2, <1>3, <1>4, AnswersItem
<1>6. vals' \in Values /\ vers' \in [Clusters -> 0 .. VerMod - 1]
  BY DEF RefuseItem, IInv, TInv
<1> QED BY <1>1, <1>5, <1>6, Continues DEF RefuseItem

\* A bread crumb that is let in is a number.
LEMMA NumberGiven ==
  ASSUME NEW d \in AttrData, NEW acc, NEW p, p.leaf = "BreadCrumb", WriteCheck(acc, p, d) = "ok"
  PROVE  d.data.value \in Nat
<1>1. d.data.kind = "number" BY DEF WriteCheck
<1>2. d.data \in AttrValue BY DEF AttrData
<1> QED BY <1>1, <1>2 DEF AttrValue, Datum, ListItem

\* The bread crumb is an attribute of general commissioning on endpoint 0, ...
LEMMA BreadCrumbHome ==
  ASSUME NEW d \in AttrData, NEW acc, NEW p \in Accepting(acc, d), p.leaf = "BreadCrumb"
  PROVE  At(p) = <<"ep0", "GenComm">> /\ ~ Covers(d.path, ListPath)
<1> DEFINE at == At(p)
           Leaves(c) == Elements(AttributeIds[c])
<1>1. at \in Clusters /\ at[2] = p.cluster /\ WriteCheck(acc, p, d) = "ok"
  BY AcceptedIs DEF At
<1>2. "BreadCrumb" \in Leaves(at[2]) BY <1>1 DEF WriteCheck
<1>3. ASSUME NEW c \in DOMAIN AttributeIds, c # "GenComm" PROVE "BreadCrumb" \notin Leaves(c)
  <2> DEFINE T == {"AttributeList", "ServerList", "VendorId", "ProductId", "HwVer", "SwVer",
                   "FeatureMap", "Acl", "Extension", "SubjectsPerEntry", "TargetsPerEntry",
                   "EntriesPerFabric", "OnOff"}
  <2>1. /\ DefaultAttributes \in Seq(T) /\ DescriptorAttributes \in Seq(T)
        /\ BasicInfoAttributes \in Seq(T) /\ NwCommAttributes \in Seq(T)
        /\ AclAttributes \in Seq(T) /\ OnOffAttributes \in Seq(T)
    BY DEF DefaultAttributes, DescriptorAttributes, BasicInfoAttributes, NwCommAttributes,
           AclAttributes, OnOffAttributes
  <2>2. "BreadCrumb" \notin T OBVIOUS
  <2> HIDE DEF T
  <2>3. \A s, t \in Seq(T) : s \o t \in Seq(T) OBVIOUS
  <2>4. AttributeIds[c] \in Seq(T)
    <3>1. /\ AttributeIds.Descriptor = DefaultAttributes \o DescriptorAttributes
          /\ AttributeIds.BasicInfo = DefaultAttributes \o BasicInfoAttributes
          /\ AttributeIds.NwComm = DefaultAttributes \o NwCommAttributes
          /\ AttributeIds.Noc = DefaultAttributes
          /\ AttributeIds.Acl = DefaultAttributes \o AclAttributes
          /\ AttributeIds.OnOff = DefaultAttributes \o OnOffAttributes
      BY DEF AttributeIds
    <3>2. c \in {"Descriptor", "BasicInfo", "NwComm", "Noc", "Acl", "OnOff"}
      BY <1>3, ClusterNames
    <3> QED BY <2>1, <2>3, <3>1, <3>2
  <2>5. \A s \in Seq(T) : Elements(s) \subseteq T BY DEF Elements
  <2> QED BY <2>2, <2>4, <2>5
<1>4. at[2] = "GenComm" /\ at[1] \in {"ep0", "ep1"} /\ at[2] \in Elements(ClusterIds[at[1]])
  <2>1. /\ at \in {"ep0", "ep1"} \X DOMAIN AttributeIds /\ at[2] \in Elements(ClusterIds[at[1]])
    BY <1>1 DEF Clusters
  <2> QED BY <1>2, <1>3, <2>1
<1>5. "GenComm" \notin Elements(ClusterIds.ep1)
  <2>1. ClusterIds.ep1 = <<"Descriptor", "OnOff">> BY DEF ClusterIds
  <2>2. DOMAIN ClusterIds.ep1 = {1, 2} BY <2>1
  <2>3. ClusterIds.ep1[1] = "Descriptor" /\ ClusterIds.ep1[2] = "OnOff" BY <2>1
  <2> QED BY <2>2, <2>3 DEF Elements
<1>6. d.path.cluster = "GenComm" BY <1>1, <1>4 DEF Accepting
<1>7. "GenComm" # None BY <1>6 DEF Accepting
<1> QED BY <1>4, <1>5, <1>6, <1>7 DEF At, Covers, ListPath

\* ... and the list one of access control: an item that writes it names it.
LEMMA ListHome ==
  ASSUME NEW d \in AttrData, NEW acc, NEW p \in Accepting(acc, d), p.leaf = "Acl"
  PROVE  Covers(d.path, ListPath)
<1> DEFINE at == At(p)
           Leaves(c) == Elements(AttributeIds[c])
<1>1. at \in Clusters /\ at[2] = p.cluster /\ WriteCheck(acc, p, d) = "ok"
  BY AcceptedIs DEF At
<1>2. "Acl" \in Leaves(at[2]) BY <1>1 DEF WriteCheck
<1>3. ASSUME NEW c \in DOMAIN AttributeIds, c # "Acl" PROVE "Acl" \notin Leaves(c)
  <2> DEFINE T == {"AttributeList", "ServerList", "VendorId", "ProductId", "HwVer", "SwVer",
                   "FeatureMap", "BreadCrumb", "RegConfig", "LocationCapability",
                   "BasicCommissioningInfo", "OnOff"}
  <2>1. /\ DefaultAttributes \in Seq(T) /\ DescriptorAttributes \in Seq(T)
        /\ BasicInfoAttributes \in Seq(T) /\ NwCommAttributes \in Seq(T)
        /\ GenCommAttributes \in Seq(T) /\ OnOffAttributes \in Seq(T)
    BY DEF DefaultAttributes, DescriptorAttributes, BasicInfoAttributes, NwCommAttributes,
           GenCommAttributes, OnOffAttributes
  <2>2. "Acl" \notin T OBVIOUS
  <2> HIDE DEF T
  <2>3. \A s, t \in Seq(T) : s \o t \in Seq(T) OBVIOUS
  <2>4. AttributeIds[c] \in Seq(T)
    <3>1. /\ AttributeIds.Descriptor = DefaultAttributes \o DescriptorAttributes
          /\ AttributeIds.BasicInfo = DefaultAttributes \o BasicInfoAttributes
          /\ AttributeIds.GenComm = DefaultAttributes \o GenCommAttributes
          /\ AttributeIds.NwComm = DefaultAttributes \o NwCommAttributes
          /\ AttributeIds.Noc = DefaultAttributes
          /\ AttributeIds.OnOff = DefaultAttributes \o OnOffAttributes
      BY DEF AttributeIds
    <3>2. c \in {"Descriptor", "BasicInfo", "GenComm", "NwComm", "Noc", "OnOff"}
      BY <1>3, ClusterNames
    <3> QED BY <2>1, <2>3, <3>1, <3>2
  <2>5. \A s \in Seq(T) : Elements(s) \subseteq T BY DEF Elements
  <2> QED BY <2>2, <2>4, <2>5
<1>4. at[2] = "Acl" /\ at[1] \in {"ep0", "ep1"} /\ at[2] \in Elements(ClusterIds[at[1]])
  <2>1. /\ at \in {"ep0", "ep1"} \X DOMAIN AttributeIds /\ at[2] \in Elements(ClusterIds[at[1]])
    BY <1>1 DEF Clusters
  <2> QED BY <1>2, <1>3, <2>1
<1>5. "Acl" \notin Elements(ClusterIds.ep1)
  <2>1. ClusterIds.ep1 = <<"Descriptor", "OnOff">> BY DEF ClusterIds
  <2>2. DOMAIN ClusterIds.ep1 = {1, 2} BY <2>1
  <2>3. ClusterIds.ep1[1] = "Descriptor" /\ ClusterIds.ep1[2] = "OnOff" BY <2>1
  <2> QED BY <2>2, <2>3 DEF Elements
<1>6. p.cluster = "Acl" /\ p.endpoint = "ep0" BY <1>1, <1>4, <1>5 DEF At
<1>7. d.path.cluster = "Acl" /\ d.path.endpoint \in {None, "ep0"}
  BY <1>6 DEF Accepting
<1>8. p.leaf = d.path.leaf
  <2>1. PICK at2 \in Clusters : p = [d.path EXCEPT !.endpoint = at2[1], !.cluster = at2[2]]
    BY DEF Accepting
  <2>2. d.path \in PathType BY PathsAre DEF AttrData
  <2> QED BY <2>1, <2>2 DEF PathType
<1> QED BY <1>7, <1>8 DEF Covers, ListPath

LEMMA ScalarStep ==
  ASSUME IInv, WriteScalar
  PROVE  IInv'
<1>1. req # NoReq /\ Underway(req) /\ req.ops = << >> /\ Len(req.out) < Len(req.items)
  BY DEF WriteScalar, ItemLeft, IInv, TInv
<1>2. Item \in AttrData BY <1>1, ItemIs
<1>3. PICK p \in Accepting(req.acc, Item) :
        /\ p.leaf = "BreadCrumb"
        /\ vals' = [vals EXCEPT !.BreadCrumb = Item.data.value]
        /\ vers' = Bumped(vers, At(p))
        /\ req' = [req EXCEPT !.out = Append(req.out, <<Answer(p, "Success")>>)]
  BY DEF WriteScalar
<1>4. p \in PathType /\ At(p) \in Clusters /\ WriteCheck(req.acc, p, Item) = "ok"
  BY <1>2, AcceptedIs
<1>5. Item.data.value \in Nat BY <1>2, <1>3, <1>4, NumberGiven
<1>6. vals' \in Values BY <1>3, <1>5 DEF IInv, TInv, Values
<1>7. vers' \in [Clusters -> 0 .. VerMod - 1] BY <1>3, <1>4, BumpedIs DEF IInv, TInv
<1> DEFINE a == Answer(p, "Success")
<1>8. a \in Reply BY <1>4 DEF Answer, Reply, Outcomes
<1> HIDE DEF a
<1>9. <<a>> \in Seq(Reply) BY <1>8
<1>10. req' = [req EXCEPT !.ops = << >>, !.out = Append(req.out, <<a>>)]
  BY <1>1, <1>3 DEF Underway, a
<1>11. ~ Covers(Item.path, ListPath) BY <1>2, <1>3, BreadCrumbHome
<1>12. Underway(req') /\ (AllSucceeded(req'.items, req'.out) => AllSucceeded(req.items, req.out))
  BY <1>1, <1>9, <1>10, <1>11, AnswersItem
<1> QED BY <1>1, <1>6, <1>7, <1>12, Continues DEF WriteScalar

LEMMA StartStep ==
  ASSUME IInv, StartList
  PROVE  IInv'
<1>1. req # NoReq /\ Underway(req) /\ req.ops = << >> /\ Len(req.out) < Len(req.items)
  BY DEF StartList, ItemLeft, IInv, TInv
<1>2. Item \in AttrData BY <1>1, ItemIs
<1>3. ListOps(Item) \in Seq(ListOp) BY <1>2, ListOpsType
<1>4. req' = [req EXCEPT !.ops = ListOps(Item), !.was = acl] BY DEF StartList
<1>5. Covers(Item.path, ListPath) BY <1>2, ListHome DEF StartList
<1>6. Underway(req') /\ req'.items = req.items /\ req'.out = req.out
  <2> DEFINE ops == ListOps(Item)
  <2>1. req' \in Exactly(req.acc, req.items, ops, req.out, acl)
    BY <1>1, <1>4, HasFields DEF Exactly
  <2>2. /\ req.acc \in Accessors /\ req.items \in Seq(AttrData) /\ req.out \in Seq(Seq(Reply))
        /\ Covers(req.items[Len(req.out) + 1].path, ListPath)
    BY <1>1, <1>5 DEF Underway, Item
  <2>3. ops \in Seq(ListOp) BY <1>3
  <2> HIDE DEF ops
  <2> QED BY <1>1, <2>1, <2>2, <2>3, FieldsType DEF Fitting
<1>7. vals' \in Values /\ vers' \in [Clusters -> 0 .. VerMod - 1]
  BY DEF StartList, IInv, TInv
<1> QED BY <1>1, <1>6, <1>7, Continues DEF StartList

\* The write of a list that ends with an error is not one that succeeded.
LEMMA ErrorEnds ==
  ASSUME Underway(req), req.ops # << >>, NEW status \in Outcomes, EndList(status)
  PROVE  /\ Underway(req')
         /\ status # "Success" => ~ AllSucceeded(req'.items, req'.out)
<1> DEFINE a == Answer(ListPath, status)
           more == IF status = "Success" \/ ~ IsWildcard(Item.path) THEN <<a>> ELSE << >>
<1>1. a \in Reply /\ a.status = status BY PathsAre DEF Answer, Reply
<1>2. req' = [req EXCEPT !.ops = << >>, !.out = Append(req.out, more)] BY DEF EndList
<1> HIDE DEF a
<1>3. more \in Seq(Reply) BY <1>1
<1>4. status # "Success" => more # <<Answer(ListPath, "Success")>>
  <2>1. SUFFICES ASSUME status # "Success", more = <<Answer(ListPath, "Success")>> PROVE FALSE
    OBVIOUS
  <2>2. <<Answer(ListPath, "Success")>> # << >> OBVIOUS
  <2>3. <<a>> = <<Answer(ListPath, "Success")>> BY <2>1, <2>2
  <2>4. a = Answer(ListPath, "Success") BY <2>3
  <2> QED BY <1>1, <2>1, <2>4 DEF Answer
<1>5. Covers(Item.path, ListPath) BY DEF Underway, Item
<1> HIDE DEF more
<1> QED BY <1>2, <1>3, <1>4, <1>5, AnswersItem

LEMMA OpStatus ==
  ASSUME NEW op, NEW fab
  PROVE  OpResult(op, fab).err \in {"ok", "ConstraintError", "ResourceExhausted"}
BY DEF OpResult

LEMMA FailsStep ==
  ASSUME IInv, ListOpFails
  PROVE  IInv'
<1> DEFINE status == OpResult(Head(req.ops), req.acc.fab).err
<1>1. req # NoReq /\ Underway(req) /\ req.ops # << >> BY DEF ListOpFails, IInv, TInv
<1>2. status \in Outcomes /\ status # "Success"
  <2>1. status \in {"ok", "ConstraintError", "ResourceExhausted"} BY OpStatus
  <2> QED BY <2>1 DEF Outcomes, Statuses
<1>3. EndList(status) BY DEF ListOpFails
<1> HIDE DEF status
<1>4. Underway(req') /\ ~ AllSucceeded(req'.items, req'.out) BY <1>1, <1>2, <1>3, ErrorEnds
<1>5. vals' \in Values /\ vers' \in [Clusters -> 0 .. VerMod - 1]
  BY DEF ListOpFails, IInv, TInv
<1> QED BY <1>1, <1>4, <1>5, Continues DEF ListOpFails

\* The operation under way, when it is done: what it makes of the table, and that its
\* image is a table of the file.
LEMMA OpDone ==
  ASSUME IInv, req # NoReq, req.ops # << >>, OpResult(Head(req.ops), req.acc.fab).err = "ok"
  PROVE  LET tbl == OpResult(Head(req.ops), req.acc.fab).tbl IN
           /\ KeepsOthers(tbl, acl, req.acc.fab)
           /\ IsTable(Image(tbl)) /\ WithinQuota(Image(tbl))
           /\ DOMAIN Image(tbl) = 1 .. Cardinality(DOMAIN Image(tbl))
<1> DEFINE op  == Head(req.ops)
           tbl == OpResult(op, req.acc.fab).tbl
<1>1. IsTable(acl) /\ WithinQuota(acl) /\ Underway(req) BY DEF IInv, TInv, FabricQuota
<1>2. op \in ListOp /\ req.acc.fab \in Fabrics BY <1>1, AccessorsHaveFabrics DEF Underway
<1> HIDE DEF op
<1>3. KeepsOthers(tbl, acl, req.acc.fab) BY <1>1, <1>2, OpKeeps DEF op
<1> HIDE DEF tbl
<1>4. IsTable(tbl) /\ WithinQuota(tbl) BY <1>3 DEF KeepsOthers
<1> QED BY <1>3, <1>4, ImageIs, ImageWithinQuota DEF op, tbl

LEMMA StoredStep ==
  ASSUME IInv, ListOpStored
  PROVE  IInv'
<1> DEFINE tbl == OpResult(Head(req.ops), req.acc.fab).tbl
<1>1. /\ req # NoReq /\ Underway(req) /\ req.ops # << >> /\ acl' = tbl /\ aclFile' = Image(tbl)
      /\ OpResult(Head(req.ops), req.acc.fab).err = "ok"
  BY DEF ListOpStored, IInv, TInv, StoredFile
<1>2. /\ IsTable(tbl) /\ WithinQuota(tbl) /\ IsTable(Image(tbl)) /\ WithinQuota(Image(tbl))
      /\ DOMAIN Image(tbl) = 1 .. Cardinality(DOMAIN Image(tbl))
  BY <1>1, OpDone DEF KeepsOthers
<1>3. Underway(req') /\ vers' \in [Clusters -> 0 .. VerMod - 1]
  <2>1. vers \in [Clusters -> 0 .. VerMod - 1] BY DEF IInv, TInv
  <2>2. CASE Len(req.ops) = 1
    <3>1. EndList("Success") /\ vers' = Bumped(vers, <<"ep0", "Acl">>) BY <2>2 DEF ListOpStored
    <3>2. "Success" \in Outcomes BY DEF Outcomes
    <3>3. Underway(req') BY <1>1, <3>1, <3>2, ErrorEnds
    <3>4. Bumped(vers, <<"ep0", "Acl">>) \in [Clusters -> 0 .. VerMod - 1]
      BY <2>1, BumpedIs, NodeClusters
    <3> QED BY <3>1, <3>3, <3>4
  <2>3. CASE Len(req.ops) # 1
    <3> DEFINE ops == Tail(req.ops)
    <3>1. req' = [req EXCEPT !.ops = ops] /\ UNCHANGED vers BY <2>3 DEF ListOpStored
    <3>2. /\ ops \in Seq(ListOp) /\ req.acc \in Accessors /\ req.items \in Seq(AttrData)
          /\ req.out \in Seq(Seq(Reply)) /\ Len(req.out) < Len(req.items)
          /\ Covers(req.items[Len(req.out) + 1].path, ListPath)
      BY <1>1 DEF Underway
    <3> HIDE DEF ops
    <3>3. req' \in Exactly(req.acc, req.items, ops, req.out, req.was)
      BY <1>1, <3>1, HasFields DEF Exactly
    <3>4. Underway(req') BY <3>2, <3>3, FieldsType DEF Fitting
    <3> QED BY <2>1, <3>1, <3>4
  <2> QED BY <2>2, <2>3
<1>4. UNCHANGED <<vals, resp, served, boots>> BY DEF ListOpStored
<1> HIDE DEF tbl
<1>5. TInv' BY <1>1, <1>2, <1>3, <1>4 DEF IInv, TInv
<1>6. FabricQuota' BY <1>1, <1>2 DEF FabricQuota
<1>7. resp' = NoResp BY <1>1, <1>4 DEF IInv, AckInv
<1>8. AckInv' BY <1>1, <1>7 DEF AckInv
<1>9. AckedIsStored' BY <1>7 DEF AckedIsStored, NoResp
<1> QED BY <1>5, <1>6, <1>8, <1>9 DEF IInv

LEMMA NotStoredStep ==
  ASSUME IInv, ListOpNotStored
  PROVE  IInv'
<1> DEFINE tbl == OpResult(Head(req.ops), req.acc.fab).tbl
           full == Image(tbl)
<1>1. /\ req # NoReq /\ Underway(req) /\ req.ops # << >> /\ acl' = tbl
      /\ OpResult(Head(req.ops), req.acc.fab).err = "ok"
      /\ UNCHANGED <<vals, vers, resp, served, boots>>
      /\ aclFile' \in {aclFile} \cup Torn(full)
      /\ EndList("ResourceExhausted") \/ EndList("ConstraintError")
  BY DEF ListOpNotStored, IInv, TInv
<1>2. /\ IsTable(tbl) /\ WithinQuota(tbl) /\ IsTable(full) /\ WithinQuota(full)
      /\ DOMAIN full = 1 .. Cardinality(DOMAIN full)
  BY <1>1, OpDone DEF KeepsOthers
<1>3. "ResourceExhausted" \in Outcomes /\ "ConstraintError" \in Outcomes BY DEF Outcomes
<1>4. Underway(req') /\ ~ AllSucceeded(req'.items, req'.out) BY <1>1, <1>3, ErrorEnds
<1> HIDE DEF tbl, full
<1>5. /\ IsTable(aclFile') /\ DOMAIN aclFile' = 1 .. Cardinality(DOMAIN aclFile')
      /\ WithinQuota(aclFile')
  <2>1. CASE aclFile' = aclFile BY <2>1 DEF IInv, TInv, FabricQuota
  <2>2. CASE aclFile' \in Torn(full)
    <3> DEFINE img == aclFile'
    <3>1. PartOf(img, full) BY <1>2, <2>2, TornIsPart
    <3>2. DOMAIN full \subseteq Slots BY <1>2 DEF IsTable
    <3>3. WithinQuota(img) BY <1>2, <3>1, <3>2, FewerWithinQuota DEF PartOf
    <3> QED BY <3>1, <3>3 DEF PartOf
  <2> QED BY <1>1, <2>1, <2>2
<1>6. TInv' BY <1>1, <1>2, <1>4, <1>5 DEF IInv, TInv
<1>7. FabricQuota' BY <1>1, <1>2, <1>5 DEF FabricQuota
<1>8. resp' = NoResp BY <1>1 DEF IInv, AckInv
<1>9. AckInv' BY <1>4, <1>8 DEF AckInv
<1>10. AckedIsStored' BY <1>8 DEF AckedIsStored, NoResp
<1> QED BY <1>6, <1>7, <1>9, <1>10 DEF IInv

LEMMA FinishStep ==
  ASSUME IInv, FinishWrite
  PROVE  IInv'
<1>1. /\ req # NoReq /\ req' = NoReq /\ resp'.answers = req.out /\ resp'.items = req.items
      /\ UNCHANGED <<acl, aclFile, vals, vers, served, boots>>
  BY DEF FinishWrite
<1>2. TInv' /\ FabricQuota' /\ AckInv' BY <1>1 DEF IInv, TInv, FabricQuota, AckInv
<1>3. AckedIsStored' BY <1>1 DEF IInv, AckInv, AckedIsStored
<1> QED BY <1>2, <1>3 DEF IInv

LEMMA BootStep ==
  ASSUME IInv, NEW img, IsTable(img), WithinQuota(img), DOMAIN img = 1 .. Cardinality(DOMAIN img),
         Boot(img)
  PROVE  IInv'
<1>1. /\ acl' = img /\ aclFile' = img /\ req' = NoReq /\ resp' = NoResp /\ served' = served
      /\ vals' \in Values
  BY DEF Boot, Values
<1>2. vers' \in [Clusters -> 0 .. VerMod - 1]
  <2>1. PICK n \in 0 .. VerMod - 1 : vers' = [c \in Clusters |-> IF c \in Changing THEN n ELSE 0]
    BY DEF Boot
  <2>2. 0 \in 0 .. VerMod - 1 BY DataModelAssumption
  <2> QED BY <2>1, <2>2
<1>3. boots' \in 0 .. MaxBoots BY DataModelAssumption DEF Boot, IInv, TInv
<1>4. TInv' BY <1>1, <1>2, <1>3 DEF IInv, TInv
<1>5. FabricQuota' /\ AckInv' BY <1>1 DEF FabricQuota, AckInv
<1>6. AckedIsStored' BY <1>1 DEF AckedIsStored, NoResp
<1> QED BY <1>4, <1>5, <1>6 DEF IInv

LEMMA RestartStep ==
  ASSUME IInv, Restart \/ PowerLossInStore
  PROVE  IInv'
<1>1. CASE Restart BY <1>1, BootStep DEF Restart, IInv, TInv, FabricQuota
<1>2. CASE PowerLossInStore
  <2> DEFINE tbl == OpResult(Head(req.ops), req.acc.fab).tbl
             full == Image(tbl)
  <2>1. /\ req # NoReq /\ req.ops # << >>
        /\ OpResult(Head(req.ops), req.acc.fab).err = "ok"
    BY <1>2 DEF PowerLossInStore
  <2>2. IsTable(full) /\ WithinQuota(full) /\ DOMAIN full = 1 .. Cardinality(DOMAIN full)
    BY <2>1, OpDone
  <2>3. PICK img \in Torn(full) : Boot(img) BY <1>2 DEF PowerLossInStore
  <2> HIDE DEF full
  <2>4. PartOf(img, full) BY <2>2, TornIsPart
  <2>5. DOMAIN full \subseteq Slots BY <2>2 DEF IsTable
  <2>6. WithinQuota(img) BY <2>2, <2>4, <2>5, FewerWithinQuota DEF PartOf
  <2> QED BY <2>3, <2>4, <2>6, BootStep DEF PartOf
<1> QED BY <1>1, <1>2

LEMMA StepInv == IInv /\ [Next]_vars => IInv'
<1> SUFFICES ASSUME IInv, [Next]_vars PROVE IInv'
  OBVIOUS
<1>1. CASE UNCHANGED vars
  BY <1>1 DEF vars, IInv, TInv, FabricQuota, AckInv, AckedIsStored
<1> QED
  BY <1>1, ReadStep, ReceiveStep, InvokeStep, RefuseStep, ScalarStep, StartStep, FailsStep,
     StoredStep, NotStoredStep, FinishStep, RestartStep
  DEF Next

THEOREM Invariant == Spec => []IInv
BY InitInv, StepInv, PTL DEF Spec

(***************************************************************************)
(* The state properties.                                                   *)
(***************************************************************************)
\* The table and its file hold entries, and requests under way are of known accessors,
\* after any sequence of requests, failed stores, power losses and restarts.
THEOREM DMTypeCorrect == Spec => []DMTypeOK
<1>1. IInv => DMTypeOK BY DEF IInv, TInv, DMTypeOK, Values, Underway
<1> QED BY <1>1, Invariant, PTL

\* No fabric has more than ENTRIES_PER_FABRIC entries in memory or in the file, though
\* only AclMgr::add checks it and an image may be cut anywhere.
THEOREM QuotaHolds == Spec => []FabricQuota
<1>1. IInv => FabricQuota BY DEF IInv
<1> QED BY <1>1, Invariant, PTL

\* A write all of whose list operations were answered with success is in the file.
THEOREM AckedWritesAreStored == Spec => []AckedIsStored
<1>1. IInv => AckedIsStored BY DEF IInv
<1> QED BY <1>1, Invariant, PTL

\* The slots are numbered, those of each fabric from 1, without two having one number:
\* if there is no free slot and no entry without a fabric, every fabric has its quota.
LEMMA Pigeonhole ==
  ASSUME NEW tbl, IsTable(tbl), WithinQuota(tbl), FreeSlots(tbl) = {},
         FabricSlots(tbl, NoFabric) = {}, NEW f \in Fabrics
  PROVE  ~ (Cardinality(FabricSlots(tbl, f)) < ENTRIES_PER_FABRIC)
<1> SUFFICES ASSUME Cardinality(FabricSlots(tbl, f)) < ENTRIES_PER_FABRIC PROVE FALSE
  OBVIOUS
<1> DEFINE M == MAX_SUPPORTED_FABRICS
           E == ENTRIES_PER_FABRIC
           all == Fabrics \X (1 .. E)
           number == [s \in Slots |-> <<tbl[s].fab, RankIn(tbl, tbl[s].fab, s)>>]
<1>1. M \in Nat /\ E \in Nat /\ M # 0 /\ E # 0 BY AclAssumption
<1>2. DOMAIN tbl = Slots /\ tbl \in [Slots -> Entry] BY DEF IsTable, FreeSlots
<1>3. \A s \in Slots : tbl[s].fab \in Fabrics /\ s \in FabricSlots(tbl, tbl[s].fab)
  BY <1>2 DEF FabricSlots, Entry
<1>4. ASSUME NEW s \in Slots
      PROVE  /\ RankIn(tbl, tbl[s].fab, s) \in 1 .. E
             /\ tbl[s].fab = f => RankIn(tbl, tbl[s].fab, s) # E
             /\ NthSlot(tbl, tbl[s].fab, RankIn(tbl, tbl[s].fab, s) - 1) = {s}
  <2> DEFINE g == tbl[s].fab
             n == Cardinality(FabricSlots(tbl, g))
  <2>1. g \in Fabrics /\ s \in FabricSlots(tbl, g) BY <1>3
  <2>2. n \in Nat /\ n <= E /\ (g = f => n < E) BY <1>2, <2>1, TableSlots DEF WithinQuota
  <2>3. RankIn(tbl, g, s) \in 1 .. n /\ NthSlot(tbl, g, RankIn(tbl, g, s) - 1) = {s}
    BY <1>2, <2>1, RankedSlots
  <2> HIDE DEF g, n
  <2>4. RankIn(tbl, g, s) \in 1 .. E /\ (g = f => RankIn(tbl, g, s) # E)
    BY <1>1, <2>2, <2>3
  <2> QED BY <2>3, <2>4 DEF g
<1>5. <<f, E>> \in all BY <1>1
<1>6. number \in Injection(Slots, all \ {<<f, E>>})
  <2>1. \A s \in Slots : number[s] \in all \ {<<f, E>>} BY <1>3, <1>4
  <2>2. number \in [Slots -> all \ {<<f, E>>}] BY <2>1
  <2>3. ASSUME NEW s \in Slots, NEW t \in Slots, number[s] = number[t] PROVE s = t
    <3>1. tbl[s].fab = tbl[t].fab /\ RankIn(tbl, tbl[s].fab, s) = RankIn(tbl, tbl[t].fab, t)
      BY <2>3
    <3>2. {s} = {t} BY <1>4, <3>1
    <3> QED BY <3>2
  <2> HIDE DEF number
  <2> QED BY <2>2, <2>3 DEF Injection, IsInjective
<1>7. /\ IsFiniteSet(Fabrics) /\ Cardinality(Fabrics) = M
      /\ IsFiniteSet(1 .. E) /\ Cardinality(1 .. E) = E
  <2> DEFINE top == M - 1
  <2>1. top \in Int /\ 0 <= top /\ top + 1 = M BY <1>1
  <2> HIDE DEF top
  <2>2. IsFiniteSet(0 .. top) /\ Cardinality(0 .. top) = top + 1 BY <2>1, FS_Interval
  <2>3. IsFiniteSet(1 .. E) /\ Cardinality(1 .. E) = E BY <1>1, FS_Interval
  <2> QED BY <2>1, <2>2, <2>3 DEF Fabrics, top
<1>8. IsFiniteSet(all) /\ Cardinality(all) = M * E
  <2> DEFINE ranks == 1 .. E
  <2>1. IsFiniteSet(ranks) /\ Cardinality(ranks) = E BY <1>7
  <2> HIDE DEF ranks
  <2>2. /\ IsFiniteSet(Fabrics \X ranks)
        /\ Cardinality(Fabrics \X ranks) = Cardinality(Fabrics) * Cardinality(ranks)
    BY <1>7, <2>1, FS_Product
  <2> QED BY <1>7, <2>1, <2>2 DEF ranks
<1> HIDE DEF all, number
<1>9. /\ IsFiniteSet(all \ {<<f, E>>}) /\ Cardinality(all \ {<<f, E>>}) = M * E - 1
  BY <1>5, <1>8, FS_RemoveElement
<1>10. Cardinality(Slots) <= M * E - 1 BY <1>6, <1>9, FS_Injection
<1>11. Cardinality(Slots) = E * M BY SlotsAre
<1>12. E * M = M * E /\ M * E \in Nat BY <1>1
<1> QED BY <1>10, <1>11, <1>12

\* Below its quota a fabric finds a free slot, whatever the other fabrics have, unless
\* a torn file left an entry that is on no fabric.
THEOREM SlotsAreEnough == Spec => []SlotsSuffice
<1>1. IInv => SlotsSuffice BY Pigeonhole DEF IInv, TInv, FabricQuota, SlotsSuffice
<1> QED BY <1>1, Invariant, PTL

(***************************************************************************)
(* Action properties.                                                      *)
(***************************************************************************)
\* The steps that change the table, other than restarts, are those of a list operation
\* that is done.
LEMMA TableSteps ==
  ASSUME IInv, [Next]_vars, acl' # acl, boots' = boots
  PROVE  /\ req # NoReq /\ Underway(req) /\ req.ops # << >>
         /\ OpResult(Head(req.ops), req.acc.fab).err = "ok"
         /\ acl' = OpResult(Head(req.ops), req.acc.fab).tbl
<1>1. boots \in Nat BY DataModelAssumption DEF IInv, TInv
<1>2. ~ Restart /\ ~ PowerLossInStore
  BY <1>1 DEF Restart, PowerLossInStore, Boot
<1>3. ListOpStored \/ ListOpNotStored
  BY <1>2 DEF Next, vars, Read, ReceiveWrite, Invoke, RefuseItem, WriteScalar, StartList,
              ListOpFails, FinishWrite
<1>4. req # NoReq /\ Underway(req) BY <1>3 DEF ListOpStored, ListOpNotStored, IInv, TInv
<1> QED BY <1>3, <1>4 DEF ListOpStored, ListOpNotStored

\* A write of the list by an accessor of one fabric leaves the list that every other
\* fabric sees as it is.
THEOREM FabricsAreIsolated == Spec => FabricIsolation
<1>1. ASSUME IInv, [Next]_vars, acl' # acl, boots' = boots,
             NEW f \in (Fabrics \cup {NoFabric}) \ {req.acc.fab}
      PROVE  FabricList(acl', f) = FabricList(acl, f)
  <2> DEFINE tbl == OpResult(Head(req.ops), req.acc.fab).tbl
  <2>1. /\ acl' = tbl /\ req # NoReq /\ req.ops # << >>
        /\ OpResult(Head(req.ops), req.acc.fab).err = "ok"
    BY <1>1, TableSteps
  <2>2. KeepsOthers(tbl, acl, req.acc.fab) BY <1>1, <2>1, OpDone
  <2> HIDE DEF tbl
  <2>3. SameFor(tbl, acl, f) /\ DOMAIN tbl \subseteq Slots BY <1>1, <2>2 DEF KeepsOthers, IsTable
  <2>4. DOMAIN acl \subseteq Slots BY <1>1 DEF IInv, TInv, IsTable
  <2> QED BY <2>1, <2>3, <2>4, SameList
<1>2. IInv /\ [Next]_vars =>
        [acl' # acl /\ boots' = boots =>
           \A f \in (Fabrics \cup {NoFabric}) \ {req.acc.fab} :
             FabricList(acl', f) = FabricList(acl, f)]_vars
  BY <1>1
<1> QED BY <1>2, Invariant, PTL DEF Spec, FabricIsolation

\* Write access to an attribute of the node needs Administer.
LEMMA WritersAdminister ==
  ASSUME IsTable(acl), NEW acc, NEW p, NEW d, p.leaf \in {"Acl", "BreadCrumb"},
         WriteCheck(acc, p, d) = "ok"
  PROVE  acc.mode = "Pase" \/ Administers(acc)
<1>1. AccessOf(p.leaf) = [ops |-> {"read", "write"}, need |-> {"A"}] BY DEF AccessOf
<1>2. Allow(acl, acc, p, AccessOf(p.leaf), "write") BY DEF WriteCheck
<1>3. CASE acc.mode # "Pase"
  <2>1. PICK s \in DOMAIN acl : /\ MatchAccessor(acl[s], acc)
                                /\ MatchAccessDesc(acl[s], p, AccessOf(p.leaf), "write")
    BY <1>2, <1>3 DEF Allow
  <2>2. acl[s].privilege \cap {"A"} # {} BY <1>1, <2>1 DEF MatchAccessDesc, IsOk
  <2>3. acl[s].privilege \in {VIEW, OPERATE, MANAGE, ADMIN} BY DEF IsTable, Entry
  <2>4. acl[s].privilege = ADMIN
    <3>1. VIEW \cap {"A"} = {} /\ OPERATE \cap {"A"} = {} /\ MANAGE \cap {"A"} = {}
      BY DEF VIEW, OPERATE, MANAGE
    <3> QED BY <2>2, <2>3, <3>1
  <2> QED BY <2>1, <2>4 DEF MatchAccessor, Administers
<1> QED BY <1>3

\* Only an accessor that an Administer entry of its own fabric names, or a PASE
\* session, gets a write begun.
THEOREM OnlyAdministratorsWrite == Spec => OnlyAdminsWrite
<1> DEFINE begun == \/ vals'.BreadCrumb # vals.BreadCrumb /\ boots' = boots
                    \/ req # NoReq /\ req.ops = << >> /\ req' # NoReq /\ req'.ops # << >>
<1>1. ASSUME IInv, [Next]_vars, begun PROVE req.acc.mode = "Pase" \/ Administers(req.acc)
  <2>1. boots \in Nat BY <1>1, DataModelAssumption DEF IInv, TInv
  <2>2. ASSUME NEW img PROVE ~ Boot(img) BY <1>1, <2>1 DEF Boot
  <2>3. ~ Restart /\ ~ PowerLossInStore BY <2>2 DEF Restart, PowerLossInStore
  <2>4. req # NoReq => Underway(req) BY <1>1 DEF IInv, TInv
  <2>5. \A path \in Commands : ~ Invoke(path)
    <3>1. vals \in Values BY <1>1 DEF IInv, TInv
    <3>2. \A b : [vals EXCEPT !.OnOff = b].BreadCrumb = vals.BreadCrumb BY <3>1 DEF Values
    <3> QED BY <1>1, <3>2 DEF Invoke
  <2>6. ~ RefuseItem
    <3>1. SUFFICES ASSUME RefuseItem PROVE FALSE
      OBVIOUS
    <3>2. /\ req \in Exactly(req.acc, req.items, req.ops, req.out, req.was)
          /\ vals' = vals /\ req.ops = << >>
      BY <2>4, <3>1, HasFields DEF RefuseItem, ItemLeft
    <3>3. PICK out : req' = [req EXCEPT !.out = out]
      BY <3>1 DEF RefuseItem
    <3>4. req'.ops = req.ops BY <3>2, <3>3 DEF Exactly
    <3> QED BY <1>1, <3>2, <3>4
  <2>7. WriteScalar \/ StartList
    BY <1>1, <2>3, <2>5, <2>6
    DEF Next, vars, Read, ReceiveWrite, ListOpFails, ListOpStored, ListOpNotStored, FinishWrite
  <2>8. PICK p \in Accepting(req.acc, Item) : p.leaf \in {"Acl", "BreadCrumb"}
    BY <2>7 DEF WriteScalar, StartList
  <2>9. WriteCheck(req.acc, p, Item) = "ok" BY DEF Accepting
  <2> QED BY <1>1, <2>8, <2>9, WritersAdminister DEF IInv, TInv
<1>2. IInv /\ [Next]_vars =>
        [begun => req.acc.mode = "Pase" \/ Administers(req.acc)]_vars
  BY <1>1
<1> QED BY <1>2, Invariant, PTL DEF Spec, OnlyAdminsWrite

\* The data version of the light moves on when its value changes and only then, that of
\* the bread crumb whenever its value changes, that of the list only to one in the file.
THEOREM VersionsTell == Spec => VersionTellsValue
<1> DEFINE light == <<"ep1", "OnOff">>
           list  == <<"ep0", "Acl">>
           crumb == <<"ep0", "GenComm">>
           Tells == /\ vals'.OnOff # vals.OnOff <=> vers'[light] # vers[light]
                    /\ vals'.BreadCrumb # vals.BreadCrumb => vers'[crumb] # vers[crumb]
                    /\ vers'[list] # vers[list] => aclFile' = Image(acl')
<1>1. ASSUME IInv, [Next]_vars, boots' = boots PROVE Tells
  <2>1. /\ boots \in Nat /\ vals \in Values /\ vers \in [Clusters -> 0 .. VerMod - 1]
        /\ (req # NoReq => Underway(req))
    BY <1>1, DataModelAssumption DEF IInv, TInv
  <2>2. ~ Restart /\ ~ PowerLossInStore BY <1>1, <2>1 DEF Restart, PowerLossInStore, Boot
  <2>3. light \in Clusters /\ list \in Clusters /\ crumb \in Clusters BY NodeClusters
  <2>4. light # list /\ light # crumb /\ list # crumb OBVIOUS
  <2>5. CASE UNCHANGED <<vals, vers>> BY <2>5
  <2>6. ASSUME NEW path \in Commands, Invoke(path) PROVE Tells
    <3>1. CASE vers' = Bumped(vers, light) /\ OnOffAfter(path.leaf) # vals.OnOff
               /\ vals' = [vals EXCEPT !.OnOff = OnOffAfter(path.leaf)]
      <4>1. vals'.OnOff # vals.OnOff /\ vals'.BreadCrumb = vals.BreadCrumb
        BY <2>1, <3>1 DEF Values
      <4>2. vers'[light] # vers[light] /\ vers'[list] = vers[list]
        BY <2>1, <2>3, <2>4, <3>1, BumpedIs
      <4> QED BY <4>1, <4>2
    <3> QED BY <2>5, <2>6, <3>1 DEF Invoke
  <2>7. CASE WriteScalar
    <3>1. PICK p \in Accepting(req.acc, Item) :
            /\ p.leaf = "BreadCrumb" /\ vers' = Bumped(vers, At(p))
            /\ vals' = [vals EXCEPT !.BreadCrumb = Item.data.value]
      BY <2>7 DEF WriteScalar
    <3>2. Item \in AttrData BY <2>1, <2>7, ItemIs DEF WriteScalar, ItemLeft
    <3>3. vers' = Bumped(vers, crumb) BY <3>1, <3>2, BreadCrumbHome
    <3>4. vals'.OnOff = vals.OnOff BY <2>1, <3>1 DEF Values
    <3>5. /\ vers'[crumb] # vers[crumb] /\ vers'[light] = vers[light]
          /\ vers'[list] = vers[list]
      BY <2>1, <2>3, <2>4, <3>3, BumpedIs
    <3> QED BY <3>4, <3>5
  <2>8. CASE ListOpStored
    <3>1. vals' = vals /\ aclFile' = Image(acl') BY <2>8 DEF ListOpStored, StoredFile
    <3>2. vers' = vers \/ vers' = Bumped(vers, list) BY <2>8 DEF ListOpStored
    <3>3. vers'[light] = vers[light] BY <2>1, <2>3, <2>4, <3>2, BumpedIs
    <3> QED BY <3>1, <3>3
  <2> QED
    BY <1>1, <2>2, <2>5, <2>6, <2>7, <2>8
    DEF Next, vars, Read, ReceiveWrite, RefuseItem, StartList, ListOpFails, ListOpNotStored,
        FinishWrite
<1>2. IInv /\ [Next]_vars => [boots' = boots => Tells]_vars BY <1>1
<1> QED BY <1>2, Invariant, PTL DEF Spec, VersionTellsValue

\* A restart on a file that was up to date leaves every accessor what it was allowed:
\* Operate comes back as Manage, and no attribute of the node asks for either.
LEMMA GrantsStored ==
  ASSUME IsTable(acl), NEW acc, NEW p, NEW leaf, NEW op \in {"read", "write"}
  PROVE  Allow(Image(acl), acc, p, AccessOf(leaf), op) <=> Allow(acl, acc, p, AccessOf(leaf), op)
<1> DEFINE access == AccessOf(leaf)
           Grants(e) == MatchAccessor(e, acc) /\ MatchAccessDesc(e, p, access, op)
           Stored(e) == [e EXCEPT !.privilege = IF e.privilege = OPERATE THEN MANAGE ELSE e.privilege]
<1>1. access.need \in {{"A"}, {"V"}} BY DEF AccessOf
<1>2. IsOk(access, op, OPERATE) <=> IsOk(access, op, MANAGE)
  BY <1>1 DEF IsOk, OPERATE, MANAGE
<1> HIDE DEF access
<1>3. ASSUME NEW e \in Entry PROVE Grants(Stored(e)) <=> Grants(e)
  <2> DEFINE q == IF e.privilege = OPERATE THEN MANAGE ELSE e.privilege
             x == [e EXCEPT !.privilege = q]
  <2>1. IsOk(access, op, q) <=> IsOk(access, op, e.privilege) BY <1>2
  <2> HIDE DEF q
  <2>2. /\ x.privilege = q /\ x.auth_mode = e.auth_mode /\ x.subjects = e.subjects
        /\ x.targets = e.targets /\ x.fab = e.fab
    BY DEF Entry
  <2> HIDE DEF x
  <2>3. Grants(x) <=> Grants(e) BY <2>1, <2>2 DEF MatchAccessor, MatchAccessDesc
  <2> QED BY <2>3 DEF x, q
<1>4. ASSUME NEW k \in DOMAIN Image(acl)
      PROVE  /\ SlotOf(acl, k) \in DOMAIN acl
             /\ Grants(Image(acl)[k]) <=> Grants(acl[SlotOf(acl, k)])
  <2>1. /\ SlotOf(acl, k) \in DOMAIN acl /\ acl[SlotOf(acl, k)] \in Entry
        /\ Image(acl)[k] = Stored(acl[SlotOf(acl, k)])
    BY ImageIs
  <2> HIDE DEF Grants, Stored
  <2> QED BY <1>3, <2>1
<1>5. \A s \in DOMAIN acl : \E k \in DOMAIN Image(acl) : SlotOf(acl, k) = s
  <2>1. DOMAIN acl \subseteq Slots BY DEF IsTable
  <2>2. \A s \in DOMAIN acl : RankOf(acl, s) \in DOMAIN Image(acl) /\ SlotOf(acl, RankOf(acl, s)) = s
    BY <2>1, SlotsByRank, ImageIs
  <2> QED BY <2>2
<1>6. \A tbl : Allow(tbl, acc, p, access, op) <=> acc.mode = "Pase" \/ \E s \in DOMAIN tbl : Grants(tbl[s])
  BY DEF Allow
<1> HIDE DEF Grants
<1>7. (\E k \in DOMAIN Image(acl) : Grants(Image(acl)[k])) <=> (\E s \in DOMAIN acl : Grants(acl[s]))
  BY <1>4, <1>5
<1> QED BY <1>6, <1>7 DEF access

\* What an accessor may do on this node is the same after a restart.
THEOREM RestartsKeepGrants == Spec => RestartKeepsGrants
<1> DEFINE Same(new) ==
             \A acc \in Accessors, at \in Clusters, op \in {"read", "write"} :
               \A a \in Elements(AttributeIds[at[2]]) :
                 LET p == [endpoint |-> at[1], cluster |-> at[2], leaf |-> a] IN
                   Allow(new, acc, p, AccessOf(a), op) <=> Allow(acl, acc, p, AccessOf(a), op)
<1>1. ASSUME IInv, [Next]_vars, boots' # boots, aclFile = Image(acl), aclFile' = aclFile
      PROVE  Same(acl')
  <2>1. PICK img : Boot(img)
    <3>1. Restart \/ PowerLossInStore
      BY <1>1 DEF Next, vars, Read, ReceiveWrite, Invoke, RefuseItem, WriteScalar, StartList,
                  ListOpFails, ListOpStored, ListOpNotStored, FinishWrite
    <3> QED BY <3>1 DEF Restart, PowerLossInStore
  <2>2. acl' = Image(acl) BY <1>1, <2>1 DEF Boot
  <2>3. IsTable(acl) BY <1>1 DEF IInv, TInv
  <2>4. Same(Image(acl)) BY <2>3, GrantsStored
  <2> HIDE DEF Same
  <2> QED BY <2>2, <2>4
<1>2. IInv /\ [Next]_vars =>
        [boots' # boots /\ aclFile = Image(acl) /\ aclFile' = aclFile => Same(acl')]_vars
  BY <1>1
<1> QED BY <1>2, Invariant, PTL DEF Spec, RestartKeepsGrants

(***************************************************************************)
(* List operations, as the fabric sees them.                               *)
(***************************************************************************)
LEMMA RemovedIs ==
  ASSUME NEW S, NEW s \in Seq(S), NEW i \in 1 .. Len(s)
  PROVE  /\ RemoveAt(s, i) \in Seq(S) /\ Len(RemoveAt(s, i)) = Len(s) - 1
         /\ \A k \in 1 .. i - 1 : RemoveAt(s, i)[k] = s[k]
         /\ \A k \in i + 1 .. Len(s) : RemoveAt(s, i)[k - 1] = s[k]
<1> DEFINE a == SubSeq(s, 1, i - 1)
           b == SubSeq(s, i + 1, Len(s))
<1>1. /\ a \in Seq(S) /\ Len(a) = i - 1 /\ \A k \in 1 .. i - 1 : a[k] = s[k]
  OBVIOUS
<1>2. /\ b \in Seq(S) /\ Len(b) = Len(s) - i /\ \A k \in 1 .. Len(s) - i : b[k] = s[k + i]
  OBVIOUS
<1> HIDE DEF a, b
<1>3. RemoveAt(s, i) = a \o b BY DEF RemoveAt, a, b
<1>4. i \in Nat /\ Len(s) \in Nat /\ 1 <= i /\ i <= Len(s) OBVIOUS
<1>5. a \o b \in Seq(S) /\ Len(a \o b) = Len(s) - 1
  <2>1. a \in Seq(S) /\ b \in Seq(S) BY <1>1, <1>2
  <2>2. a \o b \in Seq(S) /\ Len(a \o b) = Len(a) + Len(b) BY <2>1
  <2>3. (i - 1) + (Len(s) - i) = Len(s) - 1 BY <1>4
  <2> QED BY <1>1, <1>2, <2>2, <2>3
<1>6. \A k \in 1 .. i - 1 : (a \o b)[k] = s[k] BY <1>1, <1>2, <1>4
<1>7. ASSUME NEW k \in i + 1 .. Len(s) PROVE (a \o b)[k - 1] = s[k]
  <2>1. k - i \in 1 .. Len(b) /\ k - 1 = (k - i) + Len(a) BY <1>1, <1>2, <1>4
  <2>2. (a \o b)[(k - i) + Len(a)] = b[k - i] BY <1>1, <1>2, <2>1
  <2>3. b[k - i] = s[(k - i) + i] BY <1>2, <2>1
  <2>4. (k - i) + i = k BY <1>4
  <2> QED BY <2>1, <2>2, <2>3, <2>4
<1> QED BY <1>3, <1>5, <1>6, <1>7

LEMMA InsertedIs ==
  ASSUME NEW S, NEW s \in Seq(S), NEW i \in Nat, 1 <= i, i <= Len(s) + 1, NEW e \in S
  PROVE  /\ InsertAt(s, i, e) \in Seq(S) /\ Len(InsertAt(s, i, e)) = Len(s) + 1
         /\ InsertAt(s, i, e)[i] = e
         /\ \A k \in 1 .. i - 1 : InsertAt(s, i, e)[k] = s[k]
         /\ \A k \in i .. Len(s) : InsertAt(s, i, e)[k + 1] = s[k]
<1> DEFINE a == SubSeq(s, 1, i - 1)
           b == SubSeq(s, i, Len(s))
           c == a \o <<e>>
<1>1. a \in Seq(S) /\ Len(a) = i - 1 /\ \A k \in 1 .. i - 1 : a[k] = s[k] OBVIOUS
<1>2. /\ b \in Seq(S) /\ Len(b) = Len(s) - i + 1
      /\ \A k \in 1 .. Len(s) - i + 1 : b[k] = s[k + i - 1]
  OBVIOUS
<1> HIDE DEF a, b
<1>3. i \in Nat /\ Len(s) \in Nat /\ 1 <= i /\ i <= Len(s) + 1 OBVIOUS
<1>4. c \in Seq(S) /\ Len(c) = i /\ c[i] = e /\ \A k \in 1 .. i - 1 : c[k] = s[k]
  BY <1>1, <1>3
<1>5. InsertAt(s, i, e) = c \o b BY DEF InsertAt, a, b
<1> HIDE DEF c
<1>6. c \o b \in Seq(S) /\ Len(c \o b) = Len(s) + 1 BY <1>2, <1>3, <1>4
<1>7. \A k \in 1 .. i : (c \o b)[k] = c[k] BY <1>2, <1>3, <1>4
<1>8. (c \o b)[i] = e /\ \A k \in 1 .. i - 1 : (c \o b)[k] = s[k] BY <1>3, <1>4, <1>7
<1>9. ASSUME NEW k \in i .. Len(s) PROVE (c \o b)[k + 1] = s[k]
  <2> DEFINE n == k - i + 1
  <2>1. n \in 1 .. Len(b) /\ k + 1 = n + Len(c) /\ n + i - 1 = k BY <1>2, <1>3, <1>4
  <2> HIDE DEF n
  <2>2. (c \o b)[n + Len(c)] = b[n] BY <1>2, <1>4, <2>1
  <2>3. b[n] = s[n + i - 1] BY <1>2, <2>1
  <2> QED BY <2>1, <2>2, <2>3
<1> QED BY <1>5, <1>6, <1>8, <1>9

\* The slot of entry i of a fabric is the one of rank i + 1.
LEMMA HitIs ==
  ASSUME NEW tbl, DOMAIN tbl \subseteq Slots, NEW f, NEW i \in Nat, NthSlot(tbl, f, i) # {}
  PROVE  \E s \in FabricSlots(tbl, f) : /\ NthSlot(tbl, f, i) = {s} /\ RankIn(tbl, f, s) = i + 1
                                        /\ i + 1 \in 1 .. Cardinality(FabricSlots(tbl, f))
<1> DEFINE D == FabricSlots(tbl, f)
<1>1. D \in SUBSET Nat /\ IsFiniteSet(D) /\ Cardinality(D) \in Nat BY TableSlots
<1>2. PICK s \in D : Cardinality(Below(D, s)) = i
  <2>1. NthSlot(tbl, f, i) = {s \in D : Cardinality(Below(D, s)) = i} BY DEF NthSlot, Below
  <2> QED BY <2>1
<1>3. Cardinality(Below(D, s)) = RankIn(tbl, f, s) - 1 BY <1>1, Ranks DEF RankIn
<1>4. /\ RankIn(tbl, f, s) \in 1 .. Cardinality(D)
      /\ NthSlot(tbl, f, RankIn(tbl, f, s) - 1) = {s}
  BY RankedSlots
<1>5. RankIn(tbl, f, s) = i + 1 /\ RankIn(tbl, f, s) - 1 = i BY <1>1, <1>2, <1>3, <1>4
<1> QED BY <1>4, <1>5

\* Ranks after an element is gone: those above it are one less.
LEMMA RanksWithout ==
  ASSUME NEW D \in SUBSET Nat, IsFiniteSet(D), NEW x \in D, NEW s \in D \ {x}
  PROVE  Cardinality(Upto(D \ {x}, s)) =
           IF s < x THEN Cardinality(Upto(D, s)) ELSE Cardinality(Upto(D, s)) - 1
<1>1. s \in Nat /\ x \in Nat /\ s # x OBVIOUS
<1>2. Upto(D, s) \in SUBSET D /\ IsFiniteSet(Upto(D, s)) BY FS_Subset DEF Upto
<1>3. Upto(D \ {x}, s) = Upto(D, s) \ {x} BY DEF Upto
<1>4. x \in Upto(D, s) <=> ~ (s < x) BY <1>1 DEF Upto
<1>5. CASE s < x
  <2>1. Upto(D \ {x}, s) = Upto(D, s) BY <1>3, <1>4, <1>5
  <2> QED BY <1>5, <2>1
<1>6. CASE ~ (s < x)
  <2>1. Cardinality(Upto(D, s) \ {x}) = Cardinality(Upto(D, s)) - 1
    BY <1>2, <1>4, <1>6, FS_RemoveElement
  <2> QED BY <1>3, <1>6, <2>1
<1> QED BY <1>5, <1>6

LEMMA EditedList ==
  ASSUME NEW tbl, IsTable(tbl), WithinQuota(tbl), NEW f, NEW i \in Nat, NthSlot(tbl, f, i) # {},
         NEW e \in Entry, e.fab = f
  PROVE  FabricList(Replaced(tbl, NthSlot(tbl, f, i), e), f) = [FabricList(tbl, f) EXCEPT ![i + 1] = e]
<1> DEFINE D   == FabricSlots(tbl, f)
           hit == NthSlot(tbl, f, i)
           new == Replaced(tbl, hit, e)
           old == FabricList(tbl, f)
           L   == [old EXCEPT ![i + 1] = e]
<1>1. DOMAIN tbl \subseteq Slots BY DEF IsTable
<1>2. PICK x \in D : hit = {x} /\ RankIn(tbl, f, x) = i + 1 /\ i + 1 \in 1 .. Cardinality(D)
  BY <1>1, HitIs
<1>3. hit \subseteq FabricSlots(tbl, f) BY DEF NthSlot
<1>4. KeepsOthers(new, tbl, f) /\ FabricSlots(new, f) = D BY <1>3, ReplacedKeeps
<1>5. DOMAIN new \subseteq Slots BY <1>4 DEF KeepsOthers, IsTable
<1>6. old \in Seq(Entry) /\ Len(old) = Cardinality(D) BY ListType
<1>7. L \in Seq(Entry) /\ Len(L) = Cardinality(FabricSlots(new, f)) BY <1>2, <1>4, <1>6
<1>8. ASSUME NEW s \in D PROVE L[RankIn(new, f, s)] = new[s]
  <2> DEFINE k == RankIn(tbl, f, s)
  <2>1. RankIn(new, f, s) = k BY <1>4 DEF RankIn
  <2>2. k \in 1 .. Len(old) /\ NthSlot(tbl, f, k - 1) = {s} /\ old[k] = tbl[s]
    BY <1>1, <1>6, RankedSlots, ListIs
  <2>3. new[s] = IF s = x THEN e ELSE tbl[s] BY <1>2 DEF Replaced, FabricSlots
  <2>4. k = i + 1 <=> s = x
    <3>1. k = i + 1 => NthSlot(tbl, f, k - 1) = hit
      <4>1. (i + 1) - 1 = i OBVIOUS
      <4> QED BY <4>1
    <3> QED BY <1>2, <2>2, <3>1
  <2> HIDE DEF k, new, old
  <2>5. L[k] = IF k = i + 1 THEN e ELSE old[k] BY <1>6, <2>2
  <2> QED BY <2>1, <2>2, <2>3, <2>4, <2>5
<1> HIDE DEF L, new
<1>9. FabricList(new, f) = L BY <1>4, <1>5, <1>7, <1>8, ListIsOnly
<1> QED BY <1>9 DEF L, new

LEMMA ShortenedList ==
  ASSUME NEW tbl, IsTable(tbl), WithinQuota(tbl), NEW f, NEW i \in Nat, NthSlot(tbl, f, i) # {}
  PROVE  FabricList(Without(tbl, NthSlot(tbl, f, i)), f) = RemoveAt(FabricList(tbl, f), i + 1)
<1> DEFINE D   == FabricSlots(tbl, f)
           hit == NthSlot(tbl, f, i)
           new == Without(tbl, hit)
           old == FabricList(tbl, f)
           L   == RemoveAt(old, i + 1)
<1>1. DOMAIN tbl \subseteq Slots BY DEF IsTable
<1>2. PICK x \in D : hit = {x} /\ RankIn(tbl, f, x) = i + 1 /\ i + 1 \in 1 .. Cardinality(D)
  BY <1>1, HitIs
<1>3. hit \subseteq FabricSlots(tbl, f) BY DEF NthSlot
<1>4. KeepsOthers(new, tbl, f) /\ FabricSlots(new, f) = D \ {x} BY <1>2, <1>3, WithoutKeeps
<1>5. DOMAIN new \subseteq Slots BY <1>4 DEF KeepsOthers, IsTable
<1>6. old \in Seq(Entry) /\ Len(old) = Cardinality(D) BY ListType
<1>7. D \in SUBSET Nat /\ IsFiniteSet(D) /\ Cardinality(D) \in Nat BY <1>1, TableSlots
<1>8. Cardinality(D \ {x}) = Cardinality(D) - 1 BY <1>7, FS_RemoveElement
<1> HIDE DEF D, new, hit, old
<1>9. /\ L \in Seq(Entry) /\ Len(L) = Len(old) - 1
      /\ \A k \in 1 .. (i + 1) - 1 : L[k] = old[k]
      /\ \A k \in (i + 1) + 1 .. Len(old) : L[k - 1] = old[k]
  BY <1>2, <1>6, RemovedIs
<1> HIDE DEF L
<1>10. ASSUME NEW s \in D \ {x} PROVE L[RankIn(new, f, s)] = new[s]
  <2> DEFINE k == RankIn(tbl, f, s)
  <2>1. RankIn(new, f, s) = IF s < x THEN k ELSE k - 1
    BY <1>4, <1>7, RanksWithout DEF RankIn, D
  <2>2. k \in 1 .. Len(old) /\ old[k] = tbl[s] BY <1>1, <1>6, RankedSlots, ListIs DEF D, old
  <2>3. new[s] = tbl[s] BY <1>2, <1>10 DEF new, Without, D, FabricSlots
  <2>4. (s < x => k < i + 1) /\ (~ (s < x) => i + 1 < k)
    <3>1. s \in Nat /\ x \in Nat /\ s # x BY <1>7
    <3>2. s < x => Cardinality(Upto(D, s)) < Cardinality(Upto(D, x)) BY <1>7, Ranks
    <3>3. x < s => Cardinality(Upto(D, x)) < Cardinality(Upto(D, s)) BY <1>7, Ranks
    <3> QED BY <1>2, <3>1, <3>2, <3>3 DEF RankIn, D
  <2> HIDE DEF k
  <2>5. CASE s < x
    <3>1. k \in 1 .. (i + 1) - 1 BY <2>2, <2>4, <2>5
    <3> QED BY <1>9, <2>1, <2>2, <2>3, <2>5, <3>1
  <2>6. CASE ~ (s < x)
    <3>1. k \in (i + 1) + 1 .. Len(old) BY <1>6, <1>7, <2>2, <2>4, <2>6
    <3> QED BY <1>9, <2>1, <2>2, <2>3, <2>6, <3>1
  <2> QED BY <2>5, <2>6
<1>11. FabricList(new, f) = L
  <2>1. Len(L) = Cardinality(FabricSlots(new, f)) BY <1>4, <1>6, <1>8, <1>9
  <2> QED BY <1>4, <1>5, <1>9, <1>10, <2>1, ListIsOnly
<1> QED BY <1>11 DEF L, new, hit, old

LEMMA EmptiedList ==
  ASSUME NEW tbl, IsTable(tbl), WithinQuota(tbl), NEW f
  PROVE  FabricList(Without(tbl, FabricSlots(tbl, f)), f) = << >>
<1> DEFINE new == Without(tbl, FabricSlots(tbl, f))
<1>1. KeepsOthers(new, tbl, f) /\ FabricSlots(new, f) = {}
  BY WithoutKeeps
<1>2. FabricList(new, f) \in Seq(Entry) /\ Len(FabricList(new, f)) = 0
  BY <1>1, ListType, FS_EmptySet DEF KeepsOthers
<1> QED BY <1>2

\* The new entry is inserted at the rank of the slot it is given.
LEMMA LengthenedList ==
  ASSUME NEW tbl, IsTable(tbl), WithinQuota(tbl), NEW f \in Fabrics, CanAdd(tbl, f),
         NEW e \in Entry, e.fab = f
  PROVE  \E k \in 1 .. Len(FabricList(tbl, f)) + 1 :
           FabricList(Added(tbl, e), f) = InsertAt(FabricList(tbl, f), k, e)
<1> DEFINE D   == FabricSlots(tbl, f)
           x   == FirstFree(tbl)
           new == Added(tbl, e)
           all == FabricSlots(new, f)
           old == FabricList(tbl, f)
           i   == RankIn(new, f, x)
           L   == InsertAt(old, i, e)
<1>1. DOMAIN tbl \subseteq Slots BY DEF IsTable
<1>2. x \in Slots /\ x \notin DOMAIN tbl BY FirstFreeIsFree DEF CanAdd
<1>3. KeepsOthers(new, tbl, f) /\ all = D \cup {x} BY AddedKeeps
<1>4. DOMAIN new \subseteq Slots BY <1>3 DEF KeepsOthers, IsTable
<1>5. old \in Seq(Entry) /\ Len(old) = Cardinality(D) BY ListType
<1>6. /\ D \in SUBSET Nat /\ IsFiniteSet(D) /\ Cardinality(D) \in Nat
      /\ all \in SUBSET Nat /\ IsFiniteSet(all)
  BY <1>1, <1>4, TableSlots
<1>7. x \notin D /\ x \in all /\ all \ {x} = D BY <1>2, <1>3 DEF FabricSlots
<1>8. Cardinality(all) = Cardinality(D) + 1 BY <1>3, <1>6, <1>7, FS_AddElement
<1>9. i \in 1 .. Len(old) + 1 BY <1>4, <1>5, <1>7, <1>8, RankedSlots
<1>10. new[x] = e /\ \A s \in D : new[s] = tbl[s] BY <1>2 DEF Added, FabricSlots
<1>11. \A s \in all : RankIn(new, f, s) = Cardinality(Upto(all, s)) BY DEF RankIn
<1>12. \A s \in D : RankIn(tbl, f, s) = Cardinality(Upto(D, s)) BY DEF RankIn
<1> HIDE DEF D, x, new, all, old, i
<1>13. /\ L \in Seq(Entry) /\ Len(L) = Len(old) + 1 /\ L[i] = e
       /\ \A k \in 1 .. i - 1 : L[k] = old[k]
       /\ \A k \in i .. Len(old) : L[k + 1] = old[k]
  <2>1. i \in Nat /\ 1 <= i /\ i <= Len(old) + 1 BY <1>5, <1>6, <1>9
  <2>2. old \in Seq(Entry) /\ e \in Entry BY <1>5
  <2>3. L \in Seq(Entry) BY <2>1, <2>2, InsertedIs
  <2>4. Len(L) = Len(old) + 1 BY <2>1, <2>2, InsertedIs
  <2>5. L[i] = e BY <2>1, <2>2, InsertedIs
  <2>6. \A k \in 1 .. i - 1 : L[k] = old[k] BY <2>1, <2>2, InsertedIs
  <2>7. \A k \in i .. Len(old) : L[k + 1] = old[k] BY <2>1, <2>2, InsertedIs
  <2> QED BY <2>3, <2>4, <2>5, <2>6, <2>7
<1> HIDE DEF L
<1>14. ASSUME NEW s \in all PROVE L[RankIn(new, f, s)] = new[s]
  <2>1. CASE s = x BY <1>10, <1>13, <2>1 DEF i
  <2>2. CASE s # x
    <3> DEFINE n == RankIn(tbl, f, s)
               k == RankIn(new, f, s)
    <3>1. s \in D BY <1>7, <2>2
    <3>2. n \in 1 .. Len(old) /\ old[n] = tbl[s]
      BY <1>1, <1>5, <3>1, RankedSlots, ListIs DEF D, old
    <3>3. n = IF s < x THEN k ELSE k - 1
      <4>1. Cardinality(Upto(all \ {x}, s)) =
              IF s < x THEN Cardinality(Upto(all, s)) ELSE Cardinality(Upto(all, s)) - 1
        BY <1>6, <1>7, <2>2, RanksWithout
      <4> QED BY <1>7, <1>11, <1>12, <3>1, <4>1
    <3>4. k \in Nat /\ i \in Nat
      <4>1. k \in 1 .. Cardinality(all) /\ Cardinality(all) \in Nat
        BY <1>4, <1>6, <1>8, RankedSlots DEF all
      <4> QED BY <1>5, <1>9, <4>1
    <3>5. (s < x => k < i) /\ (~ (s < x) => i < k)
      <4>1. s \in Nat /\ x \in Nat BY <1>6, <1>7
      <4>2. s < x => Cardinality(Upto(all, s)) < Cardinality(Upto(all, x)) BY <1>6, <1>7, Ranks
      <4>3. x < s => Cardinality(Upto(all, x)) < Cardinality(Upto(all, s)) BY <1>6, <1>7, Ranks
      <4>4. i = Cardinality(Upto(all, x)) BY <1>7, <1>11 DEF i
      <4> QED BY <1>11, <2>2, <4>1, <4>2, <4>3, <4>4
    <3>6. new[s] = tbl[s] BY <1>10, <3>1
    <3> HIDE DEF n, k
    <3>7. CASE s < x
      <4>1. n = k /\ n \in 1 .. i - 1 BY <3>2, <3>3, <3>4, <3>5, <3>7
      <4> QED BY <1>13, <3>2, <3>6, <4>1 DEF k
    <3>8. CASE ~ (s < x)
      <4>1. k = n + 1 /\ n \in i .. Len(old) BY <1>5, <1>6, <3>2, <3>3, <3>4, <3>5, <3>8
      <4> QED BY <1>13, <3>2, <3>6, <4>1 DEF k
    <3> QED BY <3>7, <3>8
  <2> QED BY <2>1, <2>2
<1>15. FabricList(new, f) = L
  <2>1. Len(L) = Cardinality(FabricSlots(new, f)) BY <1>5, <1>8, <1>13 DEF all
  <2> QED BY <1>4, <1>13, <1>14, <2>1, ListIsOnly DEF all
<1> QED BY <1>9, <1>15 DEF L, old, new

\* What an operation that is done makes of the list of its fabric.
Follows(op, f, old, new) ==
  CASE op.kind = "EditItem"   -> new = [old EXCEPT ![op.index + 1] = DecodedFor(op.data, f)]
    [] op.kind = "DeleteItem" -> new = RemoveAt(old, op.index + 1)
    [] op.kind = "DeleteList" -> new = << >>
    [] OTHER -> \E k \in 1 .. Len(old) + 1 : new = InsertAt(old, k, DecodedFor(op.data, f))

LEMMA OpFollows ==
  ASSUME IsTable(acl), WithinQuota(acl), NEW op \in ListOp, NEW f \in Fabrics,
         OpResult(op, f).err = "ok"
  PROVE  Follows(op, f, FabricList(acl, f), FabricList(OpResult(op, f).tbl, f))
<1> DEFINE hit   == NthSlot(acl, f, op.index)
           entry == DecodedFor(op.data, f)
           old   == FabricList(acl, f)
<1>1. ASSUME op.kind \in {"EditItem", "AddItem"}, op.data.kind = "item", Decodable(op.data)
      PROVE  entry \in Entry /\ entry.fab = f
  <2>1. op.data \in AttrValue BY <1>1 DEF ListOp
  <2> QED BY <1>1, <2>1, DecodedIsEntry
<1>2. op.kind \in {"EditItem", "DeleteItem"} => op.index \in Nat BY DEF ListOp
<1>3. CASE op.kind = "DeleteList"
  <2>1. OpResult(op, f).tbl = Without(acl, FabricSlots(acl, f)) BY <1>3 DEF OpResult
  <2> QED BY <1>3, <2>1, EmptiedList DEF Follows
<1>4. CASE op.kind = "DeleteItem"
  <2>1. OpResult(op, f).tbl = Without(acl, hit) /\ hit # {} BY <1>4 DEF OpResult
  <2>2. FabricList(Without(acl, hit), f) = RemoveAt(old, op.index + 1)
    BY <1>2, <1>4, <2>1, ShortenedList
  <2> QED BY <1>4, <2>1, <2>2 DEF Follows
<1>5. CASE op.kind = "EditItem"
  <2>1. /\ OpResult(op, f).tbl = Replaced(acl, hit, entry) /\ hit # {}
        /\ op.data.kind = "item" /\ Decodable(op.data)
    BY <1>5 DEF OpResult
  <2>2. entry \in Entry /\ entry.fab = f BY <1>1, <1>5, <2>1
  <2> HIDE DEF entry
  <2>3. FabricList(Replaced(acl, hit, entry), f) = [old EXCEPT ![op.index + 1] = entry]
    BY <1>2, <1>5, <2>1, <2>2, EditedList
  <2> QED BY <1>5, <2>1, <2>3 DEF Follows, entry
<1>6. CASE op.kind = "AddItem"
  <2>1. /\ OpResult(op, f).tbl = Added(acl, entry) /\ CanAdd(acl, f)
        /\ op.data.kind = "item" /\ Decodable(op.data)
    BY <1>6 DEF OpResult
  <2>2. entry \in Entry /\ entry.fab = f BY <1>1, <1>6, <2>1
  <2> HIDE DEF entry
  <2>3. \E k \in 1 .. Len(old) + 1 : FabricList(Added(acl, entry), f) = InsertAt(old, k, entry)
    BY <2>1, <2>2, LengthenedList
  <2> QED BY <1>6, <2>1, <2>3 DEF Follows, entry
<1> QED BY <1>3, <1>4, <1>5, <1>6 DEF ListOp

\* Each operation has on the list its fabric sees the effect its name says, though the
\* entries of the fabric are scattered over slots among those of the others.
THEOREM OpsAreFollowed == Spec => ListsFollowOps
<1>1. ASSUME IInv, [Next]_vars, acl' # acl, boots' = boots
      PROVE  Follows(Head(req.ops), req.acc.fab, FabricList(acl, req.acc.fab),
                     FabricList(acl', req.acc.fab))
  <2> DEFINE op == Head(req.ops)
             f  == req.acc.fab
  <2>1. /\ Underway(req) /\ req.ops # << >> /\ OpResult(op, f).err = "ok"
        /\ acl' = OpResult(op, f).tbl
    BY <1>1, TableSteps
  <2>2. op \in ListOp /\ f \in Fabrics BY <2>1, AccessorsHaveFabrics DEF Underway
  <2>3. IsTable(acl) /\ WithinQuota(acl) BY <1>1 DEF IInv, TInv, FabricQuota
  <2> HIDE DEF op, f
  <2>4. Follows(op, f, FabricList(acl, f), FabricList(OpResult(op, f).tbl, f))
    BY <2>1, <2>2, <2>3, OpFollows
  <2> QED BY <2>1, <2>4 DEF op, f
<1>2. IInv /\ [Next]_vars =>
        [acl' # acl /\ boots' = boots =>
           Follows(Head(req.ops), req.acc.fab, FabricList(acl, req.acc.fab),
                   FabricList(acl', req.acc.fab))]_vars
  BY <1>1
<1> QED BY <1>2, Invariant, PTL DEF Spec, ListsFollowOps, Follows

(***************************************************************************)
(* The refinement: the table and its file keep the promise of FabricLists. *)
(***************************************************************************)
\* An entry after a start.
SavedAs(e) == [e EXCEPT !.privilege = IF @ = OPERATE THEN MANAGE ELSE @]

LEMMA SavedEntry ==
  ASSUME NEW e \in Entry
  PROVE  SavedAs(e) \in Entry /\ SavedAs(e) = [e EXCEPT !.privilege = StoredPrivilege[@]]
<1> DEFINE p == IF e.privilege = OPERATE THEN MANAGE ELSE e.privilege
<1>1. e.privilege \in {VIEW, OPERATE, MANAGE, ADMIN} BY DEF Entry
<1>2. StoredPrivilege[e.privilege] = p BY <1>1, PrivilegeStored DEF StoredPrivilege
<1>3. p \in {VIEW, OPERATE, MANAGE, ADMIN} BY <1>1
<1>4. SavedAs(e) = [e EXCEPT !.privilege = p] BY DEF SavedAs
<1>5. [e EXCEPT !.privilege = StoredPrivilege[@]] = [e EXCEPT !.privilege = p] BY <1>2
<1> HIDE DEF p
<1>6. [e EXCEPT !.privilege = p] \in Entry BY <1>3 DEF Entry
<1> QED BY <1>4, <1>5, <1>6

LEMMA SavedList ==
  ASSUME NEW l \in Seq(Entry)
  PROVE  /\ Lists!AsStored(l) \in Seq(Entry) /\ Len(Lists!AsStored(l)) = Len(l)
         /\ \A k \in 1 .. Len(l) : Lists!AsStored(l)[k] = SavedAs(l[k])
<1> DEFINE m == Lists!AsStored(l)
<1>1. DOMAIN l = 1 .. Len(l) /\ Len(l) \in Nat /\ \A k \in 1 .. Len(l) : l[k] \in Entry
  OBVIOUS
<1>2. m = [k \in 1 .. Len(l) |-> [l[k] EXCEPT !.privilege = StoredPrivilege[@]]]
  BY <1>1 DEF Lists!AsStored
<1>3. \A k \in 1 .. Len(l) : m[k] = SavedAs(l[k]) /\ SavedAs(l[k]) \in Entry
  BY <1>1, <1>2, SavedEntry
<1> HIDE DEF m
<1>4. m \in [1 .. Len(l) -> Entry] BY <1>2, <1>3
<1> QED BY <1>1, <1>3, <1>4 DEF m

\* An increasing map of a set onto another keeps ranks.
LEMMA SameRank ==
  ASSUME NEW D \in SUBSET Nat, IsFiniteSet(D), NEW E \in SUBSET Nat, NEW g \in [D -> E],
         \A j, k \in D : j < k => g[j] < g[k],
         \A s \in E : \E k \in D : g[k] = s
  PROVE  /\ Cardinality(E) = Cardinality(D)
         /\ \A k \in D : Cardinality(Upto(E, g[k])) = Cardinality(Upto(D, k))
<1>1. \A j, k \in D : /\ j \in Nat /\ k \in Nat /\ g[j] \in Nat /\ g[k] \in Nat
                      /\ g[j] = g[k] => j = k
                      /\ g[j] <= g[k] <=> j <= k
  <2>1. \A j \in D : j \in Nat /\ g[j] \in Nat OBVIOUS
  <2>2. \A j, k \in D : j < k \/ k < j \/ j = k BY <2>1
  <2> QED BY <2>1, <2>2
<1>2. ASSUME NEW A, NEW B, A \subseteq D, B \subseteq E,
             \A k \in A : g[k] \in B, \A s \in B : \E k \in A : g[k] = s
      PROVE  Cardinality(B) = Cardinality(A)
  <2> DEFINE h == [k \in A |-> g[k]]
  <2>1. IsFiniteSet(A) BY <1>2, FS_Subset
  <2>2. h \in [A -> B] /\ \A k \in A : h[k] = g[k] BY <1>2
  <2> HIDE DEF h
  <2>3. h \in Bijection(A, B)
    BY <1>1, <1>2, <2>2 DEF Bijection, Injection, Surjection, IsInjective
  <2>4. ExistsBijection(A, B) BY <2>3 DEF ExistsBijection
  <2> QED BY <2>1, <2>4, FS_Bijection
<1>3. Cardinality(E) = Cardinality(D) BY <1>2
<1>4. ASSUME NEW k \in D PROVE Cardinality(Upto(E, g[k])) = Cardinality(Upto(D, k))
  <2>1. Upto(D, k) \subseteq D /\ Upto(E, g[k]) \subseteq E BY DEF Upto
  <2>2. \A j \in Upto(D, k) : g[j] \in Upto(E, g[k]) BY <1>1 DEF Upto
  <2>3. \A s \in Upto(E, g[k]) : \E j \in Upto(D, k) : g[j] = s BY <1>1 DEF Upto
  <2> QED BY <1>2, <2>1, <2>2, <2>3
<1> QED BY <1>3, <1>4

\* The list in the image is the list as it is saved.
LEMMA ImageList ==
  ASSUME NEW tbl, IsTable(tbl), NEW f
  PROVE  FabricList(Image(tbl), f) = Lists!AsStored(FabricList(tbl, f))
<1> DEFINE img == Image(tbl)
           S == FabricSlots(img, f)
           T == FabricSlots(tbl, f)
           g == [k \in S |-> SlotOf(tbl, k)]
           L == Lists!AsStored(FabricList(tbl, f))
<1>1. /\ DOMAIN tbl \subseteq Slots /\ tbl \in [DOMAIN tbl -> Entry]
      /\ IsTable(img) /\ DOMAIN img \subseteq Slots /\ DOMAIN img = 1 .. Cardinality(DOMAIN tbl)
  BY ImageIs DEF IsTable
<1>2. \A k \in DOMAIN img : /\ SlotOf(tbl, k) \in DOMAIN tbl
                            /\ img[k] = SavedAs(tbl[SlotOf(tbl, k)])
                            /\ img[k].fab = tbl[SlotOf(tbl, k)].fab
  <2>1. \A k \in DOMAIN img : /\ SlotOf(tbl, k) \in DOMAIN tbl /\ tbl[SlotOf(tbl, k)] \in Entry
                              /\ img[k] = SavedAs(tbl[SlotOf(tbl, k)])
    BY ImageIs DEF SavedAs
  <2>2. \A e \in Entry : SavedAs(e).fab = e.fab BY DEF SavedAs, Entry
  <2> QED BY <2>1, <2>2
<1>3. /\ S \in SUBSET Nat /\ IsFiniteSet(S) /\ S \subseteq DOMAIN img
      /\ T \in SUBSET Nat /\ T \subseteq DOMAIN tbl
  BY <1>1, TableSlots
<1>4. g \in [S -> T] BY <1>2, <1>3 DEF FabricSlots
<1>5. \A s \in T : \E k \in S : g[k] = s
  <2> SUFFICES ASSUME NEW s \in T PROVE \E k \in S : SlotOf(tbl, k) = s
    OBVIOUS
  <2>1. RankOf(tbl, s) \in DOMAIN img /\ SlotOf(tbl, RankOf(tbl, s)) = s
    BY <1>1, <1>3, SlotsByRank
  <2> QED BY <1>2, <2>1 DEF FabricSlots
<1>6. \A j, k \in S : j < k => g[j] < g[k]
  <2> SUFFICES ASSUME NEW j \in S, NEW k \in S, j < k PROVE SlotOf(tbl, j) < SlotOf(tbl, k)
    OBVIOUS
  <2> DEFINE s == SlotOf(tbl, j)
             t == SlotOf(tbl, k)
  <2>1. s \in DOMAIN tbl /\ t \in DOMAIN tbl /\ RankOf(tbl, s) = j /\ RankOf(tbl, t) = k
    BY <1>1, <1>3, SlotsByRank
  <2>2. DOMAIN tbl \in SUBSET Nat /\ IsFiniteSet(DOMAIN tbl) BY <1>1, TableSlots
  <2>3. j \in Nat /\ k \in Nat BY <1>3
  <2> HIDE DEF s, t
  <2>4. s \in Nat /\ t \in Nat BY <2>1, <2>2
  <2>5. t < s => RankOf(tbl, t) < RankOf(tbl, s)
    <3>1. \A r : RankOf(tbl, r) = Cardinality(Upto(DOMAIN tbl, r)) BY DEF RankOf, Upto
    <3> QED BY <2>1, <2>2, <3>1, Ranks
  <2>6. s < t BY <2>1, <2>3, <2>4, <2>5
  <2> QED BY <2>6 DEF s, t
<1> HIDE DEF g
<1>7. /\ Cardinality(T) = Cardinality(S)
      /\ \A k \in S : Cardinality(Upto(T, g[k])) = Cardinality(Upto(S, k))
  BY <1>3, <1>4, <1>5, <1>6, SameRank
<1>8. FabricList(tbl, f) \in Seq(Entry) /\ Len(FabricList(tbl, f)) = Cardinality(T) BY ListType
<1>9. /\ L \in Seq(Entry) /\ Len(L) = Cardinality(S)
      /\ \A k \in 1 .. Cardinality(T) : L[k] = SavedAs(FabricList(tbl, f)[k])
  BY <1>7, <1>8, SavedList
<1>10. ASSUME NEW k \in S PROVE L[RankIn(img, f, k)] = img[k]
  <2>1. RankIn(img, f, k) = RankIn(tbl, f, g[k]) BY <1>7 DEF RankIn
  <2>2. g[k] \in T /\ g[k] = SlotOf(tbl, k) BY <1>4 DEF g
  <2>3. /\ RankIn(tbl, f, g[k]) \in 1 .. Cardinality(T)
        /\ FabricList(tbl, f)[RankIn(tbl, f, g[k])] = tbl[g[k]]
    BY <1>1, <2>2, RankedSlots, ListIs
  <2>4. img[k] = SavedAs(tbl[g[k]]) BY <1>2, <1>3, <2>2
  <2> HIDE DEF img, L
  <2> QED BY <1>9, <2>1, <2>3, <2>4
<1> HIDE DEF img, L
<1> QED BY <1>1, <1>9, <1>10, ListIsOnly DEF img, L

\* A list that is the other one cut after some slot.
LEMMA CutList ==
  ASSUME NEW new, IsTable(new), NEW tbl, IsTable(tbl), NEW f, NEW m \in Nat,
         FabricSlots(new, f) = {s \in FabricSlots(tbl, f) : s <= m},
         \A s \in FabricSlots(new, f) : new[s] = tbl[s]
  PROVE  IsPrefix(FabricList(new, f), FabricList(tbl, f))
<1> DEFINE S == FabricSlots(new, f)
           T == FabricSlots(tbl, f)
           l == FabricList(new, f)
           o == FabricList(tbl, f)
<1>1. /\ DOMAIN new \subseteq Slots /\ DOMAIN tbl \subseteq Slots
      /\ T \in SUBSET Nat /\ IsFiniteSet(T) /\ S \subseteq T
      /\ Cardinality(S) \in Nat /\ Cardinality(T) \in Nat
  BY TableSlots DEF IsTable
<1>2. Cardinality(S) <= Cardinality(T) BY <1>1, FS_Subset
<1>3. l \in Seq(Entry) /\ Len(l) = Cardinality(S) /\ o \in Seq(Entry) /\ Len(o) = Cardinality(T)
  BY ListType
<1>4. ASSUME NEW k \in 1 .. Cardinality(S) PROVE l[k] = o[k]
  <2>1. PICK s \in S : RankIn(new, f, s) = k BY <1>1, RankedSlots
  <2>2. Upto(S, s) = Upto(T, s)
    <3>1. \A r \in T : r \in Nat BY <1>1
    <3>2. s \in Nat /\ s <= m BY <1>1
    <3>3. \A r \in T : r <= s => r <= m BY <3>1, <3>2
    <3> QED BY <3>3 DEF Upto
  <2>3. RankIn(tbl, f, s) = k BY <2>1, <2>2 DEF RankIn
  <2>4. l[k] = new[s] BY <1>1, <2>1, ListIs
  <2>5. o[k] = tbl[s] BY <1>1, <2>3, ListIs
  <2> QED BY <2>4, <2>5
<1> HIDE DEF S, T, l, o
<1>5. SubSeq(l, 1, Len(l)) = SubSeq(o, 1, Len(l))
  <2>1. SubSeq(l, 1, Len(l)) = [k \in 1 .. Len(l) |-> l[k]] BY <1>1, <1>3
  <2>2. SubSeq(o, 1, Len(l)) = [k \in 1 .. Len(l) |-> o[k]] BY <1>1, <1>2, <1>3
  <2> QED BY <1>3, <1>4, <2>1, <2>2
<1> QED BY <1>2, <1>3, <1>5 DEF IsPrefix, l, o

\* A file that was cut shows of each list its first entries.
LEMMA TornList ==
  ASSUME NEW img, IsTable(img), DOMAIN img = 1 .. Cardinality(DOMAIN img), NEW t \in Torn(img),
         NEW f \in Fabrics
  PROVE  IsPrefix(FabricList(t, f), FabricList(img, f))
<1> DEFINE n == Cardinality(DOMAIN img)
<1>1. n \in Nat /\ img \in [1 .. n -> Entry] BY TableSlots DEF IsTable
<1>2. IsTable(t) BY TornIsPart DEF PartOf
<1>3. CASE \E k \in 0 .. n : t = [s \in 1 .. k |-> img[s]]
  <2>1. PICK k \in 0 .. n : t = [s \in 1 .. k |-> img[s]] BY <1>3
  <2>2. FabricSlots(t, f) = {s \in FabricSlots(img, f) : s <= k} BY <1>1, <2>1 DEF FabricSlots
  <2>3. \A s \in FabricSlots(t, f) : t[s] = img[s] BY <2>1 DEF FabricSlots
  <2>4. k \in Nat OBVIOUS
  <2> QED BY <1>2, <2>2, <2>3, <2>4, CutList
<1>4. CASE \E k \in 1 .. n :
             t = [s \in 1 .. k |-> IF s < k THEN img[s] ELSE [img[s] EXCEPT !.fab = NoFabric]]
  <2>1. PICK k \in 1 .. n :
          t = [s \in 1 .. k |-> IF s < k THEN img[s] ELSE [img[s] EXCEPT !.fab = NoFabric]]
    BY <1>4
  <2>2. k \in Nat /\ k - 1 \in Nat /\ DOMAIN t = 1 .. k BY <1>1, <2>1
  <2>3. NoFabric \notin Fabrics BY AclAssumption DEF NoFabric, Fabrics
  <2>4. t[k].fab # f
    <3>1. img[k] \in Entry BY <1>1
    <3>2. t[k] = [img[k] EXCEPT !.fab = NoFabric] BY <2>1, <2>2
    <3>3. t[k].fab = NoFabric BY <3>1, <3>2 DEF Entry
    <3> QED BY <2>3, <3>3
  <2>5. \A s \in 1 .. k - 1 : t[s] = img[s] BY <2>1, <2>2
  <2>6. \A s \in 1 .. k : s # k => s \in 1 .. k - 1 BY <2>2
  <2>7. \A s \in 1 .. n : s <= k - 1 <=> s \in 1 .. k - 1 BY <1>1, <2>2
  <2>8. FabricSlots(t, f) = {s \in FabricSlots(img, f) : s <= k - 1}
    <3>1. 1 .. k - 1 \subseteq 1 .. n /\ 1 .. k - 1 \subseteq 1 .. k BY <1>1, <2>2
    <3>2. DOMAIN img = 1 .. n BY <1>1
    <3>3. FabricSlots(t, f) = {s \in 1 .. k - 1 : img[s].fab = f}
      BY <2>2, <2>4, <2>5, <2>6, <3>1 DEF FabricSlots
    <3>4. {s \in FabricSlots(img, f) : s <= k - 1} = {s \in 1 .. k - 1 : img[s].fab = f}
      BY <2>7, <3>1, <3>2 DEF FabricSlots
    <3> QED BY <3>3, <3>4
  <2>9. \A s \in FabricSlots(t, f) : t[s] = img[s]
    <3>1. \A s \in FabricSlots(t, f) : s \in 1 .. k /\ s # k BY <2>2, <2>4 DEF FabricSlots
    <3> QED BY <2>5, <2>6, <3>1
  <2> QED BY <1>2, <2>2, <2>8, <2>9, CutList
<1> QED BY <1>3, <1>4 DEF Torn

(***************************************************************************)
(* One operation, on a list and on what is saved of it.                    *)
(***************************************************************************)
OneOp(old, new) ==
  \/ new = << >>
  \/ \E i \in 1 .. Len(old) : new = RemoveAt(old, i)
  \/ \E i \in 1 .. Len(old), e \in Entry : new = [old EXCEPT ![i] = e]
  \/ \E i \in 1 .. Len(old) + 1, e \in Entry : new = InsertAt(old, i, e)

\* An operation that is done is one.
LEMMA OpIsOne ==
  ASSUME IsTable(acl), WithinQuota(acl), NEW op \in ListOp, NEW f \in Fabrics,
         OpResult(op, f).err = "ok"
  PROVE  OneOp(FabricList(acl, f), FabricList(OpResult(op, f).tbl, f))
<1> DEFINE old == FabricList(acl, f)
           new == FabricList(OpResult(op, f).tbl, f)
           hit == NthSlot(acl, f, op.index)
           entry == DecodedFor(op.data, f)
<1>1. Follows(op, f, old, new) BY OpFollows
<1>2. ASSUME op.kind \in {"EditItem", "DeleteItem"} PROVE op.index + 1 \in 1 .. Len(old)
  <2>1. op.index \in Nat /\ hit # {} BY <1>2 DEF ListOp, OpResult
  <2>2. Len(old) = Cardinality(FabricSlots(acl, f)) /\ DOMAIN acl \subseteq Slots
    BY ListType DEF IsTable
  <2> QED BY <2>1, <2>2, HitIs
<1>3. ASSUME op.kind \in {"EditItem", "AddItem"} PROVE entry \in Entry
  <2>1. op.data \in AttrValue BY <1>3 DEF ListOp
  <2>2. op.data.kind = "item" /\ Decodable(op.data) BY <1>3 DEF OpResult
  <2> QED BY <2>1, <2>2, DecodedIsEntry
<1> HIDE DEF old, new, entry
<1>4. OneOp(old, new)
  <2>1. CASE op.kind = "DeleteList" BY <1>1, <2>1 DEF Follows, OneOp
  <2>2. CASE op.kind = "DeleteItem" BY <1>1, <1>2, <2>2 DEF Follows, OneOp
  <2>3. CASE op.kind = "EditItem" BY <1>1, <1>2, <1>3, <2>3 DEF Follows, OneOp, entry
  <2>4. CASE op.kind = "AddItem" BY <1>1, <1>3, <2>4 DEF Follows, OneOp, entry
  <2> QED BY <2>1, <2>2, <2>3, <2>4 DEF ListOp
<1> QED BY <1>4 DEF old, new

LEMMA SameSeq ==
  ASSUME NEW S, NEW a \in Seq(S), NEW b \in Seq(S), Len(a) = Len(b),
         \A k \in 1 .. Len(a) : a[k] = b[k]
  PROVE  a = b
<1>1. a = [k \in 1 .. Len(a) |-> a[k]] /\ b = [k \in 1 .. Len(b) |-> b[k]] OBVIOUS
<1> QED BY <1>1

LEMMA PrefixIs ==
  ASSUME NEW S, NEW a \in Seq(S), NEW b \in Seq(S)
  PROVE  IsPrefix(a, b) <=> Len(a) <= Len(b) /\ \A k \in 1 .. Len(a) : a[k] = b[k]
<1>1. ASSUME Len(a) <= Len(b)
      PROVE  SubSeq(a, 1, Len(a)) = SubSeq(b, 1, Len(a)) <=> \A k \in 1 .. Len(a) : a[k] = b[k]
  <2>1. Len(a) \in Nat /\ Len(b) \in Nat OBVIOUS
  <2>2. SubSeq(a, 1, Len(a)) = [k \in 1 .. Len(a) |-> a[k]] BY <2>1
  <2>3. SubSeq(b, 1, Len(a)) = [k \in 1 .. Len(a) |-> b[k]] BY <1>1, <2>1
  <2>4. (\A k \in 1 .. Len(a) : a[k] = b[k])
          => [k \in 1 .. Len(a) |-> a[k]] = [k \in 1 .. Len(a) |-> b[k]]
    OBVIOUS
  <2>5. ASSUME [k \in 1 .. Len(a) |-> a[k]] = [k \in 1 .. Len(a) |-> b[k]],
               NEW k \in 1 .. Len(a)
        PROVE  a[k] = b[k]
    <3>1. [j \in 1 .. Len(a) |-> a[j]][k] = [j \in 1 .. Len(a) |-> b[j]][k] BY <2>5
    <3> QED BY <3>1
  <2> QED BY <2>2, <2>3, <2>4, <2>5
<1> QED BY <1>1 DEF IsPrefix

\* The operators of FabricLists are those used here.
LEMMA SameOperators ==
  /\ \A s, i : Lists!RemoveAt(s, i) = RemoveAt(s, i)
  /\ \A s, i, e : Lists!ReplaceAt(s, i, e) = [s EXCEPT ![i] = e]
  /\ \A s, i, e : Lists!InsertAt(s, i, e) = InsertAt(s, i, e)
  /\ \A s, t : Lists!IsPrefix(s, t) <=> IsPrefix(s, t)
  /\ \A s : Lists!ToSet(s) = Elements(s)
BY DEF Lists!RemoveAt, RemoveAt, Lists!ReplaceAt, Lists!InsertAt, InsertAt,
       Lists!IsPrefix, IsPrefix, Lists!ToSet, Elements

LEMMA ChangedIs ==
  ASSUME NEW l, NEW x, NEW E,
         \/ x = << >>
         \/ \E i \in 1 .. Len(l) : x = RemoveAt(l, i)
         \/ \E i \in 1 .. Len(l), e \in E : x = [l EXCEPT ![i] = e]
         \/ \E i \in 1 .. Len(l) + 1, e \in E : x = InsertAt(l, i, e)
  PROVE  x \in Lists!Changed(l, E)
BY SameOperators DEF Lists!Changed

LEMMA OpChanges ==
  ASSUME NEW old \in Seq(Entry), NEW new \in Seq(Entry), OneOp(old, new)
  PROVE  new \in Lists!Changed(old, Lists!ToSet(new))
<1> DEFINE E == Lists!ToSet(new)
<1>1. \A k \in 1 .. Len(new) : new[k] \in E BY SameOperators DEF Elements
<1>2. ASSUME NEW i \in 1 .. Len(old), NEW e \in Entry, new = [old EXCEPT ![i] = e]
      PROVE  e \in E
  <2>1. Len(new) = Len(old) /\ new[i] = e BY <1>2
  <2> QED BY <1>1, <2>1
<1>3. ASSUME NEW i \in 1 .. Len(old) + 1, NEW e \in Entry, new = InsertAt(old, i, e)
      PROVE  e \in E
  <2>1. i \in Nat /\ 1 <= i /\ i <= Len(old) + 1 /\ Len(old) \in Nat OBVIOUS
  <2>2. Len(new) = Len(old) + 1 /\ new[i] = e BY <1>3, <2>1, InsertedIs
  <2>3. i \in 1 .. Len(new) BY <2>1, <2>2
  <2> QED BY <1>1, <2>2, <2>3
<1> HIDE DEF E
<1>4. \/ new = << >>
      \/ \E i \in 1 .. Len(old) : new = RemoveAt(old, i)
      \/ \E i \in 1 .. Len(old), e \in E : new = [old EXCEPT ![i] = e]
      \/ \E i \in 1 .. Len(old) + 1, e \in E : new = InsertAt(old, i, e)
  BY <1>2, <1>3 DEF OneOp
<1>5. new \in Lists!Changed(old, E) BY <1>4, ChangedIs
<1> QED BY <1>5 DEF E

\* What is saved of a list after an operation is what the operation makes of what was
\* saved of it.
LEMMA SavedOps ==
  ASSUME NEW l \in Seq(Entry)
  PROVE  /\ \A i \in 1 .. Len(l) :
              Lists!AsStored(RemoveAt(l, i)) = RemoveAt(Lists!AsStored(l), i)
         /\ \A i \in 1 .. Len(l), e \in Entry :
              Lists!AsStored([l EXCEPT ![i] = e]) = [Lists!AsStored(l) EXCEPT ![i] = SavedAs(e)]
         /\ \A i \in 1 .. Len(l) + 1, e \in Entry :
              Lists!AsStored(InsertAt(l, i, e)) = InsertAt(Lists!AsStored(l), i, SavedAs(e))
<1> DEFINE m == Lists!AsStored(l)
           n == Len(l)
<1>1. m \in Seq(Entry) /\ Len(m) = n /\ \A k \in 1 .. n : m[k] = SavedAs(l[k]) BY SavedList
<1>2. n \in Nat OBVIOUS
<1> HIDE DEF m
<1>3. ASSUME NEW i \in 1 .. n PROVE Lists!AsStored(RemoveAt(l, i)) = RemoveAt(m, i)
  <2> DEFINE a == RemoveAt(l, i)
             b == RemoveAt(m, i)
             c == Lists!AsStored(a)
  <2>1. /\ a \in Seq(Entry) /\ Len(a) = n - 1 /\ \A k \in 1 .. i - 1 : a[k] = l[k]
        /\ \A k \in i + 1 .. n : a[k - 1] = l[k]
    BY RemovedIs
  <2>2. /\ b \in Seq(Entry) /\ Len(b) = n - 1 /\ \A k \in 1 .. i - 1 : b[k] = m[k]
        /\ \A k \in i + 1 .. n : b[k - 1] = m[k]
    BY <1>1, RemovedIs
  <2> HIDE DEF a, b, n
  <2>3. c \in Seq(Entry) /\ Len(c) = n - 1 /\ \A k \in 1 .. n - 1 : c[k] = SavedAs(a[k])
    BY <2>1, SavedList
  <2>4. ASSUME NEW k \in 1 .. n - 1 PROVE c[k] = b[k]
    <3>1. CASE k < i
      <4>1. k \in 1 .. i - 1 /\ k \in 1 .. n BY <1>2, <3>1
      <4> QED BY <1>1, <2>1, <2>2, <2>3, <4>1
    <3>2. CASE ~ (k < i)
      <4>1. k + 1 \in i + 1 .. n /\ (k + 1) - 1 = k /\ k + 1 \in 1 .. n BY <1>2, <3>2
      <4>2. a[(k + 1) - 1] = l[k + 1] /\ b[(k + 1) - 1] = m[k + 1] BY <2>1, <2>2, <4>1
      <4> QED BY <1>1, <2>3, <4>1, <4>2
    <3> QED BY <3>1, <3>2
  <2> HIDE DEF c
  <2>5. c = b BY <2>2, <2>3, <2>4, SameSeq
  <2> QED BY <2>5 DEF a, b, c
<1>4. ASSUME NEW i \in 1 .. n, NEW e \in Entry
      PROVE  Lists!AsStored([l EXCEPT ![i] = e]) = [m EXCEPT ![i] = SavedAs(e)]
  <2> DEFINE a == [l EXCEPT ![i] = e]
             b == [m EXCEPT ![i] = SavedAs(e)]
             c == Lists!AsStored(a)
  <2>1. a \in Seq(Entry) /\ Len(a) = n /\ \A k \in 1 .. n : a[k] = IF k = i THEN e ELSE l[k]
    OBVIOUS
  <2>2. /\ b \in Seq(Entry) /\ Len(b) = n
        /\ \A k \in 1 .. n : b[k] = IF k = i THEN SavedAs(e) ELSE m[k]
    BY <1>1, SavedEntry
  <2> HIDE DEF a, b, n
  <2>3. c \in Seq(Entry) /\ Len(c) = n /\ \A k \in 1 .. n : c[k] = SavedAs(a[k])
    BY <2>1, SavedList
  <2>4. \A k \in 1 .. n : c[k] = b[k] BY <1>1, <2>1, <2>2, <2>3
  <2> HIDE DEF c
  <2>5. c = b BY <2>2, <2>3, <2>4, SameSeq
  <2> QED BY <2>5 DEF a, b, c
<1>5. ASSUME NEW i \in 1 .. n + 1, NEW e \in Entry
      PROVE  Lists!AsStored(InsertAt(l, i, e)) = InsertAt(m, i, SavedAs(e))
  <2> DEFINE a == InsertAt(l, i, e)
             b == InsertAt(m, i, SavedAs(e))
             c == Lists!AsStored(a)
  <2>1. i \in Nat /\ 1 <= i /\ i <= n + 1 BY <1>2
  <2>2. /\ a \in Seq(Entry) /\ Len(a) = n + 1 /\ a[i] = e
        /\ \A k \in 1 .. i - 1 : a[k] = l[k]
        /\ \A k \in i .. n : a[k + 1] = l[k]
    BY <2>1, InsertedIs
  <2>3. /\ b \in Seq(Entry) /\ Len(b) = n + 1 /\ b[i] = SavedAs(e)
        /\ \A k \in 1 .. i - 1 : b[k] = m[k]
        /\ \A k \in i .. n : b[k + 1] = m[k]
    <3> DEFINE d == SavedAs(e)
    <3>1. d \in Entry BY SavedEntry
    <3> HIDE DEF d, n
    <3>2. m \in Seq(Entry) /\ Len(m) = n /\ i <= Len(m) + 1 BY <1>1, <2>1
    <3> DEFINE r == InsertAt(m, i, d)
    <3>3. r \in Seq(Entry) BY <2>1, <3>1, <3>2, InsertedIs
    <3>4. Len(r) = Len(m) + 1 BY <2>1, <3>1, <3>2, InsertedIs
    <3>5. r[i] = d BY <2>1, <3>1, <3>2, InsertedIs
    <3>6. ASSUME NEW k \in 1 .. i - 1 PROVE r[k] = m[k]
      BY <2>1, <3>1, <3>2, InsertedIs
    <3>7. ASSUME NEW k \in i .. Len(m) PROVE r[k + 1] = m[k]
      BY <2>1, <3>1, <3>2, InsertedIs
    <3> HIDE DEF r
    <3>8. r = b BY DEF r, d
    <3> HIDE DEF b
    <3> QED BY <3>2, <3>3, <3>4, <3>5, <3>6, <3>7, <3>8 DEF d
  <2> HIDE DEF a, b, n
  <2>4. c \in Seq(Entry) /\ Len(c) = n + 1 /\ \A k \in 1 .. n + 1 : c[k] = SavedAs(a[k])
    BY <2>2, SavedList
  <2>5. ASSUME NEW k \in 1 .. n + 1 PROVE c[k] = b[k]
    <3>1. CASE k < i
      <4>1. k \in 1 .. i - 1 /\ k \in 1 .. n BY <1>2, <2>1, <3>1
      <4> QED BY <1>1, <2>2, <2>3, <2>4, <4>1
    <3>2. CASE k = i BY <2>2, <2>3, <2>4, <3>2
    <3>3. CASE i < k
      <4>1. k - 1 \in i .. n /\ (k - 1) + 1 = k /\ k - 1 \in 1 .. n BY <1>2, <2>1, <3>3
      <4>2. a[(k - 1) + 1] = l[k - 1] /\ b[(k - 1) + 1] = m[k - 1] BY <2>2, <2>3, <4>1
      <4> QED BY <1>1, <2>4, <4>1, <4>2
    <3> QED BY <2>1, <3>1, <3>2, <3>3
  <2> HIDE DEF c
  <2>6. c = b BY <2>3, <2>4, <2>5, SameSeq
  <2> QED BY <2>6 DEF a, b, c
<1> QED BY <1>3, <1>4, <1>5 DEF m

\* What is left of a saved list that was changed by one operation and cut.
LEMMA CutAfterOp ==
  ASSUME NEW old \in Seq(Entry), NEW new \in Seq(Entry), OneOp(old, new),
         NEW l \in Seq(Entry), IsPrefix(l, Lists!AsStored(new))
  PROVE  LET o == Lists!AsStored(old) IN
           \E x \in Lists!Changed(o, Lists!ToSet(l)) \cup {o} : Lists!IsPrefix(l, x)
<1> DEFINE o == Lists!AsStored(old)
           x == Lists!AsStored(new)
           E == Lists!ToSet(l)
           n == Len(old)
<1>1. /\ o \in Seq(Entry) /\ Len(o) = n /\ x \in Seq(Entry) /\ Len(x) = Len(new)
      /\ n \in Nat /\ Len(l) \in Nat
  BY SavedList
<1>2. Len(l) <= Len(x) /\ \A k \in 1 .. Len(l) : l[k] = x[k] BY <1>1, PrefixIs
<1>3. \A k \in 1 .. Len(l) : l[k] \in E BY SameOperators DEF Elements
<1> HIDE DEF o, x, E, n
<1>4. x \in Lists!Changed(o, E) \/ IsPrefix(l, o)
  <2>1. CASE new = << >>
    <3>1. x = << >> BY <1>1, <2>1
    <3> QED BY <3>1, ChangedIs
  <2>2. CASE \E i \in 1 .. n : new = RemoveAt(old, i)
    <3>1. PICK i \in 1 .. n : new = RemoveAt(old, i) BY <2>2
    <3>2. x = RemoveAt(o, i) BY <3>1, SavedOps DEF x, o, n
    <3>3. \E j \in 1 .. Len(o) : x = RemoveAt(o, j) BY <1>1, <3>2
    <3> QED BY <3>3, ChangedIs
  <2>3. CASE \E i \in 1 .. n, e \in Entry : new = [old EXCEPT ![i] = e]
    <3>1. PICK i \in 1 .. n, e \in Entry : new = [old EXCEPT ![i] = e] BY <2>3
    <3> DEFINE d == SavedAs(e)
    <3>2. x = [o EXCEPT ![i] = d] BY <3>1, SavedOps DEF x, o, n
    <3> HIDE DEF d
    <3>3. x[i] = d /\ Len(x) = n /\ \A k \in 1 .. n : k # i => x[k] = o[k] BY <1>1, <3>2
    <3>4. CASE i <= Len(l)
      <4>1. d \in E BY <1>2, <1>3, <3>3, <3>4
      <4>2. \E j \in 1 .. Len(o), b \in E : x = [o EXCEPT ![j] = b] BY <1>1, <3>2, <4>1
      <4> QED BY <4>2, ChangedIs
    <3>5. CASE ~ (i <= Len(l))
      <4>1. Len(l) <= Len(o) /\ \A k \in 1 .. Len(l) : l[k] = o[k] BY <1>1, <1>2, <3>3, <3>5
      <4> QED BY <1>1, <4>1, PrefixIs
    <3> QED BY <3>4, <3>5
  <2>4. CASE \E i \in 1 .. n + 1, e \in Entry : new = InsertAt(old, i, e)
    <3>1. PICK i \in 1 .. n + 1, e \in Entry : new = InsertAt(old, i, e) BY <2>4
    <3> DEFINE d == SavedAs(e)
    <3>2. x = InsertAt(o, i, d) BY <3>1, SavedOps DEF x, o, n
    <3>3. d \in Entry BY SavedEntry
    <3> HIDE DEF d
    <3>4. i \in Nat /\ 1 <= i /\ i <= Len(o) + 1 BY <1>1
    <3>5. x[i] = d /\ \A k \in 1 .. i - 1 : x[k] = o[k]
      <4>1. InsertAt(o, i, d)[i] = d BY <1>1, <3>3, <3>4, InsertedIs
      <4>2. \A k \in 1 .. i - 1 : InsertAt(o, i, d)[k] = o[k]
        <5>1. o \in Seq(Entry) BY <1>1
        <5> QED BY <3>3, <3>4, <5>1, InsertedIs
      <4> QED BY <3>2, <4>1, <4>2
    <3>6. CASE i <= Len(l)
      <4>1. d \in E BY <1>2, <1>3, <3>4, <3>5, <3>6
      <4>2. \E j \in 1 .. Len(o) + 1, b \in E : x = InsertAt(o, j, b) BY <1>1, <3>2, <4>1
      <4> QED BY <4>2, ChangedIs
    <3>7. CASE ~ (i <= Len(l))
      <4>1. Len(l) <= Len(o) /\ \A k \in 1 .. Len(l) : l[k] = o[k]
        BY <1>1, <1>2, <3>4, <3>5, <3>7
      <4> QED BY <1>1, <4>1, PrefixIs
    <3> QED BY <3>6, <3>7
  <2> QED BY <2>1, <2>2, <2>3, <2>4 DEF OneOp, n
<1>5. IsPrefix(l, x) BY DEF x
<1>6. \E y \in Lists!Changed(o, E) \cup {o} : IsPrefix(l, y) BY <1>4, <1>5
<1> QED BY <1>6, SameOperators DEF o, E

LEMMA InitRefines == Init => Lists!LInit
<1> SUFFICES ASSUME Init PROVE Lists!LInit
  OBVIOUS
<1>1. IsTable(acl) /\ WithinQuota(acl) /\ aclFile = Image(acl) BY TablesAssumption DEF Init
<1>2. \A f \in Fabrics : Len(listOf[f]) <= ENTRIES_PER_FABRIC
  BY <1>1, ListType DEF listOf, WithinQuota
<1>3. \A f \in Fabrics : FabricList(aclFile, f) = Lists!AsStored(FabricList(acl, f))
  BY <1>1, ImageList
<1>4. savedOf = [f \in Fabrics |-> Lists!AsStored(listOf[f])] BY <1>3 DEF savedOf, listOf
<1>5. DOMAIN listOf = Fabrics BY DEF listOf
<1> QED BY <1>2, <1>4, <1>5 DEF Lists!LInit, Lists!AllStored

\* What the operation under way does to the lists of the fabrics.
LEMMA ListsAfterOp ==
  ASSUME IInv, req # NoReq, req.ops # << >>, OpResult(Head(req.ops), req.acc.fab).err = "ok"
  PROVE  LET tbl == OpResult(Head(req.ops), req.acc.fab).tbl
             f   == req.acc.fab
         IN /\ IsTable(tbl) /\ WithinQuota(tbl) /\ f \in Fabrics
            /\ OneOp(FabricList(acl, f), FabricList(tbl, f))
            /\ \A g : g # f => FabricList(tbl, g) = FabricList(acl, g)
<1> DEFINE op  == Head(req.ops)
           f   == req.acc.fab
           tbl == OpResult(op, f).tbl
<1>1. IsTable(acl) /\ WithinQuota(acl) /\ Underway(req) BY DEF IInv, TInv, FabricQuota
<1>2. op \in ListOp /\ f \in Fabrics BY <1>1, AccessorsHaveFabrics DEF Underway
<1>3. KeepsOthers(tbl, acl, f) BY OpDone
<1> HIDE DEF op, f
<1>4. OneOp(FabricList(acl, f), FabricList(tbl, f)) BY <1>1, <1>2, OpIsOne DEF op, f
<1> HIDE DEF tbl
<1>5. IsTable(tbl) /\ WithinQuota(tbl) /\ \A g : g # f => SameFor(tbl, acl, g)
  BY <1>3 DEF KeepsOthers
<1>6. \A g : g # f => FabricList(tbl, g) = FabricList(acl, g)
  BY <1>1, <1>5, SameList DEF IsTable
<1> QED BY <1>2, <1>4, <1>5, <1>6 DEF op, f, tbl

\* An operation that is done changes one list; the lists are saved, or not, or in part.
LEMMA ChangeRefines ==
  ASSUME IInv, ListOpStored \/ ListOpNotStored
  PROVE  \E o \in Fabrics : Lists!Change(o) \/ Lists!UnsavedChange(o)
<1> DEFINE tbl  == OpResult(Head(req.ops), req.acc.fab).tbl
           full == Image(tbl)
           f    == req.acc.fab
<1>1. /\ req # NoReq /\ req.ops # << >> /\ OpResult(Head(req.ops), req.acc.fab).err = "ok"
      /\ acl' = tbl /\ (aclFile' = full \/ aclFile' = aclFile \/ aclFile' \in Torn(full))
  BY DEF ListOpStored, ListOpNotStored, StoredFile
<1>2. /\ IsTable(acl) /\ IsTable(tbl) /\ WithinQuota(tbl) /\ f \in Fabrics
      /\ OneOp(FabricList(acl, f), FabricList(tbl, f))
      /\ \A g : g # f => FabricList(tbl, g) = FabricList(acl, g)
  BY <1>1, ListsAfterOp DEF IInv, TInv
<1> HIDE DEF f
<1>3. /\ listOf = [g \in Fabrics |-> FabricList(acl, g)]
      /\ listOf' = [g \in Fabrics |-> FabricList(tbl, g)]
  BY <1>1 DEF listOf
<1>4. IsTable(full) /\ DOMAIN full = 1 .. Cardinality(DOMAIN full) BY <1>1, OpDone
<1> HIDE DEF tbl
<1>5. \A g \in Fabrics : FabricList(full, g) = Lists!AsStored(listOf'[g])
  BY <1>2, <1>3, ImageList
<1> HIDE DEF full
<1>6. listOf'[f] \in Lists!Changed(listOf[f], Lists!ToSet(listOf'[f]))
  <2>1. FabricList(acl, f) \in Seq(Entry) /\ FabricList(tbl, f) \in Seq(Entry)
    BY <1>2, ListType
  <2>2. FabricList(tbl, f) \in Lists!Changed(FabricList(acl, f), Lists!ToSet(FabricList(tbl, f)))
    BY <1>2, <2>1, OpChanges
  <2>3. listOf[f] = FabricList(acl, f) /\ listOf'[f] = FabricList(tbl, f) BY <1>2, <1>3
  <2> QED BY <2>2, <2>3
<1>7. Len(listOf'[f]) <= ENTRIES_PER_FABRIC BY <1>2, <1>3, ListType DEF WithinQuota
<1>8. listOf' = [listOf EXCEPT ![f] = listOf'[f]] BY <1>2, <1>3
<1>9. Lists!Operation(f) BY <1>6, <1>7, <1>8 DEF Lists!Operation
<1>10. CASE aclFile' = full
  <2>1. savedOf' = [g \in Fabrics |-> Lists!AsStored(listOf'[g])] BY <1>5, <1>10 DEF savedOf
  <2>2. Lists!Change(f) BY <1>9, <2>1 DEF Lists!Change, Lists!AllStored
  <2> QED BY <1>2, <2>2
<1>11. CASE aclFile' = aclFile
  <2>1. savedOf' = savedOf BY <1>11 DEF savedOf
  <2>2. Lists!UnsavedChange(f) BY <1>9, <2>1 DEF Lists!UnsavedChange
  <2> QED BY <1>2, <2>2
<1>12. CASE aclFile' \in Torn(full)
  <2>1. savedOf' = [g \in Fabrics |-> FabricList(aclFile', g)] BY DEF savedOf
  <2>2. \A g \in Fabrics : Lists!IsPrefix(savedOf'[g], Lists!AsStored(listOf'[g]))
    BY <1>4, <1>5, <1>12, <2>1, TornList, SameOperators
  <2>3. Lists!UnsavedChange(f) BY <1>9, <2>1, <2>2 DEF Lists!UnsavedChange
  <2> QED BY <1>2, <2>3
<1> QED BY <1>1, <1>10, <1>11, <1>12

\* A restart brings the saved lists.
LEMMA StartRefines == Restart => Lists!Start
<1> SUFFICES ASSUME Restart PROVE Lists!Start
  OBVIOUS
<1>1. acl' = aclFile /\ aclFile' = aclFile BY DEF Restart, Boot
<1>2. listOf' = savedOf /\ savedOf' = savedOf BY <1>1 DEF listOf, savedOf
<1> QED BY <1>2 DEF Lists!Start

\* A power loss during the store leaves the first entries of each list.
LEMMA CrashRefines ==
  ASSUME IInv, PowerLossInStore
  PROVE  \E o \in Fabrics : Lists!Crash(o)
<1> DEFINE tbl  == OpResult(Head(req.ops), req.acc.fab).tbl
           full == Image(tbl)
           f    == req.acc.fab
<1>1. req # NoReq /\ req.ops # << >> /\ OpResult(Head(req.ops), req.acc.fab).err = "ok"
  BY DEF PowerLossInStore
<1>2. PICK img \in Torn(full) : acl' = img /\ aclFile' = img BY DEF PowerLossInStore, Boot
<1>3. /\ IsTable(acl) /\ IsTable(tbl) /\ WithinQuota(tbl) /\ f \in Fabrics
      /\ OneOp(FabricList(acl, f), FabricList(tbl, f))
      /\ \A g : g # f => FabricList(tbl, g) = FabricList(acl, g)
  BY <1>1, ListsAfterOp DEF IInv, TInv
<1>4. IsTable(full) /\ WithinQuota(full) /\ DOMAIN full = 1 .. Cardinality(DOMAIN full)
  BY <1>1, OpDone
<1> HIDE DEF tbl, f
<1>5. \A g : FabricList(full, g) = Lists!AsStored(FabricList(tbl, g)) BY <1>3, ImageList
<1> HIDE DEF full
<1>6. IsTable(img) /\ WithinQuota(img)
  <2>1. PartOf(img, full) BY <1>4, TornIsPart
  <2>2. DOMAIN full \subseteq Slots BY <1>4 DEF IsTable
  <2> QED BY <1>4, <2>1, <2>2, FewerWithinQuota DEF PartOf
<1>7. \A g \in Fabrics : IsPrefix(FabricList(img, g), Lists!AsStored(FabricList(tbl, g)))
  BY <1>4, <1>5, TornList
<1>8. /\ listOf = [g \in Fabrics |-> FabricList(acl, g)]
      /\ listOf' = [g \in Fabrics |-> FabricList(img, g)]
      /\ savedOf' = listOf'
  BY <1>2 DEF listOf, savedOf
<1>9. \A g \in Fabrics \ {f} : Lists!IsPrefix(listOf'[g], Lists!AsStored(listOf[g]))
  BY <1>3, <1>7, <1>8, SameOperators
<1>10. LET old == Lists!AsStored(listOf[f]) IN
         \E x \in Lists!Changed(old, Lists!ToSet(listOf'[f])) \cup {old} :
           Lists!IsPrefix(listOf'[f], x)
  <2> DEFINE o == FabricList(acl, f)
             n == FabricList(tbl, f)
             l == FabricList(img, f)
  <2>1. o \in Seq(Entry) /\ n \in Seq(Entry) /\ l \in Seq(Entry) BY <1>3, <1>6, ListType
  <2>2. OneOp(o, n) /\ IsPrefix(l, Lists!AsStored(n)) BY <1>3, <1>7
  <2>3. listOf[f] = o /\ listOf'[f] = l BY <1>3, <1>8
  <2> HIDE DEF o, n, l
  <2> QED BY <2>1, <2>2, <2>3, CutAfterOp
<1>11. Len(listOf'[f]) <= ENTRIES_PER_FABRIC BY <1>3, <1>6, <1>8, ListType DEF WithinQuota
<1>12. DOMAIN listOf' = Fabrics BY <1>8
<1>13. Lists!Crash(f) BY <1>8, <1>9, <1>10, <1>11, <1>12 DEF Lists!Crash
<1> QED BY <1>3, <1>13

\* Every step of the device is a step of the promise, or none.
LEMMA StepRefines == IInv /\ [Next]_vars => [Lists!LNext]_(Lists!lvars)
<1> SUFFICES ASSUME IInv, [Next]_vars
             PROVE  Lists!LNext \/ UNCHANGED <<listOf, savedOf>>
  BY DEF Lists!lvars
<1>1. CASE UNCHANGED <<acl, aclFile>> BY <1>1 DEF listOf, savedOf
<1>2. CASE ListOpStored \/ ListOpNotStored BY <1>2, ChangeRefines DEF Lists!LNext, Lists!lvars
<1>3. CASE Restart BY <1>3, StartRefines DEF Lists!LNext, Lists!lvars
<1>4. CASE PowerLossInStore BY <1>4, CrashRefines DEF Lists!LNext, Lists!lvars
<1>5. \/ UNCHANGED <<acl, aclFile>> \/ ListOpStored \/ ListOpNotStored
      \/ Restart \/ PowerLossInStore
  BY DEF Next, vars, Read, ReceiveWrite, Invoke, RefuseItem, WriteScalar, StartList,
         ListOpFails, FinishWrite
<1> QED BY <1>1, <1>2, <1>3, <1>4, <1>5

\* The device keeps its promise to administrators: whatever requests are interleaved,
\* stores fail and power is lost, each fabric's list changes by one operation of its own
\* at a time, is saved together with the others, or stays as saved, or loses its end when
\* the save fails or power is lost, and comes back as saved.
THEOREM ListsAreKept == Spec => KeepsLists
<1>1. Spec => []IInv BY Invariant
<1> QED BY <1>1, InitRefines, StepRefines, PTL DEF Spec, KeepsLists, Lists!LSpec

(***************************************************************************)
(* Sequences of sequences.  FlattenSeq is recursive: what it makes of the  *)
(* first k of them follows from the least k of which it would not.         *)
(***************************************************************************)
\* No element twice.
Once(s) == \A j, k \in DOMAIN s : s[j] = s[k] => j = k

\* f flattens the first n sequences of seqs.
Flattens(f, seqs, n) ==
  f = [k \in 1 .. n |-> IF k = 1 THEN seqs[k] ELSE f[k - 1] \o seqs[k]]

\* The recursive definition in FlattenSeq has a solution.
LEMMA FlattenedExists ==
  ASSUME NEW seqs, NEW n \in Nat
  PROVE  \E f : Flattens(f, seqs, n)
<1> DEFINE T == {m \in Nat : ~ \E f : Flattens(f, seqs, m)}
<1> SUFFICES ASSUME T # {} PROVE FALSE
  OBVIOUS
<1>1. PICK m \in T : \A j \in T : m <= j BY LeastNumber
<1>2. CASE m = 0
  <2>1. Flattens(<< >>, seqs, 0) BY DEF Flattens
  <2> QED BY <1>2, <2>1
<1>3. CASE m # 0
  <2>1. m \in Nat /\ m - 1 \in Nat /\ ~ (m <= m - 1) BY <1>3
  <2>2. PICK g : Flattens(g, seqs, m - 1) BY <1>1, <2>1
  <2> DEFINE f == [k \in 1 .. m |-> IF k = m THEN (IF k = 1 THEN seqs[k] ELSE g[k - 1] \o seqs[k])
                                    ELSE g[k]]
  <2>3. \A k \in 1 .. m - 1 : /\ k \in 1 .. m /\ k # m
                              /\ g[k] = IF k = 1 THEN seqs[k] ELSE g[k - 1] \o seqs[k]
    <3> SUFFICES ASSUME NEW k \in 1 .. m - 1
                 PROVE  /\ k \in 1 .. m /\ k # m
                        /\ g[k] = IF k = 1 THEN seqs[k] ELSE g[k - 1] \o seqs[k]
      OBVIOUS
    <3>1. k \in 1 .. m /\ k # m BY <2>1
    <3> QED BY <2>2, <3>1 DEF Flattens
  <2>4. \A k \in 1 .. m : k # m => k \in 1 .. m - 1
    BY <2>1
  <2>5. \A k \in 1 .. m : k # 1 => f[k - 1] = g[k - 1]
    <3>1. \A k \in 1 .. m : k # 1 => k - 1 \in 1 .. m /\ k - 1 # m BY <2>1
    <3> QED BY <3>1
  <2>6. \A k \in 1 .. m : f[k] = IF k = 1 THEN seqs[k] ELSE g[k - 1] \o seqs[k]
    BY <2>3, <2>4
  <2>7. f = [k \in 1 .. m |-> f[k]] OBVIOUS
  <2> HIDE DEF f
  <2>8. Flattens(f, seqs, m)
    <3>1. \A k \in 1 .. m : f[k] = IF k = 1 THEN seqs[k] ELSE f[k - 1] \o seqs[k]
      BY <2>5, <2>6
    <3> QED BY <2>7, <3>1 DEF Flattens
  <2> QED BY <2>8
<1> QED BY <1>2, <1>3

LEMMA FlattenSeqIs ==
  ASSUME NEW S, NEW seqs \in Seq(S), seqs # << >>
  PROVE  \E f : Flattens(f, seqs, Len(seqs)) /\ FlattenSeq(seqs) = f[Len(seqs)]
<1> DEFINE f == CHOOSE f : Flattens(f, seqs, Len(seqs))
<1>1. Len(seqs) \in Nat /\ Len(seqs) # 0 OBVIOUS
<1>2. Flattens(f, seqs, Len(seqs)) BY <1>1, FlattenedExists
<1>3. FlattenSeq(seqs) = f[Len(seqs)] BY <1>1 DEF FlattenSeq, Flattens
<1> QED BY <1>2, <1>3

LEMMA OnceJoined ==
  ASSUME NEW T, NEW s \in Seq(T), NEW t \in Seq(T), Once(s), Once(t),
         Elements(s) \cap Elements(t) = {}
  PROVE  Once(s \o t)
<1>1. /\ DOMAIN (s \o t) = 1 .. Len(s) + Len(t) /\ DOMAIN s = 1 .. Len(s)
      /\ DOMAIN t = 1 .. Len(t) /\ Len(s) \in Nat /\ Len(t) \in Nat
  OBVIOUS
<1>2. \A k \in 1 .. Len(s) : (s \o t)[k] = s[k] /\ s[k] \in Elements(s)
  BY <1>1 DEF Elements
<1>3. \A k \in 1 .. Len(s) + Len(t) : k \notin 1 .. Len(s) =>
        /\ k - Len(s) \in DOMAIN t /\ (s \o t)[k] = t[k - Len(s)]
        /\ t[k - Len(s)] \in Elements(t)
  <2> SUFFICES ASSUME NEW k \in 1 .. Len(s) + Len(t), k \notin 1 .. Len(s)
               PROVE  /\ k - Len(s) \in DOMAIN t /\ (s \o t)[k] = t[k - Len(s)]
                      /\ t[k - Len(s)] \in Elements(t)
    OBVIOUS
  <2>1. k - Len(s) \in 1 .. Len(t) BY <1>1
  <2>2. (s \o t)[k] = t[k - Len(s)] BY <1>1, <2>1
  <2> QED BY <1>1, <2>1, <2>2 DEF Elements
<1> SUFFICES ASSUME NEW j \in 1 .. Len(s) + Len(t), NEW k \in 1 .. Len(s) + Len(t),
                    (s \o t)[j] = (s \o t)[k]
             PROVE  j = k
  BY <1>1 DEF Once
<1>4. CASE j \in 1 .. Len(s) /\ k \in 1 .. Len(s) BY <1>1, <1>2, <1>4 DEF Once
<1>5. CASE j \notin 1 .. Len(s) /\ k \notin 1 .. Len(s)
  <2>1. j - Len(s) = k - Len(s) BY <1>3, <1>5 DEF Once
  <2> QED BY <1>1, <2>1
<1>6. CASE j \in 1 .. Len(s) <=> k \notin 1 .. Len(s)
  BY <1>2, <1>3, <1>6
<1> QED BY <1>4, <1>5, <1>6

\* What is in a flattened sequence: the elements of the sequences, none twice if they
\* share none and have none twice.
LEMMA Flattened ==
  ASSUME NEW T, NEW seqs \in Seq(Seq(T))
  PROVE  /\ FlattenSeq(seqs) \in Seq(T)
         /\ \A e : e \in Elements(FlattenSeq(seqs)) <=>
                    \E k \in DOMAIN seqs : e \in Elements(seqs[k])
         /\ (/\ \A k \in DOMAIN seqs : Once(seqs[k])
             /\ \A j, k \in DOMAIN seqs : j # k => Elements(seqs[j]) \cap Elements(seqs[k]) = {})
            => Once(FlattenSeq(seqs))
<1> DEFINE n == Len(seqs)
           Apart == /\ \A k \in DOMAIN seqs : Once(seqs[k])
                    /\ \A j, k \in DOMAIN seqs :
                         j # k => Elements(seqs[j]) \cap Elements(seqs[k]) = {}
<1>1. CASE seqs = << >>
  <2>1. FlattenSeq(seqs) = << >> BY <1>1 DEF FlattenSeq
  <2>2. << >> \in Seq(T) /\ Elements(<< >>) = {} /\ Once(<< >>) BY DEF Elements, Once
  <2>3. DOMAIN seqs = {} BY <1>1
  <2> QED BY <2>1, <2>2, <2>3
<1>2. CASE seqs # << >>
  <2>1. PICK f : Flattens(f, seqs, n) /\ FlattenSeq(seqs) = f[n] BY <1>2, FlattenSeqIs
  <2>2. n \in Nat \ {0} /\ DOMAIN seqs = 1 .. n BY <1>2
  <2> DEFINE Good(k) == /\ f[k] \in Seq(T)
                        /\ \A e : e \in Elements(f[k]) <=> \E j \in 1 .. k : e \in Elements(seqs[j])
                        /\ Apart => Once(f[k])
             Bad == {k \in 1 .. n : ~ Good(k)}
  <2>3. Good(1)
    <3>1. 1 \in 1 .. n BY <2>2
    <3>2. f[1] = seqs[1] BY <2>1, <3>1 DEF Flattens
    <3>3. 1 .. 1 = {1} OBVIOUS
    <3>4. seqs[1] \in Seq(T) BY <2>2, <3>1
    <3>5. Apart => Once(seqs[1]) BY <2>2, <3>1
    <3> QED BY <3>2, <3>3, <3>4, <3>5
  <2>4. ASSUME NEW k \in 2 .. n, Good(k - 1) PROVE Good(k)
    <3>1. k \in 1 .. n /\ k # 1 /\ k - 1 \in 1 .. n BY <2>2
    <3>2. f[k] = f[k - 1] \o seqs[k] BY <2>1, <3>1 DEF Flattens
    <3>3. seqs[k] \in Seq(T) BY <2>2, <3>1
    <3>4. f[k - 1] \in Seq(T) BY <2>4
    <3>5. \A e : e \in Elements(f[k - 1]) <=> \E j \in 1 .. k - 1 : e \in Elements(seqs[j])
      BY <2>4
    <3>6. Elements(f[k]) = Elements(f[k - 1]) \cup Elements(seqs[k]) BY <3>2, <3>3, <3>4, ElementsAre
    <3>7. 1 .. k = (1 .. k - 1) \cup {k} BY <2>2
    <3>8. f[k] \in Seq(T)
      <4>1. \A s, t \in Seq(T) : s \o t \in Seq(T) OBVIOUS
      <4> QED BY <3>2, <3>3, <3>4, <4>1
    <3>9. ASSUME Apart PROVE Once(f[k])
      <4>1. Once(f[k - 1]) /\ Once(seqs[k]) BY <2>2, <2>4, <3>1, <3>9
      <4>2. \A j \in 1 .. k - 1 : Elements(seqs[j]) \cap Elements(seqs[k]) = {}
        <5>1. \A j \in 1 .. k - 1 : j \in DOMAIN seqs /\ j # k BY <2>2
        <5> QED BY <2>2, <3>1, <3>9, <5>1
      <4>3. Elements(f[k - 1]) \cap Elements(seqs[k]) = {} BY <3>5, <4>2
      <4> QED BY <3>2, <3>3, <3>4, <4>1, <4>3, OnceJoined
    <3>10. \A e : e \in Elements(f[k]) <=> \E j \in 1 .. k : e \in Elements(seqs[j])
      BY <3>6, <3>7, <3>5
    <3> HIDE DEF Apart
    <3> QED BY <3>8, <3>9, <3>10
  <2> HIDE DEF Good
  <2>5. SUFFICES ASSUME Bad # {} PROVE FALSE
    <3>1. n \in 1 .. n BY <2>2
    <3>2. (Bad = {}) => Good(n) BY <3>1
    <3> QED BY <2>1, <2>2, <2>3, <3>2 DEF Good
  <2>6. PICK k \in Bad : \A j \in Bad : k <= j
    <3>1. Bad \subseteq Nat OBVIOUS
    <3> QED BY <2>5, <3>1, LeastNumber
  <2>7. k # 1 /\ k \in 1 .. n BY <2>3
  <2>8. k \in 2 .. n /\ k - 1 \in 1 .. n /\ ~ (k <= k - 1) BY <2>2, <2>7
  <2>9. Good(k - 1) BY <2>6, <2>8
  <2> QED BY <2>4, <2>6, <2>8, <2>9
<1> QED BY <1>1, <1>2

(***************************************************************************)
(* What the walks visit.                                                   *)
(***************************************************************************)
\* The walk w visits S, each once, and when it fails there is nothing to visit.
WalkIs(w, S) ==
  /\ w.out \in Seq(AllPaths) /\ Once(w.out) /\ Elements(w.out) = S
  /\ w.err \in Statuses /\ (w.err # "ok" => S = {})

LEMMA NamedIs ==
  ASSUME NEW T, NEW ids \in Seq(T), Once(ids), NEW name
  PROVE  /\ Named(ids, name) \in Seq(T) /\ Once(Named(ids, name))
         /\ Elements(Named(ids, name)) = {a \in Elements(ids) : name \in {None, a}}
         /\ name # None => Len(Named(ids, name)) <= 1
<1>1. CASE name = None
  <2>1. Named(ids, name) = ids BY <1>1 DEF Named
  <2> QED BY <1>1, <2>1
<1>2. CASE name # None /\ name \in Elements(ids)
  <2>1. Named(ids, name) = <<name>> BY <1>2 DEF Named
  <2>2. name \in T BY <1>2 DEF Elements
  <2>3. <<name>> \in Seq(T) /\ Len(<<name>>) = 1 BY <2>2
  <2>4. Once(<<name>>) /\ Elements(<<name>>) = {name} BY DEF Once, Elements
  <2> QED BY <1>2, <2>1, <2>3, <2>4
<1>3. CASE name # None /\ name \notin Elements(ids)
  <2>1. Named(ids, name) = << >> BY <1>3 DEF Named
  <2>2. << >> \in Seq(T) /\ Len(<< >>) = 0 OBVIOUS
  <2>3. Once(<< >>) /\ Elements(<< >>) = {} BY DEF Once, Elements
  <2> QED BY <1>3, <2>1, <2>2, <2>3
<1> QED BY <1>1, <1>2, <1>3

\* One level: the walks of its objects visit sets that have nothing in common.
LEMMA LevelIs ==
  ASSUME NEW n \in Nat, NEW R, NEW walks \in [1 .. n -> R],
         NEW S, \A k \in 1 .. n : WalkIs(walks[k], S[k]),
         \A j, k \in 1 .. n : j # k => S[j] \cap S[k] = {},
         NEW name, name # None => n <= 1,
         NEW missing \in Statuses, missing # "ok",
         NEW All, \A p : p \in All <=> \E k \in 1 .. n : p \in S[k]
  PROVE  WalkIs(Level(walks, name, missing), All)
<1> DEFINE outs == [k \in 1 .. n |-> walks[k].out]
<1>1. DOMAIN walks = 1 .. n /\ walks \in Seq(R) /\ Len(walks) = n
  OBVIOUS
<1>2. \A k \in 1 .. n :
        /\ walks[k].out \in Seq(AllPaths) /\ Once(walks[k].out)
        /\ Elements(walks[k].out) = S[k]
        /\ walks[k].err \in Statuses
        /\ walks[k].err # "ok" => S[k] = {}
  BY DEF WalkIs
<1>3. outs \in Seq(Seq(AllPaths)) /\ DOMAIN outs = 1 .. n
  <2>1. outs \in [1 .. n -> Seq(AllPaths)] BY <1>2
  <2> QED BY <2>1
<1>4. \A k \in 1 .. n : outs[k] = walks[k].out OBVIOUS
<1> HIDE DEF outs
<1>5. /\ FlattenSeq(outs) \in Seq(AllPaths) /\ Once(FlattenSeq(outs))
      /\ Elements(FlattenSeq(outs)) = All
  <2>1. \A k \in 1 .. n : Once(outs[k]) /\ Elements(outs[k]) = S[k] BY <1>2, <1>4
  <2>2. \A j, k \in 1 .. n : j # k => Elements(outs[j]) \cap Elements(outs[k]) = {}
    BY <2>1
  <2>3. \A p : p \in All <=> \E k \in 1 .. n : p \in Elements(outs[k]) BY <2>1
  <2>4. /\ FlattenSeq(outs) \in Seq(AllPaths) /\ Once(FlattenSeq(outs))
        /\ \A p : p \in Elements(FlattenSeq(outs)) <=> \E k \in 1 .. n : p \in Elements(outs[k])
    BY <1>3, <2>1, <2>2, Flattened
  <2> QED BY <2>3, <2>4
<1>6. ASSUME NEW err \in Statuses, err # "ok" => All = {} PROVE WalkIs(Joined(walks, n, err), All)
  <2>1. Joined(walks, n, err) = [err |-> err, out |-> FlattenSeq(outs)]
    BY <1>1 DEF Joined, outs
  <2> QED BY <1>5, <1>6, <2>1 DEF WalkIs
<1>7. "ok" \in Statuses BY DEF Statuses
<1>8. CASE name # None /\ walks = << >>
  <2>1. n = 0 BY <1>1, <1>8
  <2>2. All = {} BY <2>1
  <2>3. Level(walks, name, missing) = [err |-> missing, out |-> << >>] BY <1>8 DEF Level
  <2>4. << >> \in Seq(AllPaths) /\ Once(<< >>) /\ Elements(<< >>) = {} BY DEF Once, Elements
  <2>5. WalkIs([err |-> missing, out |-> << >>], All) BY <2>2, <2>4 DEF WalkIs
  <2> QED BY <2>3, <2>5
<1>9. CASE name = None \/ (Failed(walks) = {} /\ walks # << >>)
  <2>1. Level(walks, name, missing) = Joined(walks, n, "ok")
    BY <1>1, <1>9 DEF Level, ForEach
  <2> QED BY <1>6, <1>7, <2>1
<1>10. CASE name # None /\ walks # << >> /\ Failed(walks) # {}
  <2>1. n = 1 BY <1>1, <1>10
  <2>2. Failed(walks) = {1} BY <1>1, <1>10, <2>1 DEF Failed
  <2>3. Min({1}) = 1 BY DEF Min
  <2>4. Level(walks, name, missing) = Joined(walks, n, walks[1].err)
    BY <1>10, <2>1, <2>2, <2>3 DEF Level, ForEach
  <2>5. 1 \in 1 .. n /\ walks[1].err # "ok" BY <2>1, <2>2 DEF Failed
  <2>6. All = {} BY <1>2, <2>1, <2>5
  <2>7. walks[1].err \in Statuses BY <1>2, <2>5
  <2> QED BY <1>6, <2>4, <2>6, <2>7
<1> QED BY <1>8, <1>9, <1>10

\* The names of the node: none twice on one level.
LEMMA NodeIds ==
  /\ EndpointIds \in Seq(NodeNames) /\ Once(EndpointIds) /\ Elements(EndpointIds) = {"ep0", "ep1"}
  /\ \A e \in {"ep0", "ep1"} : ClusterIds[e] \in Seq(NodeNames) /\ Once(ClusterIds[e])
  /\ \A e \in {"ep0", "ep1"} : Elements(ClusterIds[e]) \subseteq DOMAIN AttributeIds
  /\ \A c \in DOMAIN AttributeIds : \E T : AttributeIds[c] \in Seq(T) /\ Once(AttributeIds[c])
<1>1. EndpointIds \in Seq(NodeNames) /\ Once(EndpointIds) /\ Elements(EndpointIds) = {"ep0", "ep1"}
  <2>1. EndpointIds \in Seq(NodeNames) BY DEF EndpointIds, NodeNames
  <2>2. DOMAIN EndpointIds = {1, 2} /\ EndpointIds[1] = "ep0" /\ EndpointIds[2] = "ep1"
    BY DEF EndpointIds
  <2> QED BY <2>1, <2>2 DEF Elements, Once
<1>2. ASSUME NEW e \in {"ep0", "ep1"}
      PROVE  /\ ClusterIds[e] \in Seq(NodeNames) /\ Once(ClusterIds[e])
             /\ Elements(ClusterIds[e]) \subseteq DOMAIN AttributeIds
  <2>1. /\ ClusterIds.ep0 = <<"Descriptor", "BasicInfo", "GenComm", "NwComm", "Noc", "Acl">>
        /\ ClusterIds.ep1 = <<"Descriptor", "OnOff">>
    BY DEF ClusterIds
  <2> DEFINE s == <<"Descriptor", "BasicInfo", "GenComm", "NwComm", "Noc", "Acl">>
             t == <<"Descriptor", "OnOff">>
  <2>2. s \in Seq(NodeNames) /\ t \in Seq(NodeNames) BY DEF NodeNames
  <2>3. Once(s) /\ Once(t) BY DEF Once
  <2>4. Elements(s) \subseteq DOMAIN AttributeIds /\ Elements(t) \subseteq DOMAIN AttributeIds
    BY ClusterNames DEF Elements
  <2> QED BY <2>1, <2>2, <2>3, <2>4
<1>3. ASSUME NEW c \in DOMAIN AttributeIds
      PROVE  \E T : AttributeIds[c] \in Seq(T) /\ Once(AttributeIds[c])
  <2> DEFINE T == {"AttributeList", "ServerList", "VendorId", "ProductId", "HwVer", "SwVer",
                   "BreadCrumb", "RegConfig", "LocationCapability", "BasicCommissioningInfo",
                   "FeatureMap", "Acl", "Extension", "SubjectsPerEntry", "TargetsPerEntry",
                   "EntriesPerFabric", "OnOff"}
  <2>1. DefaultAttributes \in Seq(T) /\ Once(DefaultAttributes)
        /\ Elements(DefaultAttributes) = {"AttributeList"}
    BY DEF DefaultAttributes, Once, Elements
  <2>2. ASSUME NEW s \in {DescriptorAttributes, BasicInfoAttributes, GenCommAttributes,
                          NwCommAttributes, AclAttributes, OnOffAttributes}
        PROVE  s \in Seq(T) /\ Once(s) /\ "AttributeList" \notin Elements(s)
    <3>1. /\ DescriptorAttributes \in Seq(T) /\ Once(DescriptorAttributes)
          /\ "AttributeList" \notin Elements(DescriptorAttributes)
      BY DEF DescriptorAttributes, Once, Elements
    <3>2. /\ BasicInfoAttributes \in Seq(T) /\ Once(BasicInfoAttributes)
          /\ "AttributeList" \notin Elements(BasicInfoAttributes)
      BY DEF BasicInfoAttributes, Once, Elements
    <3>3. /\ GenCommAttributes \in Seq(T) /\ Once(GenCommAttributes)
          /\ "AttributeList" \notin Elements(GenCommAttributes)
      BY DEF GenCommAttributes, Once, Elements
    <3>4. /\ NwCommAttributes \in Seq(T) /\ Once(NwCommAttributes)
          /\ "AttributeList" \notin Elements(NwCommAttributes)
      BY DEF NwCommAttributes, Once, Elements
    <3>5. /\ AclAttributes \in Seq(T) /\ Once(AclAttributes)
          /\ "AttributeList" \notin Elements(AclAttributes)
      BY DEF AclAttributes, Once, Elements
    <3>6. /\ OnOffAttributes \in Seq(T) /\ Once(OnOffAttributes)
          /\ "AttributeList" \notin Elements(OnOffAttributes)
      BY DEF OnOffAttributes, Once, Elements
    <3> QED BY <3>1, <3>2, <3>3, <3>4, <3>5, <3>6
  <2>3. \/ AttributeIds[c] = DefaultAttributes
        \/ \E s \in {DescriptorAttributes, BasicInfoAttributes, GenCommAttributes,
                    NwCommAttributes, AclAttributes, OnOffAttributes} :
             AttributeIds[c] = DefaultAttributes \o s
    <3>1. /\ AttributeIds.Noc = DefaultAttributes
          /\ AttributeIds.Descriptor = DefaultAttributes \o DescriptorAttributes
          /\ AttributeIds.BasicInfo = DefaultAttributes \o BasicInfoAttributes
          /\ AttributeIds.GenComm = DefaultAttributes \o GenCommAttributes
          /\ AttributeIds.NwComm = DefaultAttributes \o NwCommAttributes
          /\ AttributeIds.Acl = DefaultAttributes \o AclAttributes
          /\ AttributeIds.OnOff = DefaultAttributes \o OnOffAttributes
      BY DEF AttributeIds
    <3> QED BY <3>1, ClusterNames
  <2>4. ASSUME NEW s \in {DescriptorAttributes, BasicInfoAttributes, GenCommAttributes,
                          NwCommAttributes, AclAttributes, OnOffAttributes}
        PROVE  DefaultAttributes \o s \in Seq(T) /\ Once(DefaultAttributes \o s)
    <3> HIDE DEF T
    <3>1. s \in Seq(T) /\ Once(s) /\ "AttributeList" \notin Elements(s) BY <2>2
    <3>2. Elements(DefaultAttributes) \cap Elements(s) = {} BY <2>1, <3>1
    <3>3. Once(DefaultAttributes \o s) BY <2>1, <3>1, <3>2, OnceJoined
    <3>4. \A a, b \in Seq(T) : a \o b \in Seq(T) OBVIOUS
    <3> QED BY <2>1, <3>1, <3>3, <3>4
  <2> HIDE DEF T
  <2> QED BY <2>1, <2>3, <2>4
<1> QED BY <1>1, <1>2, <1>3

\* The attributes of the node, by their parts.
LEMMA PathIs ==
  ASSUME NEW p
  PROVE  p \in AllPaths <=>
           \E e \in {"ep0", "ep1"} : \E c \in Elements(ClusterIds[e]) :
             \E a \in Elements(AttributeIds[c]) :
               p = [endpoint |-> e, cluster |-> c, leaf |-> a]
<1>1. \A e, c : <<e, c>> \in Clusters <=> e \in {"ep0", "ep1"} /\ c \in Elements(ClusterIds[e])
  <2>1. \A e \in {"ep0", "ep1"} : Elements(ClusterIds[e]) \subseteq DOMAIN AttributeIds BY NodeIds
  <2> DEFINE E == {"ep0", "ep1"}
             C == DOMAIN AttributeIds
  <2> SUFFICES ASSUME NEW e, NEW c
               PROVE  <<e, c>> \in Clusters <=> e \in E /\ c \in Elements(ClusterIds[e])
    OBVIOUS
  <2>2. <<e, c>> \in Clusters <=>
          <<e, c>> \in E \X C /\ <<e, c>>[2] \in Elements(ClusterIds[<<e, c>>[1]])
    BY DEF Clusters
  <2>3. <<e, c>>[1] = e /\ <<e, c>>[2] = c OBVIOUS
  <2> HIDE DEF E, C
  <2>4. <<e, c>> \in E \X C <=> e \in E /\ c \in C OBVIOUS
  <2> QED BY <2>1, <2>2, <2>3, <2>4 DEF E, C
<1>2. \A at \in Clusters : at = <<at[1], at[2]>> BY DEF Clusters
<1>3. p \in AllPaths <=>
        \E at \in Clusters : \E a \in Elements(AttributeIds[at[2]]) :
          p = [endpoint |-> at[1], cluster |-> at[2], leaf |-> a]
  BY DEF AllPaths
<1>4. ASSUME NEW at \in Clusters, NEW a \in Elements(AttributeIds[at[2]]),
             p = [endpoint |-> at[1], cluster |-> at[2], leaf |-> a]
      PROVE  \E e \in {"ep0", "ep1"} : \E c \in Elements(ClusterIds[e]) :
               \E b \in Elements(AttributeIds[c]) :
                 p = [endpoint |-> e, cluster |-> c, leaf |-> b]
  <2>1. at[1] \in {"ep0", "ep1"} /\ at[2] \in Elements(ClusterIds[at[1]])
    <3>1. <<at[1], at[2]>> \in Clusters BY <1>2
    <3> QED BY <1>1, <3>1
  <2> QED BY <1>4, <2>1
<1>5. ASSUME NEW e \in {"ep0", "ep1"}, NEW c \in Elements(ClusterIds[e]),
             NEW a \in Elements(AttributeIds[c]),
             p = [endpoint |-> e, cluster |-> c, leaf |-> a]
      PROVE  \E at \in Clusters : \E b \in Elements(AttributeIds[at[2]]) :
               p = [endpoint |-> at[1], cluster |-> at[2], leaf |-> b]
  <2>1. <<e, c>> \in Clusters BY <1>1
  <2> QED BY <1>5, <2>1
<1> QED BY <1>3, <1>4, <1>5

LEMMA VisitLeavesIs ==
  ASSUME NEW path \in PathType, path.endpoint \in {"ep0", "ep1"},
         path.cluster \in Elements(ClusterIds[path.endpoint])
  PROVE  WalkIs(VisitLeaves(path),
                {p \in AllPaths : /\ p.endpoint = path.endpoint /\ p.cluster = path.cluster
                                  /\ path.leaf \in {None, p.leaf}})
<1> DEFINE ids == Named(AttributeIds[path.cluster], path.leaf)
           n   == Len(ids)
           To(a) == [endpoint |-> path.endpoint, cluster |-> path.cluster, leaf |-> a]
           walks == [k \in DOMAIN ids |-> Visited([path EXCEPT !.leaf = ids[k]])]
           S == [k \in 1 .. n |-> {To(ids[k])}]
<1>1. path.cluster \in DOMAIN AttributeIds BY NodeIds
<1>2. PICK T : AttributeIds[path.cluster] \in Seq(T) /\ Once(AttributeIds[path.cluster])
  BY <1>1, NodeIds
<1>3. /\ ids \in Seq(T) /\ Once(ids)
      /\ path.leaf # None => n <= 1
      /\ Elements(ids) = {a \in Elements(AttributeIds[path.cluster]) : path.leaf \in {None, a}}
  BY <1>2, NamedIs
<1>4. VisitLeaves(path) = Level(walks, path.leaf, "UnsupportedAttribute") BY DEF VisitLeaves
<1> HIDE DEF ids
<1>5. n \in Nat /\ DOMAIN ids = 1 .. n BY <1>3
<1>6. \A a : [path EXCEPT !.leaf = a] = To(a) BY DEF PathType
<1>7. \A k \in 1 .. n : To(ids[k]) \in AllPaths
  <2> SUFFICES ASSUME NEW k \in 1 .. n PROVE To(ids[k]) \in AllPaths
    OBVIOUS
  <2>1. ids[k] \in Elements(ids) BY <1>5 DEF Elements
  <2>2. ids[k] \in Elements(AttributeIds[path.cluster]) BY <1>3, <2>1
  <2> QED BY <2>2, PathIs
<1>8. \A k \in 1 .. n : walks[k] = [err |-> "ok", out |-> <<To(ids[k])>>]
  BY <1>5, <1>6 DEF Visited
<1>9. walks \in [1 .. n -> {walks[k] : k \in 1 .. n}] BY <1>5
<1> HIDE DEF walks
<1>10. ASSUME NEW k \in 1 .. n PROVE WalkIs(walks[k], S[k])
  <2> DEFINE p == To(ids[k])
  <2>1. p \in AllPaths BY <1>7
  <2>2. walks[k] = [err |-> "ok", out |-> <<p>>] /\ S[k] = {p} BY <1>8
  <2> HIDE DEF p, S
  <2>3. <<p>> \in Seq(AllPaths) /\ Once(<<p>>) /\ Elements(<<p>>) = {p} BY <2>1 DEF Once, Elements
  <2>4. "ok" \in Statuses BY DEF Statuses
  <2> QED BY <2>2, <2>3, <2>4 DEF WalkIs
<1>11. \A j, k \in 1 .. n : j # k => S[j] \cap S[k] = {}
  <2>1. \A j, k \in 1 .. n : j # k => ids[j] # ids[k] BY <1>3, <1>5 DEF Once
  <2>2. \A a, b : To(a) = To(b) => a = b OBVIOUS
  <2> QED BY <2>1, <2>2
<1>12. "UnsupportedAttribute" \in Statuses /\ "UnsupportedAttribute" # "ok" BY DEF Statuses
<1>13. UNION {S[k] : k \in 1 .. n} =
         {p \in AllPaths : /\ p.endpoint = path.endpoint /\ p.cluster = path.cluster
                           /\ path.leaf \in {None, p.leaf}}
  <2>1. UNION {S[k] : k \in 1 .. n} = {To(ids[k]) : k \in 1 .. n} OBVIOUS
  <2>2. {To(ids[k]) : k \in 1 .. n} = {To(a) : a \in Elements(ids)} BY <1>5 DEF Elements
  <2>3. ASSUME NEW a \in Elements(ids)
        PROVE  /\ To(a) \in AllPaths /\ To(a).endpoint = path.endpoint
               /\ To(a).cluster = path.cluster /\ path.leaf \in {None, To(a).leaf}
    BY <1>3, PathIs
  <2>4. ASSUME NEW p \in AllPaths, p.endpoint = path.endpoint, p.cluster = path.cluster,
               path.leaf \in {None, p.leaf}
        PROVE  \E a \in Elements(ids) : p = To(a)
    <3>1. PICK e \in {"ep0", "ep1"} :
            \E c \in Elements(ClusterIds[e]) : \E a \in Elements(AttributeIds[c]) :
              p = [endpoint |-> e, cluster |-> c, leaf |-> a]
      BY PathIs
    <3>2. PICK c \in Elements(ClusterIds[e]) : \E a \in Elements(AttributeIds[c]) :
            p = [endpoint |-> e, cluster |-> c, leaf |-> a]
      BY <3>1
    <3>3. PICK a \in Elements(AttributeIds[c]) : p = [endpoint |-> e, cluster |-> c, leaf |-> a]
      BY <3>2
    <3>4. e = path.endpoint /\ c = path.cluster /\ a = p.leaf BY <2>4, <3>3
    <3>5. a \in Elements(ids) BY <1>3, <2>4, <3>4
    <3> QED BY <3>3, <3>4, <3>5
  <2> HIDE DEF To, S
  <2>5. {To(a) : a \in Elements(ids)} =
          {p \in AllPaths : /\ p.endpoint = path.endpoint /\ p.cluster = path.cluster
                            /\ path.leaf \in {None, p.leaf}}
    BY <2>3, <2>4
  <2> QED BY <2>1, <2>2, <2>5
<1> HIDE DEF S, n
<1> DEFINE All == UNION {S[k] : k \in 1 .. n}
<1>14. \A p : p \in All <=> \E k \in 1 .. n : p \in S[k] OBVIOUS
<1> HIDE DEF All
<1>15. WalkIs(Level(walks, path.leaf, "UnsupportedAttribute"), All)
  BY <1>3, <1>5, <1>9, <1>10, <1>11, <1>12, <1>14, LevelIs
<1> QED BY <1>4, <1>13, <1>15 DEF All

LEMMA VisitClustersOfIs ==
  ASSUME NEW path \in PathType, path.endpoint \in {"ep0", "ep1"}
  PROVE  WalkIs(VisitClustersOf(path, TRUE),
                {p \in AllPaths : /\ p.endpoint = path.endpoint
                                  /\ path.cluster \in {None, p.cluster}
                                  /\ path.leaf \in {None, p.leaf}})
<1> DEFINE ids == Named(ClusterIds[path.endpoint], path.cluster)
           n   == Len(ids)
           To(c) == [path EXCEPT !.cluster = c]
           walks == [k \in DOMAIN ids |-> VisitLeaves(To(ids[k]))]
           S == [k \in 1 .. n |->
                  {p \in AllPaths : /\ p.endpoint = path.endpoint /\ p.cluster = ids[k]
                                    /\ path.leaf \in {None, p.leaf}}]
           All == {p \in AllPaths : /\ p.endpoint = path.endpoint
                                    /\ path.cluster \in {None, p.cluster}
                                    /\ path.leaf \in {None, p.leaf}}
<1>1. ClusterIds[path.endpoint] \in Seq(NodeNames) /\ Once(ClusterIds[path.endpoint]) BY NodeIds
<1>2. /\ ids \in Seq(NodeNames) /\ Once(ids)
      /\ path.cluster # None => n <= 1
      /\ Elements(ids) = {c \in Elements(ClusterIds[path.endpoint]) : path.cluster \in {None, c}}
  BY <1>1, NamedIs
<1>3. VisitClustersOf(path, TRUE) = Level(walks, path.cluster, "UnsupportedCluster")
  BY DEF VisitClustersOf
<1> HIDE DEF ids
<1>4. n \in Nat /\ DOMAIN ids = 1 .. n BY <1>2
<1>5. walks \in [1 .. n -> {walks[k] : k \in 1 .. n}] BY <1>4
<1>6. \A k \in 1 .. n : walks[k] = VisitLeaves(To(ids[k])) BY <1>4
<1> HIDE DEF walks
<1>7. ASSUME NEW k \in 1 .. n PROVE WalkIs(walks[k], S[k])
  <2> DEFINE at == To(ids[k])
  <2>1. ids[k] \in NodeNames /\ ids[k] \in Elements(ids) BY <1>2, <1>4 DEF Elements
  <2>2. ids[k] \in Elements(ClusterIds[path.endpoint]) BY <1>2, <2>1
  <2>3. /\ at \in PathType /\ at.endpoint = path.endpoint /\ at.cluster = ids[k]
        /\ at.leaf = path.leaf
    BY <2>1 DEF PathType, Names
  <2>4. walks[k] = VisitLeaves(at) BY <1>6
  <2> HIDE DEF at
  <2>5. WalkIs(VisitLeaves(at),
               {p \in AllPaths : /\ p.endpoint = at.endpoint /\ p.cluster = at.cluster
                                 /\ at.leaf \in {None, p.leaf}})
    BY <2>2, <2>3, VisitLeavesIs
  <2> QED BY <2>3, <2>4, <2>5
<1>8. \A j, k \in 1 .. n : j # k => S[j] \cap S[k] = {}
  <2>1. \A j, k \in 1 .. n : j # k => ids[j] # ids[k] BY <1>2, <1>4 DEF Once
  <2> QED BY <2>1
<1>9. "UnsupportedCluster" \in Statuses /\ "UnsupportedCluster" # "ok" BY DEF Statuses
<1>10. \A p : p \in All <=> \E k \in 1 .. n : p \in S[k]
  <2> SUFFICES ASSUME NEW p PROVE p \in All <=> \E k \in 1 .. n : p \in S[k]
    OBVIOUS
  <2>1. ASSUME p \in All PROVE p.cluster \in Elements(ids)
    <3>1. PICK e \in {"ep0", "ep1"} :
            \E c \in Elements(ClusterIds[e]) : \E a \in Elements(AttributeIds[c]) :
              p = [endpoint |-> e, cluster |-> c, leaf |-> a]
      BY <2>1, PathIs
    <3>2. e = p.endpoint /\ p.cluster \in Elements(ClusterIds[e]) BY <3>1
    <3> QED BY <1>2, <2>1, <3>2
  <2>2. p.cluster \in Elements(ids) =>
          (\E k \in 1 .. n : p.cluster = ids[k]) /\ path.cluster \in {None, p.cluster}
    BY <1>2, <1>4 DEF Elements
  <2>3. \A k \in 1 .. n : ids[k] \in Elements(ids) BY <1>4 DEF Elements
  <2>4. \A k \in 1 .. n : p \in S[k] <=> /\ p \in AllPaths /\ p.endpoint = path.endpoint
                                         /\ p.cluster = ids[k] /\ path.leaf \in {None, p.leaf}
    OBVIOUS
  <2> HIDE DEF S
  <2> QED BY <2>1, <2>2, <2>3, <2>4
<1> HIDE DEF S, n, All
<1>11. WalkIs(Level(walks, path.cluster, "UnsupportedCluster"), All)
  BY <1>2, <1>4, <1>5, <1>7, <1>8, <1>9, <1>10, LevelIs
<1> QED BY <1>3, <1>11 DEF All

\* A read visits the attributes its path covers, each once.
LEMMA VisitAttributesIs ==
  ASSUME NEW path \in PathType
  PROVE  WalkIs(VisitAttributes(path), {p \in AllPaths : Covers(path, p)})
<1> DEFINE ids == Named(EndpointIds, path.endpoint)
           n   == Len(ids)
           To(e) == [path EXCEPT !.endpoint = e]
           walks == [k \in DOMAIN ids |-> VisitClustersOf(To(ids[k]), TRUE)]
           S == [k \in 1 .. n |->
                  {p \in AllPaths : /\ p.endpoint = ids[k]
                                    /\ path.cluster \in {None, p.cluster}
                                    /\ path.leaf \in {None, p.leaf}}]
           All == {p \in AllPaths : Covers(path, p)}
<1>1. /\ EndpointIds \in Seq(NodeNames) /\ Once(EndpointIds)
      /\ Elements(EndpointIds) = {"ep0", "ep1"}
  BY NodeIds
<1>2. /\ ids \in Seq(NodeNames) /\ Once(ids)
      /\ path.endpoint # None => n <= 1
      /\ Elements(ids) = {e \in {"ep0", "ep1"} : path.endpoint \in {None, e}}
  BY <1>1, NamedIs
<1>3. VisitAttributes(path) = Level(walks, path.endpoint, "UnsupportedEndpoint")
  BY DEF VisitAttributes, VisitEndpoints
<1> HIDE DEF ids
<1>4. n \in Nat /\ DOMAIN ids = 1 .. n BY <1>2
<1>5. walks \in [1 .. n -> {walks[k] : k \in 1 .. n}] BY <1>4
<1>6. \A k \in 1 .. n : walks[k] = VisitClustersOf(To(ids[k]), TRUE) BY <1>4
<1> HIDE DEF walks
<1>7. ASSUME NEW k \in 1 .. n PROVE WalkIs(walks[k], S[k])
  <2> DEFINE at == To(ids[k])
  <2>1. ids[k] \in NodeNames /\ ids[k] \in Elements(ids) BY <1>2, <1>4 DEF Elements
  <2>2. ids[k] \in {"ep0", "ep1"} BY <1>2, <2>1
  <2>3. /\ at \in PathType /\ at.endpoint = ids[k] /\ at.cluster = path.cluster
        /\ at.leaf = path.leaf
    BY <2>1 DEF PathType, Names
  <2>4. walks[k] = VisitClustersOf(at, TRUE) BY <1>6
  <2> HIDE DEF at
  <2>5. WalkIs(VisitClustersOf(at, TRUE),
               {p \in AllPaths : /\ p.endpoint = at.endpoint
                                 /\ at.cluster \in {None, p.cluster}
                                 /\ at.leaf \in {None, p.leaf}})
    BY <2>2, <2>3, VisitClustersOfIs
  <2> QED BY <2>3, <2>4, <2>5
<1>8. \A j, k \in 1 .. n : j # k => S[j] \cap S[k] = {}
  <2>1. \A j, k \in 1 .. n : j # k => ids[j] # ids[k] BY <1>2, <1>4 DEF Once
  <2> QED BY <2>1
<1>9. "UnsupportedEndpoint" \in Statuses /\ "UnsupportedEndpoint" # "ok" BY DEF Statuses
<1>10. \A p : p \in All <=> \E k \in 1 .. n : p \in S[k]
  <2> SUFFICES ASSUME NEW p PROVE p \in All <=> \E k \in 1 .. n : p \in S[k]
    OBVIOUS
  <2>1. p \in AllPaths => p.endpoint \in {"ep0", "ep1"}
    <3> SUFFICES ASSUME p \in AllPaths PROVE p.endpoint \in {"ep0", "ep1"}
      OBVIOUS
    <3>1. PICK e \in {"ep0", "ep1"} :
            \E c \in Elements(ClusterIds[e]) : \E a \in Elements(AttributeIds[c]) :
              p = [endpoint |-> e, cluster |-> c, leaf |-> a]
      BY PathIs
    <3> QED BY <3>1
  <2>2. p.endpoint \in Elements(ids) <=> \E k \in 1 .. n : p.endpoint = ids[k]
    BY <1>4 DEF Elements
  <2>3. \A k \in 1 .. n : p \in S[k] <=> /\ p \in AllPaths /\ p.endpoint = ids[k]
                                         /\ path.cluster \in {None, p.cluster}
                                         /\ path.leaf \in {None, p.leaf}
    OBVIOUS
  <2>4. p \in All <=> /\ p \in AllPaths /\ path.endpoint \in {None, p.endpoint}
                     /\ path.cluster \in {None, p.cluster} /\ path.leaf \in {None, p.leaf}
    BY DEF Covers
  <2>5. p \in AllPaths => (path.endpoint \in {None, p.endpoint} <=> p.endpoint \in Elements(ids))
    BY <1>2, <2>1
  <2> HIDE DEF S, All
  <2> QED BY <2>2, <2>3, <2>4, <2>5
<1> HIDE DEF S, n, All
<1>11. WalkIs(Level(walks, path.endpoint, "UnsupportedEndpoint"), All)
  BY <1>2, <1>4, <1>5, <1>7, <1>8, <1>9, <1>10, LevelIs
<1> QED BY <1>3, <1>11 DEF All

(***************************************************************************)
(* What a read reports.                                                    *)
(***************************************************************************)
\* The list that is shown has every entry there is, or those of the accessor's fabric.
LEMMA ShownIs ==
  ASSUME DOMAIN acl \subseteq Slots, NEW acc, NEW fab_filter, NEW e
  PROVE  e \in Elements(ListShown(acc, fab_filter)) <=>
           \E s \in DOMAIN acl : e = acl[s] /\ (~ fab_filter \/ acl[s].fab = acc.fab)
<1> DEFINE top == ENTRIES_PER_FABRIC * MAX_SUPPORTED_FABRICS
           T == {acl[s] : s \in DOMAIN acl}
           Shown(s) == s \in DOMAIN acl /\ (~ fab_filter \/ acl[s].fab = acc.fab)
           seqs == [s \in Slots |-> IF Shown(s) THEN <<acl[s]>> ELSE << >>]
<1>1. top \in Nat /\ Slots = 1 .. top BY AclAssumption DEF Slots
<1>2. ListShown(acc, fab_filter) = FlattenSeq(seqs) BY DEF ListShown
<1>3. \A s \in Slots : (Shown(s) => seqs[s] = <<acl[s]>>) /\ (~ Shown(s) => seqs[s] = << >>)
  OBVIOUS
<1>4. seqs \in Seq(Seq(T))
  <2>1. << >> \in Seq(T) /\ \A s \in DOMAIN acl : <<acl[s]>> \in Seq(T) OBVIOUS
  <2>2. seqs = [s \in Slots |-> seqs[s]] OBVIOUS
  <2> HIDE DEF seqs, top, T
  <2>3. \A s \in Slots : seqs[s] \in Seq(T) BY <1>3, <2>1
  <2>4. seqs \in [1 .. top -> Seq(T)] BY <1>1, <2>2, <2>3
  <2> QED BY <1>1, <2>4
<1>5. DOMAIN seqs = Slots OBVIOUS
<1> HIDE DEF seqs, top
<1>6. e \in Elements(FlattenSeq(seqs)) <=> \E s \in Slots : e \in Elements(seqs[s])
  BY <1>4, <1>5, Flattened
<1>7. \A s \in Slots : e \in Elements(seqs[s]) <=> Shown(s) /\ e = acl[s]
  <2> SUFFICES ASSUME NEW s \in Slots
               PROVE  e \in Elements(seqs[s]) <=> Shown(s) /\ e = acl[s]
    OBVIOUS
  <2>1. CASE Shown(s)
    <3>1. Elements(<<acl[s]>>) = {acl[s]} BY DEF Elements
    <3> QED BY <1>3, <2>1, <3>1
  <2>2. CASE ~ Shown(s)
    <3>1. Elements(<< >>) = {} BY DEF Elements
    <3> QED BY <1>3, <2>2, <3>1
  <2> QED BY <2>1, <2>2
<1> QED BY <1>2, <1>6, <1>7

LEMMA ReportIs ==
  ASSUME NEW acc, NEW p, NEW fab_filter
  PROVE  LET report == Report(acc, p, fab_filter)
             may    == Allow(acl, acc, p, AccessOf(p.leaf), "read")
         IN /\ report.path = p
            /\ report.status = "Data" <=> may
            /\ (may /\ p.leaf = "Acl") => report.list = ListShown(acc, fab_filter)
<1> DEFINE may == Allow(acl, acc, p, AccessOf(p.leaf), "read")
<1> HIDE DEF may
<1> QED BY DEF Report, may

\* A path without wildcards covers one attribute at most.
LEMMA CoversOne ==
  ASSUME NEW path, ~ IsWildcard(path), NEW p \in AllPaths, NEW q \in AllPaths,
         Covers(path, p), Covers(path, q)
  PROVE  p = q
<1>1. \A x \in AllPaths : x = [endpoint |-> x.endpoint, cluster |-> x.cluster, leaf |-> x.leaf]
  BY DEF AllPaths
<1>2. /\ path.endpoint # None /\ path.cluster # None /\ path.leaf # None
  BY DEF IsWildcard
<1>3. p.endpoint = q.endpoint /\ p.cluster = q.cluster /\ p.leaf = q.leaf BY <1>2 DEF Covers
<1> QED BY <1>1, <1>3

\* What a read reports: of each attribute its path covers the report, once, if it is to
\* be shown.
ToBeShown(r, p) ==
  /\ ~ Filtered(r.filters, p)
  /\ Report(r.acc, p, r.fab_filter).status = "Data" \/ ~ IsWildcard(r.path)

LEMMA ReportsAre ==
  ASSUME NEW r, r.path \in PathType, VisitAttributes(r.path).err = "ok"
  PROVE  LET all == ReadReports(r.acc, r) IN
           /\ \E T : all \in Seq(T)
           /\ Once(all)
           /\ \A e : e \in Elements(all) <=>
                \E p \in AllPaths : /\ Covers(r.path, p) /\ ToBeShown(r, p)
                                    /\ e = Report(r.acc, p, r.fab_filter)
<1> DEFINE out == VisitAttributes(r.path).out
           n == Len(out)
           Of(p) == Report(r.acc, p, r.fab_filter)
           T == {Of(p) : p \in AllPaths}
           seqs == [k \in DOMAIN out |-> ReportsOf(r.acc, r, out[k])]
<1>1. ReadReports(r.acc, r) = FlattenSeq(seqs) BY DEF ReadReports
<1>2. /\ out \in Seq(AllPaths) /\ Once(out)
      /\ Elements(out) = {p \in AllPaths : Covers(r.path, p)}
  BY VisitAttributesIs DEF WalkIs
<1> HIDE DEF out
<1>3. n \in Nat /\ DOMAIN out = 1 .. n BY <1>2
<1>4. \A k \in 1 .. n : /\ ToBeShown(r, out[k]) => seqs[k] = <<Of(out[k])>>
                        /\ ~ ToBeShown(r, out[k]) => seqs[k] = << >>
  <2> SUFFICES ASSUME NEW k \in 1 .. n
               PROVE  seqs[k] = IF ToBeShown(r, out[k]) THEN <<Of(out[k])>> ELSE << >>
    OBVIOUS
  <2>1. seqs[k] = ReportsOf(r.acc, r, out[k]) BY <1>3
  <2> QED BY <2>1 DEF ReportsOf, ToBeShown
<1>5. DOMAIN seqs = 1 .. n BY <1>3
<1>6. \A k \in 1 .. n : out[k] \in AllPaths /\ Of(out[k]) \in T BY <1>2, <1>3
<1>7. \A p : Of(p).path = p BY ReportIs
<1>8. seqs = [k \in 1 .. n |-> seqs[k]] BY <1>3
<1> HIDE DEF T, seqs, n, Of
<1>9. seqs \in Seq(Seq(T))
  <2>1. << >> \in Seq(T) /\ \A x \in T : <<x>> \in Seq(T) OBVIOUS
  <2>2. \A k \in 1 .. n : seqs[k] \in Seq(T) BY <1>4, <1>6, <2>1
  <2>3. seqs \in [1 .. n -> Seq(T)] BY <1>8, <2>2
  <2> QED BY <1>3, <2>3
<1>10. \A k \in 1 .. n : \A e : e \in Elements(seqs[k]) <=> ToBeShown(r, out[k]) /\ e = Of(out[k])
  <2> SUFFICES ASSUME NEW k \in 1 .. n, NEW e
               PROVE  e \in Elements(seqs[k]) <=> ToBeShown(r, out[k]) /\ e = Of(out[k])
    OBVIOUS
  <2>1. CASE ToBeShown(r, out[k])
    <3>1. Elements(<<Of(out[k])>>) = {Of(out[k])} BY DEF Elements
    <3> QED BY <1>4, <2>1, <3>1
  <2>2. CASE ~ ToBeShown(r, out[k])
    <3>1. Elements(<< >>) = {} BY DEF Elements
    <3> QED BY <1>4, <2>2, <3>1
  <2> QED BY <2>1, <2>2
<1>11. \A k \in DOMAIN seqs : Once(seqs[k])
  <2>1. \A x : Once(<<x>>) BY DEF Once
  <2>2. Once(<< >>) BY DEF Once
  <2> QED BY <1>4, <1>5, <2>1, <2>2
<1>12. \A j, k \in DOMAIN seqs : j # k => Elements(seqs[j]) \cap Elements(seqs[k]) = {}
  <2>1. \A j, k \in 1 .. n : j # k => out[j] # out[k] BY <1>2, <1>3 DEF Once
  <2> QED BY <1>5, <1>7, <1>10, <2>1
<1>13. Once(FlattenSeq(seqs)) /\ FlattenSeq(seqs) \in Seq(T) BY <1>9, <1>11, <1>12, Flattened
<1>14. \A e : e \in Elements(FlattenSeq(seqs)) <=> \E k \in 1 .. n : e \in Elements(seqs[k])
  BY <1>5, <1>9, Flattened
<1>15. \A p : (p \in AllPaths /\ Covers(r.path, p)) <=> \E k \in 1 .. n : p = out[k]
  BY <1>2, <1>3 DEF Elements
<1>16. \A e : e \in Elements(FlattenSeq(seqs)) <=>
                \E p \in AllPaths : Covers(r.path, p) /\ ToBeShown(r, p) /\ e = Of(p)
  BY <1>10, <1>14, <1>15
<1> QED BY <1>1, <1>13, <1>16 DEF Of

\* What ReadReportsExactly says of the reports of a request.
ExactReports(r, all) ==
  LET shown   == {p \in AllPaths : Covers(r.path, p) /\ ~ Filtered(r.filters, p)}
      mayread == {p \in shown : Allow(acl, r.acc, p, AccessOf(p.leaf), "read")}
      data    == {k \in DOMAIN all : all[k].status = "Data"}
  IN /\ {all[k].path : k \in data} = mayread
     /\ Cardinality(data) = Cardinality(mayread)
     /\ \A k \in data : all[k].path.leaf = "Acl" =>
          {e \in Elements(all[k].list) : e.fab # r.acc.fab} =
             {acl[s] : s \in {s \in DOMAIN acl : ~ r.fab_filter /\ acl[s].fab # r.acc.fab}}
     /\ data # DOMAIN all => ~ IsWildcard(r.path) /\ data = {} /\ Len(all) = 1

\* The walk finds nothing.
LEMMA NothingFound ==
  ASSUME NEW r, r.path \in PathType, VisitAttributes(r.path).err # "ok"
  PROVE  ExactReports(r, ReadReports(r.acc, r))
<1> DEFINE err == VisitAttributes(r.path).err
           all == ReadReports(r.acc, r)
           shown == {p \in AllPaths : Covers(r.path, p) /\ ~ Filtered(r.filters, p)}
           mayread == {p \in shown : Allow(acl, r.acc, p, AccessOf(p.leaf), "read")}
           data == {k \in DOMAIN all : all[k].status = "Data"}
<1>1. err \in Statuses /\ {p \in AllPaths : Covers(r.path, p)} = {}
  BY VisitAttributesIs DEF WalkIs
<1>2. mayread = {} BY <1>1
<1>3. err # "Data" BY <1>1 DEF Statuses
<1>4. all = IF IsWildcard(r.path) THEN << >> ELSE <<ErrorReport(r.path, err)>>
  BY DEF ReadReports
<1>5. ErrorReport(r.path, err).status = err BY DEF ErrorReport
<1> HIDE DEF err
<1>6. data = {} /\ (DOMAIN all # {} => ~ IsWildcard(r.path) /\ Len(all) = 1)
  <2>1. CASE IsWildcard(r.path)
    <3>1. all = << >> BY <1>4, <2>1
    <3>2. DOMAIN all = {} BY <3>1
    <3> QED BY <3>2
  <2>2. CASE ~ IsWildcard(r.path)
    <3>1. all = <<ErrorReport(r.path, err)>> BY <1>4, <2>2
    <3> HIDE DEF all
    <3>2. DOMAIN all = {1} /\ Len(all) = 1 /\ all[1].status = err BY <1>5, <3>1
    <3> QED BY <1>3, <2>2, <3>2
  <2> QED BY <2>1, <2>2
<1> HIDE DEF all, data, mayread
<1>7. /\ {all[k].path : k \in data} = mayread
      /\ Cardinality(data) = Cardinality(mayread)
  BY <1>2, <1>6
<1>8. \A k \in data : all[k].path.leaf = "Acl" =>
        {e \in Elements(all[k].list) : e.fab # r.acc.fab} =
           {acl[s] : s \in {s \in DOMAIN acl : ~ r.fab_filter /\ acl[s].fab # r.acc.fab}}
  BY <1>6
<1>9. data # DOMAIN all => ~ IsWildcard(r.path) /\ data = {} /\ Len(all) = 1
  BY <1>6
<1> QED BY <1>7, <1>8, <1>9 DEF ExactReports, all, data, mayread

\* A list with every entry, or those of one fabric, has the others as the filter says.
LEMMA OthersShown ==
  ASSUME DOMAIN acl \subseteq Slots, NEW acc, NEW fab_filter
  PROVE  {e \in Elements(ListShown(acc, fab_filter)) : e.fab # acc.fab} =
           {acl[s] : s \in {s \in DOMAIN acl : ~ fab_filter /\ acl[s].fab # acc.fab}}
<1>1. \A e : e \in Elements(ListShown(acc, fab_filter)) <=>
               \E s \in DOMAIN acl : e = acl[s] /\ (~ fab_filter \/ acl[s].fab = acc.fab)
  BY ShownIs
<1> QED BY <1>1

LEMMA ReadIsExact ==
  ASSUME DOMAIN acl \subseteq Slots, NEW r, r.path \in PathType
  PROVE  ExactReports(r, ReadReports(r.acc, r))
<1>1. CASE VisitAttributes(r.path).err # "ok" BY <1>1, NothingFound
<1>2. CASE VisitAttributes(r.path).err = "ok"
  <2> DEFINE all == ReadReports(r.acc, r)
             Of(p) == Report(r.acc, p, r.fab_filter)
             May(p) == Allow(acl, r.acc, p, AccessOf(p.leaf), "read")
             shown == {p \in AllPaths : Covers(r.path, p) /\ ~ Filtered(r.filters, p)}
             mayread == {p \in shown : May(p)}
             data == {k \in DOMAIN all : all[k].status = "Data"}
  <2>1. \A e : e \in Elements(all) <=>
                 \E p \in AllPaths : Covers(r.path, p) /\ ToBeShown(r, p) /\ e = Of(p)
    BY <1>2, ReportsAre
  <2>2. Once(all) /\ \E T : all \in Seq(T) BY <1>2, ReportsAre
  <2>3. \A p : /\ Of(p).path = p /\ (Of(p).status = "Data" <=> May(p))
               /\ (May(p) /\ p.leaf = "Acl") => Of(p).list = ListShown(r.acc, r.fab_filter)
    BY ReportIs
  <2>4. \A p : ToBeShown(r, p) <=> /\ ~ Filtered(r.filters, p)
                                   /\ Of(p).status = "Data" \/ ~ IsWildcard(r.path)
    BY DEF ToBeShown
  <2> HIDE DEF all, Of, May
  <2>5. Len(all) \in Nat /\ DOMAIN all = 1 .. Len(all) BY <2>2
  <2>6. \A k \in DOMAIN all :
          \E p \in AllPaths : Covers(r.path, p) /\ ToBeShown(r, p) /\ all[k] = Of(p)
    BY <2>1 DEF Elements
  <2>7. \A p \in AllPaths : Covers(r.path, p) /\ ToBeShown(r, p) =>
          \E k \in DOMAIN all : all[k] = Of(p)
    BY <2>1 DEF Elements
  <2>8. \A k \in data : all[k].path \in mayread /\ all[k] = Of(all[k].path)
    BY <2>3, <2>4, <2>6
  <2>9. \A p \in mayread : \E k \in data : all[k].path = p
    BY <2>3, <2>4, <2>7
  <2>10. Cardinality(data) = Cardinality(mayread)
    <3> DEFINE g == [k \in data |-> all[k].path]
    <3>1. g \in [data -> mayread] BY <2>8
    <3>2. \A j, k \in data : g[j] = g[k] => j = k
      <4>1. \A j, k \in data : g[j] = g[k] => all[j] = all[k] BY <2>8
      <4> QED BY <2>2, <4>1 DEF Once
    <3>3. \A p \in mayread : \E k \in data : g[k] = p BY <2>9
    <3>4. IsFiniteSet(data)
      <4>1. data \in SUBSET (1 .. Len(all)) BY <2>5
      <4>2. 1 \in Nat /\ IsFiniteSet(1 .. Len(all)) BY <2>5, FS_Interval
      <4> QED BY <4>1, <4>2, FS_Subset
    <3> HIDE DEF g, data, mayread
    <3>5. g \in Bijection(data, mayread)
      BY <3>1, <3>2, <3>3 DEF Bijection, Injection, Surjection, IsInjective
    <3> QED BY <3>4, <3>5, FS_Bijection DEF ExistsBijection
  <2>11. \A k \in data : all[k].path.leaf = "Acl" =>
           {e \in Elements(all[k].list) : e.fab # r.acc.fab} =
              {acl[s] : s \in {s \in DOMAIN acl : ~ r.fab_filter /\ acl[s].fab # r.acc.fab}}
    <3> SUFFICES ASSUME NEW k \in data, all[k].path.leaf = "Acl"
                 PROVE  all[k].list = ListShown(r.acc, r.fab_filter)
      BY OthersShown
    <3>1. May(all[k].path) /\ all[k] = Of(all[k].path) BY <2>8
    <3> QED BY <2>3, <3>1
  <2>12. data # DOMAIN all => ~ IsWildcard(r.path) /\ data = {} /\ Len(all) = 1
    <3> SUFFICES ASSUME data # DOMAIN all
                 PROVE  ~ IsWildcard(r.path) /\ data = {} /\ Len(all) = 1
      OBVIOUS
    <3>1. PICK k \in DOMAIN all : all[k].status # "Data" OBVIOUS
    <3>2. ~ IsWildcard(r.path) BY <2>4, <2>6, <3>1
    <3>3. \A j \in DOMAIN all : all[j] = all[k]
      BY <2>6, <3>2, CoversOne
    <3>4. \A j \in DOMAIN all : j = k BY <2>2, <3>3 DEF Once
    <3>5. data = {} BY <3>1, <3>4
    <3>6. Len(all) = 1
      <4>1. k \in 1 .. Len(all) BY <2>5
      <4>2. 1 \in DOMAIN all /\ Len(all) \in DOMAIN all BY <2>5, <4>1
      <4> QED BY <3>4, <4>2
    <3> QED BY <3>2, <3>5, <3>6
  <2>13. {all[k].path : k \in data} = mayread BY <2>8, <2>9
  <2> QED BY <2>10, <2>11, <2>12, <2>13 DEF ExactReports, all, May
<1> QED BY <1>1, <1>2

\* Only a read answers a read.
LEMMA ReadAnswers ==
  ASSUME [Next]_vars, resp' # resp, resp'.kind = "read"
  PROVE  \E r \in ReadRequests : Read(r)
<1>1. \A w \in WriteRequests : ~ ReceiveWrite(w) BY DEF ReceiveWrite, NoResp
<1>2. \A path \in Commands : ~ Invoke(path) BY DEF Invoke
<1>3. ~ FinishWrite BY DEF FinishWrite
<1>4. ~ Restart /\ ~ PowerLossInStore BY DEF Restart, PowerLossInStore, Boot, NoResp
<1> QED BY <1>1, <1>2, <1>3, <1>4
        DEF Next, vars, RefuseItem, WriteScalar, StartList, ListOpFails, ListOpStored,
            ListOpNotStored

\* A read reports, once each, exactly the attributes its path covers that the accessor
\* may read and that no data version filter excludes, or, for a concrete path, the error.
THEOREM ReadsAreExact == Spec => ReadReportsExactly
<1>1. ASSUME IInv, [Next]_vars, resp' # resp, resp'.kind = "read"
      PROVE  ExactReports(resp'.request, resp'.reports)
  <2>1. PICK r \in ReadRequests : Read(r) BY <1>1, ReadAnswers
  <2>2. resp'.request = r /\ resp'.reports = ReadReports(r.acc, r) BY <2>1 DEF Read
  <2>3. DOMAIN acl \subseteq Slots BY <1>1 DEF IInv, TInv, IsTable
  <2>4. r.path \in PathType BY RequestsAssumption, PathsAre
  <2> QED BY <2>2, <2>3, <2>4, ReadIsExact
<1>2. IInv /\ [Next]_vars =>
        [resp' # resp /\ resp'.kind = "read" => ExactReports(resp'.request, resp'.reports)]_vars
  BY <1>1
<1>3. [][resp' # resp /\ resp'.kind = "read" => ExactReports(resp'.request, resp'.reports)]_vars
        => ReadReportsExactly
  BY PTL DEF ReadReportsExactly, ExactReports
<1> QED BY <1>2, <1>3, Invariant, PTL DEF Spec
=============================================================================
