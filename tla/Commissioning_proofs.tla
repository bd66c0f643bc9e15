----------------------- MODULE Commissioning_proofs -----------------------
(***************************************************************************)
(* Proofs of the properties of Commissioning, for every number of fabrics, *)
(* sessions, roots and requests, and any number of restarts and failures.  *)
(*                                                                         *)
(* The argument: the private key is the last file that is written, and a   *)
(* fabric is in memory only after it.  So the files of an index that has   *)
(* a private key are those of one fabric, whole but for that key, and the  *)
(* fabric in memory is the one they make; an index whose fabric is not in  *)
(* memory has no private key, whatever is left of earlier attempts.  This  *)
(* leaves out the indexes where a write of the key failed half-way         *)
(* (spoilt), of which is kept that a fabric in memory is one in files.     *)
(***************************************************************************)
EXTENDS Commissioning, SequenceTheorems, FiniteSetTheorems, TLAPS

AclEntries == [fab : Indexes, of : Fabric]

TInv ==
  /\ fabrics \in [Indexes -> Fabric \cup {None}]
  /\ files \in [Indexes -> [Names -> FileStates]]
  /\ sessions \in [Sessions -> Session \cup {None}]
  /\ failsafe \in ArmedFailSafe \cup {None}
  /\ csrs \in 0 .. MaxCsr

HasKey(fs) == fs["privkey"] # None /\ fs["privkey"].part # "empty"

\* What the files of an index are, and what they say is in memory.
Stored(fb, fs) ==
  IF HasKey(fs)
  THEN /\ fb = Loaded(fs)
       /\ \E f \in Fabric :
            /\ \A x \in Names \ {"privkey"} : fs[x] = File(f, "whole")
            /\ fs["privkey"] \in {File(f, "whole"), File(f, "cut")}
  ELSE fb = None

\* What a start on the files fs of an index has in memory.
Remembered(fs) == IF Loads(fs) THEN Loaded(fs) ELSE None

StoreInv ==
  /\ \A i \in Indexes \ (hidden \cup spoilt) : Stored(fabrics[i], files[i])
  /\ \A i \in Indexes \ hidden : fabrics[i] # None => fabrics[i] = Remembered(files[i])

\* The fabric added under the fail-safe is in memory and whole on disk.
WholeOnDisk(i) ==
  /\ fabrics[i] \in Fabric /\ fabrics[i].key # CutKey
  /\ \A x \in Names : files[i][x] = File(fabrics[i], "whole")

ArmInv ==
  /\ adds \in {0, 1}
  /\ failsafe # None => IF failsafe.noc = None THEN adds = 0
                        ELSE adds = 1 /\ WholeOnDisk(failsafe.noc)

AckInv == \A a \in acked : /\ a.idx \in Indexes /\ a.fabric \in Fabric
                           /\ a.idx \notin hidden => fabrics[a.idx] = a.fabric

\* What the entries of a list say of the fabrics fbs.
Entitled(list, fbs) ==
  /\ list \in Seq(AclEntries)
  /\ \A k \in DOMAIN list : list[k].fab \notin hidden => fbs[list[k].fab] = list[k].of

AclInv == Entitled(acl, fabrics) /\ Entitled(aclFile, fabrics)

\* The key in the files fs of an index, whatever part of it there is.
HoldsKey(fs) == fs["privkey"] # None
KeyOf(fs)    == fs["privkey"].of.key
HasCsr(s)    == sessions[s] # None /\ sessions[s].data # None

DistinctKeys(fls) ==
  /\ \A i \in Indexes : HoldsKey(fls[i]) => KeyOf(fls[i]) \in 1 .. csrs
  /\ \A i, j \in Indexes : i # j /\ HoldsKey(fls[i]) /\ HoldsKey(fls[j])
                             => KeyOf(fls[i]) # KeyOf(fls[j])

SessionKeys ==
  /\ \A s \in Sessions : HasCsr(s) => sessions[s].data.key \in 1 .. csrs
  /\ \A s, t \in Sessions : s # t /\ HasCsr(s) /\ HasCsr(t)
                              => sessions[s].data.key # sessions[t].data.key
  /\ \A s \in Sessions, i \in Indexes : HasCsr(s) /\ HoldsKey(files[i])
                              => sessions[s].data.key # KeyOf(files[i])

MemoryKeys ==
  \A i \in Indexes : fabrics[i] # None =>
    HoldsKey(files[i]) /\ fabrics[i].key \in {CutKey, KeyOf(files[i])}

KeyInv == DistinctKeys(files) /\ SessionKeys /\ MemoryKeys

PanicInv ==
  life = "boot_panic" => \E i \in Indexes : LoadPanics(files[i]) /\ i \in hidden \cup spoilt

IInv == TInv /\ StoreInv /\ ArmInv /\ AckInv /\ AclInv /\ KeyInv /\ PanicInv

(***************************************************************************)
(* Facts about the files of an index.                                      *)
(***************************************************************************)

\* Every name has its place, and the private key's is the last.
LEMMA Places ==
  ASSUME NEW x \in Names
  PROVE  LET k == CHOOSE k \in DOMAIN FileNames : FileNames[k] = x
         IN k \in 1 .. 6 /\ FileNames[k] = x /\ (k = 6 <=> x = "privkey")
<1>1. DOMAIN FileNames = 1 .. 6 BY DEF FileNames
<1>2. \E k \in 1 .. 6 : FileNames[k] = x BY <1>1 DEF Names
<1>3. \A k \in 1 .. 6 : FileNames[k] = "privkey" <=> k = 6 BY DEF FileNames
<1> QED BY <1>1, <1>2, <1>3

LEMMA NamesAre == Names = {"rca", "ica", "noc", "ipk", "pbkey", "privkey"}
<1>1. DOMAIN FileNames = 1 .. 6 BY DEF FileNames
<1> QED BY <1>1 DEF Names, FileNames

\* What n whole writes of f, and a part of one more, make of the files fs.
LEMMA WrittenFiles ==
  ASSUME NEW fs \in [Names -> FileStates], NEW f \in Fabric, NEW n \in 0 .. 6,
         NEW part \in {"old", "empty", "cut"}
  PROVE  /\ Written(fs, f, n, part) \in [Names -> FileStates]
         /\ n >= 5 => \A x \in Names \ {"privkey"} :
                        Written(fs, f, n, part)[x] = File(f, "whole")
         /\ Written(fs, f, n, part)["privkey"] =
              IF n = 6 THEN File(f, "whole")
              ELSE IF n = 5 /\ part # "old" THEN File(f, part) ELSE fs["privkey"]
<1>1. ASSUME NEW g \in {"whole", "cut", "empty"} PROVE File(f, g) \in FileStates
  BY <1>1 DEF File, FileStates, FileState
<1>2. ASSUME NEW x \in Names
      PROVE  /\ Written(fs, f, n, part)[x] \in FileStates
             /\ n >= 5 /\ x # "privkey" => Written(fs, f, n, part)[x] = File(f, "whole")
             /\ x = "privkey" => Written(fs, f, n, part)[x] =
                  IF n = 6 THEN File(f, "whole")
                  ELSE IF n = 5 /\ part # "old" THEN File(f, part) ELSE fs["privkey"]
  <2> DEFINE k == CHOOSE k \in DOMAIN FileNames : FileNames[k] = x
  <2>1. k \in 1 .. 6 /\ (k = 6 <=> x = "privkey") BY Places
  <2>2. Written(fs, f, n, part)[x] =
          IF k <= n THEN File(f, "whole")
          ELSE IF k = n + 1 /\ part # "old" THEN File(f, part) ELSE fs[x]
    BY DEF Written
  <2> HIDE DEF k
  <2>3. fs[x] \in FileStates OBVIOUS
  <2>4. part # "old" => File(f, part) \in FileStates /\ File(f, "whole") \in FileStates BY <1>1
  <2>5. File(f, "whole") \in FileStates BY <1>1
  <2> QED BY <2>1, <2>2, <2>3, <2>4, <2>5
<1>3. "privkey" \in Names BY NamesAre
<1>4. Written(fs, f, n, part) = [x \in Names |-> Written(fs, f, n, part)[x]] BY DEF Written
<1> QED BY <1>2, <1>3, <1>4

\* A file that is there is a record of its type.
LEMMA FileThere ==
  ASSUME NEW fs \in [Names -> FileStates], NEW x \in Names, fs[x] # None
  PROVE  fs[x].of \in Fabric /\ fs[x].of.key \in Keys \cup {CutKey}
BY DEF FileStates, FileState, Fabric

\* What load makes of files that it reads is a fabric.
LEMMA LoadedType ==
  ASSUME NEW fs \in [Names -> FileStates], Loads(fs)
  PROVE  /\ Loaded(fs) \in Fabric /\ Loaded(fs) # None
         /\ HoldsKey(fs) /\ Loaded(fs).key \in {CutKey, KeyOf(fs)}
<1>1. \A x \in {"rca", "noc", "privkey"} : x \in Names /\ fs[x] # None
  BY NamesAre DEF Loads, Whole
<1>2. \A x \in {"rca", "noc", "privkey"} : fs[x].of \in Fabric BY <1>1, FileThere
<1>3. Loaded(fs) \in Fabric BY <1>2 DEF Loaded, Fabric, KeyOf
<1> QED BY <1>1, <1>3, NoneAssumption DEF Loaded, HoldsKey, KeyOf

\* Files that are Stored load exactly as what is in memory, without a panic.
LEMMA StoredLoads ==
  ASSUME NEW fs \in [Names -> FileStates], NEW fb, Stored(fb, fs)
  PROVE  /\ Loads(fs) <=> HasKey(fs)
         /\ fb = IF Loads(fs) THEN Loaded(fs) ELSE None
         /\ ~ LoadPanics(fs)
         /\ Loads(fs) => \A x, y \in Names : fs[x].of = fs[y].of
<1>1. CASE HasKey(fs)
  <2> PICK f \in Fabric : /\ \A x \in Names \ {"privkey"} : fs[x] = File(f, "whole")
                          /\ fs["privkey"] \in {File(f, "whole"), File(f, "cut")}
    BY <1>1 DEF Stored
  <2>1. \A x \in {"rca", "ica", "noc", "ipk", "pbkey"} : fs[x] = File(f, "whole")
    BY NamesAre
  <2>2. File(f, "whole") # None BY NoneAssumption DEF File, FileState
  <2>3. Loads(fs) /\ ~ LoadPanics(fs)
    BY <1>1, <2>1, <2>2 DEF Loads, LoadPanics, Whole, HasKey, File
  <2>4. \A x \in Names : fs[x].of = f BY NamesAre DEF File
  <2> QED BY <1>1, <2>3, <2>4 DEF Stored
<1>2. CASE ~ HasKey(fs) BY <1>2 DEF Stored, Loads, LoadPanics, HasKey
<1> QED BY <1>1, <1>2

\* An AddNOC that is through with its writes leaves its fabric, whatever was there.
LEMMA WrittenWhole ==
  ASSUME NEW fs \in [Names -> FileStates], NEW f \in Fabric,
         NEW part \in {"old", "empty", "cut"}, NEW gs, gs = Written(fs, f, 6, part)
  PROVE  Stored(f, gs) /\ Remembered(gs) = f
<1>1. File(f, "whole") # None BY NoneAssumption DEF File, FileState
<1>2. /\ \A x \in Names \ {"privkey"} : gs[x] = File(f, "whole")
      /\ gs["privkey"] = File(f, "whole")
  BY WrittenFiles
<1>3. \A x \in {"rca", "ica", "noc", "ipk", "pbkey", "privkey"} : gs[x] = File(f, "whole")
  BY <1>2, NamesAre
<1>4. Loads(gs) BY <1>1, <1>3 DEF Loads, Whole, File
<1>5. Loaded(gs) = f BY <1>1, <1>3 DEF Loaded, Whole, Fabric, File
<1>6. HasKey(gs) BY <1>1, <1>3 DEF HasKey, File
<1> QED BY <1>2, <1>4, <1>5, <1>6 DEF Stored, Remembered

\* One AddNOC, however far it gets, leaves files that are Stored: with what was
\* there before, which had no key, until the key is written.
LEMMA WrittenStored ==
  ASSUME NEW fs \in [Names -> FileStates], Stored(None, fs), NEW f \in Fabric,
         NEW n \in 0 .. 6, NEW part \in {"old", "empty", "cut"},
         NEW gs, gs = Written(fs, f, n, part)
  PROVE  /\ Stored(Remembered(gs), gs)
         /\ n < 6 /\ ~ (n = 5 /\ part = "cut") => Stored(None, gs)
<1>1. ~ HasKey(fs) BY LoadedType, StoredLoads, NoneAssumption
<1>2. gs \in [Names -> FileStates] BY WrittenFiles
<1>3. File(f, "whole") # None BY NoneAssumption DEF File, FileState
<1>4. CASE n = 6 BY <1>4, WrittenWhole
<1>5. CASE n = 5 /\ part = "cut"
  <2>1. /\ \A x \in Names \ {"privkey"} : gs[x] = File(f, "whole")
        /\ gs["privkey"] = File(f, "cut")
    BY <1>5, WrittenFiles
  <2>2. \A x \in {"rca", "ica", "noc", "ipk", "pbkey"} : gs[x] = File(f, "whole")
    BY <2>1, NamesAre
  <2>3. File(f, "cut") # None BY NoneAssumption DEF File, FileState
  <2>4. Loads(gs) /\ HasKey(gs) BY <1>3, <2>1, <2>2, <2>3 DEF Loads, Whole, HasKey, File
  <2> QED BY <1>5, <2>1, <2>4 DEF Stored, Remembered
<1>6. CASE ~ (n = 6) /\ ~ (n = 5 /\ part = "cut")
  <2>1. gs["privkey"] \in {fs["privkey"], File(f, "empty")} BY <1>6, WrittenFiles
  <2>2. ~ HasKey(gs) BY <1>1, <2>1 DEF HasKey, File
  <2>3. ~ Loads(gs) BY <2>2 DEF Loads, HasKey
  <2> QED BY <1>6, <2>2, <2>3 DEF Stored, Remembered
<1> QED BY <1>4, <1>5, <1>6

(***************************************************************************)
(* Facts about the tables.                                                 *)
(***************************************************************************)

\* Of some indexes one is the first: the sets of those below each of them are finite,
\* and one of these sets has none of the others inside it.
LEMMA LeastIndex ==
  ASSUME NEW T \in SUBSET Indexes, T # {}
  PROVE  \E i \in T : \A j \in T : i <= j
<1> DEFINE Top      == MAX_SUPPORTED_FABRICS
           Below(i) == 1 .. i - 1
           Sets     == {Below(i) : i \in T}
           R        == StrictSubsetOrdering(1 .. Top)
<1>1. Top \in Nat /\ T \subseteq 1 .. Top - 1 BY CommissioningAssumption DEF Indexes
<1>2. \A i \in T : Below(i) \in SUBSET (1 .. Top) BY <1>1
<1>3. IsFiniteSet(1 .. Top) BY <1>1, FS_Interval
<1>4. IsWellFoundedOn(R, SUBSET (1 .. Top))
  BY <1>3, FS_StrictSubsetOrderingWellFounded, FS_FiniteSubsetsOfFinite
<1>5. Sets \subseteq SUBSET (1 .. Top) /\ Sets # {} BY <1>2
<1>6. \E x \in Sets : \A y \in Sets : ~ (<<y, x>> \in R)
  <2> HIDE DEF Sets, R
  <2> QED BY <1>4, <1>5, WFMin
<1>7. PICK i \in T : \A j \in T : ~ (<<Below(j), Below(i)>> \in R) BY <1>6
<1>8. ASSUME NEW j \in T, ~ (i <= j) PROVE FALSE
  <2>1. j \in Nat /\ i \in Nat /\ 1 <= j /\ j < i BY <1>1, <1>8
  <2>2. Below(j) \subseteq Below(i) /\ j \in Below(i) /\ j \notin Below(j) BY <2>1
  <2>3. <<Below(j), Below(i)>> \in R BY <1>2, <2>2 DEF StrictSubsetOrdering
  <2> QED BY <1>7, <2>3
<1> QED BY <1>8

\* A free index that is looked for is found.
LEMMA FirstFreeIsFree ==
  ASSUME Free # {}
  PROVE  FirstFree \in Free
<1>1. \E i \in Free : \A j \in Free : i <= j BY LeastIndex DEF Free
<1> QED BY <1>1 DEF FirstFree

\* An AddNOC that comes to store a fabric has all that it is made of.
LEMMA Addable ==
  ASSUME TInv, NEW s \in Sessions, NEW r \in AddNocRequests, Receives(s),
         AddNocRefusal(s, r) = "none"
  PROVE  /\ HasCsr(s) /\ sessions[s] \in Session /\ sessions[s].data \in SessionData
         /\ failsafe \in ArmedFailSafe /\ failsafe.noc = None
         /\ FirstFree \in Indexes /\ fabrics[FirstFree] = None
         /\ NewFabric(s, r) \in Fabric
         /\ NewFabric(s, r).key = sessions[s].data.key
         /\ sessions[s].data.key # CutKey
<1>1. /\ sessions[s].data # None /\ AllowNocChange /\ sessions[s].data.root # None /\ Free # {}
  BY DEF AddNocRefusal
<1>2. sessions[s] \in Session /\ sessions[s] # None BY DEF Receives, TInv
<1>3. sessions[s].data \in SessionData BY <1>1, <1>2 DEF Session
<1>4. sessions[s].data.key \in Keys /\ sessions[s].data.root \in Roots
  BY <1>1, <1>3 DEF SessionData
<1>5. [root |-> r.root, node |-> r.node] \in Nocs BY DEF Nocs
<1>6. NewFabric(s, r) \in Fabric /\ NewFabric(s, r).key = sessions[s].data.key
  BY <1>4, <1>5 DEF NewFabric, Fabric
<1>7. FirstFree \in Indexes /\ fabrics[FirstFree] = None BY <1>1, FirstFreeIsFree DEF Free
<1>8. failsafe \in ArmedFailSafe /\ failsafe.noc = None BY <1>1 DEF AllowNocChange, TInv
<1>9. sessions[s].data.key # CutKey BY <1>4, CommissioningAssumption DEF Keys, CutKey
<1> QED BY <1>1, <1>2, <1>3, <1>6, <1>7, <1>8, <1>9 DEF HasCsr

\* The entries of a list with the administrator's at its end.
LEMMA AdminEntitled ==
  ASSUME Entitled(acl, fabrics), NEW i \in Indexes, NEW f \in Fabric, fabrics[i] = None,
         fabrics \in [Indexes -> Fabric \cup {None}]
  PROVE  Entitled(WithAdmin(i, f), [fabrics EXCEPT ![i] = f])
<1> DEFINE e == [fab |-> i, of |-> f]
           fbs == [fabrics EXCEPT ![i] = f]
<1>1. e \in AclEntries BY DEF AclEntries
<1>2. \A k \in DOMAIN acl : acl[k] \in AclEntries BY DEF Entitled
<1>3. \A k \in DOMAIN acl : acl[k].fab \notin hidden => fbs[acl[k].fab] = acl[k].of
  <2> SUFFICES ASSUME NEW k \in DOMAIN acl, acl[k].fab \notin hidden
               PROVE  fbs[acl[k].fab] = acl[k].of
    OBVIOUS
  <2>1. fabrics[acl[k].fab] = acl[k].of /\ acl[k].of \in Fabric /\ acl[k].fab \in Indexes
    BY <1>2 DEF Entitled, AclEntries
  <2> QED BY <2>1, NoneAssumption
<1>4. CASE WithAdmin(i, f) = acl BY <1>3, <1>4 DEF Entitled
<1>5. CASE WithAdmin(i, f) = Append(acl, e)
  <2>1. acl \in Seq(AclEntries) BY DEF Entitled
  <2>2. /\ Append(acl, e) \in Seq(AclEntries)
        /\ \A k \in DOMAIN Append(acl, e) :
             IF k = Len(acl) + 1 THEN Append(acl, e)[k] = e
             ELSE k \in DOMAIN acl /\ Append(acl, e)[k] = acl[k]
    BY <1>1, <2>1
  <2>3. fbs[i] = f BY DEF TInv
  <2> QED BY <1>3, <1>5, <2>2, <2>3 DEF Entitled
<1> QED BY <1>4, <1>5 DEF WithAdmin

\* What is true of all fabrics in memory is true of fewer, and of part of a list.
LEMMA EntitledPrefix ==
  ASSUME NEW list, NEW fbs, Entitled(list, fbs), NEW n \in 0 .. Len(list)
  PROVE  Entitled(SubSeq(list, 1, n), fbs)
<1>1. list \in Seq(AclEntries) BY DEF Entitled
<1>2. /\ SubSeq(list, 1, n) \in Seq(AclEntries)
      /\ \A k \in DOMAIN SubSeq(list, 1, n) :
           k \in DOMAIN list /\ SubSeq(list, 1, n)[k] = list[k]
  BY <1>1
<1> QED BY <1>2 DEF Entitled

(***************************************************************************)
(* Steps that change no fabric.                                            *)
(***************************************************************************)

\* What sessions may do without any of the rest: come, go, lose their key, get a root.
LEMMA SessionStep ==
  ASSUME IInv,
         UNCHANGED <<fabrics, files, acl, aclFile, failsafe, csrs, acked, adds, hidden, spoilt>>,
         sessions' \in [Sessions -> Session \cup {None}],
         \A t \in Sessions : HasCsr(t)' => HasCsr(t) /\ sessions'[t].data.key = sessions[t].data.key,
         life' \in {life, "panic"}
  PROVE  IInv'
<1>1. TInv' BY DEF IInv, TInv
<1>2. StoreInv' BY DEF IInv, StoreInv
<1>3. ArmInv' BY DEF IInv, ArmInv, WholeOnDisk
<1>4. AckInv' /\ AclInv' BY DEF IInv, AckInv, AclInv, Entitled
<1>5. DistinctKeys(files)' /\ MemoryKeys' BY DEF IInv, KeyInv, DistinctKeys, MemoryKeys
<1>6. SessionKeys' BY DEF IInv, KeyInv, SessionKeys
<1>7. PanicInv' BY DEF IInv, PanicInv
<1> QED BY <1>1, <1>2, <1>3, <1>4, <1>5, <1>6, <1>7 DEF IInv, KeyInv

LEMMA EstablishPaseStep ==
  ASSUME IInv, NEW s \in Sessions, EstablishPase(s)
  PROVE  IInv'
<1>1. NewSession(Pase) \in Session BY DEF NewSession, Session, Modes
<1>2. sessions' \in [Sessions -> Session \cup {None}] BY <1>1 DEF EstablishPase, IInv, TInv
<1>3. \A t \in Sessions : HasCsr(t)' => t # s BY DEF HasCsr, EstablishPase, NewSession, IInv, TInv
<1>4. \A t \in Sessions : t # s => sessions'[t] = sessions[t] BY DEF EstablishPase, IInv, TInv
<1> QED BY <1>2, <1>3, <1>4, SessionStep DEF EstablishPase, HasCsr

LEMMA OpenPlainStep ==
  ASSUME IInv, NEW s \in Sessions, OpenPlain(s)
  PROVE  IInv'
<1>1. NewSession(Plain) \in Session BY DEF NewSession, Session, Modes
<1>2. sessions' \in [Sessions -> Session \cup {None}] BY <1>1 DEF OpenPlain, IInv, TInv
<1>3. \A t \in Sessions : HasCsr(t)' => t # s BY DEF HasCsr, OpenPlain, NewSession, IInv, TInv
<1>4. \A t \in Sessions : t # s => sessions'[t] = sessions[t] BY DEF OpenPlain, IInv, TInv
<1> QED BY <1>2, <1>3, <1>4, SessionStep DEF OpenPlain, HasCsr

LEMMA EstablishCaseStep ==
  ASSUME IInv, NEW s \in Sessions, NEW noc \in Nocs, EstablishCase(s, noc)
  PROVE  IInv'
<1>1. DestFabric(noc) \in Indexes
  <2>1. Matching(noc) \subseteq Indexes /\ Matching(noc) # {} BY DEF Matching, EstablishCase
  <2>2. \E i \in Matching(noc) : \A j \in Matching(noc) : i <= j BY <2>1, LeastIndex
  <2> QED BY <2>1, <2>2 DEF DestFabric
<1>2. NewSession(Case(DestFabric(noc))) \in Session
  BY <1>1 DEF NewSession, Session, Modes
<1>3. sessions' \in [Sessions -> Session \cup {None}] BY <1>2 DEF EstablishCase, IInv, TInv
<1>4. \A t \in Sessions : HasCsr(t)' => t # s BY DEF HasCsr, EstablishCase, NewSession, IInv, TInv
<1>5. \A t \in Sessions : t # s => sessions'[t] = sessions[t] BY DEF EstablishCase, IInv, TInv
<1> QED BY <1>3, <1>4, <1>5, SessionStep DEF EstablishCase, HasCsr

LEMMA DropSessionStep ==
  ASSUME IInv, NEW s \in Sessions, DropSession(s)
  PROVE  IInv'
<1>1. sessions' \in [Sessions -> Session \cup {None}] BY DEF DropSession, IInv, TInv
<1>2. \A t \in Sessions : HasCsr(t)' => sessions'[t] = sessions[t]
  BY DEF HasCsr, DropSession, IInv, TInv
<1> QED BY <1>1, <1>2, SessionStep DEF DropSession, HasCsr

\* A session whose key is taken is as one that never asked for it.
LEMMA TakenEffect ==
  ASSUME TInv, NEW s \in Sessions, sessions[s] # None
  PROVE  /\ Taken(s) \in [Sessions -> Session \cup {None}]
         /\ Taken(s)[s].data = None
         /\ \A t \in Sessions : t # s => Taken(s)[t] = sessions[t]
BY DEF Taken, TInv, Session

LEMMA AddNocRefusedStep ==
  ASSUME IInv, NEW s \in Sessions, NEW r \in AddNocRequests, AddNocRefused(s, r)
  PROVE  IInv'
<1>1. sessions' = Taken(s) /\ sessions[s] # None BY DEF AddNocRefused, Receives
<1>2. \A t \in Sessions : HasCsr(t)' => t # s /\ sessions'[t] = sessions[t]
  BY <1>1, TakenEffect DEF HasCsr, IInv
<1>3. sessions' \in [Sessions -> Session \cup {None}] BY <1>1, TakenEffect DEF IInv
<1> QED BY <1>2, <1>3, SessionStep DEF AddNocRefused, HasCsr

LEMMA AddTrustedRootCertStep ==
  ASSUME IInv, NEW s \in Sessions, NEW root \in Roots \cup {None}, AddTrustedRootCert(s, root)
  PROVE  IInv'
<1>1. CASE sessions' = sessions
  BY <1>1, SessionStep DEF AddTrustedRootCert, HasCsr, IInv, TInv
<1>2. CASE sessions' # sessions
  <2>1. /\ sessions' = [sessions EXCEPT ![s].data.root = root]
        /\ sessions[s] # None /\ sessions[s].data # None
    BY <1>2 DEF AddTrustedRootCert, Receives
  <2>2. sessions[s] \in Session /\ sessions[s].data \in SessionData
    BY <2>1 DEF IInv, TInv, Session
  <2>3. [sessions[s] EXCEPT !.data.root = root] \in Session
    BY <2>2 DEF Session, SessionData
  <2>4. sessions' = [sessions EXCEPT ![s] = [sessions[s] EXCEPT !.data.root = root]] BY <2>1
  <2>5. sessions' \in [Sessions -> Session \cup {None}] BY <2>3, <2>4 DEF IInv, TInv
  <2>6. sessions'[s].data.key = sessions[s].data.key BY <2>2, <2>4 DEF Session, SessionData, IInv, TInv
  <2>7. \A t \in Sessions : t # s => sessions'[t] = sessions[t] BY <2>4 DEF IInv, TInv
  <2> QED BY <2>1, <2>5, <2>6, <2>7, SessionStep DEF AddTrustedRootCert, HasCsr
<1> QED BY <1>1, <1>2

LEMMA InformStep ==
  ASSUME IInv, NEW s \in Sessions, NEW status, Inform(s, status)
  PROVE  IInv'
BY SessionStep DEF Inform, HasCsr, IInv, TInv

\* A new key is none that is in use.
LEMMA CsrRequestStep ==
  ASSUME IInv, NEW s \in Sessions, CsrRequest(s)
  PROVE  IInv'
<1>1. CASE failsafe = None BY <1>1, SessionStep DEF CsrRequest, HasCsr, IInv, TInv
<1>2. CASE failsafe # None
  <2> DEFINE data == [key |-> csrs + 1, root |-> None]
  <2>1. /\ csrs < MaxCsr /\ csrs' = csrs + 1 /\ sessions[s] # None
        /\ sessions' = [sessions EXCEPT ![s].data = data]
        /\ UNCHANGED <<life, fabrics, files, acl, aclFile, failsafe, acked, adds, hidden, spoilt>>
    BY <1>2 DEF CsrRequest, Receives
  <2>2. csrs \in Nat /\ csrs' \in 1 .. MaxCsr BY <2>1, CommissioningAssumption DEF IInv, TInv
  <2>3. data \in SessionData BY <2>1, <2>2 DEF SessionData, Keys
  <2>4. sessions[s] \in Session BY <2>1 DEF IInv, TInv
  <2>5. [sessions[s] EXCEPT !.data = data] \in Session BY <2>3, <2>4 DEF Session
  <2>6. sessions' = [sessions EXCEPT ![s] = [sessions[s] EXCEPT !.data = data]] BY <2>1
  <2>7. sessions' \in [Sessions -> Session \cup {None}] BY <2>5, <2>6 DEF IInv, TInv
  <2>8. sessions'[s].data.key = csrs + 1 BY <2>4, <2>6 DEF Session, IInv, TInv
  <2>9. \A t \in Sessions : t # s => sessions'[t] = sessions[t] BY <2>6 DEF IInv, TInv
  <2>10. TInv' BY <2>1, <2>2, <2>7 DEF IInv, TInv
  <2>11. StoreInv' /\ AckInv' /\ PanicInv' /\ AclInv'
    BY <2>1 DEF IInv, StoreInv, AckInv, PanicInv, AclInv, Entitled
  <2>12. ArmInv' BY <2>1 DEF IInv, ArmInv, WholeOnDisk
  <2>13. DistinctKeys(files)' /\ MemoryKeys'
    BY <2>1, <2>2 DEF IInv, KeyInv, DistinctKeys, MemoryKeys
  <2>14. SessionKeys'
    <3>1. \A t \in Sessions : t # s /\ HasCsr(t)' => HasCsr(t) BY <2>9 DEF HasCsr
    <3>2. \A t \in Sessions : HasCsr(t) => sessions[t].data.key \in 1 .. csrs
      BY DEF IInv, KeyInv, SessionKeys
    <3>3. \A i \in Indexes : HoldsKey(files[i]) => KeyOf(files[i]) \in 1 .. csrs
      BY DEF IInv, KeyInv, DistinctKeys
    <3>4. \A t \in Sessions : HasCsr(t)' => sessions'[t].data.key \in 1 .. csrs'
      BY <2>1, <2>2, <2>8, <2>9, <3>1, <3>2
    <3>5. ASSUME NEW t \in Sessions, NEW u \in Sessions, t # u, HasCsr(t)', HasCsr(u)'
          PROVE  sessions'[t].data.key # sessions'[u].data.key
      <4>1. CASE t = s BY <2>2, <2>8, <2>9, <3>1, <3>2, <3>5, <4>1
      <4>2. CASE u = s BY <2>2, <2>8, <2>9, <3>1, <3>2, <3>5, <4>2
      <4>3. CASE t # s /\ u # s
        BY <2>9, <3>1, <3>5, <4>3 DEF IInv, KeyInv, SessionKeys
      <4> QED BY <4>1, <4>2, <4>3
    <3>6. ASSUME NEW t \in Sessions, NEW i \in Indexes, HasCsr(t)', HoldsKey(files'[i])
          PROVE  sessions'[t].data.key # KeyOf(files'[i])
      <4>1. CASE t = s BY <2>1, <2>2, <2>8, <3>3, <3>6, <4>1
      <4>2. CASE t # s BY <2>1, <2>9, <3>1, <3>6, <4>2 DEF IInv, KeyInv, SessionKeys
      <4> QED BY <4>1, <4>2
    <3> QED BY <3>4, <3>5, <3>6 DEF SessionKeys
  <2> QED BY <2>10, <2>11, <2>12, <2>13, <2>14 DEF IInv, KeyInv
<1> QED BY <1>1, <1>2

(***************************************************************************)
(* Steps of the fail-safe.                                                 *)
(***************************************************************************)

LEMMA FailSafeStep ==
  ASSUME IInv, ArmInv', failsafe' \in ArmedFailSafe \cup {None},
         UNCHANGED <<life, fabrics, files, acl, aclFile, sessions, csrs, acked, hidden, spoilt>>
  PROVE  IInv'
<1>1. TInv' BY DEF IInv, TInv
<1>2. StoreInv' /\ AckInv' /\ PanicInv' /\ AclInv'
  BY DEF IInv, StoreInv, AckInv, PanicInv, AclInv, Entitled
<1>3. KeyInv' BY DEF IInv, KeyInv, DistinctKeys, SessionKeys, MemoryKeys, HasCsr
<1> QED BY <1>1, <1>2, <1>3 DEF IInv

LEMMA ArmFailSafeStep ==
  ASSUME IInv, NEW s \in Sessions, ArmFailSafe(s)
  PROVE  IInv'
<1>1. CASE failsafe = None
  <2>1. failsafe' = [mode |-> sessions[s].mode, noc |-> None] /\ adds' = 0 /\ sessions[s] # None
    BY <1>1 DEF ArmFailSafe, Armed, Receives
  <2>2. failsafe' \in ArmedFailSafe BY <2>1 DEF ArmedFailSafe, Session, IInv, TInv
  <2>3. ArmInv' BY <2>1 DEF ArmInv
  <2> QED BY <2>2, <2>3, FailSafeStep DEF ArmFailSafe
<1>2. CASE failsafe # None
  <2>1. ArmInv' BY <1>2 DEF ArmFailSafe, IInv, ArmInv, WholeOnDisk
  <2> QED BY <1>2, <2>1, FailSafeStep DEF ArmFailSafe, IInv, TInv
<1> QED BY <1>1, <1>2

LEMMA CommissioningCompleteStep ==
  ASSUME IInv, NEW s \in Sessions, CommissioningComplete(s)
  PROVE  IInv'
<1>1. failsafe' \in {failsafe, None} BY DEF CommissioningComplete
<1>2. ArmInv' BY <1>1 DEF CommissioningComplete, IInv, ArmInv, WholeOnDisk
<1> QED BY <1>1, <1>2, FailSafeStep DEF CommissioningComplete, IInv, TInv

(***************************************************************************)
(* What an AddNOC that gets as far as its writes does to files and keys.   *)
(***************************************************************************)

\* The files after the first n writes and a part of one more.
AddedFiles(s, r, n, part) ==
  [files EXCEPT ![FirstFree] = Written(@, NewFabric(s, r), n, part)]

LEMMA AddedFilesStored ==
  ASSUME IInv, NEW s \in Sessions, NEW r \in AddNocRequests, Receives(s),
         AddNocRefusal(s, r) = "none",
         NEW n \in 0 .. 6, NEW part \in {"old", "empty", "cut"},
         NEW fls, fls = AddedFiles(s, r, n, part)
  PROVE  /\ fls \in [Indexes -> [Names -> FileStates]]
         /\ \A i \in Indexes : i # FirstFree => fls[i] = files[i]
         /\ n = 6 => /\ Stored(NewFabric(s, r), fls[FirstFree])
                     /\ Remembered(fls[FirstFree]) = NewFabric(s, r)
         /\ FirstFree \notin hidden \cup spoilt =>
              /\ Stored(Remembered(fls[FirstFree]), fls[FirstFree])
              /\ n < 6 /\ ~ (n = 5 /\ part = "cut") => Stored(None, fls[FirstFree])
<1> DEFINE i == FirstFree
           f == NewFabric(s, r)
           gs == Written(files[i], f, n, part)
<1>1. i \in Indexes /\ fabrics[i] = None /\ f \in Fabric BY Addable DEF IInv
<1>2. files \in [Indexes -> [Names -> FileStates]] BY DEF IInv, TInv
<1>3. files[i] \in [Names -> FileStates] BY <1>1, <1>2
<1> HIDE DEF i, f
<1>4. gs \in [Names -> FileStates] BY <1>1, <1>3, WrittenFiles
<1>5. fls = [files EXCEPT ![i] = gs] BY DEF AddedFiles, i, f
<1>6. i \notin hidden \cup spoilt => Stored(None, files[i]) BY <1>1 DEF IInv, StoreInv
<1>7. ASSUME Stored(None, files[i])
      PROVE  /\ Stored(Remembered(gs), gs)
             /\ n < 6 /\ ~ (n = 5 /\ part = "cut") => Stored(None, gs)
  <2> HIDE DEF gs
  <2>1. gs = Written(files[i], f, n, part) BY DEF gs
  <2> QED BY <1>1, <1>3, <1>7, <2>1, WrittenStored
<1>8. n = 6 => Stored(f, gs) /\ Remembered(gs) = f
  <2> HIDE DEF gs
  <2>1. gs = Written(files[i], f, n, part) BY DEF gs
  <2> QED BY <1>1, <1>3, <2>1, WrittenWhole
<1>9. fls[i] = gs /\ \A j \in Indexes : j # i => fls[j] = files[j] BY <1>1, <1>2, <1>5
<1>10. fls \in [Indexes -> [Names -> FileStates]] BY <1>1, <1>2, <1>4, <1>5
<1> HIDE DEF gs
<1> QED BY <1>6, <1>7, <1>8, <1>9, <1>10 DEF i, f

LEMMA AddedFilesKeys ==
  ASSUME IInv, NEW s \in Sessions, NEW r \in AddNocRequests, Receives(s),
         AddNocRefusal(s, r) = "none",
         NEW n \in 0 .. 6, NEW part \in {"old", "empty", "cut"},
         NEW fls, fls = AddedFiles(s, r, n, part)
  PROVE  /\ DistinctKeys(fls)
         /\ \A t \in Sessions \ {s}, i \in Indexes : HasCsr(t) /\ HoldsKey(fls[i])
              => sessions[t].data.key # KeyOf(fls[i])
         /\ n = 6 => HoldsKey(fls[FirstFree]) /\ KeyOf(fls[FirstFree]) = NewFabric(s, r).key
<1> DEFINE i == FirstFree
           f == NewFabric(s, r)
           gs == Written(files[i], f, n, part)
<1>1. /\ i \in Indexes /\ f \in Fabric /\ HasCsr(s) /\ f.key = sessions[s].data.key
  BY Addable DEF IInv
<1>2. files \in [Indexes -> [Names -> FileStates]] BY DEF IInv, TInv
<1>3. files[i] \in [Names -> FileStates] BY <1>1, <1>2
<1> HIDE DEF i, f
<1>4. fls = [files EXCEPT ![i] = gs] BY DEF AddedFiles, i, f
<1>5. fls[i] = gs /\ \A j \in Indexes : j # i => fls[j] = files[j] BY <1>1, <1>2, <1>4
<1>6. gs["privkey"] =
        IF n = 6 THEN File(f, "whole")
        ELSE IF n = 5 /\ part # "old" THEN File(f, part) ELSE files[i]["privkey"]
  BY <1>1, <1>3, WrittenFiles
<1> HIDE DEF gs
<1>7. gs["privkey"] = files[i]["privkey"] \/ gs["privkey"].of = f BY <1>6 DEF File
<1>8. \A j \in Indexes : HoldsKey(fls[j]) =>
        \/ HoldsKey(files[j]) /\ KeyOf(fls[j]) = KeyOf(files[j])
        \/ j = i /\ KeyOf(fls[j]) = sessions[s].data.key
  BY <1>1, <1>5, <1>7 DEF HoldsKey, KeyOf
<1>9. n = 6 => gs["privkey"] # None /\ gs["privkey"].of = f
  <2>1. File(f, "whole") # None BY <1>1, NoneAssumption DEF File, FileState
  <2> QED BY <1>6, <2>1 DEF File
<1>10. DistinctKeys(files) /\ SessionKeys BY DEF IInv, KeyInv
<1>11. \A j \in Indexes : HoldsKey(fls[j]) => KeyOf(fls[j]) \in 1 .. csrs
  BY <1>1, <1>8, <1>10 DEF DistinctKeys, SessionKeys
<1>12. ASSUME NEW j \in Indexes, NEW k \in Indexes, j # k, HoldsKey(fls[j]), HoldsKey(fls[k])
       PROVE  KeyOf(fls[j]) # KeyOf(fls[k])
  BY <1>1, <1>8, <1>10, <1>12 DEF DistinctKeys, SessionKeys
<1>13. \A t \in Sessions \ {s}, j \in Indexes : HasCsr(t) /\ HoldsKey(fls[j])
         => sessions[t].data.key # KeyOf(fls[j])
  BY <1>1, <1>8, <1>10 DEF SessionKeys
<1>14. DistinctKeys(fls) BY <1>11, <1>12 DEF DistinctKeys
<1>15. n = 6 => HoldsKey(fls[i]) /\ KeyOf(fls[i]) = f.key BY <1>5, <1>9 DEF HoldsKey, KeyOf
<1> QED BY <1>13, <1>14, <1>15 DEF i, f

\* A list says of some fabrics what it says of others that are the same where it looks.
LEMMA EntitledSame ==
  ASSUME NEW list, NEW fbs, NEW gbs, Entitled(list, fbs),
         \A i \in Indexes \ hidden : fbs[i] \in Fabric => gbs[i] = fbs[i]
  PROVE  Entitled(list, gbs)
<1>1. \A k \in DOMAIN list : list[k] \in AclEntries BY DEF Entitled
<1>2. \A k \in DOMAIN list : list[k].fab \in Indexes /\ list[k].of \in Fabric
  BY <1>1 DEF AclEntries
<1> QED BY <1>2 DEF Entitled

(***************************************************************************)
(* AddNOC.                                                                 *)
(***************************************************************************)

LEMMA AddNocNotStoredStep ==
  ASSUME IInv, NEW s \in Sessions, NEW r \in AddNocRequests, AddNocNotStored(s, r)
  PROVE  IInv'
<1> DEFINE i == FirstFree
<1>1. PICK n \in 0 .. 5, part \in {"old", "empty", "cut"} :
        /\ files' = AddedFiles(s, r, n, part)
        /\ spoilt' = IF n = 5 /\ part = "cut" THEN spoilt \cup {i} ELSE spoilt
  <2>1. 0 .. Len(FileNames) - 1 = 0 .. 5
    <3>1. Len(FileNames) = 6 BY DEF FileNames
    <3> QED BY <3>1
  <2>2. PICK n \in 0 .. 5, part \in {"old", "empty", "cut"} :
          /\ files' = AddedFiles(s, r, n, part)
          /\ spoilt' = IF FileNames[n + 1] = "privkey" /\ part = "cut"
                         THEN spoilt \cup {i} ELSE spoilt
    BY <2>1, Zenon DEF AddNocNotStored, AddedFiles
  <2>3. \A m \in 0 .. 5 : FileNames[m + 1] = "privkey" <=> m = 5 BY DEF FileNames
  <2> QED BY <2>2, <2>3
<1>2. Receives(s) /\ AddNocRefusal(s, r) = "none" /\ sessions[s] # None /\ life = "up"
  BY DEF AddNocNotStored, Receives
<1>3. /\ sessions' = Taken(s)
      /\ UNCHANGED <<life, fabrics, acl, aclFile, failsafe, csrs, acked, adds, hidden>>
  BY DEF AddNocNotStored
<1>4. i \in Indexes /\ fabrics[i] = None /\ failsafe.noc = None BY <1>2, Addable DEF IInv
<1>5. n \in 0 .. 6 /\ n < 6 /\ spoilt \subseteq spoilt' /\ (n = 5 /\ part = "cut" => i \in spoilt')
  BY <1>1
<1>6. /\ files' \in [Indexes -> [Names -> FileStates]]
      /\ \A j \in Indexes : j # i => files'[j] = files[j]
      /\ i \notin hidden \cup spoilt' => Stored(None, files'[i])
  BY <1>1, <1>2, <1>5, AddedFilesStored
<1>7. /\ DistinctKeys(files')
      /\ \A t \in Sessions \ {s}, j \in Indexes : HasCsr(t) /\ HoldsKey(files'[j])
           => sessions[t].data.key # KeyOf(files'[j])
  BY <1>1, <1>2, <1>5, AddedFilesKeys
<1> HIDE DEF i
<1>8. /\ sessions' \in [Sessions -> Session \cup {None}]
      /\ \A t \in Sessions : HasCsr(t)' => t # s /\ HasCsr(t) /\ sessions'[t] = sessions[t]
  BY <1>2, <1>3, TakenEffect DEF HasCsr, IInv
<1>9. TInv' BY <1>3, <1>6, <1>8 DEF IInv, TInv
<1>10. StoreInv' BY <1>3, <1>4, <1>5, <1>6 DEF IInv, StoreInv
<1>11. ArmInv' BY <1>3, <1>4 DEF IInv, ArmInv
<1>12. AckInv' /\ AclInv' /\ PanicInv'
  BY <1>2, <1>3 DEF IInv, AckInv, AclInv, PanicInv, Entitled
<1>13. DistinctKeys(files)' BY <1>3, <1>7 DEF DistinctKeys
<1>14. SessionKeys' BY <1>3, <1>7, <1>8 DEF IInv, KeyInv, SessionKeys
<1>15. MemoryKeys' BY <1>3, <1>4, <1>6 DEF IInv, KeyInv, MemoryKeys
<1> QED BY <1>9, <1>10, <1>11, <1>12, <1>13, <1>14, <1>15 DEF IInv, KeyInv

LEMMA AddNocStep ==
  ASSUME IInv, NEW s \in Sessions, NEW r \in AddNocRequests, AddNoc(s, r)
  PROVE  IInv'
<1> DEFINE i == FirstFree
           f == NewFabric(s, r)
<1>1. Receives(s) /\ AddNocRefusal(s, r) = "none" /\ sessions[s] # None /\ life = "up"
  BY DEF AddNoc, Receives
<1>2. files' = AddedFiles(s, r, 6, "old")
  <2>1. Len(FileNames) = 6 BY DEF FileNames
  <2> QED BY <2>1 DEF AddNoc, AddedFiles
<1>3. /\ i \in Indexes /\ fabrics[i] = None /\ f \in Fabric
      /\ f.key = sessions[s].data.key /\ f.key # CutKey
      /\ failsafe \in ArmedFailSafe /\ failsafe.noc = None
  BY <1>1, Addable DEF IInv
<1>4. /\ files' \in [Indexes -> [Names -> FileStates]]
      /\ \A j \in Indexes : j # i => files'[j] = files[j]
      /\ Stored(f, files'[i]) /\ Remembered(files'[i]) = f
  BY <1>1, <1>2, AddedFilesStored
<1>5. /\ DistinctKeys(files')
      /\ \A t \in Sessions \ {s}, j \in Indexes : HasCsr(t) /\ HoldsKey(files'[j])
           => sessions[t].data.key # KeyOf(files'[j])
      /\ HoldsKey(files'[i]) /\ KeyOf(files'[i]) = f.key
  BY <1>1, <1>2, AddedFilesKeys
<1>6. \A x \in Names : files'[i][x] = File(f, "whole")
  <2>1. files \in [Indexes -> [Names -> FileStates]] BY DEF IInv, TInv
  <2>2. files'[i] = Written(files[i], f, 6, "old") BY <1>2, <1>3, <2>1 DEF AddedFiles
  <2> HIDE DEF i, f
  <2> QED BY <1>3, <2>1, <2>2, WrittenFiles
<1>7. /\ fabrics' = [fabrics EXCEPT ![i] = f]
      /\ acl' = WithAdmin(i, f) /\ aclFile' \in {aclFile} \cup ListParts(acl')
      /\ failsafe' = [failsafe EXCEPT !.noc = i]
      /\ sessions' = Taken(s)
      /\ acked' = {a \in acked : a.idx # i} \cup {[idx |-> i, fabric |-> f]}
      /\ adds' = adds + 1 /\ spoilt' = spoilt \ {i}
      /\ UNCHANGED <<life, csrs, hidden>>
  BY DEF AddNoc, RecordAddNoc
<1> HIDE DEF i, f
<1>8. /\ sessions' \in [Sessions -> Session \cup {None}]
      /\ \A t \in Sessions : HasCsr(t)' => t # s /\ HasCsr(t) /\ sessions'[t] = sessions[t]
  BY <1>1, <1>7, TakenEffect DEF HasCsr, IInv
<1>9. /\ fabrics \in [Indexes -> Fabric \cup {None}]
      /\ fabrics' \in [Indexes -> Fabric \cup {None}]
      /\ fabrics'[i] = f
      /\ \A j \in Indexes : j # i => fabrics'[j] = fabrics[j]
  BY <1>3, <1>7 DEF IInv, TInv
<1>10. failsafe' \in ArmedFailSafe /\ failsafe'.noc = i BY <1>3, <1>7 DEF ArmedFailSafe
<1>11. TInv' BY <1>4, <1>7, <1>8, <1>9, <1>10 DEF IInv, TInv
<1>12. StoreInv' BY <1>4, <1>7, <1>9 DEF IInv, StoreInv
<1>13. ArmInv'
  <2>1. adds = 0 BY <1>3, NoneAssumption DEF IInv, ArmInv
  <2> QED BY <1>3, <1>6, <1>7, <1>9, <1>10, <2>1, NoneAssumption DEF ArmInv, WholeOnDisk
<1>14. AckInv'
  <2> SUFFICES ASSUME NEW a \in acked'
               PROVE  /\ a.idx \in Indexes /\ a.fabric \in Fabric
                      /\ a.idx \notin hidden => fabrics'[a.idx] = a.fabric
    BY <1>7 DEF AckInv
  <2>1. CASE a = [idx |-> i, fabric |-> f] BY <1>3, <1>9, <2>1
  <2>2. CASE a \in acked /\ a.idx # i BY <1>9, <2>2 DEF IInv, AckInv
  <2> QED BY <1>7, <2>1, <2>2
<1>15. AclInv'
  <2>1. Entitled(acl, fabrics) /\ Entitled(aclFile, fabrics) BY DEF IInv, AclInv
  <2>2. Entitled(acl', fabrics') BY <1>3, <1>7, <1>9, <2>1, AdminEntitled
  <2>3. Entitled(aclFile, fabrics')
    <3>1. \A j \in Indexes \ hidden : fabrics[j] \in Fabric => fabrics'[j] = fabrics[j]
      BY <1>3, <1>9, NoneAssumption
    <3> QED BY <2>1, <3>1, EntitledSame
  <2>4. CASE aclFile' = aclFile BY <1>7, <2>2, <2>3, <2>4 DEF AclInv, Entitled
  <2>5. CASE aclFile' \in ListParts(acl')
    <3>1. PICK n \in 0 .. Len(acl') : aclFile' = SubSeq(acl', 1, n) BY <2>5 DEF ListParts
    <3>2. Entitled(aclFile', fabrics') BY <2>2, <3>1, EntitledPrefix
    <3> QED BY <1>7, <2>2, <3>2 DEF AclInv, Entitled
  <2> QED BY <1>7, <2>4, <2>5
<1>16. DistinctKeys(files)' BY <1>5, <1>7 DEF DistinctKeys
<1>17. SessionKeys' BY <1>5, <1>7, <1>8 DEF IInv, KeyInv, SessionKeys
<1>18. MemoryKeys' BY <1>4, <1>5, <1>9 DEF IInv, KeyInv, MemoryKeys
<1>19. PanicInv' BY <1>1, <1>7 DEF PanicInv
<1> QED BY <1>11, <1>12, <1>13, <1>14, <1>15, <1>16, <1>17, <1>18, <1>19 DEF IInv, KeyInv

(***************************************************************************)
(* Starts.                                                                 *)
(***************************************************************************)

\* Files and a list on which a start keeps the invariant.
Bootable(fls, list) ==
  /\ fls \in [Indexes -> [Names -> FileStates]]
  /\ \A i \in Indexes \ (hidden \cup spoilt) : Stored(Remembered(fls[i]), fls[i])
  /\ \A a \in acked : a.idx \notin hidden => Remembered(fls[a.idx]) = a.fabric
  /\ Entitled(list, [i \in Indexes |-> Remembered(fls[i])])
  /\ DistinctKeys(fls)

LEMMA BootStep ==
  ASSUME IInv, NEW fls, NEW list, Boot(fls, list), Bootable(fls, list)
  PROVE  IInv'
<1>1. PICK refused \in SUBSET Indexes :
        /\ fabrics' = [i \in Indexes |-> IF Loads(fls[i]) /\ i \notin refused
                                         THEN Loaded(fls[i]) ELSE None]
        /\ hidden' = hidden \cup refused
  BY DEF Boot
<1>2. /\ life' = IF \E i \in Indexes : LoadPanics(fls[i]) THEN "boot_panic" ELSE "up"
      /\ files' = fls /\ acl' = list /\ aclFile' = list /\ failsafe' = None
      /\ sessions' = [s \in Sessions |-> None] /\ adds' = 0 /\ csrs' = csrs /\ acked' = acked
      /\ spoilt' = spoilt
  BY DEF Boot
<1>3. fls \in [Indexes -> [Names -> FileStates]] BY DEF Bootable
<1>4. \A i \in Indexes :
        /\ fabrics'[i] \in Fabric \cup {None}
        /\ fabrics'[i] # None => HoldsKey(fls[i]) /\ fabrics'[i].key \in {CutKey, KeyOf(fls[i])}
        /\ i \notin refused => fabrics'[i] = Remembered(fls[i])
  <2> TAKE i \in Indexes
  <2>1. fls[i] \in [Names -> FileStates] BY <1>3
  <2>2. fabrics'[i] = IF Loads(fls[i]) /\ i \notin refused THEN Loaded(fls[i]) ELSE None BY <1>1
  <2> QED BY <2>1, <2>2, LoadedType DEF Remembered
<1>5. \A t \in Sessions : ~ HasCsr(t)' BY <1>2 DEF HasCsr
<1>6. TInv' BY <1>1, <1>2, <1>3, <1>4 DEF IInv, TInv
<1>7. StoreInv' BY <1>1, <1>2, <1>4 DEF Bootable, StoreInv
<1>8. ArmInv' BY <1>2 DEF ArmInv
<1>9. AckInv' BY <1>1, <1>2, <1>4 DEF Bootable, IInv, AckInv
<1>10. Entitled(list, fabrics)'
  <2>1. \A k \in DOMAIN list : list[k] \in AclEntries BY DEF Bootable, Entitled
  <2>2. \A k \in DOMAIN list : list[k].fab \in Indexes BY <2>1 DEF AclEntries
  <2> QED BY <1>1, <1>4, <2>2 DEF Bootable, Entitled
<1>11. AclInv' BY <1>2, <1>10 DEF AclInv
<1>12. KeyInv'
  <2>1. DistinctKeys(files)' BY <1>2 DEF Bootable, DistinctKeys
  <2>2. SessionKeys' BY <1>5 DEF SessionKeys
  <2>3. MemoryKeys' BY <1>2, <1>4 DEF MemoryKeys
  <2> QED BY <2>1, <2>2, <2>3 DEF KeyInv
<1>13. PanicInv'
  <2>1. ASSUME NEW i \in Indexes, LoadPanics(fls[i]) PROVE i \in hidden \cup spoilt
    BY <1>3, <2>1, StoredLoads DEF Bootable
  <2> QED BY <1>1, <1>2, <2>1 DEF PanicInv
<1> QED BY <1>6, <1>7, <1>8, <1>9, <1>11, <1>12, <1>13 DEF IInv

\* What is in memory is what a start would have there, where no start has hidden it, ...
LEMMA MemoryIsStored ==
  ASSUME IInv, NEW i \in Indexes \ hidden, fabrics[i] # None
  PROVE  fabrics[i] = Remembered(files[i])
BY DEF IInv, StoreInv

\* ... and nothing else is, where no write of a key has failed half-way.
LEMMA MemoryIsRemembered ==
  ASSUME IInv, NEW i \in Indexes \ (hidden \cup spoilt)
  PROVE  Stored(fabrics[i], files[i]) /\ fabrics[i] = Remembered(files[i])
<1>1. Stored(fabrics[i], files[i]) /\ files[i] \in [Names -> FileStates]
  BY DEF IInv, StoreInv, TInv
<1> QED BY <1>1, StoredLoads DEF Remembered

LEMMA RestartStep ==
  ASSUME IInv, Restart
  PROVE  IInv'
<1>1. \A a \in acked : a.idx \notin hidden => Remembered(files[a.idx]) = a.fabric
  BY MemoryIsStored, NoneAssumption DEF IInv, AckInv
<1>2. \A i \in Indexes \ (hidden \cup spoilt) : Stored(Remembered(files[i]), files[i])
  BY MemoryIsRemembered
<1>3. Entitled(aclFile, [i \in Indexes |-> Remembered(files[i])])
  <2>1. Entitled(aclFile, fabrics) BY DEF IInv, AclInv
  <2>2. \A i \in Indexes \ hidden :
          fabrics[i] \in Fabric => [j \in Indexes |-> Remembered(files[j])][i] = fabrics[i]
    BY MemoryIsStored, NoneAssumption
  <2> QED BY <2>1, <2>2, EntitledSame
<1>4. Bootable(files, aclFile) BY <1>1, <1>2, <1>3 DEF Bootable, IInv, TInv, KeyInv
<1> QED BY <1>4, BootStep DEF Restart

\* What an AddNOC that gets as far as its writes leaves to start on.
LEMMA AddedFilesBootable ==
  ASSUME IInv, NEW s \in Sessions, NEW r \in AddNocRequests, Receives(s),
         AddNocRefusal(s, r) = "none",
         NEW n \in 0 .. 6, NEW part \in {"old", "empty", "cut"},
         NEW fls, fls = AddedFiles(s, r, n, part),
         NEW list, Entitled(list, [i \in Indexes |-> Remembered(fls[i])])
  PROVE  Bootable(fls, list)
<1> DEFINE i == FirstFree
<1>1. i \in Indexes /\ fabrics[i] = None BY Addable DEF IInv
<1>2. /\ fls \in [Indexes -> [Names -> FileStates]]
      /\ \A j \in Indexes : j # i => fls[j] = files[j]
      /\ i \notin hidden \cup spoilt => Stored(Remembered(fls[i]), fls[i])
  BY AddedFilesStored
<1>3. DistinctKeys(fls) BY AddedFilesKeys
<1> HIDE DEF i
<1>4. \A j \in Indexes \ (hidden \cup spoilt) : Stored(Remembered(fls[j]), fls[j])
  BY <1>2, MemoryIsRemembered
<1>5. ASSUME NEW a \in acked, a.idx \notin hidden PROVE Remembered(fls[a.idx]) = a.fabric
  <2>1. a.idx \in Indexes \ hidden /\ a.fabric \in Fabric /\ fabrics[a.idx] = a.fabric
    BY <1>5 DEF IInv, AckInv
  <2>2. a.idx # i BY <1>1, <2>1, NoneAssumption
  <2> QED BY <1>2, <2>1, <2>2, MemoryIsStored, NoneAssumption
<1> QED BY <1>2, <1>3, <1>4, <1>5 DEF Bootable

LEMMA PowerLossInFabricStep ==
  ASSUME IInv, NEW s \in Sessions, NEW r \in AddNocRequests, PowerLossInFabric(s, r)
  PROVE  IInv'
<1>1. Receives(s) /\ AddNocRefusal(s, r) = "none" BY DEF PowerLossInFabric
<1>2. PICK n \in 0 .. 6, part \in {"old", "empty", "cut"} :
        Boot(AddedFiles(s, r, n, part), aclFile)
  <2>1. Len(FileNames) = 6 BY DEF FileNames
  <2> QED BY <2>1 DEF PowerLossInFabric, AddedFiles
<1> DEFINE fls == AddedFiles(s, r, n, part)
<1>3. FirstFree \in Indexes /\ fabrics[FirstFree] = None BY <1>1, Addable DEF IInv
<1>4. \A j \in Indexes : j # FirstFree => fls[j] = files[j] BY <1>1, AddedFilesStored
<1> HIDE DEF fls
<1>5. \A j \in Indexes \ hidden : fabrics[j] \in Fabric =>
        [k \in Indexes |-> Remembered(fls[k])][j] = fabrics[j]
  BY <1>3, <1>4, MemoryIsStored, NoneAssumption
<1>6. Entitled(aclFile, [k \in Indexes |-> Remembered(fls[k])])
  <2>1. Entitled(aclFile, fabrics) BY DEF IInv, AclInv
  <2> QED BY <1>5, <2>1, EntitledSame
<1>7. Bootable(fls, aclFile) BY <1>1, <1>6, AddedFilesBootable DEF fls
<1> QED BY <1>2, <1>7, BootStep DEF fls

LEMMA PowerLossInAclStep ==
  ASSUME IInv, NEW s \in Sessions, NEW r \in AddNocRequests, PowerLossInAcl(s, r)
  PROVE  IInv'
<1> DEFINE i == FirstFree
           f == NewFabric(s, r)
           list == WithAdmin(i, f)
           fls == AddedFiles(s, r, 6, "old")
<1>1. Receives(s) /\ AddNocRefusal(s, r) = "none" BY DEF PowerLossInAcl
<1>2. PICK n \in 0 .. Len(list) : Boot(fls, SubSeq(list, 1, n))
  <2>1. Len(FileNames) = 6 BY DEF FileNames
  <2> QED BY <2>1 DEF PowerLossInAcl, AddedFiles, ListParts
<1>3. i \in Indexes /\ fabrics[i] = None /\ f \in Fabric BY <1>1, Addable DEF IInv
<1>4. /\ \A j \in Indexes : j # i => fls[j] = files[j]
      /\ Remembered(fls[i]) = f
  BY <1>1, AddedFilesStored
<1> HIDE DEF i, f, fls
<1>5. fabrics \in [Indexes -> Fabric \cup {None}] BY DEF IInv, TInv
<1>6. Entitled(list, [fabrics EXCEPT ![i] = f])
  BY <1>3, <1>5, AdminEntitled DEF IInv, AclInv
<1> HIDE DEF list
<1>7. \A j \in Indexes \ hidden :
        [fabrics EXCEPT ![i] = f][j] \in Fabric =>
          [k \in Indexes |-> Remembered(fls[k])][j] = [fabrics EXCEPT ![i] = f][j]
  BY <1>3, <1>4, <1>5, MemoryIsStored, NoneAssumption
<1>8. Entitled(SubSeq(list, 1, n), [fabrics EXCEPT ![i] = f]) BY <1>2, <1>6, EntitledPrefix
<1>9. Entitled(SubSeq(list, 1, n), [k \in Indexes |-> Remembered(fls[k])])
  BY <1>7, <1>8, EntitledSame
<1>10. Bootable(fls, SubSeq(list, 1, n)) BY <1>1, <1>9, AddedFilesBootable DEF fls
<1> QED BY <1>2, <1>10, BootStep

(***************************************************************************)
(* The invariant.                                                          *)
(***************************************************************************)

LEMMA InitInv == Init => IInv
<1> SUFFICES ASSUME Init PROVE IInv
  OBVIOUS
<1>1. NoFiles \in [Names -> FileStates] BY DEF NoFiles, FileStates
<1>2. NoFiles["privkey"] = None BY NamesAre DEF NoFiles
<1>3. TInv BY <1>1, CommissioningAssumption DEF Init, TInv
<1>4. StoreInv BY <1>2 DEF Init, StoreInv, Stored, HasKey
<1>5. ArmInv /\ AckInv /\ PanicInv BY DEF Init, ArmInv, AckInv, PanicInv
<1>6. AclInv BY DEF Init, AclInv, Entitled
<1>7. KeyInv
  BY <1>2 DEF Init, KeyInv, DistinctKeys, SessionKeys, MemoryKeys, HasCsr, HoldsKey
<1> QED BY <1>3, <1>4, <1>5, <1>6, <1>7 DEF IInv

LEMMA NextInv == IInv /\ [Next]_vars => IInv'
<1> SUFFICES ASSUME IInv, [Next]_vars PROVE IInv'
  OBVIOUS
<1>1. CASE UNCHANGED vars BY <1>1, SessionStep DEF vars, HasCsr, IInv, TInv
<1>2. ASSUME NEW s \in Sessions, OpenPlain(s) \/ EstablishPase(s) PROVE IInv'
  BY <1>2, OpenPlainStep, EstablishPaseStep
<1>3. ASSUME NEW s \in Sessions, DropSession(s) PROVE IInv' BY <1>3, DropSessionStep
<1>4. ASSUME NEW s \in Sessions, NEW noc \in Nocs, EstablishCase(s, noc) PROVE IInv'
  BY <1>4, EstablishCaseStep
<1>5. ASSUME NEW s \in Sessions, Command(s) PROVE IInv'
  <2>1. CASE ArmFailSafe(s) BY <2>1, ArmFailSafeStep
  <2>2. CASE CommissioningComplete(s) BY <2>2, CommissioningCompleteStep
  <2>3. CASE CsrRequest(s) BY <2>3, CsrRequestStep
  <2>4. ASSUME NEW status, Inform(s, status) PROVE IInv' BY <2>4, InformStep
  <2>5. ASSUME NEW root \in Roots \cup {None}, AddTrustedRootCert(s, root) PROVE IInv'
    BY <2>5, AddTrustedRootCertStep
  <2>6. ASSUME NEW r \in AddNocRequests, AddNocRefused(s, r) PROVE IInv'
    BY <2>6, AddNocRefusedStep
  <2>7. ASSUME NEW r \in AddNocRequests, AddNocNotStored(s, r) PROVE IInv'
    BY <2>7, AddNocNotStoredStep
  <2>8. ASSUME NEW r \in AddNocRequests, AddNoc(s, r) PROVE IInv' BY <2>8, AddNocStep
  <2> QED BY <1>5, <2>1, <2>2, <2>3, <2>4, <2>5, <2>6, <2>7, <2>8
     DEF Command, GenCommCommand, NocCommand
<1>6. ASSUME NEW s \in Sessions, PowerLoss(s) PROVE IInv'
  BY <1>6, PowerLossInFabricStep, PowerLossInAclStep DEF PowerLoss
<1>7. CASE Restart BY <1>7, RestartStep
<1> QED BY <1>1, <1>2, <1>3, <1>4, <1>5, <1>6, <1>7 DEF Next

\* The invariant holds in every state that can be reached.
THEOREM AlwaysIInv == Spec => []IInv
BY InitInv, NextInv, PTL DEF Spec

(***************************************************************************)
(* Types: what TInv leaves out.                                            *)
(***************************************************************************)
WithinQuota(list) == \A i \in Indexes : Cardinality(EntriesOf(list, i)) <= ENTRIES_PER_FABRIC

\* A fabric in memory stays there until the device restarts, and no session does.
OnFabricInv ==
  \A s \in Sessions, i \in Indexes :
    sessions[s] # None /\ sessions[s].mode = Case(i) => fabrics[i] # None

LifeInv ==
  /\ life \in {"up", "panic", "boot_panic"} /\ window \in BOOLEAN /\ boots \in 0 .. MaxBoots
  /\ WithinQuota(acl) /\ WithinQuota(aclFile)

LEMMA EntriesFinite ==
  ASSUME NEW list \in Seq(AclEntries), NEW i
  PROVE  IsFiniteSet(EntriesOf(list, i)) /\ Cardinality(EntriesOf(list, i)) \in Nat
<1>1. Len(list) \in Nat /\ EntriesOf(list, i) \subseteq 1 .. Len(list) BY DEF EntriesOf
<1>2. IsFiniteSet(1 .. Len(list)) BY <1>1, FS_Interval
<1> QED BY <1>1, <1>2, FS_Subset, FS_CardinalityType

\* AclMgr::add counts the entries of the fabric, and adds none to those of others.
LEMMA AdminWithinQuota ==
  ASSUME acl \in Seq(AclEntries), WithinQuota(acl), NEW i \in Indexes, NEW f \in Fabric
  PROVE  WithinQuota(WithAdmin(i, f))
<1> DEFINE e == [fab |-> i, of |-> f]
           new == Append(acl, e)
<1>1. CASE WithAdmin(i, f) = acl BY <1>1
<1>2. CASE WithAdmin(i, f) = new /\ Cardinality(EntriesOf(acl, i)) < ENTRIES_PER_FABRIC
  <2>1. e \in AclEntries /\ e.fab = i BY DEF AclEntries
  <2> HIDE DEF e
  <2>2. /\ DOMAIN new = DOMAIN acl \cup {Len(acl) + 1} /\ new[Len(acl) + 1] = e
        /\ \A k \in DOMAIN acl : new[k] = acl[k] /\ k # Len(acl) + 1
    BY <2>1
  <2>3. EntriesOf(new, i) = EntriesOf(acl, i) \cup {Len(acl) + 1}
    BY <2>1, <2>2 DEF EntriesOf
  <2>4. \A j \in Indexes \ {i} : EntriesOf(new, j) = EntriesOf(acl, j)
    BY <2>1, <2>2 DEF EntriesOf
  <2>5. IsFiniteSet(EntriesOf(acl, i)) /\ Cardinality(EntriesOf(acl, i)) \in Nat
    BY EntriesFinite
  <2>6. Len(acl) + 1 \notin EntriesOf(acl, i) BY DEF EntriesOf
  <2>7. Cardinality(EntriesOf(new, i)) = Cardinality(EntriesOf(acl, i)) + 1
    BY <2>3, <2>5, <2>6, FS_AddElement
  <2>8. Cardinality(EntriesOf(new, i)) <= ENTRIES_PER_FABRIC
    BY <1>2, <2>5, <2>7, CommissioningAssumption
  <2> HIDE DEF new
  <2> QED BY <1>2, <2>4, <2>8 DEF WithinQuota
<1> QED BY <1>1, <1>2 DEF WithAdmin

LEMMA PrefixWithinQuota ==
  ASSUME NEW list \in Seq(AclEntries), WithinQuota(list), NEW n \in 0 .. Len(list)
  PROVE  WithinQuota(SubSeq(list, 1, n))
<1> DEFINE part == SubSeq(list, 1, n)
<1>1. /\ part \in Seq(AclEntries)
      /\ \A k \in DOMAIN part : k \in DOMAIN list /\ part[k] = list[k]
  OBVIOUS
<1> HIDE DEF part
<1> SUFFICES ASSUME NEW i \in Indexes
             PROVE  Cardinality(EntriesOf(part, i)) <= ENTRIES_PER_FABRIC
  BY DEF WithinQuota, part
<1>2. EntriesOf(part, i) \subseteq EntriesOf(list, i) BY <1>1 DEF EntriesOf
<1>3. /\ IsFiniteSet(EntriesOf(list, i)) /\ Cardinality(EntriesOf(list, i)) \in Nat
      /\ Cardinality(EntriesOf(part, i)) \in Nat
  BY <1>1, EntriesFinite
<1>4. Cardinality(EntriesOf(part, i)) <= Cardinality(EntriesOf(list, i))
  BY <1>2, <1>3, FS_Subset
<1>5. Cardinality(EntriesOf(list, i)) <= ENTRIES_PER_FABRIC BY DEF WithinQuota
<1> QED BY <1>3, <1>4, <1>5, CommissioningAssumption

(***************************************************************************)
(* The properties.                                                         *)
(***************************************************************************)

\* Memory and files agree on every fabric that no start has hidden, at whatever write
\* an AddNOC failed or lost power, unless what failed was the write of the key.
THEOREM MemoryIsAlwaysFile == Spec => []MemoryIsFile
<1>1. IInv => MemoryIsFile
  <2> SUFFICES ASSUME IInv, NEW i \in Visible
               PROVE  IF fabrics[i] = None THEN i \in spoilt \/ ~ Loads(files[i])
                      ELSE Loads(files[i]) /\ Loaded(files[i]) = fabrics[i]
    BY DEF MemoryIsFile
  <2>1. \/ i \in spoilt /\ fabrics[i] = None
        \/ fabrics[i] = Remembered(files[i])
    BY MemoryIsRemembered, MemoryIsStored DEF Visible
  <2>2. files[i] \in [Names -> FileStates] BY DEF IInv, TInv, Visible
  <2> QED BY <2>1, <2>2, LoadedType DEF Remembered
<1> QED BY <1>1, AlwaysIInv, PTL

\* A fabric that would be loaded is made of the files of one AddNOC, where no write of
\* a key has failed half-way.
THEOREM FabricsAreWhole == Spec => []WholeFabric
<1>1. IInv => WholeFabric
  <2> SUFFICES ASSUME IInv, NEW i \in Visible \ spoilt, Loads(files[i]),
                      NEW x \in Names, NEW y \in Names
               PROVE  files[i][x].of = files[i][y].of
    BY DEF WholeFabric
  <2>1. files[i] \in [Names -> FileStates] BY DEF IInv, TInv, Visible
  <2>2. Stored(fabrics[i], files[i]) BY MemoryIsRemembered DEF Visible
  <2> QED BY <2>1, <2>2, StoredLoads
<1> QED BY <1>1, AlwaysIInv, PTL

\* No failure but one of the write of a key leaves files on which the device panics at
\* its start.
THEOREM StartsAlways == Spec => []BootNeverPanics
<1>1. IInv => BootNeverPanics BY DEF IInv, PanicInv, BootNeverPanics
<1> QED BY <1>1, AlwaysIInv, PTL

\* A fabric that was answered Ok is never lost.
THEOREM AckedAlwaysSurvives == Spec => []AckedSurvives
<1>1. IInv => AckedSurvives BY DEF IInv, AckInv, AckedSurvives, Visible
<1> QED BY <1>1, AlwaysIInv, PTL

\* An administrator's entry stands for the fabric it was added for.
THEOREM AdminsStayOnTheirFabric == Spec => []AdminOfItsFabric
<1>1. IInv => AdminOfItsFabric
  BY DEF IInv, AclInv, Entitled, AdminOfItsFabric, Visible
<1> QED BY <1>1, AlwaysIInv, PTL

\* A key pair goes into one fabric, and no session keeps it.
THEOREM KeysAreUsedOnce == Spec => []KeyUsedOnce
<1>1. IInv => KeyUsedOnce
  <2> SUFFICES ASSUME IInv, NEW i \in Indexes, fabrics[i] # None, fabrics[i].key # CutKey
               PROVE  /\ \A j \in Indexes \ {i} :
                           fabrics[j] # None => fabrics[j].key # fabrics[i].key
                      /\ \A s \in Sessions : HasCsr(s) => sessions[s].data.key # fabrics[i].key
    BY DEF KeyUsedOnce, HasCsr
  <2>1. DistinctKeys(files) /\ SessionKeys /\ MemoryKeys BY DEF IInv, KeyInv
  <2>2. HoldsKey(files[i]) /\ fabrics[i].key = KeyOf(files[i]) BY <2>1 DEF MemoryKeys
  <2>3. \A s \in Sessions : HasCsr(s) => sessions[s].data.key # fabrics[i].key
    BY <2>1, <2>2 DEF SessionKeys
  <2>4. ASSUME NEW j \in Indexes \ {i}, fabrics[j] # None
        PROVE  fabrics[j].key # fabrics[i].key
    <3>1. HoldsKey(files[j]) /\ fabrics[j].key \in {CutKey, KeyOf(files[j])}
      BY <2>1, <2>4 DEF MemoryKeys
    <3>2. KeyOf(files[j]) # KeyOf(files[i]) BY <2>1, <2>2, <3>1 DEF DistinctKeys
    <3> QED BY <2>2, <3>1, <3>2
  <2> QED BY <2>3, <2>4
<1> QED BY <1>1, AlwaysIInv, PTL

\* One fabric is added at most for each time the fail-safe is armed.
THEOREM OneNocForEachArming == Spec => []OneNocPerArming
<1>1. IInv => OneNocPerArming BY DEF IInv, ArmInv, OneNocPerArming
<1> QED BY <1>1, AlwaysIInv, PTL

\* A fabric that is whole on disk loads as it is in memory.
LEMMA WholeOnDiskLoads ==
  ASSUME IInv, NEW i \in Indexes, WholeOnDisk(i)
  PROVE  /\ fabrics[i] # None /\ fabrics[i].key # CutKey
         /\ Loads(files[i]) /\ Loaded(files[i]) = fabrics[i]
<1> DEFINE f == fabrics[i]
           fs == files[i]
<1>1. f \in Fabric /\ f.key # CutKey BY DEF WholeOnDisk
<1>2. \A x \in {"rca", "ica", "noc", "ipk", "pbkey", "privkey"} : fs[x] = File(f, "whole")
  BY NamesAre DEF WholeOnDisk
<1>3. File(f, "whole") # None BY <1>1, NoneAssumption DEF File, FileState
<1>4. f # None BY <1>1, NoneAssumption
<1> HIDE DEF f, fs
<1>5. Loads(fs) BY <1>2, <1>3 DEF Loads, Whole, File
<1>6. Loaded(fs) = f BY <1>1, <1>2, <1>3 DEF Loaded, Whole, Fabric, File
<1> QED BY <1>1, <1>4, <1>5, <1>6 DEF f, fs

\* The restarts are counted.
LEMMA BootsCounted == Spec => [](boots \in Nat)
<1>1. Init => boots \in Nat BY DEF Init
<1>2. boots \in Nat /\ [Next]_vars => (boots \in Nat)'
  BY DEF Next, vars, OpenPlain, EstablishPase, DropSession, EstablishCase, Command, GenCommCommand,
         NocCommand, ArmFailSafe, CommissioningComplete, CsrRequest, Inform, AddTrustedRootCert, AddNocRefused,
         AddNocNotStored, AddNoc, PowerLoss, PowerLossInFabric, PowerLossInAcl, Restart, Boot
<1> QED BY <1>1, <1>2, PTL DEF Spec

\* The fail-safe is disarmed by a session on the fabric added under it, when that
\* fabric is stored whole.
THEOREM CompleteAlwaysMeansStored == Spec => CompleteMeansStored
<1> DEFINE i == failsafe.noc
           Disarmed == failsafe # None /\ failsafe' = None /\ boots' = boots
           Complete == /\ adds = 1
                       /\ \E s \in Sessions : sessions[s] # None /\ sessions[s].mode = Case(i)
                       /\ fabrics[i] # None /\ fabrics[i].key # CutKey
                       /\ Loads(files[i]) /\ Loaded(files[i]) = fabrics[i]
<1>1. ASSUME IInv, boots \in Nat, Next, Disarmed PROVE Complete
  <2>1. PICK s \in Sessions : CommissioningComplete(s)
    <3>1. ASSUME NEW fls, NEW list, Boot(fls, list) PROVE FALSE BY <1>1, <3>1 DEF Boot
    <3>2. ASSUME NEW s \in Sessions, NEW r \in AddNocRequests, AddNoc(s, r) PROVE FALSE
      <4>1. FirstFree \in Indexes /\ failsafe \in ArmedFailSafe
        BY <1>1, <3>2, Addable DEF AddNoc, IInv
      <4>2. failsafe' = [failsafe EXCEPT !.noc = FirstFree] BY <3>2 DEF AddNoc, RecordAddNoc
      <4>3. failsafe' \in ArmedFailSafe BY <4>1, <4>2 DEF ArmedFailSafe
      <4> QED BY <1>1, <4>3, NoneAssumption
    <3>3. ASSUME NEW s \in Sessions, Command(s)
          PROVE  CommissioningComplete(s)
      BY <1>1, <3>2, <3>3 DEF Command, GenCommCommand, NocCommand, ArmFailSafe, CsrRequest,
         Inform, AddTrustedRootCert, AddNocRefused, AddNocNotStored
    <3>4. ASSUME NEW s \in Sessions, PowerLoss(s) PROVE FALSE
      BY <3>1, <3>4 DEF PowerLoss, PowerLossInFabric, PowerLossInAcl
    <3>5. ~ Restart BY <3>1 DEF Restart
    <3> QED BY <1>1, <3>3, <3>4, <3>5 DEF Next, OpenPlain, EstablishPase, EstablishCase, DropSession
  <2>2. Disarms(sessions[s].mode) BY <1>1, <2>1 DEF CommissioningComplete
  <2>3. sessions[s] # None /\ sessions[s].mode = Case(i) /\ i # None
    BY <2>1, <2>2 DEF Disarms, CommissioningComplete, Receives
  <2>4. adds = 1 /\ WholeOnDisk(i) BY <1>1, <2>3 DEF IInv, ArmInv
  <2>5. i \in Indexes BY <1>1, <2>3 DEF IInv, TInv, ArmedFailSafe
  <2> HIDE DEF i
  <2> QED BY <1>1, <2>3, <2>4, <2>5, WholeOnDiskLoads
<1>2. IInv /\ boots \in Nat /\ [Next]_vars => [Disarmed => Complete]_vars BY <1>1
<1> QED BY <1>2, AlwaysIInv, BootsCounted, PTL DEF Spec, CompleteMeansStored

LEMMA NextLife == IInv /\ LifeInv /\ [Next]_vars => LifeInv'
<1> SUFFICES ASSUME IInv, LifeInv, [Next]_vars PROVE LifeInv'
  OBVIOUS
<1>1. acl \in Seq(AclEntries) /\ aclFile \in Seq(AclEntries) BY DEF IInv, AclInv, Entitled
<1>2. ASSUME UNCHANGED <<acl, aclFile, boots>>, life' \in {life, "panic"},
             window' \in {window, FALSE}
      PROVE  LifeInv'
  BY <1>2 DEF LifeInv, WithinQuota
<1>3. ASSUME NEW fls, NEW list, Boot(fls, list), WithinQuota(list) PROVE LifeInv'
  <2>1. life' \in {"up", "boot_panic"} /\ acl' = list /\ aclFile' = list BY <1>3 DEF Boot
  <2>2. window' \in BOOLEAN BY <1>3 DEF Boot, IsEmpty
  <2>3. boots' \in 0 .. MaxBoots
    BY <1>3, CommissioningAssumption DEF Boot, LifeInv
  <2> QED BY <1>3, <2>1, <2>2, <2>3 DEF LifeInv, WithinQuota
<1>4. CASE UNCHANGED vars BY <1>2, <1>4 DEF vars
<1>5. ASSUME NEW s \in Sessions, OpenPlain(s) \/ EstablishPase(s) PROVE LifeInv'
  BY <1>2, <1>5 DEF OpenPlain, EstablishPase
<1>6. ASSUME NEW s \in Sessions, DropSession(s) PROVE LifeInv' BY <1>2, <1>6 DEF DropSession
<1>7. ASSUME NEW s \in Sessions, NEW noc \in Nocs, EstablishCase(s, noc) PROVE LifeInv'
  BY <1>2, <1>7 DEF EstablishCase
<1>8. ASSUME NEW s \in Sessions, Command(s) PROVE LifeInv'
  <2>1. CASE GenCommCommand(s)
    BY <1>2, <2>1 DEF GenCommCommand, ArmFailSafe, CommissioningComplete
  <2>2. CASE CsrRequest(s) BY <1>2, <2>2 DEF CsrRequest
  <2>3. ASSUME NEW status, Inform(s, status) PROVE LifeInv' BY <1>2, <2>3 DEF Inform
  <2>4. ASSUME NEW root \in Roots \cup {None}, AddTrustedRootCert(s, root) PROVE LifeInv'
    BY <1>2, <2>4 DEF AddTrustedRootCert
  <2>5. ASSUME NEW r \in AddNocRequests, AddNocRefused(s, r) PROVE LifeInv'
    BY <1>2, <2>5 DEF AddNocRefused
  <2>6. ASSUME NEW r \in AddNocRequests, AddNocNotStored(s, r) PROVE LifeInv'
    BY <1>2, <2>6 DEF AddNocNotStored
  <2>7. ASSUME NEW r \in AddNocRequests, AddNoc(s, r) PROVE LifeInv'
    <3>1. AddNocRefusal(s, r) = "none" /\ Receives(s) BY <2>7 DEF AddNoc
    <3>2. FirstFree \in Indexes /\ NewFabric(s, r) \in Fabric BY <3>1, Addable DEF IInv
    <3>3. WithinQuota(WithAdmin(FirstFree, NewFabric(s, r)))
      BY <1>1, <3>2, AdminWithinQuota DEF LifeInv
    <3>4. /\ acl' = WithAdmin(FirstFree, NewFabric(s, r))
          /\ aclFile' \in {aclFile} \cup ListParts(acl')
          /\ UNCHANGED <<life, window, boots>>
      BY <2>7 DEF AddNoc
    <3>5. acl' \in Seq(AclEntries) BY <2>7, AddNocStep DEF IInv, AclInv, Entitled
    <3>6. WithinQuota(aclFile') BY <3>3, <3>4, <3>5, PrefixWithinQuota DEF LifeInv, ListParts
    <3> QED BY <3>3, <3>4, <3>6 DEF LifeInv, WithinQuota
  <2> QED BY <1>8, <2>1, <2>2, <2>3, <2>4, <2>5, <2>6, <2>7 DEF Command, NocCommand
<1>9. ASSUME NEW s \in Sessions, NEW r \in AddNocRequests, PowerLossInFabric(s, r)
      PROVE  LifeInv'
  BY <1>3, <1>9 DEF PowerLossInFabric, LifeInv
<1>10. ASSUME NEW s \in Sessions, NEW r \in AddNocRequests, PowerLossInAcl(s, r)
       PROVE  LifeInv'
  <2> DEFINE list == WithAdmin(FirstFree, NewFabric(s, r))
  <2>1. AddNocRefusal(s, r) = "none" /\ Receives(s) BY <1>10 DEF PowerLossInAcl
  <2>2. FirstFree \in Indexes /\ NewFabric(s, r) \in Fabric /\ fabrics[FirstFree] = None
    BY <2>1, Addable DEF IInv
  <2>3. fabrics \in [Indexes -> Fabric \cup {None}] BY DEF IInv, TInv
  <2>4. list \in Seq(AclEntries) BY <2>2, <2>3, AdminEntitled DEF IInv, AclInv, Entitled
  <2>5. WithinQuota(list) BY <1>1, <2>2, AdminWithinQuota DEF LifeInv
  <2> DEFINE fls == [files EXCEPT ![FirstFree] =
                       Written(@, NewFabric(s, r), Len(FileNames), "old")]
  <2>6. PICK n \in 0 .. Len(list) : Boot(fls, SubSeq(list, 1, n))
    BY <1>10 DEF PowerLossInAcl, ListParts
  <2> HIDE DEF fls
  <2> QED BY <1>3, <2>4, <2>5, <2>6, PrefixWithinQuota
<1>11. CASE Restart BY <1>3, <1>11 DEF Restart, LifeInv
<1> QED BY <1>4, <1>5, <1>6, <1>7, <1>8, <1>9, <1>10, <1>11 DEF Next, PowerLoss

LEMMA NextOnFabric == IInv /\ OnFabricInv /\ [Next]_vars => OnFabricInv'
<1> SUFFICES ASSUME IInv, OnFabricInv, [Next]_vars PROVE OnFabricInv'
  OBVIOUS
<1>1. sessions \in [Sessions -> Session \cup {None}] BY DEF IInv, TInv
<1>2. ASSUME \A i \in Indexes : fabrics[i] # None => fabrics'[i] # None,
             \A t \in Sessions : sessions'[t] # None =>
               \/ sessions[t] # None /\ sessions'[t].mode = sessions[t].mode
               \/ sessions'[t].mode \in {Plain, Pase}
               \/ \E i \in Indexes : sessions'[t].mode = Case(i) /\ fabrics'[i] # None
      PROVE  OnFabricInv'
  <2> SUFFICES ASSUME NEW t \in Sessions, NEW i \in Indexes,
                      sessions'[t] # None, sessions'[t].mode = Case(i)
               PROVE  fabrics'[i] # None
    BY DEF OnFabricInv
  <2>1. Case(i) \notin {Plain, Pase} /\ \A j \in Indexes : Case(j) = Case(i) => j = i
    BY DEF Case, Plain, Pase
  <2>2. CASE sessions[t] # None /\ sessions'[t].mode = sessions[t].mode
    <3>1. fabrics[i] # None BY <2>2 DEF OnFabricInv
    <3> QED BY <1>2, <3>1
  <2>3. CASE sessions'[t].mode \in {Plain, Pase} BY <2>1, <2>3
  <2>4. CASE \E j \in Indexes : sessions'[t].mode = Case(j) /\ fabrics'[j] # None BY <2>1, <2>4
  <2> QED BY <1>2, <2>2, <2>3, <2>4
<1>3. ASSUME NEW fls, NEW list, Boot(fls, list) PROVE OnFabricInv'
  BY <1>3 DEF Boot, OnFabricInv
<1>4. CASE UNCHANGED vars BY <1>4 DEF vars, OnFabricInv
<1>5. ASSUME NEW s \in Sessions, OpenPlain(s) \/ EstablishPase(s) PROVE OnFabricInv'
  BY <1>1, <1>2, <1>5 DEF OpenPlain, EstablishPase, NewSession
<1>6. ASSUME NEW s \in Sessions, DropSession(s) PROVE OnFabricInv'
  BY <1>1, <1>2, <1>6 DEF DropSession
<1>7. ASSUME NEW s \in Sessions, NEW noc \in Nocs, EstablishCase(s, noc) PROVE OnFabricInv'
  <2>1. Matching(noc) \subseteq Indexes /\ Matching(noc) # {} BY <1>7 DEF Matching, EstablishCase
  <2>2. \E i \in Matching(noc) : \A j \in Matching(noc) : i <= j BY <2>1, LeastIndex
  <2>3. DestFabric(noc) \in Matching(noc) BY <2>2 DEF DestFabric
  <2>4. DestFabric(noc) \in Indexes /\ fabrics[DestFabric(noc)] # None BY <2>3 DEF Matching
  <2> QED BY <1>1, <1>2, <1>7, <2>4 DEF EstablishCase, NewSession
<1>8. ASSUME NEW s \in Sessions, sessions[s] # None, sessions' = Taken(s),
             \A i \in Indexes : fabrics[i] # None => fabrics'[i] # None
      PROVE  OnFabricInv'
  <2>1. Taken(s)[s].mode = sessions[s].mode BY <1>1, <1>8 DEF Taken, Session
  <2>2. \A t \in Sessions : t # s => Taken(s)[t] = sessions[t] BY <1>1 DEF Taken
  <2> QED BY <1>2, <1>8, <2>1, <2>2
<1>9. ASSUME NEW s \in Sessions, Command(s) PROVE OnFabricInv'
  <2>1. CASE GenCommCommand(s)
    BY <1>2, <2>1 DEF GenCommCommand, ArmFailSafe, CommissioningComplete
  <2>2. CASE CsrRequest(s)
    <3>1. CASE sessions' = sessions BY <1>2, <2>2, <3>1 DEF CsrRequest
    <3>2. CASE sessions' # sessions
      <4>1. /\ sessions' = [sessions EXCEPT ![s].data = [key |-> csrs + 1, root |-> None]]
            /\ sessions[s] # None /\ fabrics' = fabrics
        BY <2>2, <3>2 DEF CsrRequest, Receives
      <4>2. sessions'[s].mode = sessions[s].mode BY <1>1, <4>1 DEF Session
      <4>3. \A t \in Sessions : t # s => sessions'[t] = sessions[t] BY <1>1, <4>1
      <4> QED BY <1>2, <4>1, <4>2, <4>3
    <3> QED BY <3>1, <3>2
  <2>3. ASSUME NEW status, Inform(s, status) PROVE OnFabricInv' BY <1>2, <2>3 DEF Inform
  <2>4. ASSUME NEW root \in Roots \cup {None}, AddTrustedRootCert(s, root) PROVE OnFabricInv'
    <3>1. CASE sessions' = sessions BY <1>2, <2>4, <3>1 DEF AddTrustedRootCert
    <3>2. CASE sessions' # sessions
      <4>1. /\ sessions' = [sessions EXCEPT ![s].data.root = root]
            /\ sessions[s] # None /\ fabrics' = fabrics
        BY <2>4, <3>2 DEF AddTrustedRootCert, Receives
      <4>2. sessions' = [sessions EXCEPT ![s] = [sessions[s] EXCEPT !.data.root = root]]
        BY <4>1
      <4>3. sessions'[s].mode = sessions[s].mode BY <1>1, <4>1, <4>2 DEF Session
      <4>4. \A t \in Sessions : t # s => sessions'[t] = sessions[t] BY <1>1, <4>2
      <4> QED BY <1>2, <4>1, <4>3, <4>4
    <3> QED BY <3>1, <3>2
  <2>5. ASSUME NEW r \in AddNocRequests, AddNocRefused(s, r) PROVE OnFabricInv'
    BY <1>8, <2>5 DEF AddNocRefused, Receives
  <2>6. ASSUME NEW r \in AddNocRequests, AddNocNotStored(s, r) PROVE OnFabricInv'
    BY <1>8, <2>6 DEF AddNocNotStored, Receives
  <2>7. ASSUME NEW r \in AddNocRequests, AddNoc(s, r) PROVE OnFabricInv'
    <3>1. AddNocRefusal(s, r) = "none" /\ Receives(s) BY <2>7 DEF AddNoc
    <3>2. FirstFree \in Indexes /\ NewFabric(s, r) \in Fabric BY <3>1, Addable DEF IInv
    <3>3. fabrics' = [fabrics EXCEPT ![FirstFree] = NewFabric(s, r)] BY <2>7 DEF AddNoc
    <3>4. \A i \in Indexes : fabrics[i] # None => fabrics'[i] # None
      BY <3>2, <3>3, NoneAssumption DEF IInv, TInv
    <3> QED BY <1>8, <2>7, <3>4 DEF AddNoc, Receives
  <2> QED BY <1>9, <2>1, <2>2, <2>3, <2>4, <2>5, <2>6, <2>7 DEF Command, NocCommand
<1>10. ASSUME NEW s \in Sessions, PowerLoss(s) PROVE OnFabricInv'
  BY <1>3, <1>10 DEF PowerLoss, PowerLossInFabric, PowerLossInAcl
<1>11. CASE Restart BY <1>3, <1>11 DEF Restart
<1> QED BY <1>4, <1>5, <1>6, <1>7, <1>9, <1>10, <1>11 DEF Next

\* Commissioning keeps its types: among them, a session over CASE and the fail-safe know
\* of no fabric that is not in memory, and no fabric gets more entries of the access
\* control list than ENTRIES_PER_FABRIC.
THEOREM CMTypeCorrect == Spec => []CMTypeOK
<1>1. IInv /\ LifeInv /\ OnFabricInv => CMTypeOK
  <2> SUFFICES ASSUME IInv, LifeInv, OnFabricInv PROVE CMTypeOK
    OBVIOUS
  <2>1. IsAcl(acl) /\ IsAcl(aclFile)
    <3>1. acl \in Seq(AclEntries) /\ aclFile \in Seq(AclEntries)
      BY DEF IInv, AclInv, Entitled
    <3>2. /\ \A k \in DOMAIN acl : acl[k] \in AclEntries
          /\ \A k \in DOMAIN aclFile : aclFile[k] \in AclEntries
      BY <3>1
    <3> QED BY <3>2 DEF LifeInv, WithinQuota, IsAcl, AclEntries
  <2>2. ASSUME failsafe # None
        PROVE  /\ failsafe.mode \in Modes
               /\ failsafe.noc # None => failsafe.noc \in Indexes /\ fabrics[failsafe.noc] # None
    <3>1. failsafe \in ArmedFailSafe BY <2>2 DEF IInv, TInv
    <3>2. failsafe.noc # None => fabrics[failsafe.noc] \in Fabric
      BY <2>2 DEF IInv, ArmInv, WholeOnDisk
    <3> QED BY <3>1, <3>2, NoneAssumption DEF ArmedFailSafe
  <2>3. ASSUME NEW s \in Sessions, sessions[s] # None
        PROVE  /\ \/ sessions[s].mode \in {Plain, Pase}
                  \/ \E i \in Indexes : sessions[s].mode = Case(i) /\ fabrics[i] # None
               /\ sessions[s].data # None =>
                    /\ sessions[s].data.key \in 1 .. csrs
                    /\ sessions[s].data.root \in Roots \cup {None}
    <3>1. sessions[s] \in Session BY <2>3 DEF IInv, TInv
    <3>2. \/ sessions[s].mode \in {Plain, Pase}
          \/ \E i \in Indexes : sessions[s].mode = Case(i) /\ fabrics[i] # None
      BY <2>3, <3>1 DEF Session, Modes, OnFabricInv
    <3>3. sessions[s].data # None => sessions[s].data.root \in Roots \cup {None}
      BY <3>1 DEF Session, SessionData
    <3>4. sessions[s].data # None => sessions[s].data.key \in 1 .. csrs
      BY <2>3 DEF IInv, KeyInv, SessionKeys, HasCsr
    <3> QED BY <3>2, <3>3, <3>4
  <2> QED BY <2>1, <2>2, <2>3 DEF CMTypeOK, IInv, TInv, LifeInv
<1>2. Init => LifeInv /\ OnFabricInv
  <2> SUFFICES ASSUME Init PROVE LifeInv /\ OnFabricInv
    OBVIOUS
  <2>1. \A i \in Indexes : EntriesOf(<< >>, i) = {}
    <3>1. << >> \in Seq(AclEntries) /\ Len(<< >>) = 0 OBVIOUS
    <3>2. DOMAIN << >> = 1 .. 0 BY <3>1
    <3> QED BY <3>2 DEF EntriesOf
  <2>2. WithinQuota(<< >>)
    <3>1. Cardinality({}) = 0 /\ 0 <= ENTRIES_PER_FABRIC
      BY FS_EmptySet, CommissioningAssumption
    <3> QED BY <2>1, <3>1 DEF WithinQuota
  <2> QED BY <2>2, CommissioningAssumption DEF Init, LifeInv, OnFabricInv
<1> QED BY <1>1, <1>2, AlwaysIInv, InitInv, NextInv, NextLife, NextOnFabric, PTL DEF Spec
=============================================================================
