------------------------------ MODULE AclTable ------------------------------
(***************************************************************************)
(* The access control list of acl.rs as data: what an entry says, whom it  *)
(* lets do what, the operations on the table of entries, and the image of  *)
(* it that is stored.  DataModel and Commissioning keep a table each.      *)
(*                                                                         *)
(* A table is a function from the occupied slots to entries.  An image is  *)
(* a table whose slots are 1 .. n: loading it is the identity.             *)
(***************************************************************************)
EXTENDS Naturals, FiniteSets, Sequences

CONSTANTS
  MAX_SUPPORTED_FABRICS,   (* fabric.rs: 3, index 0 included                *)
  ENTRIES_PER_FABRIC,      (* acl.rs: 3                                     *)
  SUBJECTS_PER_ENTRY,      (* acl.rs: 4                                     *)
  TARGETS_PER_ENTRY,       (* acl.rs: 3                                     *)
  ACL_KV_MAX_SIZE,         (* acl.rs: 300 bytes; here in units of Cost      *)
  Ids,                     (* node ids of peers and subjects                *)
  Places,                  (* endpoints and clusters a target can name      *)
  None                      (* Option::None: a wildcard, or nothing given    *)

ASSUME AclAssumption ==
  /\ MAX_SUPPORTED_FABRICS \in Nat \ {0} /\ ENTRIES_PER_FABRIC \in Nat \ {0}
  /\ SUBJECTS_PER_ENTRY \in Nat /\ TARGETS_PER_ENTRY \in Nat /\ ACL_KV_MAX_SIZE \in Nat
  /\ None \notin Places

Fabrics == 0 .. MAX_SUPPORTED_FABRICS - 1      \* 0: a session that is on no fabric

\* What a torn file makes of the last field of an entry: fab_idx is None.
NoFabric == MAX_SUPPORTED_FABRICS

Slots == 1 .. ENTRIES_PER_FABRIC * MAX_SUPPORTED_FABRICS

(***************************************************************************)
(* Privileges are sets of the four bits V, O, M, A.                        *)
(***************************************************************************)
VIEW    == {"V"}
OPERATE == {"V", "O"}
MANAGE  == {"V", "O", "M"}
ADMIN   == {"V", "O", "M", "A"}

\* FromTLV: the values 1, 3, 4 and 5; ProxyView (2) is refused.
PrivilegeFromTlv == [v \in {1, 3, 4, 5} |->
  CASE v = 1 -> VIEW [] v = 3 -> OPERATE [] v = 4 -> MANAGE [] OTHER -> ADMIN]

PrivilegeToTlvBug(p) ==    \* the weakest privilege is looked for first
  IF VIEW \subseteq p THEN 1 ELSE 5

\* ToTLV looks for ADMIN, OPERATE, MANAGE, VIEW in this order, so that Manage is
\* never written as 3, and Operate is written as 4.
PrivilegeToTlv(p) ==
  IF ADMIN \subseteq p THEN 5 ELSE IF OPERATE \subseteq p THEN 4 ELSE 1

\* What a privilege comes back as.
StoredPrivilege == [p \in {VIEW, OPERATE, MANAGE, ADMIN} |-> PrivilegeFromTlv[PrivilegeToTlv(p)]]

Target == [endpoint : Places \cup {None}, cluster : Places \cup {None}]

Entry == [privilege : {VIEW, OPERATE, MANAGE, ADMIN},
          auth_mode : {"Pase", "Case", "Group"},
          subjects  : {s \in Seq(Ids) : Len(s) <= SUBJECTS_PER_ENTRY},
          targets   : {s \in Seq(Target) : Len(s) <= TARGETS_PER_ENTRY},
          fab       : Fabrics \cup {NoFabric}]

ClippedBug(s, n) == s          \* all of them are kept

\* [T; N]::from_tlv: the elements that do not fit are dropped.
Clipped(s, n) == IF Len(s) > n THEN SubSeq(s, 1, n) ELSE s

\* An entry as it arrives: privilege and auth_mode are numbers, the lists are of
\* any length, and what it says of the fabric is not used.
Decodable(w) == w.privilege \in {1, 3, 4, 5} /\ w.auth_mode \in {"Pase", "Case", "Group"}

DecodedFor(w, fab) ==
  [privilege |-> PrivilegeFromTlv[w.privilege],
   auth_mode |-> w.auth_mode,
   subjects  |-> Clipped(w.subjects, SUBJECTS_PER_ENTRY),
   targets   |-> Clipped(w.targets, TARGETS_PER_ENTRY),
   fab       |-> fab]

(***************************************************************************)
(* Who may do what.  An accessor has a mode, a fabric and an id; an access *)
(* says what operations an attribute has and what privileges they need.    *)
(***************************************************************************)
Elements(s) == {s[k] : k \in DOMAIN s}

MatchAccessor(e, acc) ==
  /\ e.auth_mode = acc.mode
  /\ e.subjects = << >> \/ acc.id \in Elements(e.subjects)
  /\ e.fab = acc.fab

\* Access::is_ok.
IsOk(access, op, privilege) ==
  LET required == IF op = "read" THEN access.need ELSE access.need \ {"V"}
  IN privilege \cap required # {} /\ op \in access.ops

MatchAccessDesc(e, path, access, op) ==
  /\ \/ e.targets = << >>
     \/ \E t \in Elements(e.targets) :
          t.endpoint \in {None, path.endpoint} /\ t.cluster \in {None, path.cluster}
  /\ IsOk(access, op, e.privilege)

AllowBug(tbl, acc, path, access, op) ==      \* every authenticated peer is let in
  acc.mode # "Invalid"

Allow(tbl, acc, path, access, op) ==
  \/ acc.mode = "Pase"
  \/ \E s \in DOMAIN tbl : /\ MatchAccessor(tbl[s], acc)
                           /\ MatchAccessDesc(tbl[s], path, access, op)

(***************************************************************************)
(* The operations on the table.                                            *)
(***************************************************************************)
FabricSlots(tbl, f) == {s \in DOMAIN tbl : tbl[s].fab = f}
FreeSlots(tbl)      == Slots \ DOMAIN tbl

IsTable(tbl) == DOMAIN tbl \subseteq Slots /\ tbl \in [DOMAIN tbl -> Entry]

WithinQuota(tbl) ==
  \A f \in Fabrics : Cardinality(FabricSlots(tbl, f)) <= ENTRIES_PER_FABRIC

CanAddBug(tbl, f) ==       \* one too many
  Cardinality(FabricSlots(tbl, f)) <= ENTRIES_PER_FABRIC /\ FreeSlots(tbl) # {}

CanAdd(tbl, f) ==
  Cardinality(FabricSlots(tbl, f)) < ENTRIES_PER_FABRIC /\ FreeSlots(tbl) # {}

FirstFree(tbl) == CHOOSE s \in FreeSlots(tbl) : \A r \in FreeSlots(tbl) : s <= r

AddedBug(tbl, e) ==        \* as if the occupied slots had no gaps
  LET next == Cardinality(DOMAIN tbl) + 1
  IN [s \in DOMAIN tbl \cup {next} |-> IF s = next THEN e ELSE tbl[s]]

Added(tbl, e) ==
  [s \in DOMAIN tbl \cup {FirstFree(tbl)} |-> IF s \in DOMAIN tbl THEN tbl[s] ELSE e]

NthSlotBug(tbl, f, i) ==   \* the entries of the other fabrics are counted too
  {s \in DOMAIN tbl : Cardinality({r \in DOMAIN tbl : r < s}) = i}

\* for_index_in_fabric: the slot of entry i (from 0) of fabric f, if there is one.
NthSlot(tbl, f, i) ==
  {s \in FabricSlots(tbl, f) : Cardinality({r \in FabricSlots(tbl, f) : r < s}) = i}

Without(tbl, S) == [s \in DOMAIN tbl \ S |-> tbl[s]]

Replaced(tbl, S, e) == [s \in DOMAIN tbl |-> IF s \in S THEN e ELSE tbl[s]]

(***************************************************************************)
(* Storing and loading.                                                    *)
(***************************************************************************)
\* An empty slot writes nothing: on loading the entries move to the first slots.
RankOf(tbl, s) == Cardinality({r \in DOMAIN tbl : r <= s})

Image(tbl) ==
  [k \in 1 .. Cardinality(DOMAIN tbl) |->
     LET e == tbl[CHOOSE s \in DOMAIN tbl : RankOf(tbl, s) = k]
     IN [e EXCEPT !.privilege = PrivilegeFromTlv[PrivilegeToTlv(@)]]]

\* The size of what is written, a unit for an entry and one for each subject and
\* each target of it.
Cost(tbl) ==
  LET upto[s \in 0 .. Cardinality(Slots)] ==
        IF s = 0 THEN 0
        ELSE upto[s - 1] + (IF s \notin DOMAIN tbl THEN 0
                            ELSE 1 + Len(tbl[s].subjects) + Len(tbl[s].targets))
  IN upto[Cardinality(Slots)]

Fits(tbl) == Cost(tbl) <= ACL_KV_MAX_SIZE

\* What a power loss during the write can leave of an image: no entry or the first
\* k, and perhaps one more that is cut before its last field, the fabric index.
Torn(img) ==
  LET n == Cardinality(DOMAIN img) IN
    {[s \in 1 .. k |-> img[s]] : k \in 0 .. n}
      \cup {[s \in 1 .. k |-> IF s < k THEN img[s] ELSE [img[s] EXCEPT !.fab = NoFabric]]
            : k \in 1 .. n}

\* The list of fabric f, as a fabric-filtered read shows it.
FabricList(tbl, f) ==
  [k \in 1 .. Cardinality(FabricSlots(tbl, f)) |->
     tbl[CHOOSE s \in NthSlot(tbl, f, k - 1) : TRUE]]
=============================================================================
