---------------------------- MODULE FabricLists ----------------------------
(***************************************************************************)
(* What the access control list promises to the administrators of the      *)
(* device: each fabric (an owner) has a list of its own and a saved copy   *)
(* of it.  A write changes the list of its owner by one operation and no   *)
(* other.  All lists are saved together after it; when that fails, what is *)
(* saved stays as it was or is the new lists without their ends.  A start  *)
(* brings back what was saved; a power loss in the middle of a write loses *)
(* only the ends of lists.  How the lists share one table of slots and one *)
(* file is left to DataModel, which implements this specification.         *)
(***************************************************************************)
EXTENDS Naturals, SequencesExt

CONSTANTS
  Owners,      (* who has a list                                           *)
  Quota,       (* the greatest length of a list                            *)
  StoredAs     (* what each privilege is after it was saved                *)

VARIABLES
  lists,       (* the list of each owner                                   *)
  saved        (* the list of each owner after a start                     *)

lvars == <<lists, saved>>

AsStored(l) == [k \in DOMAIN l |-> [l[k] EXCEPT !.privilege = StoredAs[@]]]
AllStored   == [o \in Owners |-> AsStored(lists[o])]

\* What one operation can make of a list, with entries of E.
Changed(l, E) ==
  {<< >>}
    \cup {RemoveAt(l, i)     : i \in 1 .. Len(l)}
    \cup {ReplaceAt(l, i, e) : i \in 1 .. Len(l), e \in E}
    \cup {InsertAt(l, i, e)  : i \in 1 .. Len(l) + 1, e \in E}

LInit ==
  /\ DOMAIN lists = Owners /\ \A o \in Owners : Len(lists[o]) <= Quota
  /\ saved = AllStored

\* An operation on the list of owner o.
Operation(o) ==
  /\ lists' = [lists EXCEPT ![o] = lists'[o]]
  /\ Len(lists'[o]) <= Quota
  /\ lists'[o] \in Changed(lists[o], ToSet(lists'[o]))

\* After it all lists are saved, ...
Change(o) == saved' = AllStored' /\ Operation(o)

\* ... or the save fails: it has changed nothing, or stops anywhere.
UnsavedChange(o) ==
  /\ \/ saved' = saved
     \/ DOMAIN saved' = Owners /\ \A p \in Owners : IsPrefix(saved'[p], AsStored(lists'[p]))
  /\ Operation(o)

Start ==
  /\ UNCHANGED saved
  /\ lists' = saved

\* The power goes while the lists are saved after an operation on that of owner o:
\* every list is left without some of its last entries, which may include the change.
Crash(o) ==
  /\ saved' = lists'
  /\ DOMAIN lists' = Owners
  /\ \A p \in Owners \ {o} : IsPrefix(lists'[p], AsStored(lists[p]))
  /\ Len(lists'[o]) <= Quota
  /\ LET old == AsStored(lists[o]) IN
       \E l \in Changed(old, ToSet(lists'[o])) \cup {old} : IsPrefix(lists'[o], l)

LNext ==
  /\ lvars' # lvars      \* spares TLC the rest of it in the many steps of requests only
  /\ Start \/ \E o \in Owners : Change(o) \/ UnsavedChange(o) \/ Crash(o)

LSpec == LInit /\ [][LNext]_lvars
=============================================================================
