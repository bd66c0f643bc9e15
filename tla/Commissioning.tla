--------------------------- MODULE Commissioning ---------------------------
(***************************************************************************)
(* How the device joins fabrics: the general commissioning and node        *)
(* operational credentials clusters (data_model/sdm), the fail-safe, the   *)
(* fabric table of fabric.rs with its six files for each fabric, and the   *)
(* administrator's entry in the access control list, over power losses,    *)
(* writes that fail and restarts.                                          *)
(*                                                                         *)
(* A command is one step.  AddNOC makes up to seven writes: a power loss   *)
(* in the middle of them is an action of its own, which starts the device  *)
(* again on what was written.  Fabric indexes start from 1; index 0 is the *)
(* dummy fabric of PASE sessions.                                          *)
(***************************************************************************)
EXTENDS Naturals, FiniteSets, SequencesExt

CONSTANTS
  MAX_SUPPORTED_FABRICS, (* fabric.rs: 3, index 0 included                  *)
  ENTRIES_PER_FABRIC,    (* acl.rs: 3                                       *)
  Sessions,              (* slots of the session table                      *)
  Roots,                 (* root certificates; one fabric for each          *)
  AddNocRequests,        (* what AddNOC carries: [form, root, node]         *)
  PublishFails,          (* whether mDNS may refuse to publish a fabric     *)
  MaxCsr,                (* bound on the key pairs made                     *)
  MaxBoots,              (* bound on the restarts                           *)
  None

Indexes  == 1 .. MAX_SUPPORTED_FABRICS - 1
AclSlots == ENTRIES_PER_FABRIC * MAX_SUPPORTED_FABRICS

ASSUME CommissioningAssumption ==
  /\ MAX_SUPPORTED_FABRICS \in Nat \ {0} /\ ENTRIES_PER_FABRIC \in Nat \ {0}
  /\ PublishFails \in BOOLEAN /\ MaxCsr \in Nat /\ MaxBoots \in Nat
  /\ None \notin Roots
  /\ \A r \in AddNocRequests : r.form \in {"good", "unparsable", "no_ids", "short_ipk"}

VARIABLES
  life,       \* "up"; "panic" of a command; "boot_panic"
  fabrics,    \* FabricMgrInner.fabrics
  files,      \* for each index the files of the fabric, None for one that is not there
  acl,        \* the entries in the order of their slots: [fab, of], where `of' is the
              \* fabric an entry was added for, read by properties only
  aclFile,    \* the file "acl"
  failsafe,   \* None when idle, or [mode, noc]: noc is None or the index added
  sessions,   \* Session.mode and Session.data, by slot
  window,     \* whether the commissioning window is open
  csrs,       \* how many key pairs were made
  boots,
  answer,     \* the last status answered
  acked,      \* history: the fabrics AddNOC answered Ok for, as [idx, fabric]
  adds,       \* history: how many AddNOCs were answered Ok since the fail-safe was armed
  hidden,     \* history: the indexes of fabrics that mDNS refused at some start
  spoilt      \* history: the indexes where a failed write of a private key left a part
              \* of it, and no fabric was added since

vars == <<life, fabrics, files, acl, aclFile, failsafe, sessions, window, csrs, boots,
          answer, acked, adds, hidden, spoilt>>

Plain   == [kind |-> "PlainText", fab |-> 0]
Pase    == [kind |-> "Pase", fab |-> 0]
Case(i) == [kind |-> "Case", fab |-> i]

(***************************************************************************)
(* The fabric table.  A fabric is a root certificate, the NOC, ICAC and    *)
(* IPK of one AddNOC request, and a key pair.                              *)
(***************************************************************************)
CutKey == 0                  \* a private key of which only a part was read
Keys   == 1 .. MaxCsr
Nocs   == {[root |-> r.root, node |-> r.node] : r \in AddNocRequests}
Fabric == [root : Roots, noc : Nocs, key : Keys \cup {CutKey}]

FileNamesBug == <<"rca", "ica", "noc", "pbkey", "privkey", "ipk">>   \* the IPK comes last

\* The files, in the order in which Fabric::store writes them.
FileNames == <<"rca", "ica", "noc", "ipk", "pbkey", "privkey">>
Names     == {FileNames[k] : k \in DOMAIN FileNames}

\* What a file holds: its part of a fabric, all of it, a prefix, or nothing yet.
File(f, part) == [of |-> f, part |-> part]
NoFiles == [n \in Names |-> None]

\* The files of index i after the first n writes, and one that leaves `part'.
Written(fs, f, n, part) ==
  [x \in Names |->
     LET k == CHOOSE k \in DOMAIN FileNames : FileNames[k] = x
     IN IF k <= n THEN File(f, "whole")
        ELSE IF k = n + 1 /\ part # "old" THEN File(f, part) ELSE fs[x]]

Whole(fs, x) == fs[x] # None /\ fs[x].part = "whole"

\* Fabric::load: certificates that are cut do not parse; the public key is not looked
\* at; any part of a private key but none makes a key.
LoadsBug(fs) ==                \* an empty private key is not noticed
  /\ \A x \in {"rca", "ica", "noc"} : Whole(fs, x)
  /\ \A x \in {"ipk", "pbkey", "privkey"} : fs[x] # None

Loads(fs) ==
  /\ \A x \in {"rca", "ica", "noc"} : Whole(fs, x)
  /\ \A x \in {"ipk", "pbkey", "privkey"} : fs[x] # None
  /\ fs["privkey"].part # "empty"

\* KeySet::new copies the IPK into an array of its length: another length panics.
LoadPanics(fs) == Loads(fs) /\ ~ Whole(fs, "ipk")

Loaded(fs) ==
  [root |-> fs["rca"].of.root, noc |-> fs["noc"].of.noc,
   key  |-> IF Whole(fs, "privkey") THEN fs["privkey"].of.key ELSE CutKey]

FreeBug == {1}                 \* the fabric that is there is replaced
Free    == {i \in Indexes : fabrics[i] = None}

FirstFree == CHOOSE i \in Free : \A j \in Free : i <= j

IsEmpty(fbs) == \A i \in Indexes : fbs[i] = None

\* match_dest_id: the first fabric whose root, fabric id, node id and IPK are those the
\* destination id was made of.
Matching(noc) == {i \in Indexes : fabrics[i] # None /\ fabrics[i].noc = noc
                                  /\ fabrics[i].root = noc.root}
DestFabric(noc) == CHOOSE i \in Matching(noc) : \A j \in Matching(noc) : i <= j

(***************************************************************************)
(* Sessions.                                                               *)
(***************************************************************************)
Modes         == {Plain, Pase} \cup {Case(i) : i \in Indexes}
SessionData   == [key : Keys, root : Roots \cup {None}]
Session       == [mode : Modes, data : SessionData \cup {None}]
ArmedFailSafe == [mode : Modes, noc : Indexes \cup {None}]
FileState     == [of : Fabric, part : {"whole", "cut", "empty"}]

\* None is nothing that it stands beside.
ASSUME NoneAssumption ==
  /\ None \notin Indexes /\ None \notin Fabric /\ None \notin FileState
  /\ None \notin SessionData /\ None \notin Session /\ None \notin ArmedFailSafe

NewSession(mode) == [mode |-> mode, data |-> None]

\* The first packet of a new address: commands are handled in the clear as well.
OpenPlain(s) ==
  /\ life = "up" /\ sessions[s] = None
  /\ sessions' = [sessions EXCEPT ![s] = NewSession(Plain)]
  /\ UNCHANGED <<life, fabrics, files, acl, aclFile, failsafe, window, csrs, boots, answer,
                 acked, adds, hidden, spoilt>>

EstablishPase(s) ==
  /\ life = "up" /\ window /\ sessions[s] = None
  /\ sessions' = [sessions EXCEPT ![s] = NewSession(Pase)]
  /\ window' = FALSE
  /\ UNCHANGED <<life, fabrics, files, acl, aclFile, failsafe, csrs, boots, answer,
                 acked, adds, hidden, spoilt>>

\* CASE with a node whose certificates are good: it accepts the device's signature only
\* if the private key is the one its NOC was made for.
EstablishCase(s, noc) ==
  /\ life = "up" /\ sessions[s] = None /\ Matching(noc) # {}
  /\ fabrics[DestFabric(noc)].key # CutKey
  /\ sessions' = [sessions EXCEPT ![s] = NewSession(Case(DestFabric(noc)))]
  /\ UNCHANGED <<life, fabrics, files, acl, aclFile, failsafe, window, csrs, boots, answer,
                 acked, adds, hidden, spoilt>>

\* A session is closed or evicted: its data go with it.
DropSession(s) ==
  /\ life = "up" /\ sessions[s] # None
  /\ sessions' = [sessions EXCEPT ![s] = None]
  /\ UNCHANGED <<life, fabrics, files, acl, aclFile, failsafe, window, csrs, boots, answer,
                 acked, adds, hidden, spoilt>>

(***************************************************************************)
(* The fail-safe.                                                          *)
(***************************************************************************)
Receives(s) == life = "up" /\ sessions[s] # None

\* FailSafe::arm on an idle fail-safe: nothing is added under it yet.
Armed(mode) == [mode |-> mode, noc |-> None]

ArmFailSafe(s) ==
  /\ Receives(s)
  /\ IF failsafe = None
       THEN /\ failsafe' = Armed(sessions[s].mode)
            /\ adds' = 0
            /\ answer' = "Ok"
       ELSE /\ answer' = IF failsafe.mode = sessions[s].mode THEN "Ok" ELSE "Busy"
            /\ UNCHANGED <<failsafe, adds>>
  /\ UNCHANGED <<life, fabrics, files, acl, aclFile, sessions, window, csrs, boots, acked,
                 hidden, spoilt>>

AllowNocChange == failsafe # None /\ failsafe.noc = None

RecordAddNocBug(i) == failsafe        \* the addition is not recorded
RecordAddNoc(i)    == [failsafe EXCEPT !.noc = i]

DisarmsBug(mode) == failsafe # None /\ failsafe.noc # None    \* any session may
Disarms(mode) ==
  failsafe # None /\ failsafe.noc # None /\ mode = Case(failsafe.noc)

CommissioningComplete(s) ==
  /\ Receives(s)
  /\ failsafe' = IF Disarms(sessions[s].mode) THEN None ELSE failsafe
  /\ answer' = IF Disarms(sessions[s].mode) THEN "Ok" ELSE "ErrInvalidAuth"
  /\ UNCHANGED <<life, fabrics, files, acl, aclFile, sessions, window, csrs, boots,
                 acked, adds, hidden, spoilt>>

\* SetRegulatoryConfig, AttestationRequest and CertChainRequest answer and change
\* nothing, whatever the state.
Inform(s, status) ==
  /\ Receives(s)
  /\ status \in {"Ok", "InvalidCommand", "Failure"}
  /\ answer' = status
  /\ UNCHANGED <<life, fabrics, files, acl, aclFile, failsafe, sessions, window, csrs, boots,
                 acked, adds, hidden, spoilt>>

(***************************************************************************)
(* The node operational credentials.                                       *)
(***************************************************************************)
\* A new key pair replaces the one the session had, with the root that came with it.
CsrRequest(s) ==
  /\ Receives(s)
  /\ IF failsafe = None
       THEN answer' = "UnsupportedAccess" /\ UNCHANGED <<sessions, csrs>>
       ELSE /\ csrs < MaxCsr
            /\ csrs' = csrs + 1
            /\ sessions' = [sessions EXCEPT ![s].data = [key |-> csrs + 1, root |-> None]]
            /\ answer' = "Ok"
  /\ UNCHANGED <<life, fabrics, files, acl, aclFile, failsafe, window, boots, acked, adds,
                 hidden, spoilt>>

\* A root that does not parse is None.  Over CASE and in the clear nothing is stored.
AddTrustedRootCert(s, root) ==
  LET sess == sessions[s] IN
  /\ Receives(s)
  /\ answer' = CASE failsafe = None                             -> "UnsupportedAccess"
                 [] sess.mode # Pase                            -> "Ok"
                 [] sess.data = None \/ root = None             -> "Failure"
                 [] OTHER                                       -> "Ok"
  /\ sessions' = IF answer' = "Ok" /\ sess.mode = Pase
                   THEN [sessions EXCEPT ![s].data.root = root] ELSE sessions
  /\ UNCHANGED <<life, fabrics, files, acl, aclFile, failsafe, window, csrs, boots,
                 acked, adds, hidden, spoilt>>

TakenBug(s) == sessions      \* the key pair is looked at and stays
Taken(s)    == [sessions EXCEPT ![s].data = None]

NewFabric(s, r) ==
  [root |-> sessions[s].data.root, noc |-> [root |-> r.root, node |-> r.node],
   key  |-> sessions[s].data.key]

\* What AddNOC answers when it does not come to store a fabric.
AddNocRefusal(s, r) ==
  CASE sessions[s].data = None                                  -> "MissingCsr"
    [] ~ AllowNocChange                                         -> "InsufficientPrivlege"
    [] r.form = "unparsable"                                    -> "InvalidNOC"
    [] r.form = "no_ids"                                        -> "TableFull"
    [] sessions[s].data.root = None \/ r.form = "short_ipk"     -> "panic"
    [] Free = {}                                                -> "TableFull"
    [] OTHER                                                    -> "none"

\* The session's data are taken before anything else is looked at.
AddNocRefused(s, r) ==
  /\ Receives(s)
  /\ answer' = IF AddNocRefusal(s, r) = "none" THEN "TableFull" ELSE AddNocRefusal(s, r)
  /\ AddNocRefusal(s, r) = "none" => PublishFails
  /\ life' = IF answer' = "panic" THEN "panic" ELSE life
  /\ sessions' = Taken(s)
  /\ UNCHANGED <<fabrics, files, acl, aclFile, failsafe, window, csrs, boots, acked, adds,
                 hidden, spoilt>>

\* One of the writes of the fabric fails, and leaves the old file, an empty one or a
\* part of the new one.
AddNocNotStored(s, r) ==
  /\ Receives(s) /\ AddNocRefusal(s, r) = "none"
  /\ \E n \in 0 .. Len(FileNames) - 1, part \in {"old", "empty", "cut"} :
       /\ files' = [files EXCEPT ![FirstFree] = Written(@, NewFabric(s, r), n, part)]
       /\ spoilt' = IF FileNames[n + 1] = "privkey" /\ part = "cut"
                      THEN spoilt \cup {FirstFree} ELSE spoilt
  /\ sessions' = Taken(s)
  /\ answer' = "TableFull"
  /\ UNCHANGED <<life, fabrics, acl, aclFile, failsafe, window, csrs, boots, acked, adds,
                 hidden>>

\* What is found in the file of the list when it is written: nothing, some of the
\* entries or all of them.
ListParts(list) == {SubSeq(list, 1, n) : n \in 0 .. Len(list)}

WithAdminBug(i, f) == Append(acl, [fab |-> i, of |-> f])    \* the quota is not looked at

EntriesOf(list, i) == {k \in DOMAIN list : list[k].fab = i}

\* AclMgr::add of the administrator's entry; that it or its store fails is only logged.
WithAdmin(i, f) ==
  IF Len(acl) < AclSlots /\ Cardinality(EntriesOf(acl, i)) < ENTRIES_PER_FABRIC
    THEN Append(acl, [fab |-> i, of |-> f]) ELSE acl

AddNoc(s, r) ==
  LET i == FirstFree
      f == NewFabric(s, r)
  IN
  /\ Receives(s) /\ AddNocRefusal(s, r) = "none"
  /\ files' = [files EXCEPT ![i] = Written(@, f, Len(FileNames), "old")]
  /\ fabrics' = [fabrics EXCEPT ![i] = f]
  /\ acl' = WithAdmin(i, f)
  /\ aclFile' \in {aclFile} \cup (IF acl' = acl THEN {} ELSE ListParts(acl'))
  /\ failsafe' = RecordAddNoc(i)
  /\ sessions' = Taken(s)
  /\ answer' = "Ok"
  /\ acked' = {a \in acked : a.idx # i} \cup {[idx |-> i, fabric |-> f]}
  /\ adds' = adds + 1
  /\ spoilt' = spoilt \ {i}
  /\ UNCHANGED <<life, window, csrs, boots, hidden>>

(***************************************************************************)
(* Power losses and starts.                                                *)
(***************************************************************************)
\* Matter::new on what is stored.  The fabrics that mDNS refuses are not loaded.
Boot(fs, af) ==
  /\ boots < MaxBoots /\ boots' = boots + 1
  /\ \E refused \in SUBSET {i \in Indexes : PublishFails /\ Loads(fs[i])} :
       /\ fabrics' = [i \in Indexes |-> IF Loads(fs[i]) /\ i \notin refused
                                        THEN Loaded(fs[i]) ELSE None]
       /\ hidden' = hidden \cup refused
  /\ life' = IF \E i \in Indexes : LoadPanics(fs[i]) THEN "boot_panic" ELSE "up"
  /\ window' = IsEmpty(fabrics')
  /\ files' = fs
  /\ acl' = af /\ aclFile' = af
  /\ failsafe' = None
  /\ sessions' = [s \in Sessions |-> None]
  /\ answer' = None /\ adds' = 0
  /\ UNCHANGED <<csrs, acked, spoilt>>

Restart == Boot(files, aclFile)

\* The power goes during one of the writes of a fabric, or between two.
PowerLossInFabric(s, r) ==
  /\ Receives(s) /\ AddNocRefusal(s, r) = "none"
  /\ \E n \in 0 .. Len(FileNames), part \in {"old", "empty", "cut"} :
       Boot([files EXCEPT ![FirstFree] = Written(@, NewFabric(s, r), n, part)], aclFile)

\* It goes during the write of the access control list: any number of entries is left.
PowerLossInAcl(s, r) ==
  /\ Receives(s) /\ AddNocRefusal(s, r) = "none"
  /\ \E list \in ListParts(WithAdmin(FirstFree, NewFabric(s, r))) :
       Boot([files EXCEPT ![FirstFree] =
               Written(@, NewFabric(s, r), Len(FileNames), "old")], list)

(***************************************************************************)
(* The specification.                                                      *)
(***************************************************************************)
Init ==
  /\ life = "up" /\ window = TRUE
  /\ fabrics = [i \in Indexes |-> None] /\ files = [i \in Indexes |-> NoFiles]
  /\ acl = << >> /\ aclFile = << >>
  /\ failsafe = None /\ sessions = [s \in Sessions |-> None]
  /\ csrs = 0 /\ boots = 0 /\ answer = None
  /\ acked = {} /\ adds = 0 /\ hidden = {} /\ spoilt = {}

GenCommCommand(s) == ArmFailSafe(s) \/ CommissioningComplete(s)

NocCommand(s) ==
  \/ CsrRequest(s)
  \/ \E root \in Roots \cup {None} : AddTrustedRootCert(s, root)
  \/ \E r \in AddNocRequests :
       AddNocRefused(s, r) \/ AddNocNotStored(s, r) \/ AddNoc(s, r)

Command(s) ==
  \/ GenCommCommand(s) \/ NocCommand(s)
  \/ \E status \in {"Ok", "InvalidCommand", "Failure"} : Inform(s, status)

PowerLoss(s) == \E r \in AddNocRequests : PowerLossInFabric(s, r) \/ PowerLossInAcl(s, r)

Next ==
  \/ \E s \in Sessions :
       \/ OpenPlain(s) \/ EstablishPase(s) \/ DropSession(s) \/ Command(s) \/ PowerLoss(s)
       \/ \E noc \in Nocs : EstablishCase(s, noc)
  \/ Restart

Spec == Init /\ [][Next]_vars

(***************************************************************************)
(* Types.                                                                  *)
(***************************************************************************)
FileStates == FileState \cup {None}

IsAcl(list) ==
  /\ \A i \in Indexes : Cardinality(EntriesOf(list, i)) <= ENTRIES_PER_FABRIC
  /\ \A k \in DOMAIN list : list[k] \in [fab : Indexes, of : Fabric]

\* A session that is on a fabric is on one that is there, and the fail-safe knows of
\* no fabric that is not.
CMTypeOK ==
  /\ life \in {"up", "panic", "boot_panic"} /\ window \in BOOLEAN
  /\ fabrics \in [Indexes -> Fabric \cup {None}]
  /\ files \in [Indexes -> [Names -> FileStates]]
  /\ IsAcl(acl) /\ IsAcl(aclFile)
  /\ failsafe # None =>
       /\ failsafe.mode \in Modes
       /\ failsafe.noc # None => failsafe.noc \in Indexes /\ fabrics[failsafe.noc] # None
  /\ \A s \in Sessions : sessions[s] # None =>
       /\ sessions[s].mode \in {Plain, Pase}
            \/ \E i \in Indexes : sessions[s].mode = Case(i) /\ fabrics[i] # None
       /\ sessions[s].data # None =>
            sessions[s].data.key \in 1 .. csrs /\ sessions[s].data.root \in Roots \cup {None}
  /\ csrs \in 0 .. MaxCsr /\ boots \in 0 .. MaxBoots

(***************************************************************************)
(* Fabrics and their files.                                                *)
(***************************************************************************)
Visible == Indexes \ hidden

\* Memory and files agree on every fabric, through failed writes and power losses: what
\* is in memory would be loaded as it is, and what is not would not be loaded
\* (FabricMgr::add stores first, and the private key, which load needs, comes last).
\* Exempt are an index whose fabric mDNS refused at a start, and of the second half one
\* where the write of the key itself failed and left a part of it, which load takes.
MemoryIsFile ==
  life = "up" => \A i \in Visible :
    IF fabrics[i] = None THEN i \in spoilt \/ ~ Loads(files[i])
    ELSE Loads(files[i]) /\ Loaded(files[i]) = fabrics[i]

\* A fabric is never put together from the files of two AddNOCs, although a failed
\* or interrupted one leaves files that a later one overwrites one by one, unless it
\* left a part of the key, the one file that makes the others load.
WholeFabric ==
  \A i \in Visible \ spoilt : Loads(files[i]) =>
    \A x, y \in Names : files[i][x].of = files[i][y].of

\* No interrupted or failed AddNOC, at any of its writes, leaves files on which the
\* device panics at every start (KeySet::new), where none has left a part of a key.
BootNeverPanics ==
  life = "boot_panic" =>
    \E i \in Indexes : LoadPanics(files[i]) /\ i \in hidden \cup spoilt

\* A fabric that AddNOC has answered Ok for is there, with its own key, through all
\* that happens to other fabrics and all restarts.
AckedSurvives ==
  life = "up" => \A a \in acked : a.idx \in Visible => fabrics[a.idx] = a.fabric

\* An administrator's entry never stands for another fabric than the one it was added
\* for, not even a later one of the same index.
AdminOfItsFabric ==
  life = "up" => \A k \in DOMAIN acl : acl[k].fab \in Visible => fabrics[acl[k].fab] = acl[k].of

(***************************************************************************)
(* Key pairs and the fail-safe.                                            *)
(***************************************************************************)
\* A key pair made for a CSRRequest goes into one fabric at most, and a session keeps
\* none that is in a fabric (take_data).
KeyUsedOnce ==
  \A i \in Indexes : fabrics[i] # None /\ fabrics[i].key # CutKey =>
    /\ \A j \in Indexes \ {i} : fabrics[j] # None => fabrics[j].key # fabrics[i].key
    /\ \A s \in Sessions : sessions[s] # None /\ sessions[s].data # None =>
         sessions[s].data.key # fabrics[i].key

\* From the time the fail-safe is armed to the time it is armed again, whatever sessions
\* come and go, one fabric is added at most.
OneNocPerArming == adds <= 1

\* The fail-safe is disarmed only by a session on the very fabric added under it, and
\* then that fabric has its whole key and would be loaded as it is: what the
\* commissioner was told is complete survives a restart.
CompleteMeansStored ==
  [][failsafe # None /\ failsafe' = None /\ boots' = boots =>
       LET i == failsafe.noc IN
         /\ adds = 1
         /\ \E s \in Sessions : sessions[s] # None /\ sessions[s].mode = Case(i)
         /\ fabrics[i] # None /\ fabrics[i].key # CutKey
         /\ Loads(files[i]) /\ Loaded(files[i]) = fabrics[i]]_vars
=============================================================================
