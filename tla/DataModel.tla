----------------------------- MODULE DataModel -----------------------------
(***************************************************************************)
(* Reads, writes and invokes of the interaction model on the device's      *)
(* node: data_model/core.rs and data_model/objects, with the access        *)
(* control cluster (system_model/access_control.rs) and the access control *)
(* list of acl.rs, in memory and in its file, across restarts.             *)
(*                                                                         *)
(* Requests are handled one at a time, under the lock of the node.  A read *)
(* or an invoke is one step.  A write is a step for each attribute written *)
(* and, for the access control list, a step for each list operation, which *)
(* ends with a write of the file: the device may lose power at any step.   *)
(*                                                                         *)
(* The commands of the node operational credentials and general            *)
(* commissioning clusters are in Commissioning.                            *)
(***************************************************************************)
EXTENDS AclTable, SequencesExt

CONSTANTS
  DeviceSessions, (* the sessions requests come on: [mode, fabric, peer]    *)
  PaseId,         (* the id of an accessor that is not on CASE: 1           *)
  WriteRequests,  (* [acc, items]: an accessor and a sequence of AttrData   *)
  ReadRequests,   (* [acc, path, filters, fab_filter]                       *)
  Commands,       (* the paths invoke requests carry                        *)
  InitialTables,  (* the tables the device starts from                      *)
  VerMod,         (* data versions are counted modulo VerMod: 2^32          *)
  IndexMod,       (* list indexes are cast to IndexMod values: 256          *)
  MaxRequests,    (* bound on the requests of a run                         *)
  MaxBoots,       (* bound on the restarts of a run                         *)
  NoReq           (* no request is being handled                            *)

ASSUME DataModelAssumption ==
  /\ \A s \in DeviceSessions : s.mode = "Case" => s.fabric \in Fabrics /\ s.peer \in Ids
  /\ PaseId \in Ids
  /\ VerMod \in Nat /\ VerMod > 1 /\ IndexMod \in Nat \ {0}
  /\ MaxRequests \in Nat /\ MaxBoots \in Nat

\* Tables an earlier run of the device may have left.
ASSUME TablesAssumption == \A t \in InitialTables : IsTable(t) /\ WithinQuota(t)

VARIABLES
  acl,       \* AclMgrInner.entries
  aclFile,   \* the file "acl"; << >> when there is none that can be loaded
  vals,      \* the values of the attributes that change
  vers,      \* Cluster.data_ver, by endpoint and cluster
  req,       \* the write request being handled, with the answers to the items done, item
             \* by item, and the list operations left of the next one; its field `was' is
             \* the table when the write of the list began, for a property only
  resp,      \* what the last request was answered
  served, boots

vars == <<acl, aclFile, vals, vers, req, resp, served, boots>>

\* sess_to_accessor: the accessor a session stands for.
AccessorOf(s) ==
  CASE s.mode = "Case" -> [mode |-> "Case", fab |-> s.fabric, id |-> s.peer]
    [] s.mode = "Pase" -> [mode |-> "Pase", fab |-> 0, id |-> PaseId]
    [] OTHER           -> [mode |-> "Invalid", fab |-> 0, id |-> PaseId]

Accessors == {AccessorOf(s) : s \in DeviceSessions}

\* AttrData as it is decoded.  The fabric index of an item is what the writer says.
AttrPath  == [endpoint : STRING \cup {None}, cluster : STRING \cup {None},
              leaf : STRING \cup {None}]
ListItem  == [kind : {"item"}, privilege : Nat, auth_mode : STRING,
              subjects : Seq(Ids), targets : Seq(Target), fab : Nat]
Datum     == ListItem \cup [kind : {"number"}, value : Nat] \cup [kind : {"null"}]
AttrValue == Datum \cup [kind : {"array"}, items : Seq(Datum)]
AttrData  == [path : AttrPath, ver : Nat \cup {None}, index : Nat \cup {None},
              data : AttrValue]

ASSUME RequestsAssumption ==
  /\ \A w \in WriteRequests : w.acc \in Accessors /\ w.items \in Seq(AttrData)
  /\ \A r \in ReadRequests : r.acc \in Accessors /\ r.path \in AttrPath
  /\ None \notin STRING \cup Nat

(***************************************************************************)
(* The node: endpoint 0 is the root node, endpoint 1 an on/off light.      *)
(***************************************************************************)
EndpointIds == <<"ep0", "ep1">>

\* device_type_add_root_node and device_type_add_on_off_light; every endpoint is
\* given a descriptor as it is added.
ClusterIds ==
  [ep0 |-> <<"Descriptor", "BasicInfo", "GenComm", "NwComm", "Noc", "Acl">>,
   ep1 |-> <<"Descriptor", "OnOff">>]

\* What Cluster::new gives every cluster, and what each adds.
DefaultAttributes    == <<"AttributeList">>
DescriptorAttributes == <<"ServerList">>
BasicInfoAttributes  == <<"VendorId", "ProductId", "HwVer", "SwVer">>
GenCommAttributes    == <<"BreadCrumb", "RegConfig", "LocationCapability", "BasicCommissioningInfo">>
NwCommAttributes     == <<"FeatureMap">>
AclAttributes        == <<"Acl", "Extension", "SubjectsPerEntry", "TargetsPerEntry",
                          "EntriesPerFabric">>
OnOffAttributes      == <<"OnOff">>

AttributeIds ==
  [Descriptor |-> DefaultAttributes \o DescriptorAttributes,
   BasicInfo  |-> DefaultAttributes \o BasicInfoAttributes,
   GenComm    |-> DefaultAttributes \o GenCommAttributes,
   NwComm     |-> DefaultAttributes \o NwCommAttributes,
   Noc        |-> DefaultAttributes,
   Acl        |-> DefaultAttributes \o AclAttributes,
   OnOff      |-> DefaultAttributes \o OnOffAttributes]

\* RWFA for the list and its extension, READ | WRITE | NEED_ADMIN for the bread
\* crumb, RV for all the others.
AccessOf(leaf) ==
  IF leaf \in {"Acl", "Extension", "BreadCrumb"}
    THEN [ops |-> {"read", "write"}, need |-> {"A"}]
    ELSE [ops |-> {"read"}, need |-> {"V"}]

Clusters == {at \in {"ep0", "ep1"} \X DOMAIN AttributeIds :
               at[2] \in Elements(ClusterIds[at[1]])}

\* The clusters something of which changes: the data version of the others stays
\* what it was drawn to be.
Changing == {<<"ep0", "Acl">>, <<"ep0", "GenComm">>, <<"ep1", "OnOff">>}

(***************************************************************************)
(* Paths.  An endpoint, a cluster or a leaf that is not given is None.      *)
(***************************************************************************)
IsWildcard(path) == None \in {path.endpoint, path.cluster, path.leaf}

Covers(path, p) ==
  /\ path.endpoint \in {None, p.endpoint} /\ path.cluster \in {None, p.cluster}
  /\ path.leaf \in {None, p.leaf}

\* What the first n walks come to, one after the other.
Joined(walks, n, err) ==
  [err |-> err, out |-> FlattenSeq([k \in 1 .. n |-> walks[k].out])]
Failed(walks) == {k \in DOMAIN walks : walks[k].err # "ok"}

ForEachBug(walks, wildcard) ==     \* the first error ends a wildcard walk as well
  IF Failed(walks) = {} THEN Joined(walks, Len(walks), "ok")
  ELSE Joined(walks, Min(Failed(walks)), walks[Min(Failed(walks))].err)

\* The loop of the for_each methods over what their closure makes of each object: an
\* error ends it, unless it is a wildcard's.
ForEach(walks, wildcard) ==
  IF wildcard \/ Failed(walks) = {} THEN Joined(walks, Len(walks), "ok")
  ELSE Joined(walks, Min(Failed(walks)), walks[Min(Failed(walks))].err)

\* One level of a walk: the one object named, or all of them.
Named(ids, name) ==
  IF name = None THEN ids ELSE IF name \in Elements(ids) THEN <<name>> ELSE << >>
Level(walks, name, missing) ==
  IF name # None /\ walks = << >> THEN [err |-> missing, out |-> << >>]
                                  ELSE ForEach(walks, name = None)

Visited(path) == [err |-> "ok", out |-> <<path>>]

VisitLeaves(path) ==
  LET ids == Named(AttributeIds[path.cluster], path.leaf)
  IN Level([k \in DOMAIN ids |-> Visited([path EXCEPT !.leaf = ids[k]])],
           path.leaf, "UnsupportedAttribute")

VisitClustersOf(path, toLeaves) ==
  LET ids     == Named(ClusterIds[path.endpoint], path.cluster)
      Walk(p) == IF toLeaves THEN VisitLeaves(p) ELSE Visited(p)
  IN Level([k \in DOMAIN ids |-> Walk([path EXCEPT !.cluster = ids[k]])],
           path.cluster, "UnsupportedCluster")

VisitEndpoints(path, toLeaves) ==
  LET ids == Named(EndpointIds, path.endpoint)
  IN Level([k \in DOMAIN ids |-> VisitClustersOf([path EXCEPT !.endpoint = ids[k]], toLeaves)],
           path.endpoint, "UnsupportedEndpoint")

VisitClusters(path)   == VisitEndpoints(path, FALSE)
VisitAttributes(path) == VisitEndpoints(path, TRUE)

BumpedBug(v, at) == v              \* the caller forgets it

\* Cluster::cluster_changed.
Bumped(v, at) == [v EXCEPT ![at] = (@ + 1) % VerMod]
At(p) == <<p.endpoint, p.cluster>>

(***************************************************************************)
(* Reads.                                                                  *)
(***************************************************************************)
Filtered(filters, p) ==
  \E f \in filters : f.endpoint = p.endpoint /\ f.cluster = p.cluster /\ f.ver = vers[At(p)]

\* read_custom_attribute of the access control cluster, in the order of the slots.
ListShown(acc, fab_filter) ==
  FlattenSeq([s \in Slots |->
                IF s \in DOMAIN acl /\ (~ fab_filter \/ acl[s].fab = acc.fab)
                  THEN <<acl[s]>> ELSE << >>])

\* The lists of names the system attributes and the descriptor are made of.
NamesShown(p) ==
  CASE p.leaf = "AttributeList" -> AttributeIds[p.cluster]
    [] p.leaf = "ServerList"    -> ClusterIds[p.endpoint]
    [] OTHER                    -> << >>

\* Cluster::read_attribute for an attribute that exists.
Report(acc, p, fab_filter) ==
  LET ok == Allow(acl, acc, p, AccessOf(p.leaf), "read") IN
    [path   |-> p,
     status |-> IF ok THEN "Data" ELSE "UnsupportedAccess",
     ver    |-> IF ok THEN vers[At(p)] ELSE 0,
     list   |-> IF ok /\ p.leaf = "Acl" THEN ListShown(acc, fab_filter) ELSE << >>,
     names  |-> IF ok THEN NamesShown(p) ELSE << >>]

ErrorReport(path, err) ==
  [path |-> path, status |-> err, ver |-> 0, list |-> << >>, names |-> << >>]

\* handle_read_attr_path for one attribute: what matches a data version filter is left
\* out, and what is refused if the path is a wildcard's.
ReportsOf(acc, r, p) ==
  LET report == Report(acc, p, r.fab_filter)
  IN IF Filtered(r.filters, p) \/ (report.status # "Data" /\ IsWildcard(r.path))
       THEN << >> ELSE <<report>>

\* A wildcard path reports data only, a concrete one its error as well.
ReadReports(acc, r) ==
  LET walk == VisitAttributes(r.path)
  IN IF walk.err # "ok"
       THEN IF IsWildcard(r.path) THEN << >> ELSE <<ErrorReport(r.path, walk.err)>>
       ELSE FlattenSeq([k \in DOMAIN walk.out |-> ReportsOf(acc, r, walk.out[k])])

Read(r) ==
  /\ req = NoReq /\ served < MaxRequests
  /\ resp' = [kind |-> "read", request |-> r, reports |-> ReadReports(r.acc, r)]
  /\ served' = served + 1
  /\ UNCHANGED <<acl, aclFile, vals, vers, req, boots>>

(***************************************************************************)
(* Writes.  An AttrData has a path, the data version it is conditional on  *)
(* or None, a list index or None, and the data.                              *)
(***************************************************************************)
NoResp == [kind |-> "none"]

ReceiveWrite(w) ==
  /\ req = NoReq /\ served < MaxRequests
  /\ req' = [acc |-> w.acc, items |-> w.items, ops |-> << >>, out |-> << >>, was |-> acl]
  /\ resp' = NoResp
  /\ served' = served + 1
  /\ UNCHANGED <<acl, aclFile, vals, vers, boots>>

\* The item in hand, if one is left.
ItemLeft == req # NoReq /\ Len(req.out) < Len(req.items)
Item     == req.items[Len(req.out) + 1]

\* attr_list_write: what a write of the list is made of.  Only the low bits of the
\* index reach the table.
ListOps(d) ==
  IF d.index # None
    THEN IF d.data.kind = "null"
           THEN <<[kind |-> "DeleteItem", index |-> d.index % IndexMod]>>
           ELSE <<[kind |-> "EditItem", index |-> d.index % IndexMod, data |-> d.data]>>
    ELSE IF d.data.kind = "array"
           THEN <<[kind |-> "DeleteList"]>>
                  \o [k \in DOMAIN d.data.items |->
                        [kind |-> "AddItem", data |-> d.data.items[k]]]
           ELSE <<[kind |-> "AddItem", data |-> d.data]>>

\* handle_write_attr_path for one cluster, then Cluster::write_attribute up to the
\* call of the cluster's own write_attribute.
WriteCheck(acc, p, d) ==
  CASE d.ver # None /\ d.ver # vers[At(p)]                          -> "DataVersionMismatch"
    [] p.leaf \notin Elements(AttributeIds[p.cluster])             -> "UnsupportedAttribute"
    [] "write" \notin AccessOf(p.leaf).ops                         -> "UnsupportedWrite"
    [] ~ Allow(acl, acc, p, AccessOf(p.leaf), "write")             -> "UnsupportedAccess"
    [] p.leaf = "Extension"                                        -> "NotFound"
    [] p.leaf = "BreadCrumb" /\ d.data.kind # "number"             -> "Failure"
    [] OTHER                                                       -> "ok"

Answer(p, status) == [path |-> p, status |-> status]

\* The status of a path on which nothing is written: that of its one cluster, or of
\* the walk that found none.  A wildcard path shows nothing.
Refusals(acc, d) ==
  LET err == VisitClusters(d.path).err
  IN CASE d.path.cluster = None -> <<Answer(d.path, "UnsupportedCluster")>>
       [] d.path.leaf = None    -> <<Answer(d.path, "UnsupportedAttribute")>>
       [] IsWildcard(d.path)    -> << >>
       [] OTHER -> <<Answer(d.path, IF err # "ok" THEN err ELSE WriteCheck(acc, d.path, d))>>

\* The clusters for_each_cluster_mut visits that let the write in.
Accepting(acc, d) ==
  {p \in {[d.path EXCEPT !.endpoint = at[1], !.cluster = at[2]] : at \in Clusters} :
     /\ d.path.endpoint \in {None, p.endpoint} /\ d.path.cluster = p.cluster
     /\ None \notin {d.path.cluster, d.path.leaf}
     /\ WriteCheck(acc, p, d) = "ok"}

\* The next attribute of the request is refused everywhere.
RefuseItem ==
  /\ ItemLeft /\ req.ops = << >>
  /\ Accepting(req.acc, Item) = {}
  /\ req' = [req EXCEPT !.out = Append(@, Refusals(req.acc, Item))]
  /\ UNCHANGED <<acl, aclFile, vals, vers, resp, served, boots>>

\* Cluster::write_attribute_from_tlv: the bread crumb.
WriteScalar ==
  /\ ItemLeft /\ req.ops = << >>
  /\ \E p \in Accepting(req.acc, Item) :
       /\ p.leaf = "BreadCrumb"
       /\ vals' = [vals EXCEPT !.BreadCrumb = Item.data.value]
       /\ vers' = Bumped(vers, At(p))
       /\ req' = [req EXCEPT !.out = Append(@, <<Answer(p, "Success")>>)]
  /\ UNCHANGED <<acl, aclFile, resp, served, boots>>

\* A write of the access control list that is let in becomes list operations.
StartList ==
  /\ ItemLeft /\ req.ops = << >>
  /\ \E p \in Accepting(req.acc, Item) :
       /\ p.leaf = "Acl"
       /\ req' = [req EXCEPT !.ops = ListOps(Item), !.was = acl]
  /\ UNCHANGED <<acl, aclFile, vals, vers, resp, served, boots>>

OpResultBug(op, fab) ==     \* the entry keeps the fabric index the writer gave it
  IF op.kind = "AddItem" /\ op.data.kind = "item" /\ Decodable(op.data)
    THEN [err |-> "ok", tbl |-> Added(acl, DecodedFor(op.data, op.data.fab))]
    ELSE [err |-> "ConstraintError", tbl |-> acl]

\* write_acl_attr up to the store: the table after the operation, and the status.
OpResult(op, fab) ==
  LET entry == DecodedFor(op.data, fab)
      good  == op.data.kind = "item" /\ Decodable(op.data)
      hit   == NthSlot(acl, fab, op.index)
      Ok(t) == [err |-> "ok", tbl |-> t]
      No(e) == [err |-> e, tbl |-> acl]
  IN CASE op.kind = "DeleteList" -> Ok(Without(acl, FabricSlots(acl, fab)))
       [] op.kind = "DeleteItem" ->
            IF hit = {} THEN No("ConstraintError") ELSE Ok(Without(acl, hit))
       [] op.kind = "EditItem" ->
            IF ~ good \/ hit = {} THEN No("ConstraintError")
            ELSE Ok(Replaced(acl, hit, entry))
       [] OTHER ->
            IF ~ good THEN No("ConstraintError")
            ELSE IF ~ CanAdd(acl, fab) THEN No("ResourceExhausted")
            ELSE Ok(Added(acl, entry))

ListPath == [endpoint |-> "ep0", cluster |-> "Acl", leaf |-> "Acl"]

\* The write of the list ends, with the status of its last operation.  Of a wildcard
\* path only a success is shown.
EndList(status) ==
  LET shown == status = "Success" \/ ~ IsWildcard(Item.path)
  IN req' = [req EXCEPT !.ops = << >>,
                        !.out = Append(@, IF shown THEN <<Answer(ListPath, status)>> ELSE << >>)]

\* An operation that is refused: the operations after it are not tried.
ListOpFails ==
  /\ req # NoReq /\ req.ops # << >>
  /\ LET r == OpResult(Head(req.ops), req.acc.fab) IN
       r.err # "ok" /\ EndList(r.err)
  /\ UNCHANGED <<acl, aclFile, vals, vers, resp, served, boots>>

StoredFileBug(tbl) == aclFile    \* the change is made in memory only
StoredFile(tbl)    == Image(tbl)

\* An operation that is done and stored.  After the last one the data version of the
\* cluster moves on.
ListOpStored ==
  /\ req # NoReq /\ req.ops # << >>
  /\ LET r == OpResult(Head(req.ops), req.acc.fab) IN
       /\ r.err = "ok" /\ Fits(r.tbl)
       /\ acl' = r.tbl /\ aclFile' = StoredFile(r.tbl)
  /\ IF Len(req.ops) = 1
       THEN EndList("Success") /\ vers' = Bumped(vers, <<"ep0", "Acl">>)
       ELSE req' = [req EXCEPT !.ops = Tail(@)] /\ UNCHANGED vers
  /\ UNCHANGED <<vals, resp, served, boots>>

\* An operation that is done, and whose table is not stored: it does not fit the buffer
\* of the store, or the file cannot be opened or written.  What is opened is emptied
\* first.
ListOpNotStored ==
  /\ req # NoReq /\ req.ops # << >>
  /\ LET r == OpResult(Head(req.ops), req.acc.fab) IN
       /\ r.err = "ok" /\ acl' = r.tbl
       /\ \/ /\ ~ Fits(r.tbl)
             /\ EndList("ResourceExhausted") /\ UNCHANGED aclFile
          \/ /\ Fits(r.tbl)
             /\ EndList("ConstraintError") /\ aclFile' \in {aclFile} \cup Torn(Image(r.tbl))
  /\ UNCHANGED <<vals, vers, resp, served, boots>>

FinishWrite ==
  /\ req # NoReq /\ ~ ItemLeft
  /\ resp' = [kind |-> "write", items |-> req.items, answers |-> req.out]
  /\ req' = NoReq
  /\ UNCHANGED <<acl, aclFile, vals, vers, served, boots>>

(***************************************************************************)
(* Invokes of the on/off cluster.                                          *)
(***************************************************************************)
OnOffAfter(cmd) ==
  CASE cmd = "On" -> TRUE [] cmd = "Off" -> FALSE [] OTHER -> ~ vals.OnOff

\* handle_command_path: no access check is made.  A wildcard path does not show the
\* clusters that do not know the command.
Invoke(path) ==
  LET walk  == VisitClusters(path)
      wild  == IsWildcard(path)
      knows == {p \in Elements(walk.out) :
                  p.cluster = "OnOff" /\ path.leaf \in {"On", "Off", "Toggle"}}
      Status(p) == Answer(p, IF p \in knows THEN "Success" ELSE "UnsupportedCommand")
  IN
  /\ req = NoReq /\ served < MaxRequests
  /\ IF knows # {} /\ OnOffAfter(path.leaf) # vals.OnOff
       THEN /\ vals' = [vals EXCEPT !.OnOff = OnOffAfter(path.leaf)]
            /\ vers' = Bumped(vers, <<"ep1", "OnOff">>)
       ELSE UNCHANGED <<vals, vers>>
  /\ resp' = [kind |-> "invoke", path |-> path, answers |->
                IF walk.err # "ok"
                  THEN IF wild THEN << >> ELSE <<Answer(path, walk.err)>>
                  ELSE SelectSeq([k \in DOMAIN walk.out |-> Status(walk.out[k])],
                                 LAMBDA x : ~ (wild /\ x.status = "UnsupportedCommand"))]
  /\ served' = served + 1
  /\ UNCHANGED <<acl, aclFile, req, boots>>

(***************************************************************************)
(* Power losses.                                                           *)
(***************************************************************************)
\* AclMgr::new after a start on file img; the data versions are drawn anew.
Boot(img) ==
  /\ boots < MaxBoots
  /\ boots' = boots + 1
  /\ acl' = img /\ aclFile' = img
  /\ vals' = [BreadCrumb |-> 0, OnOff |-> FALSE]
  /\ \E n \in 0 .. VerMod - 1 : vers' = [c \in Clusters |-> IF c \in Changing THEN n ELSE 0]
  /\ req' = NoReq /\ resp' = NoResp
  /\ UNCHANGED served

Restart == Boot(aclFile)

\* The power goes while the file is being written.
PowerLossInStore ==
  /\ req # NoReq /\ req.ops # << >>
  /\ LET r == OpResult(Head(req.ops), req.acc.fab) IN
       /\ r.err = "ok" /\ Fits(r.tbl)
       /\ \E img \in Torn(Image(r.tbl)) : Boot(img)

(***************************************************************************)
(* The specification.                                                      *)
(***************************************************************************)
Init ==
  /\ acl \in InitialTables /\ aclFile = Image(acl)
  /\ vals = [BreadCrumb |-> 0, OnOff |-> FALSE]
  /\ vers = [c \in Clusters |-> 0]
  /\ req = NoReq /\ resp = NoResp
  /\ served = 0 /\ boots = 0

Next ==
  \/ \E r \in ReadRequests : Read(r)
  \/ \E w \in WriteRequests : ReceiveWrite(w)
  \/ \E path \in Commands : Invoke(path)
  \/ RefuseItem \/ WriteScalar \/ StartList
  \/ ListOpFails \/ ListOpStored \/ ListOpNotStored
  \/ FinishWrite
  \/ Restart \/ PowerLossInStore

Spec == Init /\ [][Next]_vars

(***************************************************************************)
(* Types.                                                                  *)
(***************************************************************************)
\* The table and its file hold entries, the file without gaps; a request under way
\* is of a known accessor.
DMTypeOK ==
  /\ IsTable(acl)
  /\ IsTable(aclFile) /\ DOMAIN aclFile = 1 .. Cardinality(DOMAIN aclFile)
  /\ vals.BreadCrumb \in Nat /\ vals.OnOff \in BOOLEAN
  /\ vers \in [Clusters -> 0 .. VerMod - 1]
  /\ req # NoReq => req.acc \in Accessors
  /\ served \in 0 .. MaxRequests /\ boots \in 0 .. MaxBoots

(***************************************************************************)
(* The table and its fabrics.                                              *)
(***************************************************************************)
\* No sequence of list writes, failed stores, power losses and restarts gives a
\* fabric more than ENTRIES_PER_FABRIC entries, in memory or in the file
\* (AclMgr::add checks the number, the load of the file does not).
FabricQuota == WithinQuota(acl) /\ WithinQuota(aclFile)

\* One fabric cannot use up the slots of another: below its quota a fabric finds a
\* free slot (MAX_ACL_ENTRIES counts index 0, the fabric of PASE sessions, too),
\* unless a torn file has left an entry that is on no fabric, which nothing deletes.
SlotsSuffice ==
  \A f \in Fabrics :
    Cardinality(FabricSlots(acl, f)) < ENTRIES_PER_FABRIC =>
      FreeSlots(acl) # {} \/ FabricSlots(acl, NoFabric) # {}

\* A write of the list by an accessor of one fabric leaves the list every other
\* fabric sees as it is, whatever index and fabric index the write names.
FabricIsolation ==
  [][acl' # acl /\ boots' = boots =>
       \A f \in (Fabrics \cup {NoFabric}) \ {req.acc.fab} :
         FabricList(acl', f) = FabricList(acl, f)]_vars

\* The operation under way has on the list its fabric sees the effect its name
\* says, though the list is scattered over slots among those of other fabrics: item
\* i replaced or removed, the list emptied, or the item inserted somewhere.
ListsFollowOps ==
  [][acl' # acl /\ boots' = boots =>
       LET op    == Head(req.ops)
           f     == req.acc.fab
           old   == FabricList(acl, f)
           new   == FabricList(acl', f)
       IN CASE op.kind = "EditItem"   -> new = [old EXCEPT ![op.index + 1] = DecodedFor(op.data, f)]
            [] op.kind = "DeleteItem" -> new = RemoveAt(old, op.index + 1)
            [] op.kind = "DeleteList" -> new = << >>
            [] OTHER -> \E k \in 1 .. Len(old) + 1 :
                          new = InsertAt(old, k, DecodedFor(op.data, f))]_vars

\* The promise to the administrators: a list for each fabric, and a saved one.
listOf  == [f \in Fabrics |-> FabricList(acl, f)]
savedOf == [f \in Fabrics |-> FabricList(aclFile, f)]

Lists == INSTANCE FabricLists WITH
  Owners <- Fabrics, Quota <- ENTRIES_PER_FABRIC, StoredAs <- StoredPrivilege,
  lists <- listOf, saved <- savedOf

\* Requests, failed stores, power losses and restarts change the lists of the fabrics
\* only as FabricLists says: one list at a time and by one operation, saved all together,
\* not at all, or each without its end, though they share the slots of one table and one
\* file that is cut anywhere.
KeepsLists == Lists!LSpec

\* Only an accessor that an Administer entry of its own fabric names, or a PASE
\* session, gets a write begun: not the same node id on another fabric, not a
\* lesser privilege, not a session without keys.
Administers(acc) ==
  \E s \in DOMAIN acl : /\ acl[s].privilege = ADMIN /\ acl[s].fab = acc.fab
                        /\ acl[s].auth_mode = acc.mode
                        /\ acl[s].subjects = << >> \/ acc.id \in Elements(acl[s].subjects)

OnlyAdminsWrite ==
  [][(vals'.BreadCrumb # vals.BreadCrumb /\ boots' = boots)
       \/ (req # NoReq /\ req.ops = << >> /\ req' # NoReq /\ req'.ops # << >>) =>
       req.acc.mode = "Pase" \/ Administers(req.acc)]_vars

(***************************************************************************)
(* The file.                                                               *)
(***************************************************************************)
\* Of the items answered, some name the list, alone or in a wildcard, and each of those
\* was answered with success for it.
AllSucceeded(items, answers) ==
  LET named == {k \in DOMAIN answers : Covers(items[k].path, ListPath)}
  IN named # {} /\ \A k \in named : answers[k] = <<Answer(ListPath, "Success")>>

\* A write whose every item for the list was answered with success is in the file, also
\* after stores that failed before it: a restart does not lose it.  The errors of a
\* wildcard item are not shown, so that an item without an answer tells its writer nothing.
AckedIsStored ==
  resp.kind = "write" /\ AllSucceeded(resp.items, resp.answers) => aclFile = Image(acl)

\* A restart on a file that was up to date leaves every accessor exactly what it was
\* allowed on this node, though entries change slots and the privilege Operate is
\* stored and comes back as Manage: no attribute of the node asks for either.
RestartKeepsGrants ==
  [][boots' # boots /\ aclFile = Image(acl) /\ aclFile' = aclFile =>
       \A acc \in Accessors, at \in Clusters, op \in {"read", "write"} :
         \A a \in Elements(AttributeIds[at[2]]) :
           LET p == [endpoint |-> at[1], cluster |-> at[2], leaf |-> a] IN
             Allow(acl', acc, p, AccessOf(a), op) <=> Allow(acl, acc, p, AccessOf(a), op)]_vars

(***************************************************************************)
(* Answers and data versions.                                              *)
(***************************************************************************)
AllPaths ==
  UNION {{[endpoint |-> at[1], cluster |-> at[2], leaf |-> a] : a \in Elements(AttributeIds[at[2]])}
         : at \in Clusters}

\* A read reports, once each, exactly the attributes its path covers that the
\* accessor may read and that no data version filter excludes, and a concrete path
\* that yields none an error; the list it shows has the entries of the accessor's
\* fabric, and those of the others only if it is not fabric filtered.
ReadReportsExactly ==
  [][resp' # resp /\ resp'.kind = "read" =>
       LET r      == resp'.request
           acc    == resp'.request.acc
           shown  == {p \in AllPaths : Covers(r.path, p) /\ ~ Filtered(r.filters, p)}
           mayread == {p \in shown : Allow(acl, acc, p, AccessOf(p.leaf), "read")}
           all    == resp'.reports
           data   == {k \in DOMAIN all : all[k].status = "Data"}
       IN /\ {all[k].path : k \in data} = mayread
          /\ Cardinality(data) = Cardinality(mayread)
          /\ \A k \in data : all[k].path.leaf = "Acl" =>
               {e \in Elements(all[k].list) : e.fab # acc.fab} =
                  {acl[s] : s \in {s \in DOMAIN acl : ~ r.fab_filter /\ acl[s].fab # acc.fab}}
          /\ data # DOMAIN all => ~ IsWildcard(r.path) /\ data = {} /\ Len(all) = 1]_vars

\* A read filtered by data version is not told that nothing changed: the version of the
\* on/off cluster moves on when its value changes, and only then, so that a command
\* without effect costs no report; that of general commissioning moves on whenever the
\* bread crumb changes (and also when it is written as it was).  A new version of the
\* access control list is one that a restart would bring back.
VersionTellsValue ==
  [][boots' = boots =>
       /\ vals'.OnOff # vals.OnOff <=> vers'[<<"ep1", "OnOff">>] # vers[<<"ep1", "OnOff">>]
       /\ vals'.BreadCrumb # vals.BreadCrumb => vers'[<<"ep0", "GenComm">>] # vers[<<"ep0", "GenComm">>]
       /\ vers'[<<"ep0", "Acl">>] # vers[<<"ep0", "Acl">>] => aclFile' = Image(acl')]_vars

\* cluster.rs says of cluster_changed that it must be called for any changes to the
\* data model: when a write of the list ends with another table than it began with,
\* the data version of the cluster has changed.
ChangesBumpVersion ==
  [][req # NoReq /\ req.ops # << >> /\ req' # NoReq /\ req'.ops = << >> /\ acl' # req.was =>
       vers'[<<"ep0", "Acl">>] # vers[<<"ep0", "Acl">>]]_vars
=============================================================================
