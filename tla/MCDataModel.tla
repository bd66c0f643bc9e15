---------------------------- MODULE MCDataModel ----------------------------
(***************************************************************************)
(* DataModel on an instance small enough for TLC: two fabrics and the      *)
(* index of PASE sessions, two entries for each.                           *)
(***************************************************************************)
EXTENDS DataModel

MCIds    == {"n1", "n2"}
MCPlaces == {"ep0", "ep1", "Acl", "OnOff"}

Case(f, n) == [mode |-> "Case", fab |-> f, id |-> n]

Pase   == [mode |-> "Pase", fab |-> 0, id |-> "n1"]
NoKeys == [mode |-> "Invalid", fab |-> 0, id |-> "n1"]

\* The same node id on two fabrics, a second node of fabric 1, a PASE session and one
\* without keys.
MCSessions ==
  [mode : {"Case"}, fabric : {1}, peer : {"n1", "n2"}]
    \cup [mode : {"Case"}, fabric : {2}, peer : {"n1"}]
    \cup [mode : {"Pase", "PlainText"}, fabric : {0}, peer : {"n1"}]

OnLight == [endpoint |-> "ep1", cluster |-> None]

Grant(privilege, subjects, targets, fab) ==
  [kind |-> "item", privilege |-> privilege, auth_mode |-> "Case", subjects |-> subjects,
   targets |-> targets, fab |-> fab]

AdminN1  == Grant(5, <<"n1">>, << >>, 1)
OperN2   == Grant(3, <<"n2">>, <<OnLight>>, 1)
Wide     == Grant(1, <<"n1", "n2", "n1">>, <<OnLight, OnLight>>, 2)
Undecoded == [AdminN1 EXCEPT !.privilege = 2]

Path(e, c, l) == [endpoint |-> e, cluster |-> c, leaf |-> l]
AclPath == Path("ep0", "Acl", "Acl")

Data(path, ver, index, data) == [path |-> path, ver |-> ver, index |-> index, data |-> data]
List(items) == Data(AclPath, None, None, [kind |-> "array", items |-> items])
Add(item)   == Data(AclPath, None, None, item)
WildAdd(item) == Data(Path(None, "Acl", "Acl"), None, None, item)
Edit(i, item) == Data(AclPath, None, i, item)
Delete(i)   == Data(AclPath, None, i, [kind |-> "null"])
Number(path, ver) == Data(path, ver, None, [kind |-> "number", value |-> 1])

BreadCrumb == Path("ep0", "GenComm", "BreadCrumb")

\* Writes that are refused for what they name.
Misnamed ==
  <<Number(Path(None, "GenComm", "BreadCrumb"), None), Number(Path("ep0", None, "BreadCrumb"), None),
    Number(Path("ep1", "GenComm", "BreadCrumb"), None), Number(Path(None, "OnOff", "OnOff"), None),
    Number(Path("ep0", "Acl", None), None), Number(Path("ep0", "Acl", "Extension"), None),
    Data(BreadCrumb, None, None, [kind |-> "null"])>>

Admin1Writes ==
  {<<Add(Wide)>>, <<Edit(0, Wide)>>, <<Edit(5, OperN2)>>,
   <<Delete(0)>>, <<List(<<AdminN1, Undecoded, OperN2>>)>>, <<List(<<OperN2>>), WildAdd(AdminN1)>>,
   <<Data(AclPath, 0, None, OperN2), Number(BreadCrumb, 0)>>, Misnamed}

MCWriteRequests ==
  [acc : {Case(1, "n1")}, items : Admin1Writes]
    \cup [acc : {Case(2, "n1")}, items : {<<Add(Wide)>>, <<List(<<AdminN1, OperN2>>)>>, <<Delete(1)>>}]
    \cup [acc : {Pase}, items : {<<Add(Wide)>>, <<List(<< >>)>>}]
    \cup [acc : {Case(1, "n2")}, items : {<<Delete(0), Number(BreadCrumb, None)>>}]
    \cup [acc : {NoKeys}, items : {<<Delete(0)>>}]

Filter0 == {[endpoint |-> "ep0", cluster |-> "Acl", ver |-> 0]}
Request(acc, path, filters, fab_filter) ==
  [acc |-> acc, path |-> path, filters |-> filters, fab_filter |-> fab_filter]

MCReadRequests ==
  {Request(acc, AclPath, {}, TRUE) : acc \in {Case(2, "n1"), Pase}}
    \cup {Request(Case(1, "n1"), AclPath, Filter0, FALSE),
          Request(Case(2, "n1"), Path(None, None, None), Filter0, TRUE),
          Request(Case(1, "n2"), Path(None, "OnOff", None), {}, FALSE),
          Request(Case(1, "n1"), Path(None, None, "BreadCrumb"), {}, FALSE),
          Request(Case(1, "n1"), Path("ep0", "OnOff", "OnOff"), {}, TRUE),
          Request(NoKeys, Path("ep1", None, "OnOff"), {}, TRUE)}

MCCommands ==
  {Path("ep1", "OnOff", "On"), Path(None, "OnOff", "Toggle"), Path("ep1", None, "Off"),
   Path("ep0", "OnOff", "On")}

\* Before the commissioning of the first fabric, after that of both, and with the
\* slots all but used up, by the two others.
Admin(f) == DecodedFor(AdminN1, f)
MCInitialTables ==
  {<< >>, <<Admin(1), Admin(2)>>, <<Admin(0), Admin(1), Admin(2), Admin(0), Admin(2)>>}
=============================================================================
