--------------------------- MODULE ElementService ---------------------------
(***************************************************************************)
(* The element service: an element is created with its first version, gets *)
(* further versions, and loses versions that no purpose refers to.  A      *)
(* batch of new elements is so many requests, one after the other.         *)
(***************************************************************************)
EXTENDS CatalogRequests

\* The version that a request inserts; id 0 stands for a new element's id.
NewVersion(id, name, scope, num) == [id |-> id, name |-> name, scope |-> scope, num |-> num]

\* A variant: the number after the count of the versions there are.
NumberByCount(T) == Cardinality(T) + 1

\* The number of the version after the versions T.
NextNumber(T) == LatestOf(T).num + 1

\* A variant: the next version of a group's purpose belongs to the organization.
NextVersionOfOrg(T) ==
  LET r == LatestOf(T)
  IN NewVersion(r.id, r.name, IF r.scope \in Groups THEN Org ELSE r.scope, NextNumber(T))

\* The version after the versions T, of the same element or purpose.
NextVersion(T) ==
  NewVersion(LatestOf(T).id, LatestOf(T).name, LatestOf(T).scope, NextNumber(T))

\* createSingleElement looks for the name.
CreateElement(cl, name, ns) ==
  /\ Named(elements, name, ns) = {}
  /\ Begin(cl, [pc |-> "insertElement", began |-> commits, row |-> NewVersion(0, name, ns, 1)])

\* CreateElementVersion reads the latest version.
CreateElementVersion(cl, id) ==
  LET T == VersionsOf(elements, id) IN
  /\ T # {}
  /\ Begin(cl, [pc |-> "insertElement", began |-> commits, row |-> NextVersion(T)])

\* A variant that counts versions from 0.
RowFromZero(v) ==
  [vid |-> nextId, id |-> IF v.id = 0 THEN nextId ELSE v.id,
   name |-> v.name, scope |-> v.scope, num |-> v.num - 1]

\* The row of version v, which gets the next id.
RowOf(v) ==
  [vid |-> nextId, id |-> IF v.id = 0 THEN nextId ELSE v.id,
   name |-> v.name, scope |-> v.scope, num |-> v.num]

\* The transaction that inserts an element version.
InsertElement(cl) ==
  LET row == RowOf(req[cl].row) IN
  /\ req[cl].pc = "insertElement"
  /\ IF KeysFree(elements, row)
     THEN /\ elements' = elements \union {row}
          /\ nextId' = nextId + 1
          /\ Commit(cl)
          /\ UNCHANGED <<purposes, links>>
     ELSE End(cl)

-----------------------------------------------------------------------------
\* DeleteElementVersion reads the version.
DeleteElementVersion(cl, e) ==
  Begin(cl, [pc |-> "elementUse", began |-> commits, row |-> e])

\* It refuses to delete a version a purpose refers to.
CheckElementUse(cl) ==
  LET r == req[cl] IN
  /\ r.pc = "elementUse"
  /\ IF UsedByPurpose(r.row.vid) THEN End(cl) ELSE Read(cl, [r EXCEPT !.pc = "elementVersions"])

\* A variant: the version is the last one once it is alone with another.
IsNearlyLast(T, id) == Cardinality(VersionsOf(T, id)) <= 2

\* The version is the only one left.
IsLastVersion(T, id) == Cardinality(VersionsOf(T, id)) = 1

\* It lists the versions of the element.
ListElementVersions(cl) ==
  LET r == req[cl] IN
  /\ r.pc = "elementVersions"
  /\ Read(cl, [pc |-> "deleteElement", began |-> r.began, row |-> r.row,
               last |-> IsLastVersion(elements, r.row.id)])

\* The rows a request deletes: its version and, if it was the last one, every
\* version there is.
ToDelete(T, r) == {x \in T : x.vid = r.row.vid \/ (r.last /\ x.id = r.row.id)}

\* The transaction that deletes them.
DeleteElement(cl) ==
  LET R == ToDelete(elements, req[cl]) IN
  /\ req[cl].pc = "deleteElement"
  /\ IF ElementsDeletable(R)
     THEN /\ elements' = elements \ R
          /\ Commit(cl)
          /\ UNCHANGED <<purposes, links, nextId>>
     ELSE End(cl)

ElementServiceNext(cl) ==
  \/ \E name \in ElementNames, ns \in Namespaces : CreateElement(cl, name, ns)
  \/ \E e \in elements : CreateElementVersion(cl, e.id) \/ DeleteElementVersion(cl, e)
  \/ InsertElement(cl)
  \/ CheckElementUse(cl)
  \/ ListElementVersions(cl)
  \/ DeleteElement(cl)
=============================================================================
