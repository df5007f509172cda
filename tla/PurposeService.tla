--------------------------- MODULE PurposeService ---------------------------
(***************************************************************************)
(* The purpose service: a purpose is created with its first version, gets  *)
(* further versions, and loses versions that no consent is linked to, one  *)
(* by one or all at once.  A version maps the element versions that its    *)
(* references resolve to when it is created.                               *)
(***************************************************************************)
EXTENDS ElementService

CONSTANT RefLists  \* the lists of element references callers send

\* A reference to an element by name; num 0 asks for the latest version.
ElementRef == [name : ElementNames, scope : Namespaces, num : Nat]

ASSUME PurposeAssumption == RefLists \subseteq Seq(ElementRef)

\* At least one reference, and none twice.
ValidRefs(refs) ==
  refs # <<>> /\ \A i, j \in DOMAIN refs : i # j => refs[i] # refs[j]

-----------------------------------------------------------------------------
\* CreatePurpose looks for the name in its group.
CreatePurpose(cl, name, scope, refs) ==
  /\ Named(purposes, name, scope) = {}
  /\ Begin(cl, [pc |-> "purposeName", began |-> commits,
                row |-> NewVersion(0, name, scope, 1), refs |-> refs])

\* A variant: a purpose of the organization is only compared with its likes.
NameTakenInScope(name, scope) == Named(purposes, name, Org) # {}

\* A purpose of a group conflicts with one of the organization, and one of the
\* organization with any.
NameTaken(name, scope) ==
  IF scope = Org THEN \E p \in purposes : p.name = name ELSE Named(purposes, name, Org) # {}

\* CreatePurpose looks for the name in the whole organization.
CheckPurposeName(cl) ==
  LET r == req[cl] IN
  /\ r.pc = "purposeName"
  /\ IF NameTaken(r.row.name, r.row.scope) \/ ~ValidRefs(r.refs)
     THEN End(cl)
     ELSE Read(cl, [pc |-> "resolve", began |-> r.began, row |-> r.row, refs |-> r.refs,
                    vids |-> <<>>])

\* CreatePurposeVersion reads the latest version.
CreatePurposeVersion(cl, id, refs) ==
  LET T == VersionsOf(purposes, id) IN
  /\ T # {}
  /\ ValidRefs(refs)
  /\ Begin(cl, [pc |-> "resolve", began |-> commits, row |-> NextVersion(T), refs |-> refs,
                vids |-> <<>>])

\* The request goes on with the references after the first, which resolved to
\* vid.
Resolved(r, vid) ==
  [pc |-> IF Len(r.refs) = 1 THEN "insertPurpose" ELSE "resolve",
   began |-> r.began, row |-> r.row, refs |-> Tail(r.refs), vids |-> Append(r.vids, vid)]

\* validateAndResolveElements finds the element of the next reference, in its
\* latest version.
ResolveElement(cl) ==
  LET r     == req[cl]
      ref   == Head(r.refs)
      found == Named(elements, ref.name, ref.scope)
  IN
  /\ r.pc = "resolve"
  /\ CASE found = {}                -> End(cl)
       [] found # {} /\ ref.num = 0 -> Read(cl, Resolved(r, LatestOf(found).vid))
       [] OTHER -> Read(cl, [pc |-> "resolveVersion", began |-> r.began, row |-> r.row,
                             refs |-> r.refs, vids |-> r.vids, id |-> LatestOf(found).id])

\* It then finds the version the reference asks for.
ResolveElementVersion(cl) ==
  LET r     == req[cl]
      found == AtVersion(VersionsOf(elements, r.id), Head(r.refs).num)
  IN
  /\ r.pc = "resolveVersion"
  /\ IF found = {} THEN End(cl) ELSE \E e \in found : Read(cl, Resolved(r, e.vid))

\* The transaction that inserts a purpose version with its mappings.
InsertPurpose(cl) ==
  LET r   == req[cl]
      row == RowOf(r.row)
      new == [vid |-> row.vid, id |-> row.id, name |-> row.name, scope |-> row.scope,
              num |-> row.num, elems |-> {r.vids[i] : i \in DOMAIN r.vids}]
  IN
  /\ r.pc = "insertPurpose"
  /\ IF KeysFree(purposes, row) /\ MappingAllowed(r.vids)
     THEN /\ purposes' = purposes \union {new}
          /\ nextId' = nextId + 1
          /\ Commit(cl)
          /\ UNCHANGED <<elements, links>>
     ELSE End(cl)

-----------------------------------------------------------------------------
\* DeletePurposeVersion reads the version.
DeletePurposeVersion(cl, p) ==
  Begin(cl, [pc |-> "purposeUse", began |-> commits, row |-> p])

\* It refuses to delete a version a consent is linked to.
CheckPurposeUse(cl) ==
  LET r == req[cl] IN
  /\ r.pc = "purposeUse"
  /\ IF UsedByConsent(r.row.vid) THEN End(cl) ELSE Read(cl, [r EXCEPT !.pc = "purposeVersions"])

\* It lists the versions of the purpose.
ListPurposeVersions(cl) ==
  LET r == req[cl] IN
  /\ r.pc = "purposeVersions"
  /\ Read(cl, [pc |-> "deletePurposeVersion", began |-> r.began, row |-> r.row,
               last |-> IsLastVersion(purposes, r.row.id)])

\* DeletePurpose finds that the purpose exists.
DeletePurpose(cl, p) ==
  Begin(cl, [pc |-> "allVersions", began |-> commits, row |-> p])

\* It lists the versions of the purpose.
ListAllVersions(cl) ==
  LET r == req[cl] IN
  /\ r.pc = "allVersions"
  /\ Read(cl, [pc |-> "allUse", began |-> r.began, row |-> r.row,
               left |-> VersionsOf(purposes, r.row.id)])

\* It looks for consents linked to each, in the order of their numbers.
CheckNextUse(cl) ==
  LET r    == req[cl]
      next == CHOOSE p \in r.left : \A q \in r.left : p.num <= q.num
  IN
  /\ r.pc = "allUse"
  /\ CASE r.left = {} -> Read(cl, [pc |-> "deletePurpose", began |-> r.began, row |-> r.row])
       [] r.left # {} /\ UsedByConsent(next.vid)  -> End(cl)
       [] r.left # {} /\ ~UsedByConsent(next.vid) -> Read(cl, [r EXCEPT !.left = @ \ {next}])

\* The transaction that deletes the rows R of a request.
DeletePurposeRows(cl, R) ==
  IF PurposesDeletable(R)
  THEN /\ purposes' = purposes \ R
       /\ Commit(cl)
       /\ UNCHANGED <<elements, links, nextId>>
  ELSE End(cl)

\* The transaction of DeletePurposeVersion.
CommitDeleteVersion(cl) ==
  /\ req[cl].pc = "deletePurposeVersion"
  /\ DeletePurposeRows(cl, ToDelete(purposes, req[cl]))

\* The transaction of DeletePurpose, which deletes every version there is.
CommitDeletePurpose(cl) ==
  /\ req[cl].pc = "deletePurpose"
  /\ DeletePurposeRows(cl, VersionsOf(purposes, req[cl].row.id))

PurposeServiceNext(cl) ==
  \/ \E refs \in RefLists :
       \/ \E name \in PurposeNames, scope \in Groups \union {Org} :
            CreatePurpose(cl, name, scope, refs)
       \/ \E p \in purposes : CreatePurposeVersion(cl, p.id, refs)
  \/ \E p \in purposes : DeletePurposeVersion(cl, p) \/ DeletePurpose(cl, p)
  \/ CheckPurposeName(cl)
  \/ ResolveElement(cl)
  \/ ResolveElementVersion(cl)
  \/ InsertPurpose(cl)
  \/ CheckPurposeUse(cl)
  \/ ListPurposeVersions(cl)
  \/ ListAllVersions(cl)
  \/ CheckNextUse(cl)
  \/ CommitDeleteVersion(cl)
  \/ CommitDeletePurpose(cl)
=============================================================================
