---------------------------- MODULE CatalogStore ----------------------------
(***************************************************************************)
(* The tables of the element and purpose catalog and of the purposes that  *)
(* consents are linked to, with the keys and foreign keys of the database  *)
(* schema.  There is no row for an element or a purpose as such: it is the *)
(* set of its versions.  A row of either table is a version with           *)
(*   vid   its own id (VERSION_ID),                                        *)
(*   id    the id of the element or purpose,                               *)
(*   name, scope    its name in a namespace, or in a group,                *)
(*   num   its version number.                                             *)
(* The row of a purpose also has elems, the element versions mapped to it. *)
(* Ids are drawn from one counter, so they also tell the order of          *)
(* creation.                                                               *)
(***************************************************************************)
EXTENDS Integers, Sequences, FiniteSets

CONSTANTS
  ElementNames,  \* the names of elements
  Namespaces,    \* the namespaces elements are in
  PurposeNames,  \* the names of purposes
  Groups,        \* the groups that own purposes and consents
  Org,           \* the organization: the scope of a purpose of no group
  Consents       \* the consents

ASSUME CatalogAssumption == Org \notin Groups

VARIABLES
  elements,  \* ELEMENT
  purposes,  \* PURPOSE with PURPOSE_ELEMENT_MAPPING
  links,     \* PURPOSE_CONSENT_MAPPING with CONSENT_ELEMENT_APPROVAL, by consent
  nextId

catalog == <<elements, purposes, links, nextId>>

Element == [vid : Nat, id : Nat, name : ElementNames, scope : Namespaces, num : Nat \ {0}]
Purpose == [vid : Nat, id : Nat, name : PurposeNames, scope : Groups \union {Org},
            num : Nat \ {0}, elems : SUBSET Nat]
\* A consent's link to a purpose version, and the element versions it has
\* approval rows for.
Link    == [vid : Nat, approvals : SUBSET Nat]

CatalogInit ==
  /\ elements = {}
  /\ purposes = {}
  /\ links = [c \in Consents |-> {}]
  /\ nextId = 1

CatalogTypeOK ==
  /\ elements \subseteq Element
  /\ purposes \subseteq Purpose
  /\ links \in [Consents -> SUBSET Link]
  /\ nextId \in Nat

-----------------------------------------------------------------------------
(* Queries.  Rows are those of one of the two tables.                      *)

VersionsOf(T, id)     == {r \in T : r.id = id}
Named(T, name, scope) == {r \in T : r.name = name /\ r.scope = scope}
Vids(T)               == {r.vid : r \in T}

\* ORDER BY VERSION DESC LIMIT 1
LatestOf(T) == CHOOSE r \in T : \A s \in T : s.num <= r.num

\* The rows of T with version num; for num 0 the latest.
AtVersion(T, num) ==
  IF T = {} THEN {} ELSE IF num = 0 THEN {LatestOf(T)} ELSE {r \in T : r.num = num}

UsedByPurpose(vid) == \E p \in purposes : vid \in p.elems
UsedByConsent(vid) == \E c \in Consents : \E l \in links[c] : l.vid = vid

\* The element versions mapped to a purpose version; none once it is deleted.
MappedElements(vid) == UNION {p.elems : p \in {q \in purposes : q.vid = vid}}

-----------------------------------------------------------------------------
(* What the schema lets a statement do.                                    *)

\* The unique keys (ID, VERSION) and (NAME, scope, VERSION).
KeysFree(T, r) ==
  \A s \in T : s.id = r.id \/ (s.name = r.name /\ s.scope = r.scope) => s.num # r.num

\* A mapping refers to element versions, each once.
MappingAllowed(vids) ==
  /\ \A i \in DOMAIN vids : vids[i] \in Vids(elements)
  /\ \A i, j \in DOMAIN vids : i # j => vids[i] # vids[j]

\* A consent links purpose versions, each once, and approves elements mapped to
\* them.
LinksAllowed(ls) ==
  /\ \A i \in DOMAIN ls :
       /\ ls[i].vid \in Vids(purposes)
       /\ ls[i].approvals \subseteq MappedElements(ls[i].vid)
  /\ \A i, j \in DOMAIN ls : i # j => ls[i].vid # ls[j].vid

\* A variant whose mappings refer to the id of an element, not of a version.
ElementsUnmapped(R) == \A r \in R : ~UsedByPurpose(r.id)

\* ON DELETE RESTRICT of the mappings.
ElementsDeletable(R) == \A r \in R : ~UsedByPurpose(r.vid)
PurposesDeletable(R) == \A r \in R : ~UsedByConsent(r.vid)
=============================================================================
