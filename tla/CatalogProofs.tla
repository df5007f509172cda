---------------------------- MODULE CatalogProofs ----------------------------
(***************************************************************************)
(* The tables of the catalog stay consistent.  What holds however requests *)
(* interleave follows from the keys at the transactions, from ids that are *)
(* never used again, and from what every request under way knows; what     *)
(* holds as long as none is overtaken, from what such a request knows of   *)
(* the present tables.                                                     *)
(***************************************************************************)
EXTENDS Catalog, FiniteSetTheorems, SequenceTheorems, WellFoundedInduction, TLAPS

-----------------------------------------------------------------------------
(* The types of requests.                                                  *)

NewElement == [id : Nat, name : ElementNames, scope : Namespaces, num : Nat \ {0}]
NewPurpose == [id : Nat, name : PurposeNames, scope : Groups \union {Org}, num : Nat \ {0}]

Nonempty(S) == Seq(S) \ {<<>>}

InsertElementReq == [pc : {"insertElement"}, began : Nat, row : NewElement]
ElementUseReq    == [pc : {"elementUse", "elementVersions"}, began : Nat, row : Element]
DeleteElementReq == [pc : {"deleteElement"}, began : Nat, row : Element, last : BOOLEAN]
PurposeNameReq   == [pc : {"purposeName"}, began : Nat, row : NewPurpose, refs : Seq(ElementRef)]
ResolveReq       == [pc : {"resolve"}, began : Nat, row : NewPurpose,
                     refs : Nonempty(ElementRef), vids : Seq(Nat)]
ResolveVersionReq == [pc : {"resolveVersion"}, began : Nat, row : NewPurpose,
                      refs : Nonempty(ElementRef), vids : Seq(Nat), id : Nat]
InsertPurposeReq == [pc : {"insertPurpose"}, began : Nat, row : NewPurpose,
                     refs : {<<>>}, vids : Nonempty(Nat)]
PurposeUseReq    == [pc : {"purposeUse", "purposeVersions", "allVersions", "deletePurpose"},
                     began : Nat, row : Purpose]
DeletePurposeReq == [pc : {"deletePurposeVersion"}, began : Nat, row : Purpose, last : BOOLEAN]
AllUseReq        == [pc : {"allUse"}, began : Nat, row : Purpose, left : SUBSET Purpose]
LookUpReq        == [pc : {"lookUp", "lookUpOrg"}, c : Consents, began : Nat,
                     list : Nonempty(PurposeRef), links : Seq(Link)]
FetchReq         == [pc : {"fetch", "fetchElements"}, c : Consents, began : Nat,
                     list : Nonempty(PurposeRef), links : Seq(Link), id : Nat]
LinkReq          == [pc : {"link"}, c : Consents, began : Nat, list : {<<>>}, links : Seq(Link)]

Requests ==
  UNION {{IdleReq}, InsertElementReq, ElementUseReq, DeleteElementReq, PurposeNameReq, ResolveReq,
         ResolveVersionReq, InsertPurposeReq, PurposeUseReq, DeletePurposeReq, AllUseReq,
         LookUpReq, FetchReq, LinkReq}

\* The pc of a request tells its kind.
LEMMA KindOf ==
  ASSUME NEW q \in Requests
  PROVE  /\ q.pc = "idle" => q = IdleReq
         /\ q.pc = "insertElement" => q \in InsertElementReq
         /\ q.pc \in {"elementUse", "elementVersions"} => q \in ElementUseReq
         /\ q.pc = "deleteElement" => q \in DeleteElementReq
         /\ q.pc = "purposeName" => q \in PurposeNameReq
         /\ q.pc = "resolve" => q \in ResolveReq
         /\ q.pc = "resolveVersion" => q \in ResolveVersionReq
         /\ q.pc = "insertPurpose" => q \in InsertPurposeReq
         /\ q.pc \in {"purposeUse", "purposeVersions", "allVersions", "deletePurpose"}
              => q \in PurposeUseReq
         /\ q.pc = "deletePurposeVersion" => q \in DeletePurposeReq
         /\ q.pc = "allUse" => q \in AllUseReq
         /\ q.pc \in {"lookUp", "lookUpOrg"} => q \in LookUpReq
         /\ q.pc \in {"fetch", "fetchElements"} => q \in FetchReq
         /\ q.pc = "link" => q \in LinkReq
<1>1. \/ q = IdleReq
      \/ q \in InsertElementReq \/ q \in ElementUseReq \/ q \in DeleteElementReq
      \/ q \in PurposeNameReq \/ q \in ResolveReq \/ q \in ResolveVersionReq
      \/ q \in InsertPurposeReq \/ q \in PurposeUseReq \/ q \in DeletePurposeReq
      \/ q \in AllUseReq \/ q \in LookUpReq \/ q \in FetchReq \/ q \in LinkReq
  BY Zenon DEF Requests
<1> QED
  BY <1>1 DEF IdleReq, InsertElementReq, ElementUseReq, DeleteElementReq, PurposeNameReq,
     ResolveReq, ResolveVersionReq, InsertPurposeReq, PurposeUseReq, DeletePurposeReq,
     AllUseReq, LookUpReq, FetchReq, LinkReq

\* A request of one of the kinds is a request.
LEMMA KindsAreRequests ==
  /\ IdleReq \in Requests
  /\ InsertElementReq \subseteq Requests /\ ElementUseReq \subseteq Requests
  /\ DeleteElementReq \subseteq Requests /\ PurposeNameReq \subseteq Requests
  /\ ResolveReq \subseteq Requests /\ ResolveVersionReq \subseteq Requests
  /\ InsertPurposeReq \subseteq Requests /\ PurposeUseReq \subseteq Requests
  /\ DeletePurposeReq \subseteq Requests /\ AllUseReq \subseteq Requests
  /\ LookUpReq \subseteq Requests /\ FetchReq \subseteq Requests /\ LinkReq \subseteq Requests
BY DEF Requests

-----------------------------------------------------------------------------
(* The inductive invariant.                                                *)

TypesFit ==
  /\ CatalogTypeOK
  /\ req \in [Clients -> Requests]
  /\ issued \in Nat /\ commits \in Nat
  /\ raced \in BOOLEAN

\* Ids come from the counter and name one version, and no number is higher than
\* the id of its version.
Numbered(T) ==
  /\ IsFiniteSet(T)
  /\ \A r \in T : r.vid < nextId /\ 1 <= r.id /\ r.id < nextId /\ r.num <= r.vid
  /\ \A r, s \in T : r.vid = s.vid => r = s

TablesFit == nextId >= 1 /\ Numbered(elements) /\ Numbered(purposes)

\* Versions with one id, when it is not that of a version yet to be made, have
\* one name and scope.
SameName(r, s) == r.id = s.id /\ r.id # 0 => r.name = s.name /\ r.scope = s.scope

InsertingPurpose == {"purposeName", "resolve", "resolveVersion", "insertPurpose"}

\* The versions that requests are about to insert.
Pending(pcs) == {req[cl].row : cl \in {k \in Clients : req[k].pc \in pcs}}

KnownElements == elements \union Pending({"insertElement"})
KnownPurposes == purposes \union Pending(InsertingPurpose)

NamesFit ==
  /\ \A r, s \in KnownElements : SameName(r, s)
  /\ \A r, s \in KnownPurposes : SameName(r, s)

\* What is to be inserted has an id and a number that there have been.
RowFits(q) ==
  q.pc \in {"insertElement"} \union InsertingPurpose =>
    q.row.id < nextId /\ q.row.num <= nextId

\* A link has the elements of its purpose version, unless that is gone.
LinkFits(l) == l.vid < nextId /\ \A p \in purposes : p.vid = l.vid => p.elems = l.approvals

LinksFit(q) ==
  /\ q.pc \in {"lookUp", "lookUpOrg", "fetch", "fetchElements", "link"} =>
       \A i \in DOMAIN q.links : LinkFits(q.links[i])
  /\ q.pc = "fetchElements" => q.id < nextId

\* The version row is the first of its name in T, or the next of one of T.
Follows(T, row) ==
  IF row.id = 0 THEN Named(T, row.name, row.scope) = {}
  ELSE VersionsOf(T, row.id) # {} /\ row = NextVersion(VersionsOf(T, row.id))

\* What a request knows of the present tables when it has not been overtaken.
Current(q) ==
  /\ q.pc \in {"insertElement"} => Follows(elements, q.row)
  /\ q.pc \in InsertingPurpose => Follows(purposes, q.row)
  /\ q.pc \in InsertingPurpose \ {"purposeName"} =>
       (q.row.id = 0 => ~NameTaken(q.row.name, q.row.scope))
  /\ q.pc \in {"elementUse", "elementVersions", "deleteElement"} => q.row \in elements
  /\ q.pc \in {"purposeUse", "purposeVersions", "deletePurposeVersion"} => q.row \in purposes
  /\ q.pc = "deleteElement" => (q.last => VersionsOf(elements, q.row.id) = {q.row})
  /\ q.pc = "deletePurposeVersion" => (q.last => VersionsOf(purposes, q.row.id) = {q.row})

Fits(q) ==
  /\ RowFits(q) /\ LinksFit(q)
  /\ q.pc # "idle" => q.began <= commits /\ (q.began = commits => Current(q))

CatalogInv ==
  /\ TypesFit /\ TablesFit /\ NamesFit
  /\ \A cl \in Clients : Fits(req[cl])
  /\ LinksIntact /\ NamesStayUnambiguous /\ LatestIsNewest

-----------------------------------------------------------------------------
(* Lemmas about versions.                                                  *)

\* A nonempty set of numbers has a least one.
LEMMA LeastNumber ==
  ASSUME NEW T, T \subseteq Nat, T # {}
  PROVE  \E n \in T : \A m \in T : n <= m
<1>1. PICK n \in T : \A m \in T : ~(<<m, n>> \in OpToRel(<, Nat))
  BY WFMin, NatLessThanWellFounded, Zenon
<1>2. \A m \in T : ~(m < n)
  BY <1>1, Zenon DEF OpToRel
<1>3. \A m \in T : n <= m
  BY <1>2
<1> QED
  BY <1>3, Zenon

\* Versions with bounded numbers have a latest one.
LEMMA LatestExists ==
  ASSUME NEW T, NEW n \in Nat, T # {}, \A r \in T : r.num \in Nat /\ r.num <= n
  PROVE  LatestOf(T) \in T /\ \A s \in T : s.num <= LatestOf(T).num
<1>1. PICK k \in {n - r.num : r \in T} : \A m \in {n - r.num : r \in T} : k <= m
  <2>1. {n - r.num : r \in T} \subseteq Nat /\ {n - r.num : r \in T} # {}
    OBVIOUS
  <2> HIDE DEF LatestOf
  <2> QED
    BY <2>1, LeastNumber
<1>2. PICK r \in T : k = n - r.num
  BY <1>1
<1>3. \A s \in T : s.num <= r.num
  <2> TAKE s \in T
  <2>1. n - r.num <= n - s.num
    BY <1>1, <1>2
  <2> QED
    BY <2>1
<1> QED
  BY <1>3, Zenon DEF LatestOf

\* The latest of the versions with one id.
LEMMA LatestVersion ==
  ASSUME TypesFit, TablesFit, NEW T \in {elements, purposes}, NEW S, S \subseteq T, S # {}
  PROVE  /\ LatestOf(S) \in S
         /\ \A s \in S : s.num <= LatestOf(S).num
         /\ LatestOf(S).num < nextId
<1>1. /\ nextId \in Nat
      /\ \A r \in S : r.num \in Nat /\ r.num <= nextId /\ r.num < nextId
  BY DEF TypesFit, CatalogTypeOK, TablesFit, Numbered, Element, Purpose
<1>2. LatestOf(S) \in S /\ \A s \in S : s.num <= LatestOf(S).num
  BY <1>1, LatestExists, Zenon
<1> QED
  BY <1>1, <1>2

\* The version after those with an id, and whose name it has.
LEMMA NextVersionFollows ==
  ASSUME TypesFit, TablesFit, NEW T \in {elements, purposes}, NEW id,
         VersionsOf(T, id) # {}
  PROVE  LET S == VersionsOf(T, id) v == NextVersion(S) IN
         /\ LatestOf(S) \in T
         /\ v.id = id /\ v.id # 0 /\ v.id < nextId
         /\ v.name = LatestOf(S).name /\ v.scope = LatestOf(S).scope
         /\ v.num = LatestOf(S).num + 1 /\ v.num \in Nat \ {0} /\ v.num <= nextId
         /\ \A s \in S : s.num < v.num
<1> DEFINE S == VersionsOf(T, id)
<1>1. S \subseteq T /\ S # {}
  BY DEF VersionsOf
<1>2. /\ LatestOf(S) \in S
      /\ \A s \in S : s.num <= LatestOf(S).num
      /\ LatestOf(S).num < nextId
  BY <1>1, LatestVersion, Zenon
<1> DEFINE l == LatestOf(S)
<1>3. l.id = id /\ l \in T
  BY <1>1, <1>2 DEF VersionsOf
<1> HIDE DEF l
<1>4. l.num \in Nat /\ nextId \in Nat /\ 1 <= l.id /\ l.id < nextId /\ l.id \in Nat
      /\ \A s \in S : s.num \in Nat
  BY <1>1, <1>3 DEF TypesFit, CatalogTypeOK, TablesFit, Numbered, Element, Purpose
<1>5. NextVersion(S) = [id |-> l.id, name |-> l.name, scope |-> l.scope, num |-> l.num + 1]
  BY DEF NextVersion, NewVersion, NextNumber, l
<1> HIDE DEF S
<1>6. /\ l.num < nextId
      /\ \A s \in S : s.num <= l.num
  BY <1>2 DEF l
<1> QED
  BY <1>3, <1>4, <1>5, <1>6 DEF S, l

-----------------------------------------------------------------------------
(* Steps that leave the tables alone.                                      *)

Alike(r, s) == r.id = s.id /\ r.name = s.name /\ r.scope = s.scope

\* The version that q is about to insert is one of something new, or like one
\* that is known.
RowKnown(q) ==
  /\ q.pc = "insertElement" => q.row.id = 0 \/ \E s \in KnownElements : Alike(q.row, s)
  /\ q.pc \in InsertingPurpose => q.row.id = 0 \/ \E s \in KnownPurposes : Alike(q.row, s)

\* The request of cl goes on as q, which fits the tables.
Quiet(cl, q) ==
  /\ q \in Requests /\ Fits(q) /\ RowKnown(q)
  /\ req' = [req EXCEPT ![cl] = q]
  /\ issued' \in Nat
  /\ UNCHANGED <<catalog, commits, raced>>

LEMMA EndQuiet ==
  ASSUME CatalogInv, NEW cl \in Clients, End(cl)
  PROVE  \E q : Quiet(cl, q)
<1>1. Fits(IdleReq) /\ RowKnown(IdleReq)
  BY DEF IdleReq, Fits, RowFits, LinksFit, RowKnown, InsertingPurpose
<1>2. issued' \in Nat /\ UNCHANGED <<catalog, commits, raced>>
  BY DEF End, Read, requests, CatalogInv, TypesFit
<1> QED
  BY <1>1, <1>2, KindsAreRequests DEF Quiet, End, Read

LEMMA BeginQuiet ==
  ASSUME CatalogInv, NEW cl \in Clients, NEW q \in Requests, Begin(cl, q),
         RowFits(q), LinksFit(q), RowKnown(q), q.began = commits, Current(q)
  PROVE  \E r : Quiet(cl, r)
<1>1. commits \in Nat /\ issued' \in Nat /\ UNCHANGED <<catalog, commits, raced>>
  BY DEF Begin, CatalogInv, TypesFit
<1>2. Fits(q)
  BY <1>1 DEF Fits
<1> QED
  BY <1>1, <1>2 DEF Quiet, Begin

LEMMA ReadQuiet ==
  ASSUME CatalogInv, NEW cl \in Clients, NEW q \in Requests, Read(cl, q),
         req[cl].pc # "idle", RowFits(q), LinksFit(q), RowKnown(q), q.began = req[cl].began,
         Current(req[cl]) => Current(q)
  PROVE  \E r : Quiet(cl, r)
<1>1. issued' \in Nat /\ UNCHANGED <<catalog, commits, raced>>
  BY DEF Read, requests, CatalogInv, TypesFit
<1>2. Fits(q)
  BY DEF CatalogInv, Fits
<1> QED
  BY <1>1, <1>2 DEF Quiet, Read

\* A request that has a version to insert keeps it.
LEMMA SameRowKnown ==
  ASSUME NEW cl \in Clients, NEW q, q.pc \in InsertingPurpose,
         req[cl].pc \in InsertingPurpose, q.row = req[cl].row
  PROVE  RowKnown(q)
<1>1. q.row \in KnownPurposes
  BY DEF KnownPurposes, Pending
<1> QED
  BY <1>1 DEF RowKnown, Alike, InsertingPurpose

LEMMA CreateElementQuiet ==
  ASSUME CatalogInv, NEW cl \in Clients, NEW name \in ElementNames, NEW ns \in Namespaces,
         CreateElement(cl, name, ns)
  PROVE  \E q : Quiet(cl, q)
<1> DEFINE q == [pc |-> "insertElement", began |-> commits, row |-> NewVersion(0, name, ns, 1)]
<1>0. commits \in Nat /\ nextId \in Nat /\ nextId >= 1
  BY DEF CatalogInv, TypesFit, CatalogTypeOK, TablesFit
<1>1. q \in Requests
  <2>1. q \in InsertElementReq
    BY <1>0 DEF InsertElementReq, NewElement, NewVersion
  <2> QED
    BY <2>1, KindsAreRequests
<1>2. RowFits(q) /\ LinksFit(q) /\ RowKnown(q) /\ q.began = commits
  BY <1>0 DEF RowFits, LinksFit, RowKnown, NewVersion, InsertingPurpose
<1>3. Current(q) /\ Begin(cl, q)
  BY DEF Current, Follows, NewVersion, CreateElement, InsertingPurpose
<1> QED
  BY <1>1, <1>2, <1>3, BeginQuiet

LEMMA CreateElementVersionQuiet ==
  ASSUME CatalogInv, NEW cl \in Clients, NEW id, CreateElementVersion(cl, id)
  PROVE  \E q : Quiet(cl, q)
<1> DEFINE S == VersionsOf(elements, id)
           v == NextVersion(S)
           q == [pc |-> "insertElement", began |-> commits, row |-> v]
<1>0. commits \in Nat /\ nextId \in Nat /\ elements \subseteq Element
  BY DEF CatalogInv, TypesFit, CatalogTypeOK
<1>1. S # {} /\ Begin(cl, q)
  BY DEF CreateElementVersion
<1>2. /\ LatestOf(S) \in elements
      /\ v.id = id /\ v.id # 0 /\ v.id < nextId
      /\ v.name = LatestOf(S).name /\ v.scope = LatestOf(S).scope
      /\ v.num \in Nat \ {0} /\ v.num <= nextId
  BY <1>1, NextVersionFollows DEF CatalogInv
<1>3. v \in NewElement /\ v.id = LatestOf(S).id
  BY <1>0, <1>2 DEF NextVersion, NewVersion, NewElement, Element
<1> HIDE DEF v
<1>4. q \in Requests
  <2>1. q \in InsertElementReq
    BY <1>0, <1>3 DEF InsertElementReq
  <2> QED
    BY <2>1, KindsAreRequests
<1>5. RowFits(q) /\ LinksFit(q) /\ q.began = commits
  BY <1>2 DEF RowFits, LinksFit, InsertingPurpose
<1>6. RowKnown(q)
  BY <1>2, <1>3 DEF RowKnown, KnownElements, Alike, InsertingPurpose
<1>7. Current(q)
  BY <1>1, <1>2 DEF Current, Follows, v, InsertingPurpose
<1> QED
  BY <1>1, <1>4, <1>5, <1>6, <1>7, BeginQuiet

LEMMA DeleteElementVersionQuiet ==
  ASSUME CatalogInv, NEW cl \in Clients, NEW e \in elements, DeleteElementVersion(cl, e)
  PROVE  \E q : Quiet(cl, q)
<1> DEFINE q == [pc |-> "elementUse", began |-> commits, row |-> e]
<1>1. q \in Requests
  <2>1. q \in ElementUseReq
    BY DEF CatalogInv, TypesFit, CatalogTypeOK, ElementUseReq
  <2> QED
    BY <2>1, KindsAreRequests
<1>2. RowFits(q) /\ LinksFit(q) /\ RowKnown(q) /\ q.began = commits /\ Current(q)
  BY DEF RowFits, LinksFit, RowKnown, Current, InsertingPurpose
<1> QED
  BY <1>1, <1>2, BeginQuiet DEF DeleteElementVersion

LEMMA CheckElementUseQuiet ==
  ASSUME CatalogInv, NEW cl \in Clients, CheckElementUse(cl)
  PROVE  \E q : Quiet(cl, q)
<1> DEFINE r == req[cl]
           q == [r EXCEPT !.pc = "elementVersions"]
<1>1. CASE End(cl)
  BY <1>1, EndQuiet
<1>2. CASE Read(cl, q)
  <2>1. r \in ElementUseReq /\ r.pc = "elementUse"
    BY KindOf DEF CheckElementUse, CatalogInv, TypesFit
  <2>2. q \in ElementUseReq /\ q.pc = "elementVersions" /\ q.row = r.row /\ q.began = r.began
    BY <2>1 DEF ElementUseReq
  <2> HIDE DEF q
  <2>3. q \in Requests /\ r.pc # "idle"
    BY <2>1, <2>2, KindsAreRequests
  <2>4. RowFits(q) /\ LinksFit(q) /\ RowKnown(q) /\ (Current(r) => Current(q))
    BY <2>1, <2>2 DEF RowFits, LinksFit, RowKnown, Current, InsertingPurpose
  <2> QED
    BY <1>2, <2>2, <2>3, <2>4, ReadQuiet
<1> QED
  BY <1>1, <1>2 DEF CheckElementUse

\* A version that is the last one is alone.
LEMMA LastIsAlone ==
  ASSUME TablesFit, NEW T \in {elements, purposes}, NEW x \in T, IsLastVersion(T, x.id)
  PROVE  VersionsOf(T, x.id) = {x}
<1> DEFINE S == VersionsOf(T, x.id)
<1>1. S \subseteq T /\ IsFiniteSet(T) /\ x \in S
  BY DEF TablesFit, Numbered, VersionsOf
<1>2. IsFiniteSet(S) /\ Cardinality(S) = 1
  BY <1>1, FS_Subset DEF IsLastVersion
<1> HIDE DEF S
<1>3. \E y : S = {y}
  BY <1>2, FS_Singleton
<1> QED
  BY <1>1, <1>3 DEF S

LEMMA ListElementVersionsQuiet ==
  ASSUME CatalogInv, NEW cl \in Clients, ListElementVersions(cl)
  PROVE  \E q : Quiet(cl, q)
<1> DEFINE r == req[cl]
           q == [pc |-> "deleteElement", began |-> r.began, row |-> r.row,
                 last |-> IsLastVersion(elements, r.row.id)]
<1>1. r \in ElementUseReq /\ r.pc = "elementVersions"
  BY KindOf DEF ListElementVersions, CatalogInv, TypesFit
<1>2. q \in Requests /\ r.pc # "idle"
  <2>1. q \in DeleteElementReq
    BY <1>1 DEF DeleteElementReq, ElementUseReq, IsLastVersion
  <2> QED
    BY <1>1, <2>1, KindsAreRequests
<1>3. RowFits(q) /\ LinksFit(q) /\ RowKnown(q)
  BY DEF RowFits, LinksFit, RowKnown, InsertingPurpose
<1>4. ASSUME Current(r) PROVE Current(q)
  <2>1. r.row \in elements
    BY <1>1, <1>4 DEF Current
  <2>2. q.last => VersionsOf(elements, r.row.id) = {r.row}
    BY <2>1, LastIsAlone DEF CatalogInv
  <2> QED
    BY <2>1, <2>2 DEF Current, InsertingPurpose
<1> QED
  BY <1>2, <1>3, <1>4, ReadQuiet DEF ListElementVersions

LEMMA CreatePurposeQuiet ==
  ASSUME CatalogInv, PurposeAssumption, NEW cl \in Clients, NEW name \in PurposeNames,
         NEW scope \in Groups \union {Org}, NEW refs \in RefLists,
         CreatePurpose(cl, name, scope, refs)
  PROVE  \E q : Quiet(cl, q)
<1> DEFINE q == [pc |-> "purposeName", began |-> commits,
                 row |-> NewVersion(0, name, scope, 1), refs |-> refs]
<1>0. commits \in Nat /\ nextId \in Nat /\ nextId >= 1
  BY DEF CatalogInv, TypesFit, CatalogTypeOK, TablesFit
<1>1. q \in Requests
  <2>1. q \in PurposeNameReq
    BY <1>0 DEF PurposeNameReq, NewPurpose, NewVersion, PurposeAssumption
  <2> QED
    BY <2>1, KindsAreRequests
<1>2. RowFits(q) /\ LinksFit(q) /\ RowKnown(q) /\ q.began = commits
  BY <1>0 DEF RowFits, LinksFit, RowKnown, NewVersion, InsertingPurpose
<1>3. Current(q) /\ Begin(cl, q)
  BY DEF Current, Follows, NewVersion, CreatePurpose, InsertingPurpose
<1> QED
  BY <1>1, <1>2, <1>3, BeginQuiet

LEMMA CheckPurposeNameQuiet ==
  ASSUME CatalogInv, NEW cl \in Clients, CheckPurposeName(cl)
  PROVE  \E q : Quiet(cl, q)
<1> DEFINE r == req[cl]
           q == [pc |-> "resolve", began |-> r.began, row |-> r.row, refs |-> r.refs,
                 vids |-> <<>>]
<1>1. CASE End(cl)
  BY <1>1, EndQuiet
<1>2. CASE ~NameTaken(r.row.name, r.row.scope) /\ ValidRefs(r.refs) /\ Read(cl, q)
  <2>1. r \in PurposeNameReq /\ r.pc = "purposeName"
    BY KindOf DEF CheckPurposeName, CatalogInv, TypesFit
  <2>2. q \in Requests /\ r.pc # "idle"
    <3>1. q \in ResolveReq
      BY <1>2, <2>1 DEF PurposeNameReq, ResolveReq, Nonempty, ValidRefs
    <3> QED
      BY <2>1, <3>1, KindsAreRequests
  <2>3. RowFits(q) /\ LinksFit(q)
    BY <2>1 DEF CatalogInv, Fits, RowFits, LinksFit, InsertingPurpose
  <2>4. RowKnown(q)
    BY <2>1, SameRowKnown DEF InsertingPurpose
  <2>5. Current(r) => Current(q)
    BY <1>2, <2>1 DEF Current, InsertingPurpose
  <2> QED
    BY <1>2, <2>2, <2>3, <2>4, <2>5, ReadQuiet
<1> QED
  BY <1>1, <1>2 DEF CheckPurposeName

LEMMA CreatePurposeVersionQuiet ==
  ASSUME CatalogInv, PurposeAssumption, NEW cl \in Clients, NEW id, NEW refs \in RefLists,
         CreatePurposeVersion(cl, id, refs)
  PROVE  \E q : Quiet(cl, q)
<1> DEFINE S == VersionsOf(purposes, id)
           v == NextVersion(S)
           q == [pc |-> "resolve", began |-> commits, row |-> v, refs |-> refs, vids |-> <<>>]
<1>0. commits \in Nat /\ nextId \in Nat /\ purposes \subseteq Purpose
  BY DEF CatalogInv, TypesFit, CatalogTypeOK
<1>1. S # {} /\ ValidRefs(refs) /\ Begin(cl, q)
  BY DEF CreatePurposeVersion
<1>2. /\ LatestOf(S) \in purposes
      /\ v.id = id /\ v.id # 0 /\ v.id < nextId
      /\ v.name = LatestOf(S).name /\ v.scope = LatestOf(S).scope
      /\ v.num \in Nat \ {0} /\ v.num <= nextId
  BY <1>1, NextVersionFollows DEF CatalogInv
<1>3. v \in NewPurpose /\ v.id = LatestOf(S).id
  BY <1>0, <1>2 DEF NextVersion, NewVersion, NewPurpose, Purpose
<1> HIDE DEF v
<1>4. q \in Requests
  <2>1. q \in ResolveReq
    BY <1>0, <1>1, <1>3 DEF ResolveReq, Nonempty, ValidRefs, PurposeAssumption
  <2> QED
    BY <2>1, KindsAreRequests
<1>5. RowFits(q) /\ LinksFit(q) /\ q.began = commits
  BY <1>2 DEF RowFits, LinksFit, InsertingPurpose
<1>6. RowKnown(q)
  BY <1>2, <1>3 DEF RowKnown, KnownPurposes, Alike, InsertingPurpose
<1>7. Current(q)
  BY <1>1, <1>2 DEF Current, Follows, v, InsertingPurpose
<1> QED
  BY <1>1, <1>4, <1>5, <1>6, <1>7, BeginQuiet

\* Resolving a reference leads to a request of the same version.
LEMMA ResolvedQuiet ==
  ASSUME CatalogInv, NEW cl \in Clients, NEW vid \in Nat,
         req[cl].pc \in {"resolve", "resolveVersion"}, Read(cl, Resolved(req[cl], vid))
  PROVE  \E q : Quiet(cl, q)
<1> DEFINE r == req[cl]
           q == Resolved(r, vid)
<1>1. r \in ResolveReq \/ r \in ResolveVersionReq
  BY KindOf DEF CatalogInv, TypesFit
<1>2. /\ r.refs \in Nonempty(ElementRef) /\ r.vids \in Seq(Nat)
      /\ r.began \in Nat /\ r.row \in NewPurpose
  BY <1>1 DEF ResolveReq, ResolveVersionReq
<1>3. Append(r.vids, vid) \in Nonempty(Nat)
  BY <1>2 DEF Nonempty
<1>4. /\ Len(r.refs) = 1 => Tail(r.refs) = <<>>
      /\ Len(r.refs) # 1 => Tail(r.refs) \in Nonempty(ElementRef)
  <2>1. r.refs \in Seq(ElementRef) /\ r.refs # <<>>
    BY <1>2 DEF Nonempty
  <2>2. Tail(r.refs) \in Seq(ElementRef) /\ Len(Tail(r.refs)) = Len(r.refs) - 1
    BY <2>1
  <2>3. Len(r.refs) \in Nat /\ (Tail(r.refs) = <<>> <=> Len(Tail(r.refs)) = 0)
    BY <2>1, <2>2, EmptySeq
  <2> QED
    BY <2>2, <2>3 DEF Nonempty
<1>5. q \in Requests
  <2>1. CASE Len(r.refs) = 1
    <3>1. q \in InsertPurposeReq
      BY <1>2, <1>3, <1>4, <2>1 DEF Resolved, InsertPurposeReq
    <3> QED
      BY <3>1, KindsAreRequests
  <2>2. CASE Len(r.refs) # 1
    <3>1. q \in ResolveReq
      BY <1>2, <1>3, <1>4, <2>2 DEF Resolved, ResolveReq, Nonempty
    <3> QED
      BY <3>1, KindsAreRequests
  <2> QED
    BY <2>1, <2>2
<1>6. /\ q.pc \in {"resolve", "insertPurpose"} /\ q.row = r.row /\ q.began = r.began
      /\ r.pc \in InsertingPurpose \ {"purposeName"} /\ r.pc # "idle"
  BY DEF Resolved, InsertingPurpose
<1> HIDE DEF q
<1>7. RowFits(q) /\ LinksFit(q) /\ (Current(r) => Current(q))
  BY <1>6 DEF CatalogInv, Fits, RowFits, LinksFit, Current, InsertingPurpose
<1>8. RowKnown(q)
  BY <1>6, SameRowKnown DEF InsertingPurpose
<1>9. Read(cl, q)
  BY DEF q
<1> QED
  BY <1>5, <1>6, <1>7, <1>8, <1>9, ReadQuiet

LEMMA ResolveElementQuiet ==
  ASSUME CatalogInv, NEW cl \in Clients, ResolveElement(cl)
  PROVE  \E q : Quiet(cl, q)
<1> DEFINE r     == req[cl]
           found == Named(elements, Head(r.refs).name, Head(r.refs).scope)
           q     == [pc |-> "resolveVersion", began |-> r.began, row |-> r.row,
                     refs |-> r.refs, vids |-> r.vids, id |-> LatestOf(found).id]
<1>1. CASE End(cl)
  BY <1>1, EndQuiet
<1>2. ASSUME found # {}
      PROVE  LatestOf(found).vid \in Nat /\ LatestOf(found).id \in Nat
  <2>1. found \subseteq elements
    BY DEF Named
  <2>2. LatestOf(found) \in elements
    BY <1>2, <2>1, LatestVersion, Zenon DEF CatalogInv
  <2> QED
    BY <2>2 DEF CatalogInv, TypesFit, CatalogTypeOK, Element
<1>3. CASE found # {} /\ Read(cl, Resolved(r, LatestOf(found).vid))
  BY <1>2, <1>3, ResolvedQuiet DEF ResolveElement
<1>4. CASE found # {} /\ Read(cl, q)
  <2>1. r \in ResolveReq /\ r.pc = "resolve"
    BY KindOf DEF ResolveElement, CatalogInv, TypesFit
  <2>2. q \in Requests /\ r.pc # "idle"
    <3>1. q \in ResolveVersionReq
      BY <1>2, <1>4, <2>1 DEF ResolveReq, ResolveVersionReq
    <3> QED
      BY <2>1, <3>1, KindsAreRequests
  <2>3. RowFits(q) /\ LinksFit(q) /\ (Current(r) => Current(q))
    BY <2>1 DEF CatalogInv, Fits, RowFits, LinksFit, Current, InsertingPurpose
  <2>4. RowKnown(q)
    BY <2>1, SameRowKnown DEF InsertingPurpose
  <2> QED
    BY <1>4, <2>2, <2>3, <2>4, ReadQuiet
<1> QED
  BY <1>1, <1>3, <1>4 DEF ResolveElement

\* What is found at a version number is among the rows looked at.
LEMMA FoundAtVersion ==
  ASSUME CatalogInv, NEW T \in {elements, purposes}, NEW id, NEW num,
         NEW x \in AtVersion(VersionsOf(T, id), num)
  PROVE  x \in T
<1> DEFINE S == VersionsOf(T, id)
<1>1. S \subseteq T /\ S # {}
  BY DEF VersionsOf, AtVersion
<1>2. LatestOf(S) \in S
  BY <1>1, LatestVersion, Zenon DEF CatalogInv
<1> QED
  BY <1>1, <1>2 DEF AtVersion

LEMMA ResolveElementVersionQuiet ==
  ASSUME CatalogInv, NEW cl \in Clients, ResolveElementVersion(cl)
  PROVE  \E q : Quiet(cl, q)
<1> DEFINE r     == req[cl]
           found == AtVersion(VersionsOf(elements, r.id), Head(r.refs).num)
<1>1. CASE End(cl)
  BY <1>1, EndQuiet
<1>2. ASSUME NEW e \in found, Read(cl, Resolved(r, e.vid))
      PROVE  \E q : Quiet(cl, q)
  <2>1. e \in elements
    BY FoundAtVersion
  <2>2. e.vid \in Nat
    BY <2>1 DEF CatalogInv, TypesFit, CatalogTypeOK, Element
  <2> QED
    BY <1>2, <2>2, ResolvedQuiet DEF ResolveElementVersion
<1> QED
  BY <1>1, <1>2 DEF ResolveElementVersion

LEMMA DeletePurposeVersionQuiet ==
  ASSUME CatalogInv, NEW cl \in Clients, NEW p \in purposes,
         DeletePurposeVersion(cl, p) \/ DeletePurpose(cl, p)
  PROVE  \E q : Quiet(cl, q)
<1> SUFFICES ASSUME NEW pc \in {"purposeUse", "allVersions"},
                    Begin(cl, [pc |-> pc, began |-> commits, row |-> p])
             PROVE  \E q : Quiet(cl, q)
  BY DEF DeletePurposeVersion, DeletePurpose
<1> DEFINE q == [pc |-> pc, began |-> commits, row |-> p]
<1>1. q \in Requests
  <2>1. q \in PurposeUseReq
    BY DEF CatalogInv, TypesFit, CatalogTypeOK, PurposeUseReq
  <2> QED
    BY <2>1, KindsAreRequests
<1>2. RowFits(q) /\ LinksFit(q) /\ RowKnown(q) /\ q.began = commits /\ Current(q)
  BY DEF RowFits, LinksFit, RowKnown, Current, InsertingPurpose
<1> QED
  BY <1>1, <1>2, BeginQuiet

LEMMA CheckPurposeUseQuiet ==
  ASSUME CatalogInv, NEW cl \in Clients, CheckPurposeUse(cl)
  PROVE  \E q : Quiet(cl, q)
<1> DEFINE r == req[cl]
           q == [r EXCEPT !.pc = "purposeVersions"]
<1>1. CASE End(cl)
  BY <1>1, EndQuiet
<1>2. CASE Read(cl, q)
  <2>1. r \in PurposeUseReq /\ r.pc = "purposeUse"
    BY KindOf DEF CheckPurposeUse, CatalogInv, TypesFit
  <2>2. q \in PurposeUseReq /\ q.pc = "purposeVersions" /\ q.row = r.row /\ q.began = r.began
    BY <2>1 DEF PurposeUseReq
  <2> HIDE DEF q
  <2>3. q \in Requests /\ r.pc # "idle"
    BY <2>1, <2>2, KindsAreRequests
  <2>4. RowFits(q) /\ LinksFit(q) /\ RowKnown(q) /\ (Current(r) => Current(q))
    BY <2>1, <2>2 DEF RowFits, LinksFit, RowKnown, Current, InsertingPurpose
  <2> QED
    BY <1>2, <2>2, <2>3, <2>4, ReadQuiet
<1> QED
  BY <1>1, <1>2 DEF CheckPurposeUse

LEMMA ListPurposeVersionsQuiet ==
  ASSUME CatalogInv, NEW cl \in Clients, ListPurposeVersions(cl)
  PROVE  \E q : Quiet(cl, q)
<1> DEFINE r == req[cl]
           q == [pc |-> "deletePurposeVersion", began |-> r.began, row |-> r.row,
                 last |-> IsLastVersion(purposes, r.row.id)]
<1>1. r \in PurposeUseReq /\ r.pc = "purposeVersions"
  BY KindOf DEF ListPurposeVersions, CatalogInv, TypesFit
<1>2. q \in Requests /\ r.pc # "idle"
  <2>1. q \in DeletePurposeReq
    BY <1>1 DEF DeletePurposeReq, PurposeUseReq, IsLastVersion
  <2> QED
    BY <1>1, <2>1, KindsAreRequests
<1>3. RowFits(q) /\ LinksFit(q) /\ RowKnown(q)
  BY DEF RowFits, LinksFit, RowKnown, InsertingPurpose
<1>4. ASSUME Current(r) PROVE Current(q)
  <2>1. r.row \in purposes
    BY <1>1, <1>4 DEF Current
  <2>2. q.last => VersionsOf(purposes, r.row.id) = {r.row}
    BY <2>1, LastIsAlone DEF CatalogInv
  <2> QED
    BY <2>1, <2>2 DEF Current, InsertingPurpose
<1> QED
  BY <1>2, <1>3, <1>4, ReadQuiet DEF ListPurposeVersions

LEMMA ListAllVersionsQuiet ==
  ASSUME CatalogInv, NEW cl \in Clients, ListAllVersions(cl)
  PROVE  \E q : Quiet(cl, q)
<1> DEFINE r == req[cl]
           q == [pc |-> "allUse", began |-> r.began, row |-> r.row,
                 left |-> VersionsOf(purposes, r.row.id)]
<1>1. r \in PurposeUseReq /\ r.pc = "allVersions"
  BY KindOf DEF ListAllVersions, CatalogInv, TypesFit
<1>2. q \in Requests /\ r.pc # "idle"
  <2>1. VersionsOf(purposes, r.row.id) \subseteq Purpose
    BY DEF VersionsOf, CatalogInv, TypesFit, CatalogTypeOK
  <2>2. q \in AllUseReq
    BY <1>1, <2>1 DEF AllUseReq, PurposeUseReq
  <2> QED
    BY <1>1, <2>2, KindsAreRequests
<1>3. RowFits(q) /\ LinksFit(q) /\ RowKnown(q) /\ Current(q)
  BY DEF RowFits, LinksFit, RowKnown, Current, InsertingPurpose
<1> QED
  BY <1>2, <1>3, ReadQuiet DEF ListAllVersions

LEMMA CheckNextUseQuiet ==
  ASSUME CatalogInv, NEW cl \in Clients, CheckNextUse(cl)
  PROVE  \E q : Quiet(cl, q)
<1> DEFINE r == req[cl]
<1>0. r \in AllUseReq /\ r.pc = "allUse" /\ r.pc # "idle"
  BY KindOf DEF CheckNextUse, CatalogInv, TypesFit
<1>1. CASE End(cl)
  BY <1>1, EndQuiet
<1>2. CASE Read(cl, [pc |-> "deletePurpose", began |-> r.began, row |-> r.row])
  <2> DEFINE q == [pc |-> "deletePurpose", began |-> r.began, row |-> r.row]
  <2>1. q \in PurposeUseReq
    BY <1>0 DEF PurposeUseReq, AllUseReq
  <2>2. RowFits(q) /\ LinksFit(q) /\ RowKnown(q) /\ Current(q)
    BY DEF RowFits, LinksFit, RowKnown, Current, InsertingPurpose
  <2> QED
    BY <1>0, <1>2, <2>1, <2>2, KindsAreRequests, ReadQuiet
<1>3. ASSUME NEW x, Read(cl, [r EXCEPT !.left = @ \ {x}])
      PROVE  \E q : Quiet(cl, q)
  <2> DEFINE q == [r EXCEPT !.left = @ \ {x}]
  <2>1. q \in AllUseReq /\ q.pc = "allUse" /\ q.began = r.began
    BY <1>0 DEF AllUseReq
  <2> HIDE DEF q
  <2>2. RowFits(q) /\ LinksFit(q) /\ RowKnown(q) /\ Current(q)
    BY <2>1 DEF RowFits, LinksFit, RowKnown, Current, InsertingPurpose
  <2>3. Read(cl, q)
    BY <1>3 DEF q
  <2> QED
    BY <1>0, <2>1, <2>2, <2>3, KindsAreRequests, ReadQuiet
<1> QED
  BY <1>1, <1>2, <1>3 DEF CheckNextUse

\* A request that goes on linking, having resolved ls.
LEMMA LinkingFits ==
  ASSUME NEW c \in Consents, NEW began \in Nat, NEW l \in Seq(PurposeRef), NEW ls \in Seq(Link),
         \A i \in DOMAIN ls : LinkFits(ls[i])
  PROVE  LET q == Linking(c, began, l, ls) IN
         /\ q \in Requests /\ q.began = began
         /\ RowFits(q) /\ LinksFit(q) /\ RowKnown(q) /\ Current(q)
<1> DEFINE q == Linking(c, began, l, ls)
<1>1. q \in Requests
  <2>1. CASE l = <<>>
    <3>1. q \in LinkReq
      BY <2>1 DEF Linking, LinkReq
    <3> QED
      BY <3>1, KindsAreRequests
  <2>2. CASE l # <<>>
    <3>1. q \in LookUpReq
      BY <2>2 DEF Linking, LookUpReq, Nonempty
    <3> QED
      BY <3>1, KindsAreRequests
  <2> QED
    BY <2>1, <2>2
<1>2. q.pc \in {"link", "lookUp"} /\ q.links = ls /\ q.began = began
  BY DEF Linking
<1> HIDE DEF q
<1>3. RowFits(q) /\ LinksFit(q) /\ RowKnown(q) /\ Current(q)
  BY <1>2 DEF RowFits, LinksFit, RowKnown, Current, InsertingPurpose
<1> QED
  BY <1>1, <1>2, <1>3 DEF q

LEMMA LinkPurposesQuiet ==
  ASSUME CatalogInv, LinkAssumption, NEW cl \in Clients, NEW c \in Consents,
         NEW l \in PurposeLists, LinkPurposes(cl, c, l)
  PROVE  \E q : Quiet(cl, q)
<1> DEFINE q == Linking(c, commits, l, <<>>)
<1>1. commits \in Nat /\ l \in Seq(PurposeRef)
  BY DEF CatalogInv, TypesFit, LinkAssumption
<1>2. <<>> \in Seq(Link) /\ \A i \in DOMAIN <<>> : LinkFits(<<>>[i])
  OBVIOUS
<1>3. /\ q \in Requests /\ q.began = commits
      /\ RowFits(q) /\ LinksFit(q) /\ RowKnown(q) /\ Current(q)
  BY <1>1, <1>2, LinkingFits
<1>4. Begin(cl, q)
  BY DEF LinkPurposes
<1> HIDE DEF q
<1> QED
  BY <1>3, <1>4, BeginQuiet

\* A request that looks for a purpose and goes on with what it has resolved.
LEMMA SeekingQuiet ==
  ASSUME CatalogInv, NEW cl \in Clients, NEW q,
         req[cl].pc \in {"lookUp", "lookUpOrg", "fetch"}, Read(cl, q),
         q \in LookUpReq \/ q \in FetchReq,
         q.pc = "fetchElements" => q.id < nextId,
         q.links = req[cl].links, q.began = req[cl].began
  PROVE  \E r : Quiet(cl, r)
<1>1. q \in Requests /\ q.pc \in {"lookUp", "lookUpOrg", "fetch", "fetchElements"}
  BY KindsAreRequests DEF LookUpReq, FetchReq
<1>2. \A i \in DOMAIN q.links : LinkFits(q.links[i])
  BY DEF CatalogInv, Fits, LinksFit
<1>3. RowFits(q) /\ LinksFit(q) /\ RowKnown(q) /\ Current(q)
  BY <1>1, <1>2 DEF RowFits, LinksFit, RowKnown, Current, InsertingPurpose
<1> QED
  BY <1>1, <1>3, ReadQuiet

LEMMA LookUpQuiet ==
  ASSUME CatalogInv, NEW cl \in Clients, LookUpInGroup(cl) \/ LookUpInOrg(cl)
  PROVE  \E q : Quiet(cl, q)
<1> DEFINE r == req[cl]
<1>0. r \in LookUpReq /\ r.pc \in {"lookUp", "lookUpOrg"}
  BY KindOf DEF LookUpInGroup, LookUpInOrg, CatalogInv, TypesFit
<1>1. CASE End(cl)
  BY <1>1, EndQuiet
<1>2. CASE Read(cl, [r EXCEPT !.pc = "lookUpOrg"])
  <2> DEFINE q == [r EXCEPT !.pc = "lookUpOrg"]
  <2>1. q \in LookUpReq /\ q.pc = "lookUpOrg" /\ q.links = r.links /\ q.began = r.began
    BY <1>0 DEF LookUpReq
  <2> HIDE DEF q
  <2>2. Read(cl, q)
    BY <1>2 DEF q
  <2> QED
    BY <1>0, <2>1, <2>2, SeekingQuiet
<1>3. ASSUME NEW scope, Named(purposes, Head(r.list).name, scope) # {},
             Read(cl, Continue(r, "fetch", LatestOf(Named(purposes, Head(r.list).name, scope)).id))
      PROVE  \E q : Quiet(cl, q)
  <2> DEFINE S == Named(purposes, Head(r.list).name, scope)
             q == Continue(r, "fetch", LatestOf(S).id)
  <2>1. S \subseteq purposes
    BY DEF Named
  <2>2. LatestOf(S) \in purposes
    BY <1>3, <2>1, LatestVersion, Zenon DEF CatalogInv
  <2>3. LatestOf(S).id \in Nat
    BY <2>2 DEF CatalogInv, TypesFit, CatalogTypeOK, Purpose
  <2> HIDE DEF S
  <2>4. q \in FetchReq /\ q.pc = "fetch" /\ q.links = r.links /\ q.began = r.began
    BY <1>0, <2>3 DEF Continue, LookUpReq, FetchReq
  <2>5. Read(cl, q)
    BY <1>3 DEF S
  <2> HIDE DEF q
  <2> QED
    BY <1>0, <2>4, <2>5, SeekingQuiet
<1>4. CASE LookUpInGroup(cl)
  BY <1>2, <1>3, <1>4 DEF LookUpInGroup
<1>5. CASE LookUpInOrg(cl)
  BY <1>1, <1>3, <1>5 DEF LookUpInOrg
<1> QED
  BY <1>4, <1>5

LEMMA FetchVersionQuiet ==
  ASSUME CatalogInv, NEW cl \in Clients, FetchVersion(cl)
  PROVE  \E q : Quiet(cl, q)
<1> DEFINE r     == req[cl]
           found == AtVersion(VersionsOf(purposes, r.id), Head(r.list).num)
<1>0. r \in FetchReq /\ r.pc = "fetch"
  BY KindOf DEF FetchVersion, CatalogInv, TypesFit
<1>1. CASE End(cl)
  BY <1>1, EndQuiet
<1>2. ASSUME NEW p \in found, Read(cl, Continue(r, "fetchElements", p.vid))
      PROVE  \E q : Quiet(cl, q)
  <2> DEFINE q == Continue(r, "fetchElements", p.vid)
  <2>1. p \in purposes
    BY FoundAtVersion
  <2>2. p.vid \in Nat /\ p.vid < nextId
    BY <2>1 DEF CatalogInv, TypesFit, CatalogTypeOK, Purpose, TablesFit, Numbered
  <2>3. /\ q \in FetchReq /\ q.pc = "fetchElements" /\ q.id = p.vid
        /\ q.links = r.links /\ q.began = r.began
    BY <1>0, <2>2 DEF Continue, FetchReq
  <2> HIDE DEF q
  <2>4. Read(cl, q)
    BY <1>2 DEF q
  <2> QED
    BY <1>0, <2>2, <2>3, <2>4, SeekingQuiet
<1> QED
  BY <1>1, <1>2 DEF FetchVersion

\* The elements fetched are those of the version, unless that is gone.
LEMMA FetchElementsQuiet ==
  ASSUME CatalogInv, NEW cl \in Clients, FetchElements(cl)
  PROVE  \E q : Quiet(cl, q)
<1> DEFINE r  == req[cl]
           n  == [vid |-> r.id, approvals |-> ApprovalsFor(r.id)]
           ls == Append(r.links, n)
           q  == Linking(r.c, r.began, Tail(r.list), ls)
<1>0. r \in FetchReq /\ r.pc = "fetchElements" /\ r.pc # "idle"
  BY KindOf DEF FetchElements, CatalogInv, TypesFit
<1>1. /\ r.c \in Consents /\ r.began \in Nat /\ r.id \in Nat /\ r.links \in Seq(Link)
      /\ Tail(r.list) \in Seq(PurposeRef)
  BY <1>0 DEF FetchReq, Nonempty
<1>2. n \in Link /\ LinkFits(n)
  <2>1. MappedElements(r.id) \subseteq Nat
    BY DEF MappedElements, CatalogInv, TypesFit, CatalogTypeOK, Purpose
  <2>2. \A p \in purposes : p.vid = r.id => p.elems = MappedElements(r.id)
    <3>1. TAKE p \in purposes
    <3>2. HAVE p.vid = r.id
    <3>3. {x \in purposes : x.vid = r.id} = {p}
      BY <3>2 DEF CatalogInv, TablesFit, Numbered
    <3> QED
      BY <3>3 DEF MappedElements
  <2>3. r.id < nextId
    BY <1>0 DEF CatalogInv, Fits, LinksFit
  <2> QED
    BY <1>1, <2>1, <2>2, <2>3 DEF ApprovalsFor, Link, LinkFits
<1> HIDE DEF n
<1>3. ls \in Seq(Link) /\ \A i \in DOMAIN ls : LinkFits(ls[i])
  <2>1. \A i \in DOMAIN r.links : LinkFits(r.links[i])
    BY <1>0 DEF CatalogInv, Fits, LinksFit
  <2>2. \A i \in DOMAIN ls : ls[i] = n \/ (i \in DOMAIN r.links /\ ls[i] = r.links[i])
    BY <1>1, <1>2
  <2>3. ls \in Seq(Link)
    BY <1>1, <1>2
  <2> HIDE DEF ls
  <2> QED
    BY <1>2, <2>1, <2>2, <2>3
<1> HIDE DEF ls
<1>4. /\ q \in Requests /\ q.began = r.began
      /\ RowFits(q) /\ LinksFit(q) /\ RowKnown(q) /\ Current(q)
  BY <1>1, <1>3, LinkingFits
<1>5. Read(cl, q)
  BY DEF FetchElements, ls, n
<1> HIDE DEF q
<1> QED
  BY <1>0, <1>4, <1>5, ReadQuiet

-----------------------------------------------------------------------------
(* Every step leaves the tables alone or is one of five transactions.      *)

InsertsElement(cl) ==
  /\ req[cl].pc = "insertElement"
  /\ KeysFree(elements, RowOf(req[cl].row))
  /\ elements' = elements \union {RowOf(req[cl].row)}
  /\ nextId' = nextId + 1
  /\ Commit(cl)
  /\ UNCHANGED <<purposes, links>>

DeletesElements(cl) ==
  /\ req[cl].pc = "deleteElement"
  /\ ElementsDeletable(ToDelete(elements, req[cl]))
  /\ elements' = elements \ ToDelete(elements, req[cl])
  /\ Commit(cl)
  /\ UNCHANGED <<purposes, links, nextId>>

\* The row of a purpose version that a request inserts.
PurposeRow(r) ==
  [vid |-> RowOf(r.row).vid, id |-> RowOf(r.row).id, name |-> RowOf(r.row).name,
   scope |-> RowOf(r.row).scope, num |-> RowOf(r.row).num,
   elems |-> {r.vids[i] : i \in DOMAIN r.vids}]

InsertsPurpose(cl) ==
  /\ req[cl].pc = "insertPurpose"
  /\ KeysFree(purposes, RowOf(req[cl].row)) /\ MappingAllowed(req[cl].vids)
  /\ purposes' = purposes \union {PurposeRow(req[cl])}
  /\ nextId' = nextId + 1
  /\ Commit(cl)
  /\ UNCHANGED <<elements, links>>

\* The rows a deletion of purposes takes.
Taken(r) ==
  IF r.pc = "deletePurposeVersion" THEN ToDelete(purposes, r) ELSE VersionsOf(purposes, r.row.id)

DeletesPurposes(cl) ==
  /\ req[cl].pc \in {"deletePurposeVersion", "deletePurpose"}
  /\ PurposesDeletable(Taken(req[cl]))
  /\ purposes' = purposes \ Taken(req[cl])
  /\ Commit(cl)
  /\ UNCHANGED <<elements, links, nextId>>

SetsLinks(cl) ==
  /\ req[cl].pc = "link"
  /\ LinksAllowed(req[cl].links)
  /\ links' = [links EXCEPT ![req[cl].c] = {req[cl].links[i] : i \in DOMAIN req[cl].links}]
  /\ Commit(cl)
  /\ UNCHANGED <<elements, purposes, nextId>>

Transaction(cl) ==
  InsertsElement(cl) \/ DeletesElements(cl) \/ InsertsPurpose(cl) \/ DeletesPurposes(cl)
  \/ SetsLinks(cl)

LEMMA ElementSteps ==
  ASSUME CatalogInv, NEW cl \in Clients, ElementServiceNext(cl)
  PROVE  (\E q : Quiet(cl, q)) \/ Transaction(cl)
<1>1. ASSUME NEW name \in ElementNames, NEW ns \in Namespaces, CreateElement(cl, name, ns)
      PROVE  \E q : Quiet(cl, q)
  BY <1>1, CreateElementQuiet
<1>2. ASSUME NEW e \in elements, CreateElementVersion(cl, e.id)
      PROVE  \E q : Quiet(cl, q)
  BY <1>2, CreateElementVersionQuiet
<1>3. ASSUME NEW e \in elements, DeleteElementVersion(cl, e)
      PROVE  \E q : Quiet(cl, q)
  BY <1>3, DeleteElementVersionQuiet
<1>4. CASE InsertElement(cl)
  BY <1>4, EndQuiet DEF InsertElement, Transaction, InsertsElement
<1>5. CASE CheckElementUse(cl)
  BY <1>5, CheckElementUseQuiet
<1>6. CASE ListElementVersions(cl)
  BY <1>6, ListElementVersionsQuiet
<1>7. CASE DeleteElement(cl)
  BY <1>7, EndQuiet DEF DeleteElement, Transaction, DeletesElements
<1> QED
  BY <1>1, <1>2, <1>3, <1>4, <1>5, <1>6, <1>7, Zenon DEF ElementServiceNext

LEMMA PurposeSteps ==
  ASSUME CatalogInv, PurposeAssumption, NEW cl \in Clients, PurposeServiceNext(cl)
  PROVE  (\E q : Quiet(cl, q)) \/ Transaction(cl)
<1>1. ASSUME NEW refs \in RefLists, NEW name \in PurposeNames, NEW scope \in Groups \union {Org},
             CreatePurpose(cl, name, scope, refs)
      PROVE  \E q : Quiet(cl, q)
  BY <1>1, CreatePurposeQuiet
<1>2. ASSUME NEW refs \in RefLists, NEW p \in purposes, CreatePurposeVersion(cl, p.id, refs)
      PROVE  \E q : Quiet(cl, q)
  BY <1>2, CreatePurposeVersionQuiet
<1>3. ASSUME NEW p \in purposes, DeletePurposeVersion(cl, p) \/ DeletePurpose(cl, p)
      PROVE  \E q : Quiet(cl, q)
  BY <1>3, DeletePurposeVersionQuiet
<1>4. CASE CheckPurposeName(cl)
  BY <1>4, CheckPurposeNameQuiet
<1>5. CASE ResolveElement(cl)
  BY <1>5, ResolveElementQuiet
<1>6. CASE ResolveElementVersion(cl)
  BY <1>6, ResolveElementVersionQuiet
<1>7. CASE InsertPurpose(cl)
  BY <1>7, EndQuiet DEF InsertPurpose, Transaction, InsertsPurpose, PurposeRow
<1>8. CASE CheckPurposeUse(cl)
  BY <1>8, CheckPurposeUseQuiet
<1>9. CASE ListPurposeVersions(cl)
  BY <1>9, ListPurposeVersionsQuiet
<1>10. CASE ListAllVersions(cl)
  BY <1>10, ListAllVersionsQuiet
<1>11. CASE CheckNextUse(cl)
  BY <1>11, CheckNextUseQuiet
<1>12. CASE CommitDeleteVersion(cl)
  BY <1>12, EndQuiet DEF CommitDeleteVersion, DeletePurposeRows, Transaction, DeletesPurposes,
     Taken
<1>13. CASE CommitDeletePurpose(cl)
  BY <1>13, EndQuiet DEF CommitDeletePurpose, DeletePurposeRows, Transaction, DeletesPurposes,
     Taken
<1> QED
  BY <1>1, <1>2, <1>3, <1>4, <1>5, <1>6, <1>7, <1>8, <1>9, <1>10, <1>11, <1>12, <1>13, Zenon
     DEF PurposeServiceNext

LEMMA LinkSteps ==
  ASSUME CatalogInv, LinkAssumption, NEW cl \in Clients, ConsentPurposesNext(cl)
  PROVE  (\E q : Quiet(cl, q)) \/ Transaction(cl)
<1>1. ASSUME NEW c \in Consents, NEW l \in PurposeLists, LinkPurposes(cl, c, l)
      PROVE  \E q : Quiet(cl, q)
  BY <1>1, LinkPurposesQuiet
<1>2. CASE LookUpInGroup(cl) \/ LookUpInOrg(cl)
  BY <1>2, LookUpQuiet
<1>3. CASE FetchVersion(cl)
  BY <1>3, FetchVersionQuiet
<1>4. CASE FetchElements(cl)
  BY <1>4, FetchElementsQuiet
<1>5. CASE CommitLinks(cl)
  BY <1>5, EndQuiet DEF CommitLinks, Transaction, SetsLinks
<1> QED
  BY <1>1, <1>2, <1>3, <1>4, <1>5, Zenon DEF ConsentPurposesNext

LEMMA Steps ==
  ASSUME CatalogInv, PurposeAssumption, LinkAssumption, [Next]_vars
  PROVE  \/ UNCHANGED vars
         \/ \E cl \in Clients : (\E q : Quiet(cl, q)) \/ Transaction(cl)
<1>1. ASSUME NEW cl \in Clients, RequestFails(cl)
      PROVE  \E q : Quiet(cl, q)
  BY <1>1, EndQuiet DEF RequestFails
<1>2. CASE Done
  BY <1>2 DEF Done
<1> QED
  BY <1>1, <1>2, ElementSteps, PurposeSteps, LinkSteps, Zenon DEF Next

-----------------------------------------------------------------------------
(* What a quiet step keeps.                                                *)

LEMMA QuietKeeps ==
  ASSUME CatalogInv, NEW cl \in Clients, NEW q, Quiet(cl, q)
  PROVE  CatalogInv'
<1>0. /\ elements' = elements /\ purposes' = purposes /\ links' = links /\ nextId' = nextId
      /\ commits' = commits /\ raced' = raced
  BY DEF Quiet, catalog
<1>1. TypesFit'
  BY <1>0 DEF CatalogInv, TypesFit, CatalogTypeOK, Quiet
<1>2. TablesFit'
  BY <1>0 DEF CatalogInv, TablesFit, Numbered
<1>3. req \in [Clients -> Requests] /\ \A k \in Clients : req'[k] = IF k = cl THEN q ELSE req[k]
  BY DEF CatalogInv, TypesFit, Quiet
<1>4. NamesFit'
  <2>1. \A x \in KnownElements' :
          x.id = 0 \/ \E s \in KnownElements : Alike(x, s)
    <3>1. TAKE x \in KnownElements'
    <3>2. CASE x \in KnownElements
      BY <3>2 DEF Alike
    <3>3. CASE x \notin KnownElements
      <4>1. q.pc = "insertElement" /\ x = q.row
        BY <1>0, <1>3, <3>3 DEF KnownElements, Pending
      <4> QED
        BY <4>1 DEF Quiet, RowKnown
    <3> QED
      BY <3>2, <3>3
  <2>2. \A x \in KnownPurposes' :
          x.id = 0 \/ \E s \in KnownPurposes : Alike(x, s)
    <3>1. TAKE x \in KnownPurposes'
    <3>2. CASE x \in KnownPurposes
      BY <3>2 DEF Alike
    <3>3. CASE x \notin KnownPurposes
      <4>1. q.pc \in InsertingPurpose /\ x = q.row
        BY <1>0, <1>3, <3>3 DEF KnownPurposes, Pending
      <4> QED
        BY <4>1 DEF Quiet, RowKnown
    <3> QED
      BY <3>2, <3>3
  <2>3. \A r, s \in KnownElements' : SameName(r, s)
    BY <2>1 DEF CatalogInv, NamesFit, SameName, Alike
  <2>4. \A r, s \in KnownPurposes' : SameName(r, s)
    BY <2>2 DEF CatalogInv, NamesFit, SameName, Alike
  <2> QED
    BY <2>3, <2>4 DEF NamesFit
<1>5. \A k \in Clients : Fits(req[k])'
  <2>1. TAKE k \in Clients
  <2>2. Fits(req'[k])
    BY <1>3 DEF CatalogInv, Quiet
  <2>3. RowFits(req[k])' /\ LinksFit(req[k])'
    BY <1>0, <2>2 DEF Fits, RowFits, LinksFit, LinkFits
  <2>4. Current(req'[k]) => Current(req[k])'
    BY <1>0 DEF Current, Follows, NameTaken, Named
  <2> QED
    BY <1>0, <2>2, <2>3, <2>4 DEF Fits
<1>6. LinksIntact' /\ NamesStayUnambiguous' /\ LatestIsNewest'
  BY <1>0 DEF CatalogInv, LinksIntact, NamesStayUnambiguous, Unambiguous, LatestIsNewest, Vids
<1> QED
  BY <1>1, <1>2, <1>4, <1>5, <1>6 DEF CatalogInv

-----------------------------------------------------------------------------
(* What a transaction keeps of the requests under way.                     *)

LEMMA RequestTypes ==
  ASSUME NEW q \in Requests
  PROVE  /\ q.pc # "idle" => q.began \in Nat
         /\ q.pc \in {"insertElement"} \union InsertingPurpose =>
              q.row.id \in Nat /\ q.row.num \in Nat \ {0}
<1> QED
  BY DEF Requests, IdleReq, InsertElementReq, ElementUseReq, DeleteElementReq, PurposeNameReq,
     ResolveReq, ResolveVersionReq, InsertPurposeReq, PurposeUseReq, DeletePurposeReq,
     AllUseReq, LookUpReq, FetchReq, LinkReq, InsertingPurpose, NewElement, NewPurpose

\* After a commit no request knows the present tables; what it has to insert
\* and to link still fits them.
LEMMA CommitFits ==
  ASSUME CatalogInv, NEW cl \in Clients, Commit(cl), nextId' \in Nat, nextId' >= nextId,
         \A p \in purposes' : p \in purposes \/ p.vid = nextId
  PROVE  /\ req' \in [Clients -> Requests]
         /\ issued' \in Nat /\ commits' \in Nat /\ raced' \in BOOLEAN
         /\ \A k \in Clients : Fits(req[k])'
<1>0. /\ req \in [Clients -> Requests]
      /\ issued \in Nat /\ commits \in Nat /\ raced \in BOOLEAN /\ nextId \in Nat
  BY DEF CatalogInv, TypesFit, CatalogTypeOK
<1>1. /\ commits' = commits + 1 /\ issued' = issued
      /\ raced' = (raced \/ req[cl].began # commits)
      /\ req' = [req EXCEPT ![cl] = IdleReq]
  BY DEF Commit
<1>2. req' \in [Clients -> Requests]
  BY <1>0, <1>1, KindsAreRequests
<1>3. \A k \in Clients : Fits(req[k])'
  <2>1. TAKE k \in Clients
  <2>2. CASE k = cl
    <3>1. req'[k] = IdleReq
      BY <1>0, <1>1, <2>2
    <3> QED
      BY <3>1 DEF Fits, RowFits, LinksFit, IdleReq, InsertingPurpose
  <2>3. CASE k # cl
    <3> DEFINE q == req[k]
    <3>1. req'[k] = q /\ q \in Requests /\ Fits(q)
      BY <1>0, <1>1, <2>3 DEF CatalogInv
    <3>2. RowFits(req[k])'
      BY <1>0, <3>1, RequestTypes DEF Fits, RowFits
    <3>3. LinksFit(req[k])'
      <4>1. ASSUME NEW l, l.vid < nextId, l.vid \in Nat, LinkFits(l)
            PROVE  LinkFits(l)'
        BY <1>0, <4>1 DEF LinkFits
      <4>2. CASE q.pc \in {"lookUp", "lookUpOrg", "fetch", "fetchElements", "link"}
        <5>1. q.links \in Seq(Link)
          BY <3>1, <4>2, KindOf DEF LookUpReq, FetchReq, LinkReq
        <5>2. \A i \in DOMAIN q.links : LinkFits(q.links[i])
          BY <3>1, <4>2 DEF Fits, LinksFit
        <5>3. \A i \in DOMAIN req[k]'.links : LinkFits(req[k].links[i])'
          <6>1. req'[k].links = q.links
            BY <3>1
          <6>2. \A l \in Link : LinkFits(l) => LinkFits(l)'
            BY <4>1 DEF Link, LinkFits
          <6>3. \A i \in DOMAIN q.links : q.links[i] \in Link
            BY <5>1
          <6>4. \A l \in Link : LinkFits(l) =>
                  /\ l.vid < nextId'
                  /\ \A p \in purposes' : p.vid = l.vid => p.elems = l.approvals
            BY <6>2 DEF LinkFits
          <6>5. \A i \in DOMAIN q.links :
                  /\ q.links[i].vid < nextId'
                  /\ \A p \in purposes' : p.vid = q.links[i].vid => p.elems = q.links[i].approvals
            BY <5>2, <6>3, <6>4
          <6> QED
            BY <6>1, <6>5 DEF LinkFits
        <5>4. q.pc = "fetchElements" => q.id \in Nat /\ q.id < nextId
          BY <3>1, KindOf DEF FetchReq, Fits, LinksFit
        <5> QED
          BY <1>0, <3>1, <5>3, <5>4 DEF LinksFit, LinkFits
      <4> QED
        BY <3>1, <4>2 DEF LinksFit
    <3>4. req'[k].pc # "idle" => req'[k].began <= commits' /\ req'[k].began # commits'
      BY <1>0, <1>1, <3>1, RequestTypes DEF Fits
    <3> QED
      BY <3>2, <3>3, <3>4 DEF Fits
  <2> QED
    BY <2>2, <2>3
<1> QED
  BY <1>0, <1>1, <1>2, <1>3

\* No version is pending that was not.
LEMMA CommitPending ==
  ASSUME CatalogInv, NEW cl \in Clients, Commit(cl)
  PROVE  /\ Pending({"insertElement"})' \subseteq Pending({"insertElement"})
         /\ Pending(InsertingPurpose)' \subseteq Pending(InsertingPurpose)
<1>1. req'[cl].pc = "idle" /\ \A k \in Clients : k # cl => req'[k] = req[k]
  BY DEF CatalogInv, TypesFit, Commit, IdleReq
<1> QED
  BY <1>1 DEF Pending, InsertingPurpose

\* Unless a request was overtaken, it knows the tables when it commits.
LEMMA CommitCurrent ==
  ASSUME CatalogInv, NEW cl \in Clients, Commit(cl), req[cl].pc # "idle"
  PROVE  ~raced' => ~raced /\ Current(req[cl])
BY DEF CatalogInv, Fits, Commit

\* A known version has an id there has been.
LEMMA KnownIds ==
  ASSUME CatalogInv
  PROVE  /\ \A r \in KnownElements : r.id < nextId
         /\ \A r \in KnownPurposes : r.id < nextId
<1>1. /\ \A r \in elements : r.id < nextId
      /\ \A r \in purposes : r.id < nextId
  BY DEF CatalogInv, TablesFit, Numbered
<1>2. \A k \in Clients : req[k].pc \in {"insertElement"} \union InsertingPurpose =>
        req[k].row.id < nextId
  BY DEF CatalogInv, Fits, RowFits
<1> QED
  BY <1>1, <1>2 DEF KnownElements, KnownPurposes, Pending

-----------------------------------------------------------------------------
(* What an insertion keeps of a table.                                     *)

\* Row x is that of version v.
IsRowOf(x, v) ==
  /\ x.vid = nextId
  /\ x.id = (IF v.id = 0 THEN nextId ELSE v.id)
  /\ x.name = v.name /\ x.scope = v.scope /\ x.num = v.num

\* With a further row the table has one more finite set of numbered versions.
LEMMA InsertNumbered ==
  ASSUME CatalogInv, NEW T \in {elements, purposes}, NEW v, NEW x, IsRowOf(x, v),
         v.id \in Nat, v.num \in Nat \ {0}, v.id < nextId, v.num <= nextId
  PROVE  /\ IsFiniteSet(T \union {x})
         /\ \A r \in T \union {x} :
              r.vid < nextId + 1 /\ 1 <= r.id /\ r.id < nextId + 1 /\ r.num <= r.vid
         /\ \A r, s \in T \union {x} : r.vid = s.vid => r = s
<1>1. nextId \in Nat /\ nextId >= 1 /\ Numbered(T)
      /\ \A r \in T : r.vid \in Nat /\ r.id \in Nat /\ r.num \in Nat
  BY DEF CatalogInv, TypesFit, CatalogTypeOK, TablesFit, Element, Purpose
<1>2. IsFiniteSet(T \union {x})
  BY <1>1, FS_AddElement, Zenon DEF Numbered
<1>3. x.vid = nextId /\ 1 <= x.id /\ x.id < nextId + 1 /\ x.num <= x.vid
  BY <1>1 DEF IsRowOf
<1>4. \A r \in T : r.vid < nextId + 1 /\ 1 <= r.id /\ r.id < nextId + 1 /\ r.num <= r.vid
                   /\ r.vid # nextId
  BY <1>1 DEF Numbered
<1>5. \A r, s \in T : r.vid = s.vid => r = s
  BY <1>1 DEF Numbered
<1> QED
  BY <1>1, <1>2, <1>3, <1>4, <1>5

\* A row is like every version that is known with its id.
LEMMA InsertNames ==
  ASSUME NEW K, \A r, s \in K : SameName(r, s), \A r \in K : r.id < nextId, nextId \in Nat,
         NEW v \in K, NEW x, IsRowOf(x, v)
  PROVE  \A r, s \in K \union {x} : SameName(r, s)
<1>1. \A s \in K : SameName(x, s) /\ SameName(s, x)
  BY DEF SameName, IsRowOf
<1> QED
  BY <1>1 DEF SameName

\* The row of a version that follows those of a table: it has a higher number
\* than the others of its id, and if there are others, one has its name.
LEMMA InsertFollows ==
  ASSUME CatalogInv, NEW T \in {elements, purposes}, NEW v, NEW x, IsRowOf(x, v), Follows(T, v)
  PROVE  /\ \A s \in T : s.id = x.id => s.num < x.num
         /\ v.id # 0 => \E l \in T : Alike(x, l)
         /\ v.id = 0 => \A s \in T : ~(s.name = x.name /\ s.scope = x.scope)
<1>0. nextId \in Nat /\ \A s \in T : s.id < nextId /\ s.id \in Nat
  BY DEF CatalogInv, TypesFit, CatalogTypeOK, TablesFit, Numbered, Element, Purpose
<1>1. CASE v.id = 0
  BY <1>0, <1>1 DEF IsRowOf, Follows, Named
<1>2. CASE v.id # 0
  <2> DEFINE S == VersionsOf(T, v.id)
  <2>1. S # {} /\ v = NextVersion(S)
    BY <1>2 DEF Follows
  <2>2. /\ LatestOf(S) \in T
        /\ v.name = LatestOf(S).name /\ v.scope = LatestOf(S).scope
        /\ \A s \in S : s.num < v.num
    BY <2>1, NextVersionFollows DEF CatalogInv
  <2>3. LatestOf(S).id = v.id
    <3>1. LatestOf(S) \in S
      BY <2>1, LatestVersion, Zenon DEF CatalogInv, VersionsOf
    <3> QED
      BY <3>1 DEF VersionsOf
  <2> QED
    BY <1>2, <2>2, <2>3 DEF IsRowOf, Alike, VersionsOf
<1> QED
  BY <1>1, <1>2

-----------------------------------------------------------------------------
(* What each transaction keeps.                                            *)

LEMMA InsertsElementKeeps ==
  ASSUME CatalogInv, NEW cl \in Clients, InsertsElement(cl)
  PROVE  CatalogInv'
<1> DEFINE v == req[cl].row
           x == RowOf(v)
<1>0. /\ req[cl].pc = "insertElement" /\ Commit(cl)
      /\ elements' = elements \union {x} /\ nextId' = nextId + 1
      /\ purposes' = purposes /\ links' = links
  BY DEF InsertsElement
<1>1. /\ nextId \in Nat /\ elements \subseteq Element /\ purposes \subseteq Purpose
      /\ links \in [Consents -> SUBSET Link] /\ req[cl] \in Requests
      /\ TablesFit /\ NamesFit
  BY DEF CatalogInv, TypesFit, CatalogTypeOK
<1>2. v \in NewElement
  BY <1>0, <1>1, KindOf DEF InsertElementReq
<1>3. v.id < nextId /\ v.num <= nextId
  BY <1>0 DEF CatalogInv, Fits, RowFits
<1>4. x \in Element /\ IsRowOf(x, v)
  BY <1>1, <1>2 DEF RowOf, IsRowOf, Element, NewElement
<1> HIDE DEF x
<1>5. /\ req' \in [Clients -> Requests]
      /\ issued' \in Nat /\ commits' \in Nat /\ raced' \in BOOLEAN
      /\ \A k \in Clients : Fits(req[k])'
  <2>1. nextId' \in Nat /\ nextId' >= nextId
    BY <1>0, <1>1
  <2>2. \A p \in purposes' : p \in purposes \/ p.vid = nextId
    BY <1>0
  <2> QED
    BY <1>0, <2>1, <2>2, CommitFits
<1>6. TypesFit'
  BY <1>0, <1>1, <1>4, <1>5 DEF TypesFit, CatalogTypeOK
<1>7. TablesFit'
  <2>1. /\ IsFiniteSet(elements \union {x})
        /\ \A r \in elements \union {x} :
             r.vid < nextId + 1 /\ 1 <= r.id /\ r.id < nextId + 1 /\ r.num <= r.vid
        /\ \A r, s \in elements \union {x} : r.vid = s.vid => r = s
    BY <1>2, <1>3, <1>4, InsertNumbered DEF NewElement
  <2>2. \A r \in purposes : r.vid \in Nat /\ r.id \in Nat
    BY <1>1 DEF Purpose
  <2>3. Numbered(elements)'
    BY <1>0, <2>1 DEF Numbered
  <2>4. Numbered(purposes)'
    BY <1>0, <1>1, <2>2 DEF TablesFit, Numbered
  <2> QED
    BY <1>0, <1>1, <2>3, <2>4 DEF TablesFit
<1>8. NamesFit'
  <2>1. v \in KnownElements
    BY <1>0 DEF KnownElements, Pending
  <2>2. \A r, s \in KnownElements \union {x} : SameName(r, s)
    <3>1. \A r, s \in KnownElements : SameName(r, s)
      BY <1>1 DEF NamesFit
    <3> QED
      BY <1>1, <1>4, <2>1, <3>1, KnownIds, InsertNames
  <2>3. KnownElements' \subseteq KnownElements \union {x} /\ KnownPurposes' \subseteq KnownPurposes
    BY <1>0, CommitPending DEF KnownElements, KnownPurposes
  <2>4. (\A r, s \in KnownElements : SameName(r, s))'
    BY <2>2, <2>3 DEF SameName
  <2>5. (\A r, s \in KnownPurposes : SameName(r, s))'
    BY <1>1, <2>3 DEF NamesFit, SameName
  <2> QED
    BY <2>4, <2>5 DEF NamesFit
<1>9. LinksIntact'
  BY <1>0 DEF CatalogInv, LinksIntact, Vids
<1>10. ASSUME ~raced'
       PROVE  Unambiguous' /\ (\A T \in {elements, purposes} : \A r, s \in T :
                                 r.id = s.id /\ r.vid < s.vid => r.num < s.num)'
  <2>1. ~raced /\ Current(req[cl])
    BY <1>0, <1>10, CommitCurrent
  <2>2. /\ Follows(elements, v) /\ Unambiguous
        /\ \A r, s \in elements : r.id = s.id /\ r.vid < s.vid => r.num < s.num
        /\ \A r, s \in purposes : r.id = s.id /\ r.vid < s.vid => r.num < s.num
    BY <1>0, <2>1 DEF Current, CatalogInv, NamesStayUnambiguous, LatestIsNewest
  <2>3. /\ \A s \in elements : s.id = x.id => s.num < x.num
        /\ v.id # 0 => \E l \in elements : Alike(x, l)
        /\ v.id = 0 => \A s \in elements : ~(s.name = x.name /\ s.scope = x.scope)
    BY <1>4, <2>2, InsertFollows
  <2>4. \A s \in elements : s.name = x.name /\ s.scope = x.scope => s.id = x.id
    BY <2>2, <2>3 DEF Unambiguous, Alike
  <2>5. x.vid = nextId /\ \A s \in elements : s.vid \in Nat /\ s.vid < nextId
    BY <1>1, <1>4 DEF IsRowOf, TablesFit, Numbered, Element
  <2>6. \A r, s \in elements \union {x} : r.name = s.name /\ r.scope = s.scope => r.id = s.id
    BY <2>2, <2>4 DEF Unambiguous
  <2>7. \A r, s \in elements \union {x} : r.id = s.id /\ r.vid < s.vid => r.num < s.num
    BY <1>1, <2>2, <2>3, <2>5
  <2>8. Unambiguous'
    BY <1>0, <2>2, <2>6 DEF Unambiguous
  <2> QED
    BY <1>0, <2>2, <2>7, <2>8
<1> QED
  BY <1>5, <1>6, <1>7, <1>8, <1>9, <1>10 DEF CatalogInv, NamesStayUnambiguous, LatestIsNewest

LEMMA InsertsPurposeKeeps ==
  ASSUME CatalogInv, NEW cl \in Clients, InsertsPurpose(cl)
  PROVE  CatalogInv'
<1> DEFINE v == req[cl].row
           x == PurposeRow(req[cl])
<1>0. /\ req[cl].pc = "insertPurpose" /\ Commit(cl)
      /\ purposes' = purposes \union {x} /\ nextId' = nextId + 1
      /\ elements' = elements /\ links' = links
  BY DEF InsertsPurpose
<1>1. /\ nextId \in Nat /\ elements \subseteq Element /\ purposes \subseteq Purpose
      /\ links \in [Consents -> SUBSET Link] /\ req[cl] \in Requests
      /\ TablesFit /\ NamesFit
  BY DEF CatalogInv, TypesFit, CatalogTypeOK
<1>2. v \in NewPurpose /\ req[cl].vids \in Nonempty(Nat)
  BY <1>0, <1>1, KindOf DEF InsertPurposeReq
<1>3. v.id < nextId /\ v.num <= nextId
  BY <1>0 DEF CatalogInv, Fits, RowFits, InsertingPurpose
<1>4. x \in Purpose /\ IsRowOf(x, v)
  <2>1. {req[cl].vids[i] : i \in DOMAIN req[cl].vids} \in SUBSET Nat
    BY <1>2 DEF Nonempty
  <2> QED
    BY <1>1, <1>2, <2>1 DEF PurposeRow, RowOf, IsRowOf, Purpose, NewPurpose
<1>5. x.elems # {} /\ x.elems \subseteq Vids(elements)
  <2>1. x.elems = {req[cl].vids[i] : i \in DOMAIN req[cl].vids}
    BY DEF PurposeRow
  <2>2. 1 \in DOMAIN req[cl].vids
    BY <1>2 DEF Nonempty
  <2>3. \A i \in DOMAIN req[cl].vids : req[cl].vids[i] \in Vids(elements)
    BY DEF InsertsPurpose, MappingAllowed
  <2> QED
    BY <2>1, <2>2, <2>3
<1> HIDE DEF x
<1>6. /\ req' \in [Clients -> Requests]
      /\ issued' \in Nat /\ commits' \in Nat /\ raced' \in BOOLEAN
      /\ \A k \in Clients : Fits(req[k])'
  <2>1. nextId' \in Nat /\ nextId' >= nextId
    BY <1>0, <1>1
  <2>2. \A p \in purposes' : p \in purposes \/ p.vid = nextId
    BY <1>0, <1>4 DEF IsRowOf
  <2> QED
    BY <1>0, <2>1, <2>2, CommitFits
<1>7. TypesFit'
  BY <1>0, <1>1, <1>4, <1>6 DEF TypesFit, CatalogTypeOK
<1>8. TablesFit'
  <2>1. /\ IsFiniteSet(purposes \union {x})
        /\ \A r \in purposes \union {x} :
             r.vid < nextId + 1 /\ 1 <= r.id /\ r.id < nextId + 1 /\ r.num <= r.vid
        /\ \A r, s \in purposes \union {x} : r.vid = s.vid => r = s
    BY <1>2, <1>3, <1>4, InsertNumbered DEF NewPurpose
  <2>2. \A r \in elements : r.vid \in Nat /\ r.id \in Nat
    BY <1>1 DEF Element
  <2>3. Numbered(purposes)'
    BY <1>0, <2>1 DEF Numbered
  <2>4. Numbered(elements)'
    BY <1>0, <1>1, <2>2 DEF TablesFit, Numbered
  <2> QED
    BY <1>0, <1>1, <2>3, <2>4 DEF TablesFit
<1>9. NamesFit'
  <2>1. v \in KnownPurposes
    BY <1>0 DEF KnownPurposes, Pending, InsertingPurpose
  <2>2. \A r, s \in KnownPurposes \union {x} : SameName(r, s)
    <3>1. \A r, s \in KnownPurposes : SameName(r, s)
      BY <1>1 DEF NamesFit
    <3> QED
      BY <1>1, <1>4, <2>1, <3>1, KnownIds, InsertNames
  <2>3. KnownPurposes' \subseteq KnownPurposes \union {x} /\ KnownElements' \subseteq KnownElements
    BY <1>0, CommitPending DEF KnownElements, KnownPurposes
  <2>4. (\A r, s \in KnownPurposes : SameName(r, s))'
    BY <2>2, <2>3 DEF SameName
  <2>5. (\A r, s \in KnownElements : SameName(r, s))'
    BY <1>1, <2>3 DEF NamesFit, SameName
  <2> QED
    BY <2>4, <2>5 DEF NamesFit
<1>10. LinksIntact'
  BY <1>0, <1>5 DEF CatalogInv, LinksIntact, Vids
<1>11. ASSUME ~raced'
       PROVE  Unambiguous' /\ (\A T \in {elements, purposes} : \A r, s \in T :
                                 r.id = s.id /\ r.vid < s.vid => r.num < s.num)'
  <2>1. ~raced /\ Current(req[cl])
    BY <1>0, <1>11, CommitCurrent
  <2>2. /\ Follows(purposes, v) /\ Unambiguous
        /\ v.id = 0 => ~NameTaken(v.name, v.scope)
        /\ \A r, s \in elements : r.id = s.id /\ r.vid < s.vid => r.num < s.num
        /\ \A r, s \in purposes : r.id = s.id /\ r.vid < s.vid => r.num < s.num
    BY <1>0, <2>1 DEF Current, InsertingPurpose, CatalogInv, NamesStayUnambiguous, LatestIsNewest
  <2>3. /\ \A s \in purposes : s.id = x.id => s.num < x.num
        /\ v.id # 0 => \E l \in purposes : Alike(x, l)
        /\ v.id = 0 => \A s \in purposes : ~(s.name = x.name /\ s.scope = x.scope)
    BY <1>4, <2>2, InsertFollows
  <2>4. \A s \in purposes :
          s.name = x.name /\ (s.scope = x.scope \/ s.scope = Org \/ x.scope = Org) => s.id = x.id
    <3>1. CASE v.id = 0
      <4>1. x.name = v.name /\ x.scope = v.scope
        BY <1>4 DEF IsRowOf
      <4> QED
        BY <2>2, <2>3, <3>1, <4>1 DEF NameTaken, Named
    <3>2. CASE v.id # 0
      BY <2>2, <2>3, <3>2 DEF Unambiguous, Alike
    <3> QED
      BY <3>1, <3>2
  <2>5. x.vid = nextId /\ \A s \in purposes : s.vid \in Nat /\ s.vid < nextId
    BY <1>1, <1>4 DEF IsRowOf, TablesFit, Numbered, Purpose
  <2>6. \A r, s \in purposes \union {x} :
          r.name = s.name /\ (r.scope = s.scope \/ r.scope = Org) => r.id = s.id
    BY <2>2, <2>4 DEF Unambiguous
  <2>7. \A r, s \in purposes \union {x} : r.id = s.id /\ r.vid < s.vid => r.num < s.num
    BY <1>1, <2>2, <2>3, <2>5
  <2>8. Unambiguous'
    BY <1>0, <2>2, <2>6 DEF Unambiguous
  <2> QED
    BY <1>0, <2>2, <2>7, <2>8
<1> QED
  BY <1>6, <1>7, <1>8, <1>9, <1>10, <1>11 DEF CatalogInv, NamesStayUnambiguous, LatestIsNewest

\* What a deletion keeps, from either table.
LEMMA DeletionKeeps ==
  ASSUME CatalogInv, NEW cl \in Clients, Commit(cl), req[cl].pc # "idle",
         elements' \subseteq elements, purposes' \subseteq purposes,
         UNCHANGED <<links, nextId>>, LinksIntact'
  PROVE  CatalogInv'
<1>0. links' = links /\ nextId' = nextId
  OBVIOUS
<1>1. nextId \in Nat /\ nextId >= 1 /\ Numbered(elements) /\ Numbered(purposes)
  BY DEF CatalogInv, TypesFit, CatalogTypeOK, TablesFit
<1>2. /\ req' \in [Clients -> Requests]
      /\ issued' \in Nat /\ commits' \in Nat /\ raced' \in BOOLEAN
      /\ \A k \in Clients : Fits(req[k])'
  <2>1. nextId' \in Nat /\ nextId' >= nextId
    BY <1>0, <1>1
  <2>2. \A p \in purposes' : p \in purposes \/ p.vid = nextId
    OBVIOUS
  <2> QED
    BY <2>1, <2>2, CommitFits
<1>3. TypesFit'
  BY <1>0, <1>2 DEF CatalogInv, TypesFit, CatalogTypeOK
<1>4. TablesFit'
  <2>1. IsFiniteSet(elements') /\ IsFiniteSet(purposes')
    BY <1>1, FS_Subset, Zenon DEF Numbered
  <2> QED
    BY <1>0, <1>1, <2>1 DEF TablesFit, Numbered
<1>5. NamesFit'
  <2>1. KnownElements' \subseteq KnownElements /\ KnownPurposes' \subseteq KnownPurposes
    BY CommitPending DEF KnownElements, KnownPurposes
  <2> QED
    BY <2>1 DEF CatalogInv, NamesFit, SameName
<1>6. NamesStayUnambiguous' /\ LatestIsNewest'
  BY CommitCurrent DEF CatalogInv, NamesStayUnambiguous, Unambiguous, LatestIsNewest
<1> QED
  BY <1>2, <1>3, <1>4, <1>5, <1>6 DEF CatalogInv

LEMMA DeletesElementsKeeps ==
  ASSUME CatalogInv, NEW cl \in Clients, DeletesElements(cl)
  PROVE  CatalogInv'
<1> DEFINE R == ToDelete(elements, req[cl])
<1>0. /\ req[cl].pc # "idle" /\ Commit(cl)
      /\ elements' = elements \ R /\ UNCHANGED <<purposes, links, nextId>>
      /\ ElementsDeletable(R)
  BY DEF DeletesElements
<1> HIDE DEF R
<1>1. LinksIntact'
  <2>1. \A p \in purposes : p.elems \subseteq Vids(elements)'
    BY <1>0 DEF CatalogInv, LinksIntact, Vids, ElementsDeletable, UsedByPurpose
  <2> QED
    BY <1>0, <2>1 DEF CatalogInv, LinksIntact
<1> QED
  BY <1>0, <1>1, DeletionKeeps

LEMMA DeletesPurposesKeeps ==
  ASSUME CatalogInv, NEW cl \in Clients, DeletesPurposes(cl)
  PROVE  CatalogInv'
<1> DEFINE R == Taken(req[cl])
<1>0. /\ req[cl].pc # "idle" /\ Commit(cl)
      /\ purposes' = purposes \ R /\ UNCHANGED <<elements, links, nextId>>
      /\ PurposesDeletable(R)
  BY DEF DeletesPurposes
<1> HIDE DEF R
<1>1. LinksIntact'
  <2>1. ASSUME NEW c \in Consents, NEW l \in links[c]
        PROVE  \E p \in purposes' : p.vid = l.vid /\ p.elems = l.approvals
    <3>1. PICK p \in purposes : p.vid = l.vid /\ p.elems = l.approvals
      BY DEF CatalogInv, LinksIntact
    <3>2. p \notin R
      BY <1>0, <3>1 DEF PurposesDeletable, UsedByConsent
    <3> QED
      BY <1>0, <3>1, <3>2
  <2>2. \A p \in purposes' : p.elems # {} /\ p.elems \subseteq Vids(elements)'
    BY <1>0 DEF CatalogInv, LinksIntact, Vids
  <2> QED
    BY <1>0, <2>1, <2>2 DEF LinksIntact
<1> QED
  BY <1>0, <1>1, DeletionKeeps

LEMMA SetsLinksKeeps ==
  ASSUME CatalogInv, NEW cl \in Clients, SetsLinks(cl)
  PROVE  CatalogInv'
<1> DEFINE r == req[cl]
           N == {r.links[i] : i \in DOMAIN r.links}
<1>0. /\ r.pc = "link" /\ LinksAllowed(r.links) /\ Commit(cl)
      /\ links' = [links EXCEPT ![r.c] = N]
      /\ elements' = elements /\ purposes' = purposes /\ nextId' = nextId
  BY DEF SetsLinks
<1>1. /\ nextId \in Nat /\ links \in [Consents -> SUBSET Link]
      /\ elements \subseteq Element /\ purposes \subseteq Purpose
  BY DEF CatalogInv, TypesFit, CatalogTypeOK
<1>2. r.c \in Consents /\ r.links \in Seq(Link)
  BY <1>0, KindOf DEF CatalogInv, TypesFit, LinkReq
<1>3. N \subseteq Link
  BY <1>2
<1>4. \A l \in N : \E p \in purposes : p.vid = l.vid /\ p.elems = l.approvals
  <2>1. \A l \in N : LinkFits(l)
    BY <1>0 DEF CatalogInv, Fits, LinksFit
  <2>2. \A l \in N : \E p \in purposes : p.vid = l.vid
    BY <1>0 DEF LinksAllowed, Vids
  <2> QED
    BY <2>1, <2>2 DEF LinkFits
<1> HIDE DEF N
<1>5. /\ req' \in [Clients -> Requests]
      /\ issued' \in Nat /\ commits' \in Nat /\ raced' \in BOOLEAN
      /\ \A k \in Clients : Fits(req[k])'
  <2>1. nextId' \in Nat /\ nextId' >= nextId
    BY <1>0, <1>1
  <2>2. \A p \in purposes' : p \in purposes \/ p.vid = nextId
    BY <1>0
  <2> QED
    BY <1>0, <2>1, <2>2, CommitFits
<1>6. TypesFit'
  <2>1. links' \in [Consents -> SUBSET Link]
    BY <1>0, <1>1, <1>3
  <2> QED
    BY <1>0, <1>1, <1>5, <2>1 DEF TypesFit, CatalogTypeOK
<1>7. TablesFit'
  BY <1>0 DEF CatalogInv, TablesFit, Numbered
<1>8. NamesFit'
  <2>1. KnownElements' \subseteq KnownElements /\ KnownPurposes' \subseteq KnownPurposes
    BY <1>0, CommitPending DEF KnownElements, KnownPurposes
  <2> QED
    BY <2>1 DEF CatalogInv, NamesFit, SameName
<1>9. LinksIntact'
  <2>1. \A c \in Consents : links'[c] = IF c = r.c THEN N ELSE links[c]
    BY <1>0, <1>1
  <2>2. \A c \in Consents : \A l \in links'[c] :
          \E p \in purposes : p.vid = l.vid /\ p.elems = l.approvals
    BY <1>4, <2>1 DEF CatalogInv, LinksIntact
  <2> QED
    BY <1>0, <2>2 DEF CatalogInv, LinksIntact, Vids
<1>10. NamesStayUnambiguous' /\ LatestIsNewest'
  BY <1>0, CommitCurrent DEF CatalogInv, NamesStayUnambiguous, Unambiguous, LatestIsNewest
<1> QED
  BY <1>5, <1>6, <1>7, <1>8, <1>9, <1>10 DEF CatalogInv

-----------------------------------------------------------------------------
(* The theorems.                                                           *)

LEMMA InitFits ==
  ASSUME Init
  PROVE  CatalogInv
<1>1. elements = {} /\ purposes = {} /\ links = [c \in Consents |-> {}] /\ nextId = 1
  BY DEF Init, CatalogInit
<1>2. req = [cl \in Clients |-> IdleReq] /\ issued = 0 /\ commits = 0 /\ raced = FALSE
  BY DEF Init, RequestsInit
<1>3. TypesFit
  BY <1>1, <1>2, KindsAreRequests DEF TypesFit, CatalogTypeOK
<1>4. TablesFit
  BY <1>1, FS_EmptySet DEF TablesFit, Numbered
<1>5. NamesFit
  BY <1>1, <1>2 DEF NamesFit, KnownElements, KnownPurposes, Pending, IdleReq, InsertingPurpose
<1>6. \A cl \in Clients : Fits(req[cl])
  BY <1>2 DEF Fits, RowFits, LinksFit, IdleReq, InsertingPurpose
<1>7. LinksIntact /\ NamesStayUnambiguous /\ LatestIsNewest
  BY <1>1 DEF LinksIntact, NamesStayUnambiguous, Unambiguous, LatestIsNewest
<1> QED
  BY <1>3, <1>4, <1>5, <1>6, <1>7 DEF CatalogInv

LEMMA StepKeeps ==
  ASSUME CatalogInv, PurposeAssumption, LinkAssumption, [Next]_vars
  PROVE  CatalogInv'
<1>1. CASE UNCHANGED vars
  <2>1. /\ elements' = elements /\ purposes' = purposes /\ links' = links /\ nextId' = nextId
        /\ req' = req /\ issued' = issued /\ commits' = commits /\ raced' = raced
    BY <1>1 DEF vars
  <2>2. TypesFit' /\ TablesFit' /\ NamesFit'
    BY <2>1 DEF CatalogInv, TypesFit, CatalogTypeOK, TablesFit, Numbered, NamesFit,
       KnownElements, KnownPurposes, Pending
  <2>3. \A cl \in Clients : Fits(req[cl])'
    <3>1. TAKE cl \in Clients
    <3>2. Fits(req[cl])
      BY DEF CatalogInv
    <3>3. RowFits(req[cl])' /\ LinksFit(req[cl])'
      BY <2>1, <3>2 DEF Fits, RowFits, LinksFit, LinkFits
    <3>4. Current(req[cl]) => Current(req[cl])'
      BY <2>1 DEF Current, Follows, NameTaken, Named
    <3> QED
      BY <2>1, <3>2, <3>3, <3>4 DEF Fits
  <2>4. LinksIntact' /\ NamesStayUnambiguous' /\ LatestIsNewest'
    BY <2>1 DEF CatalogInv, LinksIntact, NamesStayUnambiguous, Unambiguous, LatestIsNewest, Vids
  <2> QED
    BY <2>2, <2>3, <2>4 DEF CatalogInv
<1>2. CASE \E cl \in Clients : (\E q : Quiet(cl, q)) \/ Transaction(cl)
  BY <1>2, QuietKeeps, InsertsElementKeeps, DeletesElementsKeeps, InsertsPurposeKeeps,
     DeletesPurposesKeeps, SetsLinksKeeps, Zenon DEF Transaction
<1> QED
  BY <1>1, <1>2, Steps, Zenon

\* The invariant holds however requests interleave.
THEOREM Invariance == Spec => []CatalogInv
<1>1. Init => CatalogInv
  BY InitFits
<1>2. CatalogInv /\ [Next]_vars => CatalogInv'
  BY StepKeeps, PurposeAssumption, LinkAssumption
<1> QED
  BY <1>1, <1>2, PTL DEF Spec

\* The rows of the tables are versions and links, and ids are numbers.
THEOREM CatalogTypes == Spec => []CatalogTypeOK
<1>1. CatalogInv => CatalogTypeOK
  BY DEF CatalogInv, TypesFit
<1> QED
  BY <1>1, Invariance, PTL

\* A consent is linked to versions that exist, with an approval row for every
\* element of each and no other (resolveConsentPurposes reads what the
\* transaction of CreateConsent or UpdateConsent writes).
THEOREM LinksStayIntact == Spec => []LinksIntact
<1>1. CatalogInv => LinksIntact
  BY DEF CatalogInv
<1> QED
  BY <1>1, Invariance, PTL

\* Versions of one element or purpose have one name and one scope, whatever is
\* deleted between the reads and the insertion of CreateElementVersion or
\* CreatePurposeVersion.
THEOREM VersionsKeepNames == Spec => []VersionsShareName
<1>1. ASSUME CatalogInv
      PROVE  VersionsShareName
  <2>1. /\ \A r \in elements : r.id \in Nat /\ 1 <= r.id
        /\ \A r \in purposes : r.id \in Nat /\ 1 <= r.id
    BY <1>1 DEF CatalogInv, TypesFit, CatalogTypeOK, TablesFit, Numbered, Element, Purpose
  <2>2. /\ \A r, s \in elements : SameName(r, s)
        /\ \A r, s \in purposes : SameName(r, s)
    BY <1>1 DEF CatalogInv, NamesFit, KnownElements, KnownPurposes
  <2>3. /\ \A r \in elements : r.id # 0
        /\ \A r \in purposes : r.id # 0
    BY <2>1
  <2> QED
    BY <2>2, <2>3 DEF VersionsShareName, SameName
<1> QED
  BY <1>1, Invariance, PTL

\* A name stands for one element of its namespace and, beside those of the
\* organization, one purpose of a group, until a request commits what another
\* has overtaken (the checks of createSingleElement and CreatePurpose).
THEOREM NamesAreUnambiguous == Spec => []NamesStayUnambiguous
<1>1. CatalogInv => NamesStayUnambiguous
  BY DEF CatalogInv
<1> QED
  BY <1>1, Invariance, PTL

\* Until then the version with the highest number, which references without a
\* number get, is the newest.
THEOREM NewestIsLatest == Spec => []LatestIsNewest
<1>1. CatalogInv => LatestIsNewest
  BY DEF CatalogInv
<1> QED
  BY <1>1, Invariance, PTL

\* Until a request commits what another has overtaken, the deletion of a version
\* takes no other with it, though that of the last version deletes whatever
\* versions there are (DeleteElementVersion, DeletePurposeVersion).
THEOREM OneVersionDeleted == Spec => DeletesOneVersion
<1> DEFINE Kept(cl) ==
             LET r == req[cl] IN
             req'[cl] # r /\ ~raced' =>
               /\ r.pc = "deleteElement" => elements \ elements' \subseteq {r.row}
               /\ r.pc = "deletePurposeVersion" => purposes \ purposes' \subseteq {r.row}
<1>1. ASSUME CatalogInv, NEW k \in Clients, NEW q, Quiet(k, q), NEW cl \in Clients
      PROVE  Kept(cl)
  BY <1>1 DEF Quiet, catalog
<1>2. ASSUME CatalogInv, NEW k \in Clients, Transaction(k), NEW cl \in Clients
      PROVE  Kept(cl)
  <2> DEFINE r == req[cl]
  <2> SUFFICES ASSUME req'[cl] # r, ~raced'
               PROVE  /\ r.pc = "deleteElement" => elements \ elements' \subseteq {r.row}
                      /\ r.pc = "deletePurposeVersion" => purposes \ purposes' \subseteq {r.row}
    OBVIOUS
  <2>1. Commit(k) /\ req[k].pc # "idle"
    BY <1>2 DEF Transaction, InsertsElement, DeletesElements, InsertsPurpose, DeletesPurposes,
       SetsLinks
  <2>2. cl = k
    BY <1>2, <2>1 DEF Commit, CatalogInv, TypesFit
  <2>3. Current(r)
    BY <1>2, <2>1, <2>2, CommitCurrent
  <2>4. ASSUME r.pc = "deleteElement"
        PROVE  elements \ elements' \subseteq {r.row}
    <3>1. elements' = elements \ ToDelete(elements, r)
      BY <1>2, <2>2, <2>4 DEF Transaction, InsertsElement, DeletesElements, InsertsPurpose,
         DeletesPurposes, SetsLinks
    <3>2. r.row \in elements /\ (r.last => VersionsOf(elements, r.row.id) = {r.row})
      BY <2>3, <2>4 DEF Current
    <3>3. \A x \in elements : x.vid = r.row.vid => x = r.row
      BY <1>2, <3>2 DEF CatalogInv, TablesFit, Numbered
    <3> QED
      BY <3>1, <3>2, <3>3 DEF ToDelete, VersionsOf
  <2>5. ASSUME r.pc = "deletePurposeVersion"
        PROVE  purposes \ purposes' \subseteq {r.row}
    <3>1. purposes' = purposes \ ToDelete(purposes, r)
      BY <1>2, <2>2, <2>5 DEF Transaction, InsertsElement, DeletesElements, InsertsPurpose,
         DeletesPurposes, SetsLinks, Taken
    <3>2. r.row \in purposes /\ (r.last => VersionsOf(purposes, r.row.id) = {r.row})
      BY <2>3, <2>5 DEF Current
    <3>3. \A x \in purposes : x.vid = r.row.vid => x = r.row
      BY <1>2, <3>2 DEF CatalogInv, TablesFit, Numbered
    <3> QED
      BY <3>1, <3>2, <3>3 DEF ToDelete, VersionsOf
  <2> QED
    BY <2>4, <2>5
<1>3. CatalogInv /\ [Next]_vars => [\A cl \in Clients : Kept(cl)]_vars
  <2> SUFFICES ASSUME CatalogInv, [Next]_vars, ~UNCHANGED vars
               PROVE  \A cl \in Clients : Kept(cl)
    OBVIOUS
  <2> HIDE DEF Kept
  <2> QED
    BY <1>1, <1>2, Steps, PurposeAssumption, LinkAssumption, Zenon
<1> QED
  BY <1>3, Invariance, PTL DEF Spec, DeletesOneVersion

\* A version with an id from the counter is none that a consent refers to.
LEMMA LinkedAreOld ==
  ASSUME CatalogInv, NEW c \in Consents, NEW l \in links[c]
  PROVE  l.vid # nextId /\ nextId \notin l.approvals
<1>1. PICK p \in purposes : p.vid = l.vid /\ p.elems = l.approvals
  BY DEF CatalogInv, LinksIntact
<1>2. p.elems \subseteq Vids(elements)
  BY DEF CatalogInv, LinksIntact
<1>3. \A x \in elements \union purposes : x.vid # nextId
  BY DEF CatalogInv, TypesFit, CatalogTypeOK, TablesFit, Numbered, Element, Purpose
<1> QED
  BY <1>1, <1>2, <1>3 DEF Vids

\* A transaction on the tables takes no version a consent refers to, and adds
\* none that one could refer to.
LEMMA TransactionLeavesTerms ==
  ASSUME CatalogInv, NEW cl \in Clients, Transaction(cl), NEW c \in Consents,
         links'[c] = links[c]
  PROVE  /\ \A p : (\E l \in links[c] : p.vid = l.vid) => (p \in purposes' <=> p \in purposes)
         /\ \A e : (\E l \in links[c] : e.vid \in l.approvals)
                     => (e \in elements' <=> e \in elements)
<1>1. CASE InsertsElement(cl)
  <2>1. RowOf(req[cl].row).vid = nextId
    BY DEF RowOf
  <2>2. elements' = elements \union {RowOf(req[cl].row)} /\ purposes' = purposes
    BY <1>1 DEF InsertsElement
  <2> QED
    BY <2>1, <2>2, LinkedAreOld
<1>2. CASE InsertsPurpose(cl)
  <2>1. PurposeRow(req[cl]).vid = nextId
    BY DEF PurposeRow, RowOf
  <2>2. purposes' = purposes \union {PurposeRow(req[cl])} /\ elements' = elements
    BY <1>2 DEF InsertsPurpose
  <2> QED
    BY <2>1, <2>2, LinkedAreOld
<1>3. CASE DeletesElements(cl)
  <2> DEFINE R == ToDelete(elements, req[cl])
  <2>1. elements' = elements \ R /\ ElementsDeletable(R) /\ purposes' = purposes
    BY <1>3 DEF DeletesElements
  <2> HIDE DEF R
  <2>2. ASSUME NEW e \in R, NEW l \in links[c]
        PROVE  e.vid \notin l.approvals
    BY <2>1, <2>2 DEF ElementsDeletable, UsedByPurpose, CatalogInv, LinksIntact
  <2> QED
    BY <2>1, <2>2
<1>4. CASE DeletesPurposes(cl)
  <2> DEFINE R == Taken(req[cl])
  <2>1. purposes' = purposes \ R /\ PurposesDeletable(R) /\ elements' = elements
    BY <1>4 DEF DeletesPurposes
  <2> HIDE DEF R
  <2>2. ASSUME NEW p \in R, NEW l \in links[c]
        PROVE  p.vid # l.vid
    BY <2>1, <2>2 DEF PurposesDeletable, UsedByConsent
  <2> QED
    BY <2>1, <2>2
<1>5. CASE SetsLinks(cl)
  BY <1>5 DEF SetsLinks
<1> QED
  BY <1>1, <1>2, <1>3, <1>4, <1>5 DEF Transaction

\* What a consent is about changes with its own links only, whatever requests on
\* the catalog and on other consents do in any order: versions are never changed
\* (there is no such operation), a version in use is not deleted, and no later
\* version gets the id of another.
THEOREM TermsStandFast == Spec => TermsStand
<1> DEFINE Stand(c) == links'[c] = links[c] =>
             PurposeTerms(c)' = PurposeTerms(c) /\ ElementTerms(c)' = ElementTerms(c)
<1>1. ASSUME NEW k \in Clients, NEW q, Quiet(k, q), NEW c \in Consents
      PROVE  Stand(c)
  BY <1>1 DEF Quiet, catalog, PurposeTerms, ElementTerms
<1>2. ASSUME CatalogInv, NEW k \in Clients, Transaction(k), NEW c \in Consents
      PROVE  Stand(c)
  <2> SUFFICES ASSUME links'[c] = links[c]
               PROVE  PurposeTerms(c)' = PurposeTerms(c) /\ ElementTerms(c)' = ElementTerms(c)
    OBVIOUS
  <2>1. /\ \A p : (\E l \in links[c] : p.vid = l.vid) => (p \in purposes' <=> p \in purposes)
        /\ \A e : (\E l \in links[c] : e.vid \in l.approvals)
                    => (e \in elements' <=> e \in elements)
    BY <1>2, TransactionLeavesTerms
  <2> QED
    BY <2>1 DEF PurposeTerms, ElementTerms
<1>3. CatalogInv /\ [Next]_vars => [\A c \in Consents : Stand(c)]_vars
  <2> SUFFICES ASSUME CatalogInv, [Next]_vars, ~UNCHANGED vars
               PROVE  \A c \in Consents : Stand(c)
    OBVIOUS
  <2> HIDE DEF Stand
  <2> QED
    BY <1>1, <1>2, Steps, PurposeAssumption, LinkAssumption, Zenon
<1> QED
  BY <1>3, Invariance, PTL DEF Spec, TermsStand

==============================================================================
