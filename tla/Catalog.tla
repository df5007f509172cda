------------------------------ MODULE Catalog ------------------------------
(***************************************************************************)
(* The catalog of elements and purposes under requests that interleave,    *)
(* and what its tables promise to the consents that refer to them.         *)
(***************************************************************************)
EXTENDS ConsentPurposes

vars == <<elements, purposes, links, nextId, req, issued, commits, raced>>

Init == CatalogInit /\ RequestsInit

\* Nothing is left to do within the bound.
Done ==
  /\ issued = MaxRequests
  /\ \A cl \in Clients : req[cl] = IdleReq
  /\ UNCHANGED vars

Next ==
  \/ \E cl \in Clients :
       \/ ElementServiceNext(cl)
       \/ PurposeServiceNext(cl)
       \/ ConsentPurposesNext(cl)
       \/ RequestFails(cl)
  \/ Done

Spec == Init /\ [][Next]_vars

-----------------------------------------------------------------------------
\* A consent is linked to purpose versions that exist, with an approval row for
\* every element of each and for nothing else; and the elements exist.  The
\* link is resolved by several reads and committed after them all.
LinksIntact ==
  /\ \A c \in Consents : \A l \in links[c] :
       \E p \in purposes : p.vid = l.vid /\ p.elems = l.approvals
  /\ \A p \in purposes : p.elems # {} /\ p.elems \subseteq Vids(elements)

\* All versions of an element or a purpose have its name and scope, also those
\* inserted after every version that was read had been deleted.
VersionsShareName ==
  \A T \in {elements, purposes} : \A r, s \in T :
    r.id = s.id => r.name = s.name /\ r.scope = s.scope

\* A name stands for one element of its namespace, and for one purpose in the
\* eyes of every group: no two of the group, and none of the organization
\* beside one of a group.
Unambiguous ==
  /\ \A r, s \in elements : r.name = s.name /\ r.scope = s.scope => r.id = s.id
  /\ \A r, s \in purposes :
       r.name = s.name /\ (r.scope = s.scope \/ r.scope = Org) => r.id = s.id

\* Names are unambiguous as long as no transaction committed what it had
\* decided before another one committed.
NamesStayUnambiguous == ~raced => Unambiguous

\* With the same proviso a later version has a higher number, so that the
\* latest version, which references without a number get, is the newest.
LatestIsNewest ==
  ~raced => \A T \in {elements, purposes} : \A r, s \in T :
              r.id = s.id /\ r.vid < s.vid => r.num < s.num

\* With the same proviso the deletion of a version takes no other with it.
DeletesOneVersion ==
  [][\A cl \in Clients :
       LET r == req[cl] IN
       req'[cl] # r /\ ~raced' =>
         /\ r.pc = "deleteElement" => elements \ elements' \subseteq {r.row}
         /\ r.pc = "deletePurposeVersion" => purposes \ purposes' \subseteq {r.row}]_vars

\* What a consent is about: the purpose versions it is linked to, and the element
\* versions it has approval rows for.
PurposeTerms(c) == {p \in purposes : \E l \in links[c] : p.vid = l.vid}
ElementTerms(c) == {e \in elements : \E l \in links[c] : e.vid \in l.approvals}

\* What a consent is about changes with its own links only: whatever the requests
\* on elements, purposes and other consents insert and delete, and whatever they
\* checked before, the versions it refers to stay, and stay the only ones.
TermsStand ==
  [][\A c \in Consents :
       links'[c] = links[c] =>
         PurposeTerms(c)' = PurposeTerms(c) /\ ElementTerms(c)' = ElementTerms(c)]_vars

-----------------------------------------------------------------------------
\* consentpurpose/service.go:105: a purpose of a group must not have the name of
\* one of the organization, as a consent that names it would be ambiguous.  The
\* check and the insertion are separate: two creations, one for a group and one
\* for the organization, both find the name free, and no key keeps them apart.
OrgNamesUnambiguous ==
  \A r, s \in purposes : r.name = s.name /\ r.scope = Org => r.id = s.id
=============================================================================
