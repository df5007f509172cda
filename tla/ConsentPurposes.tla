-------------------------- MODULE ConsentPurposes --------------------------
(***************************************************************************)
(* The part of CreateConsent and UpdateConsent that binds a consent to the *)
(* purposes it names: each is looked up, in the group of the consent and   *)
(* then in the organization, resolved to a version, and given an approval  *)
(* row for every element of that version; the transaction of the operation *)
(* replaces the links of the consent by the new ones.                      *)
(***************************************************************************)
EXTENDS PurposeService

CONSTANTS
  GroupOf,      \* the group of each consent
  PurposeLists  \* the lists of purposes callers send

\* A purpose by name; num 0 asks for the latest version.
PurposeRef == [name : PurposeNames, num : Nat]

ASSUME LinkAssumption ==
  /\ GroupOf \in [Consents -> Groups]
  /\ PurposeLists \subseteq Seq(PurposeRef)

-----------------------------------------------------------------------------
\* The request goes on with purposes l, having resolved ls.
Linking(c, began, l, ls) ==
  [pc |-> IF l = <<>> THEN "link" ELSE "lookUp", c |-> c, began |-> began, list |-> l, links |-> ls]

\* CreateConsent or UpdateConsent of consent c with the purposes l.
LinkPurposes(cl, c, l) == Begin(cl, Linking(c, commits, l, <<>>))

\* The request continues with the purpose of that id, or looks elsewhere.
Continue(r, pc, id) ==
  [pc |-> pc, c |-> r.c, began |-> r.began, list |-> r.list, links |-> r.links, id |-> id]

\* It looks for the next purpose in the group of the consent.
LookUpInGroup(cl) ==
  LET r     == req[cl]
      found == Named(purposes, Head(r.list).name, GroupOf[r.c])
  IN
  /\ r.pc = "lookUp"
  /\ Read(cl, IF found = {} THEN [r EXCEPT !.pc = "lookUpOrg"]
              ELSE Continue(r, "fetch", LatestOf(found).id))

\* It looks for it among the purposes of the organization.
LookUpInOrg(cl) ==
  LET r     == req[cl]
      found == Named(purposes, Head(r.list).name, Org)
  IN
  /\ r.pc = "lookUpOrg"
  /\ IF found = {} THEN End(cl) ELSE Read(cl, Continue(r, "fetch", LatestOf(found).id))

\* It fetches the version asked for.
FetchVersion(cl) ==
  LET r     == req[cl]
      found == AtVersion(VersionsOf(purposes, r.id), Head(r.list).num)
  IN
  /\ r.pc = "fetch"
  /\ IF found = {} THEN End(cl)
     ELSE \E p \in found : Read(cl, Continue(r, "fetchElements", p.vid))

\* A variant: approval rows for some of the elements only.
ApprovalsOfSome(vid) == {e \in MappedElements(vid) : \E f \in MappedElements(vid) : f < e}

\* An approval row for every element of the version, approved or not.
ApprovalsFor(vid) == MappedElements(vid)

\* It fetches the elements of the version and prepares their approval rows.
FetchElements(cl) ==
  LET r == req[cl] IN
  /\ r.pc = "fetchElements"
  /\ Read(cl, Linking(r.c, r.began, Tail(r.list),
                      Append(r.links, [vid |-> r.id, approvals |-> ApprovalsFor(r.id)])))

\* The transaction that replaces the links of the consent.
CommitLinks(cl) ==
  LET r == req[cl] IN
  /\ r.pc = "link"
  /\ IF LinksAllowed(r.links)
     THEN /\ links' = [links EXCEPT ![r.c] = {r.links[i] : i \in DOMAIN r.links}]
          /\ Commit(cl)
          /\ UNCHANGED <<elements, purposes, nextId>>
     ELSE End(cl)

ConsentPurposesNext(cl) ==
  \/ \E c \in Consents, l \in PurposeLists : LinkPurposes(cl, c, l)
  \/ LookUpInGroup(cl)
  \/ LookUpInOrg(cl)
  \/ FetchVersion(cl)
  \/ FetchElements(cl)
  \/ CommitLinks(cl)
=============================================================================
