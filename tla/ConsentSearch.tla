---------------------------- MODULE ConsentSearch ----------------------------
(***************************************************************************)
(* Searching for consents, page by page, while others write them.  An      *)
(* answer takes three queries: the number of all matches, one page of      *)
(* them, and the authorizations of that page.  A client that walks the     *)
(* pages asks for the next with the limit that the last answer showed.     *)
(*                                                                         *)
(* Filters by purpose, element and update time, and sorting by status and  *)
(* type, look at what an update may change, as those by status, user and   *)
(* updatedTime do, and are left out.                                       *)
(***************************************************************************)
EXTENDS Integers, Sequences, FiniteSets

CONSTANTS
  Consents,        \* the ids of consents, numbers in the order of the ids
  Clients,
  NewRows,         \* what is written of a consent: validityTime, groupId, status, auths
  Searches,        \* what is searched for: filter, sort items, limit asked for
  NoTime,          \* a consent without expiration time: later than all times
  NoUser,          \* no delegateSubject
  DefaultLimit, MaxLimit,
  MaxTime, MaxWrites   \* bounds of a run

Fields == {"createdTime", "updatedTime", "validityTime", "groupId"}

Item == [field : Fields, asc : BOOLEAN]

ASSUME SearchAssumption ==
  /\ Consents \subseteq Nat /\ IsFiniteSet(Consents)
  /\ NoTime \in Nat /\ MaxTime \in Nat
  /\ \A n \in NewRows : n.validityTime \in 0..NoTime /\ n.groupId \in Nat
  /\ \A s \in Searches :
       /\ s.sort \in Seq(Item)
       /\ s.limit \in Nat
  /\ DefaultLimit \in Nat \ {0} /\ MaxLimit \in Nat \ {0} /\ DefaultLimit <= MaxLimit

VARIABLES
  row,      \* the consents, with the names of the sort fields for the columns
  auths,    \* their authorizations: users and types
  req,      \* the walk of each client
  writes

vars == <<row, auths, req, writes>>

NoRow == [status |-> "none"]
Exists(c) == row[c] # NoRow

Idle == [pc |-> "idle"]
Walking(r) == r.pc # "idle"

Init ==
  /\ row = [c \in Consents |-> NoRow]
  /\ auths = [c \in Consents |-> {}]
  /\ req = [cl \in Clients |-> Idle]
  /\ writes = 0

-----------------------------------------------------------------------------
(* What a search selects.                                                  *)

\* One authorization has all that is asked of users, role and types together.
Role(f, a) ==
  /\ f.users = {} \/ a.user \in f.users
  /\ f.delegation = "true" => a.type = "delegate"
  /\ f.delegation = "false" => a.type = "primary"
  /\ f.types = {} \/ a.type \in f.types

AsksForRole(f) == f.users # {} \/ f.delegation # "none" \/ f.types # {}

\* A variant that joins the authorizations once for each of the three.
RoleInParts(f, c) ==
  /\ f.users = {} \/ \E a \in auths[c] : a.user \in f.users
  /\ f.delegation = "true" => \E a \in auths[c] : a.type = "delegate"
  /\ f.delegation = "false" => \E a \in auths[c] : a.type = "primary"
  /\ f.types = {} \/ \E a \in auths[c] : a.type \in f.types

MatchesInParts(f, c) ==
  /\ f.groups = {} \/ row[c].groupId \in f.groups
  /\ f.statuses = {} \/ row[c].status \in f.statuses
  /\ RoleInParts(f, c)
  /\ f.subject = NoUser \/ [user |-> f.subject, type |-> "delegate_subject"] \in auths[c]

Matches(f, c) ==
  /\ f.groups = {} \/ row[c].groupId \in f.groups
  /\ f.statuses = {} \/ row[c].status \in f.statuses
  /\ AsksForRole(f) => \E a \in auths[c] : Role(f, a)
  /\ f.subject = NoUser \/ [user |-> f.subject, type |-> "delegate_subject"] \in auths[c]

Matching(f) == {c \in Consents : Exists(c) /\ Matches(f, c)}

\* A variant that counts the rows of the join.
CountRows(f) ==
  Cardinality({p \in Matching(f) \X UNION {auths[c] : c \in Consents} :
                 p[2] \in auths[p[1]] /\ Role(f, p[2])})

Count(f) == Cardinality(Matching(f))

Tied(item, c, d) == row[c][item.field] = row[d][item.field]

Before(item, c, d) == IF item.asc THEN row[c][item.field] < row[d][item.field]
                                  ELSE row[c][item.field] > row[d][item.field]

\* A variant that leaves open which of two goes first.
AheadByItems(sort, c, d) ==
  \E i \in DOMAIN sort : /\ Before(sort[i], c, d)
                         /\ \A j \in 1..(i - 1) : Tied(sort[j], c, d)

\* The items of the sort decide in their order, and then the id.
Ahead(sort, c, d) ==
  \/ \E i \in DOMAIN sort : /\ Before(sort[i], c, d)
                            /\ \A j \in 1..(i - 1) : Tied(sort[j], c, d)
  \/ c < d /\ \A i \in DOMAIN sort : Tied(sort[i], c, d)

\* How many matches are ahead of c.
Rank(f, sort, c) == Cardinality({d \in Matching(f) : Ahead(sort, d, c)})

Page(f, sort, limit, offset) ==
  {c \in Matching(f) : Rank(f, sort, c) \in offset..(offset + limit - 1)}

-----------------------------------------------------------------------------
(* What a client does.  start, seen and quiet watch its walk: the matches  *)
(* there were when it began, those on the pages before this one, and       *)
(* whether nothing has been written since.                                 *)

\* A variant without an upper limit.
LimitAsked(l) == IF l = 0 THEN DefaultLimit ELSE l

Limit(l) == IF l = 0 THEN DefaultLimit ELSE IF l > MaxLimit THEN MaxLimit ELSE l

\* The handler refuses to be asked for delegation and for types.
Accepted(f) == f.delegation = "none" \/ f.types = {}

SearchStep == UNCHANGED <<row, auths, writes>>

ListConsents(cl) ==
  /\ req[cl].pc \in {"idle", "answered"}
  /\ \E s \in Searches :
       /\ Accepted(s.filter)
       /\ req' = [req EXCEPT ![cl] =
            [pc |-> "count", filter |-> s.filter,
             sort |-> IF s.sort = <<>> THEN <<[field |-> "createdTime", asc |-> FALSE]>> ELSE s.sort,
             limit |-> Limit(s.limit), offset |-> 0, total |-> 0, page |-> {}, shown |-> <<>>,
             start |-> Matching(s.filter), seen |-> {}, quiet |-> TRUE]]
  /\ SearchStep

CountMatches(cl) ==
  /\ req[cl].pc = "count"
  /\ req' = [req EXCEPT ![cl].pc = "page", ![cl].total = Count(req[cl].filter)]
  /\ SearchStep

\* An empty page is answered at once, with a total of 0.
SelectPage(cl) ==
  LET r == req[cl]
      p == Page(r.filter, r.sort, r.limit, r.offset)
  IN  /\ r.pc = "page"
      /\ req' = [req EXCEPT ![cl].page = p,
                            ![cl].pc = IF p = {} THEN "answered" ELSE "auths",
                            ![cl].total = IF p = {} THEN 0 ELSE @,
                            ![cl].shown = <<>>]
      /\ SearchStep

GetAuthsOfPage(cl) ==
  /\ req[cl].pc = "auths"
  /\ req' = [req EXCEPT ![cl].shown = [c \in req[cl].page |-> auths[c]], ![cl].pc = "answered"]
  /\ SearchStep

\* The client goes on by the limit shown in the answer, until a page is empty.
NextPage(cl) ==
  LET r == req[cl]
  IN  /\ r.pc = "answered" /\ r.page # {}
      /\ req' = [req EXCEPT ![cl].pc = "count", ![cl].offset = @ + r.limit,
                            ![cl].seen = @ \cup r.page, ![cl].page = {},
                            ![cl].shown = <<>>]
      /\ SearchStep

\* A query fails, and the client asks for the same page again.
SearchFails(cl) ==
  /\ req[cl].pc \in {"count", "page", "auths"}
  /\ req' = [req EXCEPT ![cl].pc = "count", ![cl].page = {}, ![cl].shown = <<>>]
  /\ SearchStep

-----------------------------------------------------------------------------
(* What others write.  The time written is that of the beginning of a      *)
(* request, so a transaction may write an earlier time than one before it. *)

Write(c, r, as) ==
  /\ writes < MaxWrites
  /\ writes' = writes + 1
  /\ row' = [row EXCEPT ![c] = r]
  /\ auths' = [auths EXCEPT ![c] = as]
  /\ req' = [cl \in Clients |-> IF Walking(req[cl]) THEN [req[cl] EXCEPT !.quiet = FALSE] ELSE req[cl]]

CreateConsent(c) ==
  /\ ~Exists(c)
  /\ \E t \in 0..MaxTime, n \in NewRows :
       Write(c, [createdTime |-> t, updatedTime |-> t, validityTime |-> n.validityTime,
                 groupId |-> n.groupId, status |-> n.status], n.auths)

\* An update of the consent, its revocation or expiry, or a write of an authorization.
UpdateConsent(c) ==
  /\ Exists(c)
  /\ \E t \in 0..MaxTime, n \in NewRows :
       Write(c, [row[c] EXCEPT !.updatedTime = t, !.validityTime = n.validityTime,
                               !.status = n.status], n.auths)

-----------------------------------------------------------------------------
Next ==
  \/ \E cl \in Clients : \/ ListConsents(cl) \/ CountMatches(cl) \/ SelectPage(cl)
                         \/ GetAuthsOfPage(cl) \/ NextPage(cl) \/ SearchFails(cl)
  \/ \E c \in Consents : CreateConsent(c) \/ UpdateConsent(c)

Spec == Init /\ [][Next]_vars

-----------------------------------------------------------------------------
\* Every variable has its type, and no page is longer than MaxLimit.
SearchTypeOK ==
  /\ \A c \in Consents : Exists(c) =>
       /\ \A field \in Fields : row[c][field] \in Nat
       /\ row[c].createdTime <= MaxTime /\ row[c].updatedTime <= MaxTime
  /\ \A cl \in Clients : LET r == req[cl] IN
       \/ ~Walking(r)
       \/ /\ r.pc \in {"count", "page", "auths", "answered"}
          /\ r.limit \in 1..MaxLimit /\ r.offset \in Nat /\ r.total \in Nat
          /\ r.page \subseteq Consents /\ Cardinality(r.page) <= r.limit
          /\ DOMAIN r.shown \subseteq r.page
          /\ r.start \subseteq Consents /\ r.seen \subseteq Consents

\* The search looks only at what no write changes: the group and the time of creation.
Settled(r) ==
  /\ r.filter.statuses = {} /\ ~AsksForRole(r.filter) /\ r.filter.subject = NoUser
  /\ \A i \in DOMAIN r.sort : r.sort[i].field \in {"createdTime", "groupId"}

\* A walk in a settled order to its end misses none of the consents there were
\* when it began, whatever is created and written meanwhile, with times in any order.
NothingIsMissed ==
  \A cl \in Clients : LET r == req[cl] IN
    Walking(r) /\ r.pc = "answered" /\ r.page = {} /\ Settled(r) => r.start \subseteq r.seen

\* A walk during which nothing is written shows every match once and in order,
\* and with every page but the empty one the number of all.
QuietWalkIsExact ==
  \A cl \in Clients : LET r == req[cl] IN
    Walking(r) /\ r.quiet /\ r.pc \in {"auths", "answered"} =>
      /\ \A c \in r.seen, d \in r.page : Ahead(r.sort, c, d) /\ c # d
      /\ IF r.page = {} THEN r.seen = Matching(r.filter)
                        ELSE r.total = Cardinality(Matching(r.filter))

\* An answer during which nothing is written shows with each consent one
\* authorization that is all the filter asks for: this user in this role.
AnswersFit ==
  \A cl \in Clients : LET r == req[cl] IN
    Walking(r) /\ r.quiet /\ r.pc = "answered" /\ AsksForRole(r.filter) =>
      \A c \in r.page : \E a \in r.shown[c] : Role(r.filter, a)
=============================================================================
