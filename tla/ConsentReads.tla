----------------------------- MODULE ConsentReads -----------------------------
(***************************************************************************)
(* Requests that read a consent.  GetConsent, GetConsentWithStatusHistory, *)
(* ValidateConsent and SearchConsents put their answers together from      *)
(* several queries, each on a connection of its own and outside any        *)
(* transaction, while other requests write.                                *)
(***************************************************************************)
EXTENDS ConsentContent

CONSTANTS
  Clients,      \* the requests the server works on at one time
  NewBody,      \* the body the consent was created with
  Bodies,       \* the bodies of updates
  NewAuths,     \* the statuses of authorizations that callers add
  MaxTime,      \* bound: the last value of the clock
  MaxRequests,  \* bound: requests ever begun
  MaxFaults     \* bound: failed database calls

ASSUME ReadsAssumption ==
  /\ NewBody \in Body /\ DOMAIN NewBody.terms = Fields /\ Acceptable(NewBody)
  /\ Bodies \subseteq Body
  /\ NewAuths \subseteq CallerStatuses
  /\ MaxTime \in Nat /\ MaxRequests \in Nat /\ MaxFaults \in Nat

VARIABLES
  req,     \* what each client's request has read, and what it does next
  issued,  \* requests begun
  faults   \* failed calls

vars == <<now, content, req, issued, faults>>

\* The answers that are put together.
Kinds == {"get", "status", "validate", "search"}

\* What a request has read when it is about to read the next part: its parts,
\* the versions of the consent at which it read the row, the purposes and the
\* approvals (from), and the parts whose loss it went on with.
Idle    == [pc |-> "idle"]
Begun   == [pc |-> "refetch"]
Writing == [pc : {"update"}, saw : Row, ver : Nat, at : Nat, in : Body, new : ConsentStatuses]
           \union [pc : {"revoke"}, saw : Row, ver : Nat, at : Nat]
Reading == [pc : {"auths", "purposes", "approvals", "audits", "answered"}, for : Kinds,
            row : Row, auths : SUBSET AuthStatuses, links : SUBSET Versions,
            approvals : SUBSET Approval, audits : SUBSET Entry, valid : BOOLEAN,
            from : [row : Nat, links : Nat, approvals : Nat],
            lost : SUBSET {"purposes", "approvals"}]

Init ==
  /\ CreateConsent(NewBody)
  /\ req = [cl \in Clients |-> Idle]
  /\ issued = 0
  /\ faults = 0

Begin(cl) ==
  /\ req[cl] = Idle
  /\ issued < MaxRequests
  /\ issued' = issued + 1
  /\ UNCHANGED faults

Resume(cl, pc) ==
  /\ req[cl].pc = pc
  /\ UNCHANGED <<issued, faults>>

Become(cl, r) == req' = [req EXCEPT ![cl] = r]

\* A request that has read the row and goes on to load the rest.
LoadConsentOutput(for) ==
  [pc |-> "auths", for |-> for, row |-> row, auths |-> {}, links |-> {}, approvals |-> {},
   audits |-> {}, valid |-> FALSE, from |-> [row |-> ver, links |-> ver, approvals |-> ver],
   lost |-> {}]

-----------------------------------------------------------------------------
(* Requests that write.                                                    *)

\* UpdateConsent reads the row, takes the time and derives the status.
BeginUpdate(cl, in) ==
  /\ Begin(cl)
  /\ Acceptable(in)
  /\ Become(cl, [pc |-> "update", saw |-> row, ver |-> ver, at |-> now, in |-> in,
                 new |-> IF in.replace THEN DeriveStatus(in.auths) ELSE row.status])
  /\ UNCHANGED <<now, content>>

\* Its transaction; it then reads the consent again, for its answer.
CommitUpdate(cl) ==
  LET r == req[cl] IN
  /\ Resume(cl, "update")
  /\ UpdateConsent(r.in, r.saw, r.ver, r.at, r.new)
  /\ Become(cl, Begun)

Refetch(cl) ==
  /\ Resume(cl, "refetch")
  /\ Become(cl, LoadConsentOutput("get"))
  /\ UNCHANGED <<now, content>>

\* RevokeConsent reads the row and takes the time.
BeginRevoke(cl) ==
  /\ Begin(cl)
  /\ row.status # "REVOKED"
  /\ Become(cl, [pc |-> "revoke", saw |-> row, ver |-> ver, at |-> now])
  /\ UNCHANGED <<now, content>>

CommitRevoke(cl) ==
  LET r == req[cl] IN
  /\ Resume(cl, "revoke")
  /\ RevokeConsent(r.saw, r.ver, r.at)
  /\ Become(cl, Idle)

AddAuthResource(cl, s) ==
  /\ Begin(cl)
  /\ CreateAuthResource(s)
  /\ UNCHANGED req

-----------------------------------------------------------------------------
(* Requests that read.                                                     *)

\* The row of the consent: GetByID, or one row of the page of a search.
GetConsent(cl, for) ==
  /\ Begin(cl)
  /\ Become(cl, LoadConsentOutput(for))
  /\ UNCHANGED <<now, content>>

GetAuthResources(cl) ==
  /\ Resume(cl, "auths")
  /\ Become(cl, [req[cl] EXCEPT !.pc = "purposes", !.auths = auths])
  /\ UNCHANGED <<now, content>>

GetPurposes(cl) ==
  /\ Resume(cl, "purposes")
  /\ Become(cl, [req[cl] EXCEPT !.pc = "approvals", !.links = links, !.from.links = ver])
  /\ UNCHANGED <<now, content>>

\* buildConsentOutput: the elements shown are the approvals read whose version is
\* one of the purposes read.
Shown(L, A) == {a \in A : a.v \in L}

\* A variant that does not look at the status.
VerdictOnElements(s, L, A) ==
  \A a \in Shown(L, A) : a.e \in MandatoryOf[a.v] => a.approved

\* The verdict of ValidateConsent on the status and the elements shown.
Verdict(s, L, A) ==
  /\ s = "ACTIVE"
  /\ \A a \in Shown(L, A) : a.e \in MandatoryOf[a.v] => a.approved

\* After the approvals the answer is complete, but for the status history.
AfterApprovals(r) == IF r.for = "status" THEN "audits" ELSE "answered"

GetElementApprovals(cl) ==
  LET r == req[cl] IN
  /\ Resume(cl, "approvals")
  /\ Become(cl, [r EXCEPT !.pc = AfterApprovals(r), !.approvals = Shown(r.links, approvals),
                          !.from.approvals = ver,
                          !.valid = r.for = "validate" /\ Verdict(r.row.status, r.links, approvals)])
  /\ UNCHANGED <<now, content>>

\* The audit entries, to be shown by descending time, equal times in any order.
GetStatusAudits(cl) ==
  /\ Resume(cl, "audits")
  /\ Become(cl, [req[cl] EXCEPT !.pc = "answered", !.audits = {audits[i] : i \in DOMAIN audits}])
  /\ UNCHANGED <<now, content>>

Answer(cl) ==
  /\ Resume(cl, "answered")
  /\ Become(cl, Idle)
  /\ UNCHANGED <<now, content>>

\* A call fails.  A search that cannot read purposes or approvals shows none;
\* every other request ends, its transaction rolled back.
CallFails(cl) ==
  LET r == req[cl] IN
  /\ r.pc \notin {"idle", "answered"}
  /\ faults < MaxFaults
  /\ faults' = faults + 1
  /\ IF r.pc \in {"purposes", "approvals"} /\ r.for = "search"
     THEN Become(cl, [r EXCEPT !.pc = IF r.pc = "purposes" THEN "approvals" ELSE "answered",
                               !.lost = @ \union {r.pc}])
     ELSE Become(cl, Idle)
  /\ UNCHANGED <<now, content, issued>>

Tick ==
  /\ now < MaxTime
  /\ now' = now + 1
  /\ UNCHANGED <<content, req, issued, faults>>

\* Nothing is left to do within the bounds.
Done ==
  /\ issued = MaxRequests /\ now = MaxTime
  /\ \A cl \in Clients : req[cl] = Idle
  /\ UNCHANGED vars

Next ==
  \/ \E cl \in Clients :
       \/ \E in \in Bodies : BeginUpdate(cl, in)
       \/ CommitUpdate(cl)
       \/ Refetch(cl)
       \/ BeginRevoke(cl)
       \/ CommitRevoke(cl)
       \/ \E s \in NewAuths : AddAuthResource(cl, s)
       \/ \E for \in Kinds : GetConsent(cl, for)
       \/ GetAuthResources(cl)
       \/ GetPurposes(cl)
       \/ GetElementApprovals(cl)
       \/ GetStatusAudits(cl)
       \/ Answer(cl)
       \/ CallFails(cl)
  \/ Tick
  \/ Done

Spec == Init /\ [][Next]_vars

-----------------------------------------------------------------------------
\* Every variable has its type.
ReadsTypeOK ==
  /\ ContentTypeOK
  /\ req \in [Clients -> {Idle, Begun} \union Writing \union Reading]
  /\ issued \in Nat
  /\ faults \in Nat

Answered(cl, for) == req[cl].pc = "answered" /\ req[cl].for \in for

ShownOf(r, v) == {a.e : a \in {b \in r.approvals : b.v = v}}

\* A purpose that an answer shows has all of its elements or none of them,
\* however the queries and the writes interleave; and it has none only when the
\* search lost the approvals or the purpose was unlinked between the queries.
PurposesAreWhole ==
  \A cl \in Clients :
    LET r == req[cl] IN
    Answered(cl, Kinds) =>
      \A v \in r.links :
        \/ ShownOf(r, v) = ElementsOf[v]
        \/ /\ ShownOf(r, v) = {}
           /\ "approvals" \in r.lost \/ v \notin ContentAt(r.from.approvals).links

\* The status shown with the status history is that of one of its entries: the
\* entry is there as soon as the status is, and the history is read later.
ShownStatusIsExplained ==
  \A cl \in Clients :
    Answered(cl, {"status"}) => \E a \in req[cl].audits : a.cur = req[cl].row.status

\* By their times the entries lead up to the status shown, unless an operation
\* was overtaken or something changed while the answer was put together.
NewestEntryIsStatus ==
  \A cl \in Clients :
    LET r == req[cl] IN
    Answered(cl, {"status"}) /\ late = {} /\ r.from.row = ver =>
      \E a \in r.audits : a.cur = r.row.status /\ \A b \in r.audits : b.at <= a.at

\* Times in the order of writing.
InOrder(s) == \A i, j \in 1 .. Len(s) : i < j => s[i].at <= s[j].at

\* The history is read in the order it was written, whatever overtakes what: its
\* times are taken under the lock.  The times of audit entries and of the last
\* update are only in order when no operation was overtaken after it took one.
TimesFollowCommits ==
  /\ InOrder(snaps)
  /\ late = {} => InOrder(audits) /\ \A i \in 1 .. Len(audits) : audits[i].at <= row.updated

\* All mandatory elements of a consent's content C are approved.
AllApproved(C) ==
  \A v \in C.links : \A e \in MandatoryOf[v] :
    [v |-> v, e |-> e, approved |-> TRUE] \in C.approvals

\* A consent reported valid was ACTIVE when its row was read, and all of its
\* mandatory elements were approved when the approvals were, unless its purposes
\* were replaced between these queries.
VerdictHasGround ==
  \A cl \in Clients :
    LET r == req[cl] IN
    Answered(cl, {"validate"}) /\ r.valid =>
      /\ ContentAt(r.from.row).row.status = "ACTIVE"
      /\ ContentAt(r.from.links).links = ContentAt(r.from.approvals).links
           => AllApproved(ContentAt(r.from.approvals))

\* The purposes and approvals are those last sent, and so is each field as long
\* as no update was overtaken: only an overtaken update loses what another sent.
LastWriteStands ==
  /\ links = VersionsIn(sent.asks)
  /\ approvals = Resolve(sent.asks)
  /\ "update" \notin late => row.terms = sent.terms

=============================================================================
