--------------------------- MODULE ConsentService ---------------------------
(***************************************************************************)
(* The operations of the consent service that change state, each as the    *)
(* sequence of database calls it makes: a read outside any transaction, a  *)
(* decision kept in the request, one transaction, and for some a second    *)
(* read and a second transaction (the expiry of what was just written).    *)
(* Requests of several clients interleave between these calls.             *)
(***************************************************************************)
EXTENDS ConsentStore

CONSTANTS
  Clients,       \* the requests the server works on at one time
  AuthLists,     \* the authorization lists callers send
  CreateTimes,   \* the expiration times callers send with a new consent
  UpdateInputs,  \* the bodies callers send to update a consent
  MaxRequests,   \* bound: requests ever begun
  MaxFaults      \* bound: failed database calls and crashes

\* NoTime, replace = FALSE and "keep": the field is absent from the body.
UpdateInput == [exp : Times, replace : BOOLEAN, list : Seq(AuthInput),
                purposes : {"keep", "approved", "unapproved"}]

ASSUME ServiceAssumption ==
  /\ AuthLists \subseteq Seq(AuthInput)
  /\ CreateTimes \subseteq Times
  /\ UpdateInputs \subseteq UpdateInput
  /\ MaxRequests \in Nat
  /\ MaxFaults \in Nat

VARIABLES
  req,     \* what each client's request has read, and what it does next
  issued,  \* requests begun
  faults   \* failed calls and crashes

\* The request of a client between two database calls.  c is its consent, ver
\* the version of c it first read and saw what it read; local is the status in
\* its copy of the consent, at the time of its expiry check.
IdleReq      == [pc |-> "idle"]
CreatedReqs  == [pc : {"created"}, c : Consents, exp : Times, local : RowStatuses]
RenewReqs    == [pc : {"renew"}, c : Consents, ver : Nat, saw : Row, in : UpdateInput]
UpdateReqs   == [pc : {"update"}, c : Consents, ver : Nat, saw : Row, in : UpdateInput,
                 new : ConsentStatuses]
UpdatedReqs  == [pc : {"updated"}, c : Consents]
RevokeReqs   == [pc : {"revoke"}, c : Consents, ver : Nat, saw : Row]
UpdAuthReqs  == [pc : {"updauth"}, c : Consents, ver : Nat, saw : Auth, in : AuthInput]
ExpireReqs   == [pc : {"expire"}, c : Consents, for : {"validate", "other"},
                 local : RowStatuses, at : Nat]
RefetchReqs  == [pc : {"refetch"}, c : Consents, local : RowStatuses, at : Nat]
LoadReqs     == [pc : {"load"}, c : Consents, local : RowStatuses, at : Nat]
AnsweredReqs == [pc : {"answered"}, c : Consents, at : Nat, valid : BOOLEAN]

Requests == {IdleReq} \union CreatedReqs \union RenewReqs \union UpdateReqs
            \union UpdatedReqs \union RevokeReqs \union UpdAuthReqs \union ExpireReqs
            \union RefetchReqs \union LoadReqs \union AnsweredReqs

ServiceInit ==
  /\ req = [cl \in Clients |-> IdleReq]
  /\ issued = 0
  /\ faults = 0

ServiceTypeOK ==
  /\ req \in [Clients -> Requests]
  /\ issued \in Nat
  /\ faults \in Nat

-----------------------------------------------------------------------------
\* The client starts a request; the number of requests is bounded.
Begin(cl) ==
  /\ req[cl] = IdleReq
  /\ issued < MaxRequests
  /\ issued' = issued + 1
  /\ UNCHANGED <<now, faults>>

\* The next step of a request that goes on.
Resume(cl, pc) ==
  /\ req[cl].pc = pc
  /\ UNCHANGED <<now, issued, faults>>

Become(cl, r) == req' = [req EXCEPT ![cl] = r]

\* A request that is about to call ExpireConsent.
ToExpire(c, for, status) ==
  [pc |-> "expire", c |-> c, for |-> for, local |-> status, at |-> now]

-----------------------------------------------------------------------------
\* CreateConsent: the whole consent in one transaction.
CreateConsent(cl, c, l, e, approved) ==
  LET s == DeriveStatus(StatusesIn(l)) IN
  /\ Begin(cl)
  /\ ~Exists(c)
  /\ AcceptableList(l)
  /\ ExecuteTransaction(c, [status |-> s, exp |-> e, approved |-> approved],
                        BuildAuths(l, nextAuth[c]), Len(l),
                        StatusAudit("NONE", s, "GROUP"), <<>>)
  /\ Become(cl, [pc |-> "created", c |-> c, exp |-> e, local |-> s])
  /\ UNCHANGED stale

\* CreateConsent then looks at its own copy of the expiration time.
CheckCreated(cl) ==
  /\ Resume(cl, "created")
  /\ Become(cl, IF IsConsentExpired(req[cl].exp, now)
                THEN ToExpire(req[cl].c, "other", req[cl].local)
                ELSE IdleReq)
  /\ UNCHANGED store

\* GetConsent of a lapsed consent.  (Of any other it changes nothing.)
GetConsent(cl, c) ==
  /\ Begin(cl)
  /\ Exists(c)
  /\ Lapsed(c)
  /\ row[c].status # "EXPIRED"
  /\ Become(cl, ToExpire(c, "other", row[c].status))
  /\ UNCHANGED store

-----------------------------------------------------------------------------
\* A variant that looks at the expiration time again, too.
ExpireConsentIfLapsed(c) ==
  \/ /\ row[c].status = "EXPIRED" \/ ~Lapsed(c)
     /\ UNCHANGED store
  \/ /\ row[c].status # "EXPIRED" /\ Lapsed(c)
     /\ ExecuteTransaction(c, [row[c] EXCEPT !.status = "EXPIRED"],
                           UpdateAllStatusByConsentID(auths[c], "SYS_EXPIRED"), 0,
                           StatusAudit(row[c].status, "EXPIRED", "SYSTEM"),
                           RecordConsentHistory(c))
     /\ UNCHANGED stale

\* The transaction of ExpireConsent, which looks at the status again.
ExpireConsent(c) ==
  \/ /\ row[c].status = "EXPIRED"
     /\ UNCHANGED store
  \/ /\ row[c].status # "EXPIRED"
     /\ ExecuteTransaction(c, [row[c] EXCEPT !.status = "EXPIRED"],
                           UpdateAllStatusByConsentID(auths[c], "SYS_EXPIRED"), 0,
                           StatusAudit(row[c].status, "EXPIRED", "SYSTEM"),
                           RecordConsentHistory(c))
     /\ UNCHANGED stale

\* A request calls ExpireConsent; only ValidateConsent goes on to change its
\* answer.  The call updates the caller's copy when it expires the consent.
CommitExpire(cl) ==
  LET r == req[cl] IN
  /\ Resume(cl, "expire")
  /\ ExpireConsent(r.c)
  /\ Become(cl, IF r.for = "validate"
                THEN [pc |-> "refetch", c |-> r.c, at |-> r.at,
                      local |-> IF row[r.c].status = "EXPIRED" THEN r.local ELSE "EXPIRED"]
                ELSE IdleReq)

-----------------------------------------------------------------------------
\* ValidateConsent reads the consent; one that has lapsed is to be expired.
ValidateConsent(cl, c) ==
  LET s == row[c].status IN
  /\ Begin(cl)
  /\ Exists(c)
  /\ Become(cl, IF Lapsed(c) /\ s # "EXPIRED"
                THEN ToExpire(c, "validate", s)
                ELSE [pc |-> "load", c |-> c, local |-> s, at |-> now])
  /\ UNCHANGED store

\* ValidateConsent reads the consent again after expiring it.
Refetch(cl) ==
  LET r == req[cl] IN
  /\ Resume(cl, "refetch")
  /\ Become(cl, [pc |-> "load", c |-> r.c, local |-> row[r.c].status, at |-> r.at])
  /\ UNCHANGED store

\* A variant that forgets the status.
VerdictOnElements(status, approved) == approved

\* The verdict from the status of the local copy and the elements loaded.
Verdict(status, approved) == status = "ACTIVE" /\ approved

\* ValidateConsent loads the purposes and elements and gives its verdict.
LoadConsentOutput(cl) ==
  LET r == req[cl] IN
  /\ Resume(cl, "load")
  /\ Become(cl, [pc |-> "answered", c |-> r.c, at |-> r.at,
                 valid |-> Verdict(r.local, row[r.c].approved)])
  /\ UNCHANGED store

Answer(cl) ==
  /\ Resume(cl, "answered")
  /\ Become(cl, IdleReq)
  /\ UNCHANGED store

-----------------------------------------------------------------------------
\* The expiration time an update leaves, given the row it read.
EffectiveTime(in, saw) == IF in.exp = NoTime THEN saw.exp ELSE in.exp

\* A variant: a time of 0 does not renew.
RenewsWithFutureTime(in, saw) == saw.status = "EXPIRED" /\ in.exp > now

\* The update renews an expired consent.
Renews(in, saw) ==
  saw.status = "EXPIRED" /\ ~IsConsentExpired(EffectiveTime(in, saw), now)

\* UpdateConsent by the owning group reads the consent and derives its status:
\* from the new authorizations, for a renewal from the present ones, which it
\* reads next, and otherwise it keeps the status.
UpdateConsent(cl, c, in) ==
  LET decided(s) == [pc |-> "update", c |-> c, ver |-> ver[c], saw |-> row[c],
                     in |-> in, new |-> s]
  IN
  /\ Begin(cl)
  /\ Exists(c)
  /\ AcceptableList(in.list)
  /\ \/ /\ in.replace
        /\ Become(cl, decided(DeriveStatus(StatusesIn(in.list))))
     \/ /\ ~in.replace
        /\ Renews(in, row[c])
        /\ Become(cl, [pc |-> "renew", c |-> c, ver |-> ver[c], saw |-> row[c], in |-> in])
     \/ /\ ~in.replace
        /\ ~Renews(in, row[c])
        /\ Become(cl, decided(row[c].status))
  /\ UNCHANGED store

\* The renewal reads the authorizations, outside any transaction.
ReadAuthsForRenewal(cl) ==
  LET r == req[cl] IN
  /\ Resume(cl, "renew")
  /\ Become(cl, [pc |-> "update", c |-> r.c, ver |-> r.ver, saw |-> r.saw, in |-> r.in,
                 new |-> DeriveStatus(StatusesOf(auths[r.c]))])
  /\ UNCHANGED store

\* The row an update writes over the present row p; it writes the status only
\* when it decided on another than the one it read.
UpdatedRow(r, p) ==
  [status   |-> IF r.new # r.saw.status THEN r.new ELSE p.status,
   exp      |-> EffectiveTime(r.in, r.saw),
   approved |-> IF r.in.purposes = "keep" THEN p.approved ELSE r.in.purposes = "approved"]

\* The audit entry of an update, with the status it read.
UpdateAudit(r) ==
  IF r.new # r.saw.status THEN StatusAudit(r.saw.status, r.new, "GROUP") ELSE <<>>

\* The transaction of UpdateConsent.
CommitUpdate(cl) ==
  LET r == req[cl]
      k == IF r.in.replace THEN Len(r.in.list) ELSE 0
  IN
  /\ Resume(cl, "update")
  /\ ExecuteTransaction(r.c, UpdatedRow(r, row[r.c]),
                        IF r.in.replace THEN BuildAuths(r.in.list, nextAuth[r.c]) ELSE auths[r.c],
                        k, UpdateAudit(r), RecordConsentHistory(r.c))
  /\ ActsOnVersion(r.c, r.ver, "update")
  /\ Become(cl, [pc |-> "updated", c |-> r.c])

\* UpdateConsent reads the consent back and expires it when it has lapsed.
CheckUpdated(cl) ==
  LET c == req[cl].c IN
  /\ Resume(cl, "updated")
  /\ Become(cl, IF Lapsed(c) /\ row[c].status # "EXPIRED"
                THEN ToExpire(c, "other", row[c].status)
                ELSE IdleReq)
  /\ UNCHANGED store

-----------------------------------------------------------------------------
\* A variant that revokes a revoked consent again.
RevokeAnyConsent(cl, c) ==
  /\ Begin(cl)
  /\ Exists(c)
  /\ Become(cl, [pc |-> "revoke", c |-> c, ver |-> ver[c], saw |-> row[c]])
  /\ UNCHANGED store

\* RevokeConsent reads the consent and refuses one that is already revoked.
RevokeConsent(cl, c) ==
  /\ Begin(cl)
  /\ Exists(c)
  /\ row[c].status # "REVOKED"
  /\ Become(cl, [pc |-> "revoke", c |-> c, ver |-> ver[c], saw |-> row[c]])
  /\ UNCHANGED store

\* The transaction of RevokeConsent.
CommitRevoke(cl) ==
  LET r == req[cl] IN
  /\ Resume(cl, "revoke")
  /\ ExecuteTransaction(r.c, [row[r.c] EXCEPT !.status = "REVOKED"],
                        UpdateAllStatusByConsentID(auths[r.c], "SYS_REVOKED"), 0,
                        StatusAudit(r.saw.status, "REVOKED", "USER"),
                        RecordConsentHistory(r.c))
  /\ ActsOnVersion(r.c, r.ver, "revoke")
  /\ Become(cl, IdleReq)

-----------------------------------------------------------------------------
\* What a request does after a database call of it failed: ValidateConsent
\* goes on with its own copy when expiring or reading again fails, and every
\* other request ends.
AfterFailure(r) ==
  IF r.pc = "refetch" \/ (r.pc = "expire" /\ r.for = "validate")
  THEN [pc |-> "load", c |-> r.c, local |-> r.local, at |-> r.at]
  ELSE IdleReq

\* The next database call of the request fails and its transaction, if it
\* opened one, is rolled back.
CallFails(cl) ==
  /\ req[cl].pc \notin {"idle", "created", "answered"}
  /\ faults < MaxFaults
  /\ faults' = faults + 1
  /\ Become(cl, AfterFailure(req[cl]))
  /\ UNCHANGED <<store, now, issued>>

ConsentServiceNext(cl) ==
  \/ \E c \in Consents :
       \/ \E l \in AuthLists, e \in CreateTimes, ok \in BOOLEAN : CreateConsent(cl, c, l, e, ok)
       \/ GetConsent(cl, c)
       \/ ValidateConsent(cl, c)
       \/ \E in \in UpdateInputs : UpdateConsent(cl, c, in)
       \/ RevokeConsent(cl, c)
  \/ CheckCreated(cl)
  \/ CommitExpire(cl)
  \/ Refetch(cl)
  \/ LoadConsentOutput(cl)
  \/ Answer(cl)
  \/ ReadAuthsForRenewal(cl)
  \/ CommitUpdate(cl)
  \/ CheckUpdated(cl)
  \/ CommitRevoke(cl)
  \/ CallFails(cl)
=============================================================================
