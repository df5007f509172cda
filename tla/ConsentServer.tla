--------------------------- MODULE ConsentServer ---------------------------
(***************************************************************************)
(* The server: requests to the consent and authorization services, the     *)
(* expiration job, the clock and crashes of the process, all interleaving; *)
(* and what the consents, their authorizations, their audit trail and      *)
(* their history promise to each other.                                    *)
(***************************************************************************)
EXTENDS AuthResourceService, ExpirationJob, FiniteSets

vars == <<now, row, auths, nextAuth, audit, history, ver, stale, req, issued, faults, todo>>

Init == StoreInit /\ ServiceInit /\ JobInit

\* The process dies and is started again: what was in memory is gone.
Crash ==
  /\ faults < MaxFaults
  /\ faults' = faults + 1
  /\ req' = [cl \in Clients |-> IdleReq]
  /\ todo' = {}
  /\ UNCHANGED <<store, now, issued>>

\* Nothing is left to do within the bounds.
Done ==
  /\ issued = MaxRequests
  /\ now = MaxTime
  /\ \A cl \in Clients : req[cl] = IdleReq
  /\ todo = {}
  /\ SchedulerEnabled => GetExpiredConsents = {}
  /\ UNCHANGED vars

RequestStep == \E cl \in Clients : ConsentServiceNext(cl) \/ AuthServiceNext(cl)

Next ==
  \/ RequestStep /\ UNCHANGED todo
  \/ JobNext
  \/ Tick /\ UNCHANGED <<req, issued, faults, todo>>
  \/ Crash
  \/ Done

Spec == Init /\ [][Next]_vars

\* The runtime keeps the scheduler's goroutine going.  Nothing is assumed of
\* requests, which end when they do, nor of the clock.
Fairness ==
  /\ WF_vars(RunExpirationJob)
  /\ WF_vars(\E c \in Consents : ExpireListed(c))

FairSpec == Spec /\ Fairness

-----------------------------------------------------------------------------
\* Every variable has its type.
TypeOK == StoreTypeOK /\ ServiceTypeOK /\ JobTypeOK

LastEntry(c) == audit[c][Len(audit[c])]

\* The last entry of the audit trail of a consent is its status: no status is
\* ever written without its audit entry, whatever overtakes what.
AuditMatchesStatus ==
  \A c \in Consents :
    IF Exists(c) THEN audit[c] # <<>> /\ LastEntry(c).cur = row[c].status
                 ELSE audit[c] = <<>>

\* A revoked consent has only authorizations marked SYS_REVOKED, an expired one
\* only SYS_EXPIRED, and any other has the status its authorizations derive.
Agrees(c) ==
  CASE row[c].status = "REVOKED" -> StatusesOf(auths[c]) \subseteq {"SYS_REVOKED"}
    [] row[c].status = "EXPIRED" -> StatusesOf(auths[c]) \subseteq {"SYS_EXPIRED"}
    [] row[c].status \in LiveStatuses -> row[c].status = DeriveStatus(StatusesOf(auths[c]))
    [] OTHER -> auths[c] = {}

\* The status of a consent agrees with its authorizations, unless an update of
\* the consent or of an authorization acted on a read that was overtaken.
\* Creations, revocations, expirations and the job never break it.
StatusAgrees ==
  \A c \in Consents : stale[c] \subseteq {"revoke"} => Agrees(c)

Chained(c) ==
  \A i \in 1 .. Len(audit[c]) :
    audit[c][i].prev = IF i = 1 THEN "NONE" ELSE audit[c][i - 1].cur

\* Each audit entry starts from the status the entry before it reached, unless
\* an update or a revocation of the consent acted on a read that was overtaken.
\* Authorization writes and expirations take the status under the lock.
AuditChain ==
  \A c \in Consents : stale[c] \subseteq {"updauth"} => Chained(c)

\* The authorizations of a consent have types that may occur together: the
\* delegation rule survives every write, the overtaken ones included.
DelegationRule ==
  \A c \in Consents : WellDelegated(TypesOf(auths[c]))

\* Someone takes part in every consent that has authorizations, unless an
\* update of an authorization acted on a read that was overtaken.
ParticipationRule ==
  \A c \in Consents :
    "updauth" \notin stale[c] /\ auths[c] # {} => Participates(StatusesOf(auths[c]))

\* With the history on, every transaction on a consent after the one that
\* created it has left exactly one snapshot.
HistoryComplete ==
  \A c \in Consents : HistoryEnabled /\ Exists(c) => Len(history[c]) + 1 = ver[c]

\* The expiration times a consent has had, as its row and its snapshots show.
TimesOf(c) == {row[c].exp} \union {history[c][i].row.exp : i \in DOMAIN history[c]}

\* A consent has had an expiration time that has passed; a time of 0 counts if
\* there is a job.
WasDue(c) == \E t \in TimesOf(c) \ {NoTime} : t < now /\ (t = 0 => SchedulerEnabled)

\* Whatever overtakes what, a consent that is EXPIRED was due at some time: a
\* renewal, a change of the time or a late answer may have made that old, but
\* none makes a consent expire that never lapsed.  (With the history on, which
\* shows the times there were.)
ExpiredWasDue ==
  \A c \in Consents : HistoryEnabled /\ row[c].status = "EXPIRED" => WasDue(c)

\* The statuses a consent has had, transaction by transaction, as its snapshots
\* and its row show them.
StatusesShown(h) == [i \in DOMAIN h |-> h[i].row.status]
StatusesHad(c)   == Append(StatusesShown(history[c]), row[c].status)

\* The places up to the i-th where a sequence of statuses changes.
Changes(s, i) == {j \in 2 .. i : s[j] # s[j - 1]}

\* The entries t tell the statuses s, in their order, each change once.
Tells(t, s) ==
  /\ Len(t) = 1 + Cardinality(Changes(s, Len(s)))
  /\ \A i \in DOMAIN s : t[1 + Cardinality(Changes(s, i))].cur = s[i]

\* The two records kept of a consent tell the same story, its audit trail and
\* its snapshots, unless an update or a revocation of the consent acted on a
\* read that was overtaken.
TrailsAgree ==
  \A c \in Consents :
    HistoryEnabled /\ Exists(c) /\ stale[c] \subseteq {"updauth"}
      => Tells(audit[c], StatusesHad(c))

-----------------------------------------------------------------------------
\* A revoked or expired consent becomes live again only by an update of the
\* consent from its owning group; no authorization write reopens it.
ReopenedOnlyByGroup ==
  [][\A c \in Consents :
       row[c].status \in TerminalStatuses /\ row'[c].status \in LiveStatuses
         => LastEntry(c)'.by = "GROUP"]_vars

\* With the history on, every transaction on a consent after its creation, and
\* nothing else, records one snapshot: of the consent and its authorizations as
\* they were right before it.
HistoryIsPreMutation ==
  [][\A c \in Consents :
       HistoryEnabled /\ Exists(c) =>
         IF <<row[c], auths[c], audit[c], ver[c]>>' = <<row[c], auths[c], audit[c], ver[c]>>
         THEN history'[c] = history[c]
         ELSE history'[c] = Append(history[c], [row |-> row[c], auths |-> auths[c]])]_vars

\* The lifecycle as the tables CONSENT and CONSENT_STATUS_AUDIT show it.
Lifecycle == INSTANCE ConsentLifecycle
               WITH status <- [c \in Consents |-> row[c].status], trail <- audit

\* The server implements the lifecycle: whatever overtakes what, every change
\* of a status is one of its five steps, by who may take it, with its entry.
ImplementsLifecycle == Lifecycle!Spec

-----------------------------------------------------------------------------
(* What holds when requests come one at a time, no call fails and the      *)
(* scheduler is off.                                                       *)

\* A consent is EXPIRED only when its expiration time has passed.
ExpiredIsDue ==
  \A c \in Consents : row[c].status = "EXPIRED" => Lapsed(c)

\* A consent reported valid is ACTIVE, has its mandatory elements approved, and
\* had not lapsed when the request checked.
ValidVerdict ==
  \A cl \in Clients :
    LET r == req[cl] IN
    r.pc = "answered" /\ r.valid =>
      /\ row[r.c].status = "ACTIVE"
      /\ row[r.c].approved
      /\ ~IsConsentExpired(row[r.c].exp, r.at)

\* Every operation leaves a consent that agrees with its authorizations, has a
\* participant, and whose audit trail is a chain.
SerialAgreement ==
  \A c \in Consents :
    /\ stale[c] = {}
    /\ Agrees(c)
    /\ Chained(c)
    /\ auths[c] # {} => Participates(StatusesOf(auths[c]))

-----------------------------------------------------------------------------
Due(c) == c \in GetExpiredConsents

\* With the scheduler on, a consent that is due does not stay so: the job
\* expires it, or a request renews it or takes it out of the job's reach.
DueConsentIsHandled ==
  \A c \in Consents : Due(c) ~> ~Due(c)
=============================================================================
