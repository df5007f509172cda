--------------------------- MODULE ExpirationJob ---------------------------
(***************************************************************************)
(* The expiration job: at a tick of the scheduler it lists the consents    *)
(* that are due and then expires them one by one, each in a transaction of *)
(* its own.  The scheduler runs one job at a time.                         *)
(***************************************************************************)
EXTENDS ConsentService

CONSTANTS
  SchedulerEnabled,  \* the scheduler is configured to run
  EligibleStatuses   \* the statuses from which the job expires a consent

ASSUME JobAssumption ==
  /\ SchedulerEnabled \in BOOLEAN
  /\ EligibleStatuses \subseteq ConsentStatuses

VARIABLE todo  \* the consents listed and not yet handled; {}: no job runs

JobInit   == todo = {}
JobTypeOK == todo \subseteq Consents

\* A variant that takes an absent time for a past one.
GetPastConsents ==
  {c \in Consents : row[c].exp < now /\ row[c].status \in EligibleStatuses}

\* The query EXPIRATION_TIME < now AND CURRENT_STATUS IN (eligible statuses).
\* A NULL time satisfies no comparison; a time of 0 is before every now.
GetExpiredConsents ==
  {c \in Consents : /\ row[c].exp # NoTime
                    /\ row[c].exp < now
                    /\ row[c].status \in EligibleStatuses}

\* A tick of the scheduler; with nothing due the job ends at once.
RunExpirationJob ==
  /\ SchedulerEnabled
  /\ todo = {}
  /\ GetExpiredConsents # {}
  /\ todo' = GetExpiredConsents
  /\ UNCHANGED <<store, now, req, issued, faults>>

\* The job expires the next consent of its list.
ExpireListed(c) ==
  /\ c \in todo
  /\ ExpireConsent(c)
  /\ todo' = todo \ {c}
  /\ UNCHANGED <<now, req, issued, faults>>

\* Expiring the next consent fails; the job logs it and goes on.
ExpireListedFails(c) ==
  /\ c \in todo
  /\ faults < MaxFaults
  /\ faults' = faults + 1
  /\ todo' = todo \ {c}
  /\ UNCHANGED <<store, now, req, issued>>

JobNext ==
  \/ RunExpirationJob
  \/ \E c \in Consents : ExpireListed(c) \/ ExpireListedFails(c)
=============================================================================
