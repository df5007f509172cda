------------------------ MODULE ConsentLifecycleProofs ------------------------
(***************************************************************************)
(* The server implements the abstract lifecycle of a consent: its initial  *)
(* states map to the initial states of ConsentLifecycle, and every step    *)
(* maps to a step of it or leaves statuses and trails alone.  Beyond the   *)
(* invariant of the server this needs to know that the status a request    *)
(* read is one the consent has had.  In the same way nothing expires that  *)
(* was never due: who expires a consent saw it lapsed, or was told so by   *)
(* the job, and the times it has had stay on record.  And since an entry   *)
(* of the lifecycle never starts where it ends, the audit trail of a       *)
(* consent tells the same as its snapshots.                                *)
(***************************************************************************)
EXTENDS ConsentServerInvariant, FiniteSetTheorems, SequenceTheorems

\* The statuses c has had.
HadStatuses(c) == {audit[c][i].cur : i \in 1 .. Len(audit[c])}

\* The requests that decide on a status they read.
Deciding == {"renew", "update", "revoke"}

\* What such a request read was once true.
SawPast ==
  \A cl \in Clients :
    req[cl].pc \in Deciding => req[cl].saw.status \in HadStatuses(req[cl].c)

\* What such a request r goes on to do fits what it read: it revokes a consent it
\* saw unrevoked, and the status it decided on is a live one if it is another.
Sensible(r) ==
  /\ r.pc = "revoke" => r.saw.status # "REVOKED"
  /\ r.pc = "update" => r.new \in LiveStatuses \union {r.saw.status}

AllSensible == \A cl \in Clients : Sensible(req[cl])

\* The inductive invariant of the refinement.
LifecycleInv == ServerInv /\ SawPast /\ AllSensible

-----------------------------------------------------------------------------
(* What a request read.                                                    *)

\* A consent that exists has had the status it has.
LEMMA PresentWasHad ==
  ASSUME ServerInv, NEW c \in Consents, Exists(c)
  PROVE  row[c].status \in HadStatuses(c)
<1>1. audit[c] \in Seq(Entry) /\ audit[c] # <<>> /\ LastEntry(c).cur = row[c].status
  BY DEF ServerInv, TypeOK, StoreTypeOK, AuditMatchesStatus
<1>2. Len(audit[c]) \in 1 .. Len(audit[c])
  BY <1>1
<1> QED
  BY <1>1, <1>2 DEF HadStatuses, LastEntry

\* The statuses a consent has had, it has had for ever.
LEMMA HadForEver ==
  ASSUME ServerInv, StoreStep, NEW c \in Consents
  PROVE  HadStatuses(c) \subseteq HadStatuses(c)'
<1>1. audit[c] \in Seq(Entry)
  BY DEF ServerInv, TypeOK, StoreTypeOK
<1>2. CASE audit'[c] = audit[c]
  BY <1>2 DEF HadStatuses
<1>3. ASSUME NEW en \in Entry, audit'[c] = Append(audit[c], en)
      PROVE  HadStatuses(c) \subseteq HadStatuses(c)'
  <2>1. \A i \in 1 .. Len(audit[c]) : i \in 1 .. Len(audit'[c]) /\ audit'[c][i] = audit[c][i]
    BY <1>1, <1>3
  <2> QED
    BY <2>1 DEF HadStatuses
<1>4. CASE UNCHANGED store
  BY <1>2, <1>4 DEF store
<1>5. ASSUME NEW d \in Consents, Transaction(d)
      PROVE  HadStatuses(c) \subseteq HadStatuses(c)'
  <2>1. CASE d = c
    BY <1>2, <1>3, <1>5, <2>1 DEF Transaction, KeepsTrail, Audited
  <2>2. CASE d # c
    BY <1>2, <1>5, <2>2 DEF Transaction, Untouched
  <2> QED
    BY <2>1, <2>2
<1> QED
  BY <1>4, <1>5 DEF StoreStep

\* A step leaves client k with its request, with no decision to make, with the
\* read it had, or with one of the present row.
ReadNow(k) ==
  \/ req'[k] = req[k]
  \/ req'[k].pc \notin Deciding
  \/ /\ req[k].pc \in Deciding
     /\ req'[k].c = req[k].c /\ req'[k].saw = req[k].saw
     /\ Sensible(req'[k])
  \/ /\ req'[k].c \in Consents /\ Exists(req'[k].c)
     /\ req'[k].saw = row[req'[k].c]
     /\ Sensible(req'[k])

LEMMA ReadsAreOfNow ==
  ASSUME TypeOK, NEW k \in Clients, [Next]_vars
  PROVE  ReadNow(k)
<1>1. req \in [Clients -> Requests]
  BY DEF TypeOK, ServiceTypeOK
<1>2. CASE req'[k] = req[k]
  <2>1. req[k] \in Requests
    BY <1>1
  <2> QED
    BY <1>2, <2>1 DEF ReadNow
<1>3. ASSUME NEW cl \in Clients, NEW q, Become(cl, q), q.pc \notin Deciding
      PROVE  ReadNow(k)
  <2>1. req'[k] = IF k = cl THEN q ELSE req[k]
    BY <1>1, <1>3 DEF Become
  <2> QED
    BY <1>2, <1>3, <2>1 DEF ReadNow
<1>4. IdleReq.pc \notin Deciding
  BY DEF IdleReq, Deciding
<1>5. ASSUME NEW cl \in Clients, ReadStep(cl)
      PROVE  ReadNow(k)
  <2>1. CASE CheckCreated(cl) \/ CheckUpdated(cl)
    BY <1>3, <1>4, <1>5, <2>1 DEF CheckCreated, CheckUpdated, ToExpire, Deciding
  <2>2. CASE Refetch(cl) \/ LoadConsentOutput(cl) \/ Answer(cl) \/ RefuseUpdateAuth(cl)
    BY <1>3, <1>4, <2>2 DEF Refetch, LoadConsentOutput, Answer, RefuseUpdateAuth, Deciding
  <2>3. CASE CallFails(cl)
    <3>1. AfterFailure(req[cl]).pc \notin Deciding
      BY DEF AfterFailure, IdleReq, Deciding
    <3> QED
      BY <1>3, <2>3, <3>1 DEF CallFails
  <2>4. CASE ReadAuthsForRenewal(cl)
    <3>1. /\ req[cl].pc = "renew"
          /\ req' = [req EXCEPT ![cl] =
               [pc |-> "update", c |-> req[cl].c, ver |-> req[cl].ver, saw |-> req[cl].saw,
                in |-> req[cl].in, new |-> DeriveStatus(StatusesOf(auths[req[cl].c]))]]
      BY <2>4 DEF ReadAuthsForRenewal, Resume, Become
    <3>2. CASE k = cl
      <4>1. /\ req'[k].c = req[k].c /\ req'[k].saw = req[k].saw
            /\ req'[k].pc = "update"
            /\ req'[k].new = DeriveStatus(StatusesOf(auths[req[cl].c]))
        BY <1>1, <3>1, <3>2
      <4>2. Sensible(req'[k])
        BY <4>1, DerivedIsLive DEF Sensible
      <4> QED
        BY <3>1, <3>2, <4>1, <4>2 DEF ReadNow, Deciding
    <3>3. CASE k # cl
      BY <1>1, <1>2, <3>1, <3>3
    <3> QED
      BY <3>2, <3>3
  <2>5. ASSUME NEW c \in Consents, GetConsent(cl, c) \/ ValidateConsent(cl, c)
        PROVE  ReadNow(k)
    BY <1>3, <2>5 DEF GetConsent, ValidateConsent, ToExpire, Deciding
  <2>6. ASSUME NEW c \in Consents, NEW q, Exists(c), Become(cl, q), q.c = c, q.saw = row[c],
               Sensible(q)
        PROVE  ReadNow(k)
    <3>1. req'[k] = IF k = cl THEN q ELSE req[k]
      BY <1>1, <2>6 DEF Become
    <3> QED
      BY <1>2, <2>6, <3>1 DEF ReadNow
  <2>7. ASSUME NEW c \in Consents, RevokeConsent(cl, c)
        PROVE  ReadNow(k)
    BY <2>6, <2>7 DEF RevokeConsent, Sensible
  <2>8. ASSUME NEW c \in Consents, NEW in \in UpdateInputs, UpdateConsent(cl, c, in)
        PROVE  ReadNow(k)
    BY <2>6, <2>8, DerivedIsLive DEF UpdateConsent, Sensible
  <2>9. ASSUME NEW c \in Consents, NEW in \in AuthInputs, NEW a \in auths[c],
               UpdateAuthResource(cl, c, a, in)
        PROVE  ReadNow(k)
    BY <1>3, <2>9 DEF UpdateAuthResource, Deciding
  <2> QED
    BY <1>5, <2>1, <2>2, <2>3, <2>4, <2>5, <2>7, <2>8, <2>9 DEF ReadStep
<1>6. ASSUME NEW cl \in Clients,
             CommitUpdate(cl) \/ CommitRevoke(cl) \/ CommitUpdateAuth(cl) \/ CommitExpire(cl)
      PROVE  ReadNow(k)
  BY <1>3, <1>4, <1>6 DEF CommitUpdate, CommitRevoke, CommitUpdateAuth, CommitExpire, Deciding
<1>7. ASSUME NEW cl \in Clients, NEW c \in Consents, NEW l \in AuthLists,
             NEW e \in CreateTimes, NEW ok \in BOOLEAN, CreateConsent(cl, c, l, e, ok)
      PROVE  ReadNow(k)
  BY <1>3, <1>7 DEF CreateConsent, Deciding
<1>8. ASSUME NEW cl \in Clients, NEW c \in Consents, NEW in \in AuthInputs,
             CreateAuthResource(cl, c, in)
      PROVE  ReadNow(k)
  BY <1>2, <1>8 DEF CreateAuthResource
<1>9. CASE QuietStep
  <2>1. CASE Crash
    <3>1. req'[k] = IdleReq
      BY <2>1 DEF Crash
    <3> QED
      BY <1>4, <3>1 DEF ReadNow
  <2>2. CASE ~Crash
    BY <1>2, <1>9, <2>2 DEF QuietStep, RunExpirationJob, ExpireListedFails, Done, vars
  <2> QED
    BY <2>1, <2>2
<1>10. CASE \E c \in Consents : ExpireListed(c)
  BY <1>2, <1>10 DEF ExpireListed
<1> QED
  BY <1>2, <1>5, <1>6, <1>7, <1>8, <1>9, <1>10, StepCases

\* What requests read was once true, and stays so, and they go on as is right.
LEMMA ReadsKept ==
  ASSUME LifecycleInv, [Next]_vars
  PROVE  SawPast' /\ AllSensible'
<1>1. StoreStep /\ ServerInv'
  BY StepEffect, InvStep DEF LifecycleInv, ServerInv
<1>2. ASSUME NEW k \in Clients, req'[k].pc \in Deciding
      PROVE  (req[k].saw.status \in HadStatuses(req[k].c))'
  <2>1. ReadNow(k)
    BY ReadsAreOfNow DEF LifecycleInv, ServerInv
  <2>2. ASSUME NEW c \in Consents, req'[k].c = c, req'[k].saw.status \in HadStatuses(c)
        PROVE  (req[k].saw.status \in HadStatuses(req[k].c))'
    <3>1. HadStatuses(c) \subseteq HadStatuses(c)'
      BY <1>1, HadForEver DEF LifecycleInv
    <3> QED
      BY <2>2, <3>1 DEF HadStatuses
  <2>3. CASE \/ req'[k] = req[k]
             \/ /\ req[k].pc \in Deciding
                /\ req'[k].c = req[k].c /\ req'[k].saw = req[k].saw
    <3>1. req[k].saw.status \in HadStatuses(req[k].c)
      BY <1>2, <2>3 DEF LifecycleInv, SawPast
    <3>2. req[k].c \in Consents
      BY <1>2, <2>3, CurrentRequest DEF LifecycleInv, Deciding
    <3> QED
      BY <2>2, <2>3, <3>1, <3>2
  <2>4. CASE /\ req'[k].c \in Consents /\ Exists(req'[k].c)
             /\ req'[k].saw = row[req'[k].c]
    <3>1. PICK c \in Consents : c = req'[k].c /\ Exists(c) /\ req'[k].saw = row[c]
      BY <2>4
    <3>2. row[c].status \in HadStatuses(c)
      BY <3>1, PresentWasHad DEF LifecycleInv
    <3> QED
      BY <2>2, <3>1, <3>2
  <2> QED
    BY <1>2, <2>1, <2>3, <2>4 DEF ReadNow
<1>3. ASSUME NEW k \in Clients
      PROVE  Sensible(req'[k])
  <2>1. ReadNow(k)
    BY ReadsAreOfNow DEF LifecycleInv, ServerInv
  <2>2. req'[k].pc \notin Deciding => Sensible(req'[k])
    BY DEF Sensible, Deciding
  <2> QED
    BY <2>1, <2>2 DEF ReadNow, LifecycleInv, AllSensible
<1> QED
  BY <1>2, <1>3 DEF SawPast, AllSensible

-----------------------------------------------------------------------------
(* What each transaction is to somebody who sees statuses and trails.      *)

\* Statuses and trails are as before.
Unseen == UNCHANGED Lifecycle!lifecycle

\* A transaction with an audit entry moves the status.
LEMMA MovesLifecycle ==
  ASSUME StoreTypeOK, NEW c \in Consents, NEW r, NEW A, NEW k, NEW h, NEW p, NEW s, NEW b,
         NEW e, ExecuteTransaction(c, r, A, k, e, h), e = StatusAudit(p, s, b), r.status = s
  PROVE  Lifecycle!Move(c, p, s, b)
<1> DEFINE en == [prev |-> p, cur |-> s, by |-> b]
<1>1. row \in [Consents -> Row] /\ audit \in [Consents -> Seq(Entry)]
  BY DEF StoreTypeOK
<1>2. row' = [row EXCEPT ![c] = r] /\ audit' = [audit EXCEPT ![c] = @ \o e]
  BY DEF ExecuteTransaction
<1>3. e = <<en>>
  BY DEF StatusAudit
<1> HIDE DEF en
<1>4. audit' = [audit EXCEPT ![c] = Append(@, en)]
  <2>1. audit[c] \o <<en>> = Append(audit[c], en)
    BY <1>1
  <2> QED
    BY <1>2, <1>3, <2>1
<1>5. [d \in Consents |-> row'[d].status]
        = [[d \in Consents |-> row[d].status] EXCEPT ![c] = s]
  BY <1>1, <1>2
<1> QED
  BY <1>4, <1>5 DEF Lifecycle!Move, en

\* One without an entry leaves it.
LEMMA LeavesLifecycle ==
  ASSUME StoreTypeOK, NEW c \in Consents, NEW r, NEW A, NEW k, NEW h, NEW e,
         ExecuteTransaction(c, r, A, k, e, h), e = <<>>, r.status = row[c].status
  PROVE  Unseen
<1>1. row \in [Consents -> Row] /\ audit \in [Consents -> Seq(Entry)]
  BY DEF StoreTypeOK
<1>2. row' = [row EXCEPT ![c] = r] /\ audit' = [audit EXCEPT ![c] = @ \o e]
  BY DEF ExecuteTransaction
<1>3. audit' = audit
  BY <1>1, <1>2
<1>4. [d \in Consents |-> row'[d].status] = [d \in Consents |-> row[d].status]
  BY <1>1, <1>2
<1> QED
  BY <1>3, <1>4 DEF Unseen, Lifecycle!lifecycle

\* So does a step that leaves the tables.
LEMMA StoreUnseen ==
  ASSUME UNCHANGED store
  PROVE  Unseen
  BY DEF store, Unseen, Lifecycle!lifecycle

\* The two modules mean the same by the statuses.
LEMMA SameStatusNames ==
  Lifecycle!LiveStatuses = LiveStatuses /\ Lifecycle!ConsentStatuses = ConsentStatuses
  BY DEF Lifecycle!LiveStatuses, LiveStatuses, Lifecycle!ConsentStatuses, ConsentStatuses,
         Lifecycle!TerminalStatuses, TerminalStatuses

-----------------------------------------------------------------------------
(* Every step is a step of the lifecycle or unseen.                        *)

\* A new consent.
LEMMA CreateMaps ==
  ASSUME ServerInv, NEW cl \in Clients, NEW c \in Consents, NEW l \in AuthLists,
         NEW t, NEW ok, CreateConsent(cl, c, l, t, ok)
  PROVE  Lifecycle!Create(c)
<1> DEFINE s == DeriveStatus(StatusesIn(l))
           w == [status |-> s, exp |-> t, approved |-> ok]
<1>1. /\ ExecuteTransaction(c, w, BuildAuths(l, nextAuth[c]), Len(l),
                            StatusAudit("NONE", s, "GROUP"), <<>>)
      /\ row[c].status = "NONE"
  BY DEF CreateConsent, Exists
<1>2. s \in LiveStatuses
  BY DerivedIsLive
<1>3. Lifecycle!Move(c, "NONE", s, "GROUP")
  <2>1. w.status = s
    OBVIOUS
  <2> HIDE DEF s, w
  <2> QED
    BY <1>1, <2>1, MovesLifecycle DEF ServerInv, TypeOK
<1> QED
  BY <1>1, <1>2, <1>3, SameStatusNames DEF Lifecycle!Create

\* The expiry of a consent that exists, by a request or by the job.
LEMMA ExpireMaps ==
  ASSUME ServerInv, NEW c \in Consents, Exists(c), ExpireConsent(c)
  PROVE  Unseen \/ Lifecycle!Expire(c)
<1>1. CASE UNCHANGED store
  BY <1>1, StoreUnseen
<1>2. CASE ~UNCHANGED store
  <2> DEFINE p == row[c].status
             w == [row[c] EXCEPT !.status = "EXPIRED"]
  <2>1. /\ p # "EXPIRED"
        /\ ExecuteTransaction(c, w, UpdateAllStatusByConsentID(auths[c], "SYS_EXPIRED"), 0,
                              StatusAudit(p, "EXPIRED", "SYSTEM"), RecordConsentHistory(c))
    BY <1>2 DEF ExpireConsent
  <2>2. row[c] \in Row /\ p \in ConsentStatuses
    BY DEF ServerInv, TypeOK, StoreTypeOK, Row, RowStatuses, Exists
  <2>3. w.status = "EXPIRED"
    BY <2>2 DEF Row
  <2>4. Lifecycle!Move(c, p, "EXPIRED", "SYSTEM")
    <3> HIDE DEF p, w
    <3> QED
      BY <2>1, <2>3, MovesLifecycle DEF ServerInv, TypeOK
  <2> QED
    BY <2>1, <2>2, <2>4, SameStatusNames DEF Lifecycle!Expire
<1> QED
  BY <1>1, <1>2

\* The update of a consent.
LEMMA UpdateMaps ==
  ASSUME LifecycleInv, NEW cl \in Clients, CommitUpdate(cl)
  PROVE  Unseen \/ \E c \in Consents : Lifecycle!Update(c)
<1> DEFINE r == req[cl]
           c == r.c
           w == UpdatedRow(r, row[c])
           A == IF r.in.replace THEN BuildAuths(r.in.list, nextAuth[c]) ELSE auths[c]
           k == IF r.in.replace THEN Len(r.in.list) ELSE 0
           e == UpdateAudit(r)
<1>1. /\ r.pc = "update"
      /\ ExecuteTransaction(c, w, A, k, e, RecordConsentHistory(c))
  BY DEF CommitUpdate, Resume
<1>2. c \in Consents /\ r \in Requests /\ FitsConsent(r) /\ StoreTypeOK
  BY <1>1, CurrentRequest DEF LifecycleInv, ServerInv, TypeOK
<1>3. w.status = IF r.new # r.saw.status THEN r.new ELSE row[c].status
  BY DEF UpdatedRow
<1>4. CASE r.new = r.saw.status
  <2>1. e = <<>>
    BY <1>4 DEF UpdateAudit
  <2> HIDE DEF r, c, w, A, k, e
  <2> QED
    BY <1>1, <1>2, <1>3, <1>4, <2>1, LeavesLifecycle
<1>5. CASE r.new # r.saw.status
  <2>1. e = StatusAudit(r.saw.status, r.new, "GROUP")
    BY <1>5 DEF UpdateAudit
  <2>2. r.saw.status \in HadStatuses(c)
    BY <1>1 DEF LifecycleInv, SawPast, Deciding
  <2>3. r.new \in LiveStatuses
    BY <1>1, <1>5 DEF LifecycleInv, AllSensible, Sensible
  <2>4. Lifecycle!Move(c, r.saw.status, r.new, "GROUP")
    <3> HIDE DEF r, c, w, A, k, e
    <3> QED
      BY <1>1, <1>2, <1>3, <1>5, <2>1, MovesLifecycle
  <2> QED
    BY <1>2, <1>5, <2>2, <2>3, <2>4, SameStatusNames DEF Lifecycle!Update, Lifecycle!Had, HadStatuses
<1> QED
  BY <1>4, <1>5

\* The revocation of a consent.
LEMMA RevokeMaps ==
  ASSUME LifecycleInv, NEW cl \in Clients, CommitRevoke(cl)
  PROVE  \E c \in Consents : Lifecycle!Revoke(c)
<1> DEFINE r == req[cl]
           c == r.c
           w == [row[c] EXCEPT !.status = "REVOKED"]
           e == StatusAudit(r.saw.status, "REVOKED", "USER")
<1>1. /\ r.pc = "revoke"
      /\ ExecuteTransaction(c, w, UpdateAllStatusByConsentID(auths[c], "SYS_REVOKED"), 0, e,
                            RecordConsentHistory(c))
  BY DEF CommitRevoke, Resume
<1>2. c \in Consents /\ StoreTypeOK /\ row[c] \in Row
  BY <1>1, CurrentRequest DEF LifecycleInv, ServerInv, TypeOK, StoreTypeOK
<1>3. w.status = "REVOKED"
  BY <1>2 DEF Row
<1>4. r.saw.status \in HadStatuses(c)
  BY <1>1 DEF LifecycleInv, SawPast, Deciding
<1>5. r.saw.status # "REVOKED"
  BY <1>1 DEF LifecycleInv, AllSensible, Sensible
<1>6. Lifecycle!Move(c, r.saw.status, "REVOKED", "USER")
  <2> HIDE DEF r, c, w
  <2> QED
    BY <1>1, <1>2, <1>3, MovesLifecycle
<1> QED
  BY <1>2, <1>4, <1>5, <1>6 DEF Lifecycle!Revoke, Lifecycle!Had, HadStatuses

\* A transaction on a consent that takes authorization writes, with the status
\* s that it leaves.
LEMMA DerivedMaps ==
  ASSUME StoreTypeOK, NEW c \in Consents, NEW r, NEW A, NEW k, NEW h, NEW s, NEW e,
         Exists(c), EnsureAcceptsWrites(c), s = row[c].status \/ s \in LiveStatuses,
         ExecuteTransaction(c, r, A, k, e, h), e = DerivedAudit(c, s), r.status = s
  PROVE  Unseen \/ Lifecycle!Authorize(c)
<1>1. CASE s = row[c].status
  BY <1>1, LeavesLifecycle DEF DerivedAudit
<1>2. CASE s # row[c].status
  <2>1. e = StatusAudit(row[c].status, s, "NONE")
    BY <1>2 DEF DerivedAudit
  <2>2. Lifecycle!Move(c, row[c].status, s, "NONE")
    BY <2>1, MovesLifecycle
  <2>3. row[c].status \in LiveStatuses
    BY DEF StoreTypeOK, Row, RowStatuses, ConsentStatuses, Exists, EnsureAcceptsWrites
  <2> QED
    BY <1>2, <2>2, <2>3, SameStatusNames DEF Lifecycle!Authorize
<1> QED
  BY <1>1, <1>2

\* A new authorization of a consent.
LEMMA CreateAuthMaps ==
  ASSUME ServerInv, NEW cl \in Clients, NEW c \in Consents, NEW in,
         CreateAuthResource(cl, c, in)
  PROVE  Unseen \/ Lifecycle!Authorize(c)
<1> DEFINE A == auths[c] \union BuildAuths(<<in>>, nextAuth[c])
           s == DeriveStatus(StatusesOf(A))
           w == [row[c] EXCEPT !.status = s]
           e == DerivedAudit(c, s)
<1>1. /\ Exists(c) /\ EnsureAcceptsWrites(c)
      /\ ExecuteTransaction(c, w, A, 1, e, RecordConsentHistory(c))
  BY DEF CreateAuthResource
<1>2. StoreTypeOK /\ row[c] \in Row
  BY DEF ServerInv, TypeOK, StoreTypeOK
<1>3. s \in LiveStatuses /\ w.status = s
  BY <1>2, DerivedIsLive DEF Row
<1>4. e = DerivedAudit(c, s)
  OBVIOUS
<1> HIDE DEF A, s, w, e
<1> QED
  BY <1>1, <1>2, <1>3, <1>4, DerivedMaps

\* The update of an authorization.
LEMMA UpdateAuthMaps ==
  ASSUME ServerInv, NEW cl \in Clients, CommitUpdateAuth(cl)
  PROVE  Unseen \/ \E c \in Consents : Lifecycle!Authorize(c)
<1> DEFINE r == req[cl]
           c == r.c
           s == StatusAfter(r)
           w == [row[c] EXCEPT !.status = s]
           A == UpdateAuth(auths[c], Updated(r))
           e == DerivedAudit(c, s)
<1>1. /\ r.pc = "updauth" /\ EnsureAcceptsWrites(c)
      /\ ExecuteTransaction(c, w, A, 0, e, RecordConsentHistory(c))
  BY DEF CommitUpdateAuth, Resume, AcceptsUpdate
<1>2. c \in Consents /\ StoreTypeOK /\ row[c] \in Row /\ Exists(c)
  BY <1>1, CurrentRequest DEF ServerInv, TypeOK, StoreTypeOK
<1>3. s = row[c].status \/ s \in LiveStatuses
  BY StatusAfterType
<1>4. w.status = s /\ e = DerivedAudit(c, s)
  BY <1>2 DEF Row
<1> HIDE DEF r, c, s, w, A, e
<1> QED
  BY <1>1, <1>2, <1>3, <1>4, DerivedMaps

\* The initial states map to initial states.
LEMMA InitMaps == Init => Lifecycle!Init /\ LifecycleInv
<1> SUFFICES ASSUME Init PROVE Lifecycle!Init /\ LifecycleInv
  OBVIOUS
<1>1. /\ \A c \in Consents : row[c].status = "NONE"
      /\ audit = [c \in Consents |-> <<>>]
      /\ \A cl \in Clients : req[cl].pc = "idle"
  BY DEF Init, StoreInit, ServiceInit, Absent, IdleReq
<1>2. [c \in Consents |-> row[c].status] = [c \in Consents |-> "NONE"]
  BY <1>1
<1>3. SawPast /\ AllSensible
  BY <1>1 DEF SawPast, AllSensible, Sensible, Deciding
<1> QED
  BY <1>1, <1>2, <1>3, InvInit DEF Lifecycle!Init, LifecycleInv

\* Every step maps to a step of the lifecycle or a stutter.
LEMMA StepMaps ==
  ASSUME LifecycleInv, [Next]_vars
  PROVE  [Lifecycle!Next]_(Lifecycle!lifecycle)
<1>a. ServerInv
  BY DEF LifecycleInv
<1> SUFFICES Unseen \/ Lifecycle!Next
  BY DEF Unseen
<1>1. CASE UNCHANGED store
  BY <1>1, StoreUnseen
<1>2. ASSUME NEW c \in Consents, ExpireListed(c)
      PROVE  Unseen \/ Lifecycle!Next
  <2>1. ExpireConsent(c) /\ Exists(c)
    BY <1>a, <1>2 DEF ExpireListed, ServerInv, RequestsFit
  <2> QED
    BY <1>a, <2>1, ExpireMaps DEF Lifecycle!Next
<1>3. ASSUME NEW cl \in Clients, CommitExpire(cl)
      PROVE  Unseen \/ Lifecycle!Next
  <2>1. /\ req[cl].pc = "expire" /\ ExpireConsent(req[cl].c)
    BY <1>3 DEF CommitExpire, Resume
  <2>2. req[cl].c \in Consents /\ Exists(req[cl].c)
    BY <1>a, <2>1, CurrentRequest
  <2> QED
    BY <1>a, <2>1, <2>2, ExpireMaps DEF Lifecycle!Next
<1>4. ASSUME NEW cl \in Clients, CommitUpdate(cl) \/ CommitRevoke(cl) \/ CommitUpdateAuth(cl)
      PROVE  Unseen \/ Lifecycle!Next
  BY <1>a, <1>4, UpdateMaps, RevokeMaps, UpdateAuthMaps DEF Lifecycle!Next
<1>5. ASSUME NEW cl \in Clients, NEW c \in Consents, NEW l \in AuthLists,
             NEW e \in CreateTimes, NEW ok \in BOOLEAN, CreateConsent(cl, c, l, e, ok)
      PROVE  Lifecycle!Next
  BY <1>a, <1>5, CreateMaps DEF Lifecycle!Next
<1>6. ASSUME NEW cl \in Clients, NEW c \in Consents, NEW in \in AuthInputs,
             CreateAuthResource(cl, c, in)
      PROVE  Unseen \/ Lifecycle!Next
  BY <1>a, <1>6, CreateAuthMaps DEF Lifecycle!Next
<1>7. ASSUME NEW cl \in Clients, ReadStep(cl)
      PROVE  Unseen
  <2>1. UNCHANGED store
    BY <1>a, <1>7, ReadStepType DEF ServerInv
  <2> QED
    BY <2>1, StoreUnseen
<1> QED
  BY <1>1, <1>2, <1>3, <1>4, <1>5, <1>6, <1>7, StepCases DEF QuietStep

\* The server implements the lifecycle of a consent, for any number of clients
\* and consents, whatever callers send, with crashes and failed calls.
THEOREM LifecycleImplemented == Spec => ImplementsLifecycle
<1>1. LifecycleInv /\ [Next]_vars => LifecycleInv'
  BY InvStep, ReadsKept DEF LifecycleInv
<1>2. Spec => []LifecycleInv
  BY InitMaps, <1>1, PTL DEF Spec
<1> QED
  BY InitMaps, <1>2, StepMaps, PTL DEF Spec, ImplementsLifecycle, Lifecycle!Spec
-----------------------------------------------------------------------------
(* What expires was due.                                                   *)

\* Who is about to expire a consent, and the consents that are expired, have a
\* time that has passed to show for it.
ExpiryFits ==
  HistoryEnabled =>
    /\ \A c \in Consents : row[c].status = "EXPIRED" => WasDue(c)
    /\ \A c \in todo : WasDue(c)
    /\ \A cl \in Clients : req[cl].pc = "expire" => WasDue(req[cl].c)
    /\ \A cl \in Clients : req[cl].pc = "created" => req[cl].exp \in TimesOf(req[cl].c)

\* With the history on, the times a consent has had are not forgotten.
LEMMA TimesKept ==
  ASSUME ServerInv, StoreStep, HistoryEnabled, NEW c \in Consents, Exists(c)
  PROVE  TimesOf(c) \subseteq TimesOf(c)'
<1>1. CASE UNCHANGED store
  BY <1>1 DEF store, TimesOf
<1>2. ASSUME NEW d \in Consents, Transaction(d)
      PROVE  TimesOf(c) \subseteq TimesOf(c)'
  <2>1. CASE d # c
    BY <1>2, <2>1 DEF Transaction, Untouched, TimesOf
  <2>2. CASE d = c
    <3> DEFINE snap == [row |-> row[c], auths |-> auths[c]]
    <3>1. history[c] \in Seq(Snapshot) /\ snap \in Snapshot
      BY DEF ServerInv, TypeOK, StoreTypeOK, Snapshot
    <3>2. history'[c] = Append(history[c], snap)
      <4>1. history'[c] = history[c] \o RecordConsentHistory(c)
        BY <1>2, <2>2 DEF Transaction, KeepsTrail
      <4> QED
        BY <4>1, SnapshotAppended DEF ServerInv, TypeOK
    <3>3. snap.row = row[c]
      OBVIOUS
    <3> HIDE DEF snap
    <3>4. /\ \A i \in DOMAIN history[c] : i \in DOMAIN history'[c] /\ history'[c][i] = history[c][i]
          /\ Len(history[c]) + 1 \in DOMAIN history'[c]
          /\ history'[c][Len(history[c]) + 1] = snap
      BY <3>1, <3>2
    <3> QED
      BY <3>3, <3>4 DEF TimesOf
  <2> QED
    BY <2>1, <2>2
<1> QED
  BY <1>1, <1>2 DEF StoreStep

\* A step leaves the clock alone or moves it on.
LEMMA TimeGoesOn ==
  ASSUME TypeOK, [Next]_vars
  PROVE  now \in Nat /\ now' \in Nat /\ now <= now'
<1>1. now \in Nat
  BY DEF TypeOK, StoreTypeOK
<1>2. ASSUME NEW cl \in Clients, ReadStep(cl)
      PROVE  now' = now
  <2>1. ASSUME NEW c \in Consents
        PROVE  /\ GetConsent(cl, c) \/ ValidateConsent(cl, c) \/ RevokeConsent(cl, c) => now' = now
               /\ \A in \in UpdateInputs : UpdateConsent(cl, c, in) => now' = now
               /\ \A in \in AuthInputs, a \in auths[c] : UpdateAuthResource(cl, c, a, in) => now' = now
    BY DEF GetConsent, ValidateConsent, RevokeConsent, UpdateConsent, UpdateAuthResource, Begin
  <2> QED
    BY <1>2, <2>1 DEF ReadStep, CheckCreated, Refetch, LoadConsentOutput, Answer, CheckUpdated,
                      ReadAuthsForRenewal, CallFails, RefuseUpdateAuth, Resume
<1>3. ASSUME NEW cl \in Clients,
             CommitUpdate(cl) \/ CommitRevoke(cl) \/ CommitUpdateAuth(cl) \/ CommitExpire(cl)
      PROVE  now' = now
  BY <1>3 DEF CommitUpdate, CommitRevoke, CommitUpdateAuth, CommitExpire, Resume
<1>4. ASSUME NEW cl \in Clients, NEW c \in Consents
      PROVE  /\ \A l \in AuthLists, e \in CreateTimes, ok \in BOOLEAN :
                  CreateConsent(cl, c, l, e, ok) => now' = now
             /\ \A in \in AuthInputs : CreateAuthResource(cl, c, in) => now' = now
  BY DEF CreateConsent, CreateAuthResource, Begin
<1>5. (\E c \in Consents : ExpireListed(c)) => now' = now
  BY DEF ExpireListed
<1>6. QuietStep => now' = now
  BY DEF QuietStep, RunExpirationJob, Crash, Done, vars, ExpireListedFails
<1>7. Tick => now' = now + 1
  BY DEF Tick
<1>8. now' = now \/ now' = now + 1
  BY <1>2, <1>3, <1>4, <1>5, <1>6, <1>7, StepCases
<1> QED
  BY <1>1, <1>8

\* What was due stays so.
LEMMA StaysDue ==
  ASSUME ServerInv, [Next]_vars, HistoryEnabled, NEW c \in Consents, Exists(c), WasDue(c)
  PROVE  WasDue(c)'
<1>1. TimesOf(c) \subseteq TimesOf(c)'
  BY TimesKept, StepEffect, InvStep DEF ServerInv
<1>2. now \in Nat /\ now' \in Nat /\ now <= now'
  BY TimeGoesOn DEF ServerInv
<1>3. PICK t \in TimesOf(c) \ {NoTime} : t < now /\ (t = 0 => SchedulerEnabled)
  BY DEF WasDue
<1>4. t \in Int
  <2>1. row[c].exp \in Times /\ \A i \in DOMAIN history[c] : history[c][i].row.exp \in Times
    <3>1. row[c] \in Row /\ history[c] \in Seq(Snapshot)
      BY DEF ServerInv, TypeOK, StoreTypeOK
    <3>2. \A i \in DOMAIN history[c] : history[c][i] \in Snapshot
      BY <3>1
    <3> QED
      BY <3>1, <3>2 DEF Row, Snapshot
  <2> QED
    BY <1>3, <2>1 DEF TimesOf, Times, NoTime
<1>5. t < now'
  BY <1>2, <1>3, <1>4
<1> QED
  BY <1>1, <1>3, <1>5 DEF WasDue

\* A consent that has lapsed is due, and so is one whose time has passed that
\* was created with it.
LEMMA PassedIsDue ==
  ASSUME NEW c \in Consents, NEW t \in TimesOf(c), IsConsentExpired(t, now), t \in Times,
         now \in Nat
  PROVE  WasDue(c)
<1>1. t # NoTime /\ t # 0 /\ t < now
  BY DEF IsConsentExpired, Times, NoTime
<1> QED
  BY <1>1 DEF WasDue

LEMMA LapsedIsDue ==
  ASSUME TypeOK, NEW c \in Consents, Lapsed(c)
  PROVE  WasDue(c)
  BY PassedIsDue DEF TypeOK, StoreTypeOK, Row, Lapsed, TimesOf

\* A step leaves client k with its request, with one that expires nothing, with
\* the expiry of a consent it finds lapsed now, or with a consent just created.
DueNow(k) ==
  \/ req'[k] = req[k]
  \/ req'[k].pc \notin {"expire", "created"}
  \/ /\ req'[k].c \in Consents /\ Exists(req'[k].c)
     /\ req'[k].pc = "expire"
     /\ \/ Lapsed(req'[k].c)
        \/ /\ req[k].pc = "created" /\ req[k].c = req'[k].c
           /\ IsConsentExpired(req[k].exp, now)
  \/ /\ req'[k].c \in Consents
     /\ req'[k].pc = "created" /\ req'[k].exp = row'[req'[k].c].exp

LEMMA ExpiriesAreDue ==
  ASSUME ServerInv, NEW k \in Clients, [Next]_vars
  PROVE  DueNow(k)
<1>1. req \in [Clients -> Requests] /\ StoreTypeOK
  BY DEF ServerInv, TypeOK, ServiceTypeOK
<1>2. CASE req'[k] = req[k]
  BY <1>2 DEF DueNow
<1>3. ASSUME NEW cl \in Clients, NEW q, Become(cl, q), q.pc \notin {"expire", "created"}
      PROVE  DueNow(k)
  <2>1. req'[k] = IF k = cl THEN q ELSE req[k]
    BY <1>1, <1>3 DEF Become
  <2> QED
    BY <1>3, <2>1 DEF DueNow
<1>4. IdleReq.pc \notin {"expire", "created"}
  BY DEF IdleReq
<1>5. ASSUME NEW cl \in Clients, NEW c \in Consents, NEW for, NEW s, Exists(c),
             Become(cl, ToExpire(c, for, s)),
             Lapsed(c) \/ (req[cl].pc = "created" /\ req[cl].c = c
                           /\ IsConsentExpired(req[cl].exp, now))
      PROVE  DueNow(k)
  <2>1. req'[k] = IF k = cl THEN ToExpire(c, for, s) ELSE req[k]
    BY <1>1, <1>5 DEF Become
  <2>2. ToExpire(c, for, s).c = c /\ ToExpire(c, for, s).pc = "expire"
    BY DEF ToExpire
  <2> QED
    BY <1>5, <2>1, <2>2 DEF DueNow
<1>6. ASSUME NEW cl \in Clients, ReadStep(cl)
      PROVE  DueNow(k)
  <2>1. CASE CheckCreated(cl)
    <3>1. req[cl].pc = "created" /\ req[cl].c \in Consents /\ Exists(req[cl].c)
      BY <2>1, CurrentRequest DEF CheckCreated, Resume
    <3> QED
      BY <1>3, <1>4, <1>5, <2>1, <3>1 DEF CheckCreated
  <2>2. CASE CheckUpdated(cl)
    <3>1. req[cl].c \in Consents /\ Exists(req[cl].c)
      BY <2>2, CurrentRequest DEF CheckUpdated, Resume
    <3> QED
      BY <1>3, <1>4, <1>5, <2>2, <3>1 DEF CheckUpdated
  <2>3. CASE Refetch(cl) \/ LoadConsentOutput(cl) \/ Answer(cl) \/ RefuseUpdateAuth(cl)
             \/ ReadAuthsForRenewal(cl)
    BY <1>3, <1>4, <2>3
       DEF Refetch, LoadConsentOutput, Answer, RefuseUpdateAuth, ReadAuthsForRenewal
  <2>4. CASE CallFails(cl)
    <3>1. AfterFailure(req[cl]).pc \notin {"expire", "created"}
      BY DEF AfterFailure, IdleReq
    <3> QED
      BY <1>3, <2>4, <3>1 DEF CallFails
  <2>5. ASSUME NEW c \in Consents, GetConsent(cl, c)
        PROVE  DueNow(k)
    BY <1>5, <2>5 DEF GetConsent
  <2>6. ASSUME NEW c \in Consents, ValidateConsent(cl, c)
        PROVE  DueNow(k)
    BY <1>3, <1>5, <2>6 DEF ValidateConsent
  <2>7. ASSUME NEW c \in Consents, RevokeConsent(cl, c)
        PROVE  DueNow(k)
    BY <1>3, <2>7 DEF RevokeConsent
  <2>8. ASSUME NEW c \in Consents, NEW in \in UpdateInputs, UpdateConsent(cl, c, in)
        PROVE  DueNow(k)
    BY <1>3, <2>8 DEF UpdateConsent
  <2>9. ASSUME NEW c \in Consents, NEW in \in AuthInputs, NEW a \in auths[c],
               UpdateAuthResource(cl, c, a, in)
        PROVE  DueNow(k)
    BY <1>3, <2>9 DEF UpdateAuthResource
  <2> QED
    BY <1>6, <2>1, <2>2, <2>3, <2>4, <2>5, <2>6, <2>7, <2>8, <2>9 DEF ReadStep
<1>7. ASSUME NEW cl \in Clients,
             CommitUpdate(cl) \/ CommitRevoke(cl) \/ CommitUpdateAuth(cl) \/ CommitExpire(cl)
      PROVE  DueNow(k)
  BY <1>3, <1>4, <1>7 DEF CommitUpdate, CommitRevoke, CommitUpdateAuth, CommitExpire
<1>8. ASSUME NEW cl \in Clients, NEW c \in Consents, NEW l \in AuthLists,
             NEW e \in CreateTimes, NEW ok \in BOOLEAN, CreateConsent(cl, c, l, e, ok)
      PROVE  DueNow(k)
  <2> DEFINE s == DeriveStatus(StatusesIn(l))
             q == [pc |-> "created", c |-> c, exp |-> e, local |-> s]
  <2>1. req'[k] = IF k = cl THEN q ELSE req[k]
    BY <1>1, <1>8 DEF CreateConsent, Become
  <2>2. row'[c].exp = e
    BY <1>1, <1>8, Effect DEF CreateConsent
  <2> QED
    BY <2>1, <2>2 DEF DueNow
<1>9. ASSUME NEW cl \in Clients, NEW c \in Consents, NEW in \in AuthInputs,
             CreateAuthResource(cl, c, in)
      PROVE  DueNow(k)
  BY <1>2, <1>9 DEF CreateAuthResource
<1>10. CASE QuietStep
  <2>1. CASE Crash
    <3>1. req'[k] = IdleReq
      BY <2>1 DEF Crash
    <3> QED
      BY <1>4, <3>1 DEF DueNow
  <2>2. CASE ~Crash
    BY <1>2, <1>10, <2>2 DEF QuietStep, RunExpirationJob, ExpireListedFails, Done, vars
  <2> QED
    BY <2>1, <2>2
<1>11. CASE \E c \in Consents : ExpireListed(c)
  BY <1>2, <1>11 DEF ExpireListed
<1> QED
  BY <1>2, <1>6, <1>7, <1>8, <1>9, <1>10, <1>11, StepCases

\* Only ExpireConsent makes a consent EXPIRED, on a request about to or for the job.
LEMMA WhoExpires ==
  ASSUME LifecycleInv, [Next]_vars, NEW c \in Consents, row'[c].status = "EXPIRED"
  PROVE  \/ row[c].status = "EXPIRED"
         \/ c \in todo
         \/ \E cl \in Clients : req[cl].pc = "expire" /\ req[cl].c = c
<1> SUFFICES ASSUME row[c].status # "EXPIRED"
             PROVE  c \in todo \/ \E cl \in Clients : req[cl].pc = "expire" /\ req[cl].c = c
  OBVIOUS
<1>a. ServerInv /\ StoreTypeOK
  BY DEF LifecycleInv, ServerInv, TypeOK
<1>b. "EXPIRED" \notin LiveStatuses
  BY DEF LiveStatuses
<1>1. ASSUME NEW d \in Consents, NEW w, NEW A, NEW n, NEW e, NEW h,
             ExecuteTransaction(d, w, A, n, e, h)
      PROVE  d = c /\ w.status = "EXPIRED"
  BY <1>a, <1>1, Effect
<1>2. ~UNCHANGED store
  BY DEF store
<1>3. ASSUME NEW d \in Consents, ExpireConsent(d)
      PROVE  d = c
  BY <1>1, <1>2, <1>3 DEF ExpireConsent
<1>4. ASSUME NEW cl \in Clients, CommitUpdate(cl)
      PROVE  FALSE
  <2>1. req[cl].pc = "update" /\ req[cl].c \in Consents
    BY <1>a, <1>4, CurrentRequest DEF CommitUpdate, Resume
  <2>2. c = req[cl].c /\ UpdatedRow(req[cl], row[req[cl].c]).status = "EXPIRED"
    BY <1>1, <1>4, <2>1 DEF CommitUpdate
  <2>3. req[cl].new \in LiveStatuses \union {req[cl].saw.status}
    BY <2>1 DEF LifecycleInv, AllSensible, Sensible
  <2> QED
    BY <1>b, <2>2, <2>3 DEF UpdatedRow
<1>5. ASSUME NEW cl \in Clients, CommitRevoke(cl)
      PROVE  FALSE
  <2>1. req[cl].c \in Consents
    BY <1>a, <1>5, CurrentRequest DEF CommitRevoke, Resume
  <2>2. [row[req[cl].c] EXCEPT !.status = "REVOKED"].status = "REVOKED"
    BY <1>a, <2>1 DEF StoreTypeOK, Row
  <2> QED
    BY <1>1, <1>5, <2>1, <2>2 DEF CommitRevoke
<1>6. ASSUME NEW cl \in Clients, CommitUpdateAuth(cl)
      PROVE  FALSE
  <2>1. req[cl].c \in Consents
    BY <1>a, <1>6, CurrentRequest DEF CommitUpdateAuth, Resume
  <2>2. [row[req[cl].c] EXCEPT !.status = StatusAfter(req[cl])].status = StatusAfter(req[cl])
    BY <1>a, <2>1 DEF StoreTypeOK, Row
  <2>3. StatusAfter(req[cl]) = row[req[cl].c].status \/ StatusAfter(req[cl]) \in LiveStatuses
    BY DerivedIsLive DEF StatusAfter
  <2> QED
    BY <1>1, <1>6, <1>b, <2>1, <2>2, <2>3 DEF CommitUpdateAuth
<1>7. ASSUME NEW cl \in Clients, NEW d \in Consents, NEW l \in AuthLists,
             NEW e \in CreateTimes, NEW ok \in BOOLEAN, CreateConsent(cl, d, l, e, ok)
      PROVE  FALSE
  <2> DEFINE s == DeriveStatus(StatusesIn(l))
  <2>1. [status |-> s, exp |-> e, approved |-> ok].status = "EXPIRED"
    BY <1>1, <1>7 DEF CreateConsent
  <2> QED
    BY <1>b, <2>1, DerivedIsLive
<1>8. ASSUME NEW cl \in Clients, NEW d \in Consents, NEW in \in AuthInputs,
             CreateAuthResource(cl, d, in)
      PROVE  FALSE
  <2> DEFINE A == auths[d] \union BuildAuths(<<in>>, nextAuth[d])
             s == DeriveStatus(StatusesOf(A))
  <2>1. [row[d] EXCEPT !.status = s].status = "EXPIRED"
    BY <1>1, <1>8 DEF CreateAuthResource
  <2>2. [row[d] EXCEPT !.status = s].status = s
    BY <1>a DEF StoreTypeOK, Row
  <2> QED
    BY <1>b, <2>1, <2>2, DerivedIsLive
<1>9. ASSUME NEW cl \in Clients, CommitExpire(cl)
      PROVE  req[cl].pc = "expire" /\ req[cl].c = c
  <2>1. req[cl].pc = "expire" /\ req[cl].c \in Consents
    BY <1>a, <1>9, CurrentRequest DEF CommitExpire, Resume
  <2> QED
    BY <1>3, <1>9, <2>1 DEF CommitExpire
<1>10. ASSUME NEW cl \in Clients, ReadStep(cl)
       PROVE  UNCHANGED store
  BY <1>a, <1>10, ReadStepType DEF ServerInv
<1>11. (\E d \in Consents : ExpireListed(d)) => c \in todo
  BY <1>3 DEF ExpireListed
<1> QED
  BY <1>2, <1>4, <1>5, <1>6, <1>7, <1>8, <1>9, <1>10, <1>11, StepCases DEF QuietStep, Tick

\* Every step keeps what expiry rests on.
LEMMA ExpiryStep ==
  ASSUME LifecycleInv, ExpiryFits, [Next]_vars
  PROVE  ExpiryFits'
<1> SUFFICES ASSUME HistoryEnabled
             PROVE  /\ \A c \in Consents : row'[c].status = "EXPIRED" => WasDue(c)'
                    /\ \A c \in todo' : WasDue(c)'
                    /\ \A cl \in Clients : req'[cl].pc = "expire" => (WasDue(req[cl].c))'
                    /\ \A cl \in Clients : req'[cl].pc = "created"
                                             => (req[cl].exp \in TimesOf(req[cl].c))'
  BY DEF ExpiryFits
<1>a. ServerInv /\ ServerInv' /\ StoreStep /\ TypeOK /\ TypeOK'
  BY InvStep, StepEffect DEF LifecycleInv, ServerInv
<1>b. ASSUME NEW cl \in Clients, req[cl].pc \in {"expire", "created"}
      PROVE  req[cl].c \in Consents /\ Exists(req[cl].c) /\ req[cl] \in Requests
  BY <1>a, <1>b, CurrentRequest
<1>c. \A c \in todo : c \in Consents /\ Exists(c)
  BY <1>a DEF TypeOK, JobTypeOK, ServerInv, RequestsFit
<1>1. ASSUME NEW c \in Consents, row'[c].status = "EXPIRED"
      PROVE  WasDue(c)'
  <2>1. WasDue(c)
    BY <1>1, WhoExpires DEF ExpiryFits
  <2>2. Exists(c)
    BY <1>1, <1>b, <1>c, WhoExpires DEF Exists
  <2> QED
    BY <1>a, <2>1, <2>2, StaysDue
<1>2. ASSUME NEW c \in todo'
      PROVE  WasDue(c)'
  <2>1. CASE c \in todo
    BY <1>a, <1>c, <2>1, StaysDue DEF ExpiryFits
  <2>2. CASE c \notin todo
    <3>1. RunExpirationJob
      BY <1>2, <2>2, StepCases DEF QuietStep, Crash, Done, vars, ExpireListed, ExpireListedFails
    <3>2. SchedulerEnabled /\ c \in GetExpiredConsents
      BY <1>2, <3>1 DEF RunExpirationJob
    <3>3. c \in Consents /\ Exists(c)
      BY <3>2, JobAssumption DEF GetExpiredConsents, Exists, ConsentStatuses, LiveStatuses,
                                 TerminalStatuses
    <3>4. WasDue(c)
      BY <3>2 DEF GetExpiredConsents, WasDue, TimesOf
    <3> QED
      BY <1>a, <3>3, <3>4, StaysDue
  <2> QED
    BY <2>1, <2>2
<1>3. ASSUME NEW k \in Clients, req'[k].pc \in {"expire", "created"}
      PROVE  /\ req'[k].pc = "expire" => (WasDue(req[k].c))'
             /\ req'[k].pc = "created" => (req[k].exp \in TimesOf(req[k].c))'
  <2>1. CASE req'[k] = req[k]
    <3>1. PICK c \in Consents : c = req[k].c /\ Exists(c)
      BY <1>3, <1>b, <2>1
    <3>2. req[k].pc = "expire" => WasDue(c)'
      BY <1>a, <3>1, StaysDue DEF ExpiryFits
    <3>3. req[k].pc = "created" => req[k].exp \in TimesOf(c)'
      BY <1>a, <3>1, TimesKept DEF ExpiryFits
    <3> QED
      BY <2>1, <3>1, <3>2, <3>3 DEF WasDue, TimesOf
  <2>2. ASSUME NEW c \in Consents, req'[k].c = c, Exists(c), req'[k].pc = "expire",
               \/ Lapsed(c)
               \/ req[k].pc = "created" /\ req[k].c = c /\ IsConsentExpired(req[k].exp, now)
        PROVE  (WasDue(req[k].c))'
    <3>1. CASE Lapsed(c)
      BY <1>a, <2>2, <3>1, LapsedIsDue, StaysDue DEF WasDue, TimesOf
    <3>2. CASE req[k].pc = "created" /\ req[k].c = c /\ IsConsentExpired(req[k].exp, now)
      <4>1. req[k].exp \in TimesOf(c)
        BY <3>2 DEF ExpiryFits
      <4>2. req[k].exp \in Times
        BY <1>b, <3>2, KindOfRequest DEF CreatedReqs
      <4>3. WasDue(c)
        BY <1>a, <3>2, <4>1, <4>2, PassedIsDue DEF TypeOK, StoreTypeOK
      <4> QED
        BY <1>a, <2>2, <4>3, StaysDue DEF WasDue, TimesOf
    <3> QED
      BY <2>2, <3>1, <3>2
  <2>3. CASE req'[k].c \in Consents /\ req'[k].pc = "created" /\ req'[k].exp = row'[req'[k].c].exp
    BY <2>3 DEF TimesOf
  <2> QED
    BY <1>3, <1>a, <2>1, <2>2, <2>3, ExpiriesAreDue DEF DueNow
<1> QED
  BY <1>1, <1>2, <1>3

\* Nothing expires that never was due, for any number of clients and consents,
\* whatever overtakes what, with crashes and failed calls.
THEOREM OnlyDueExpires == Spec => []ExpiredWasDue
<1>1. Init => ExpiryFits
  BY DEF Init, StoreInit, ServiceInit, JobInit, ExpiryFits, Absent, IdleReq
<1>2. LifecycleInv /\ [Next]_vars => LifecycleInv'
  BY InvStep, ReadsKept DEF LifecycleInv
<1>3. ExpiryFits => ExpiredWasDue
  BY DEF ExpiryFits, ExpiredWasDue
<1> QED
  BY InitMaps, <1>1, <1>2, <1>3, ExpiryStep, PTL DEF Spec
-----------------------------------------------------------------------------
(* The audit trail tells what the snapshots show.                          *)

\* The changes up to a place are finitely many, as many up to one before it at
\* the most, and no fewer if the sequence goes on.
LEMMA ChangesCount ==
  ASSUME NEW s \in Seq(RowStatuses), NEW n \in Nat, NEW i \in 1 .. n
  PROVE  /\ Changes(s, i) \subseteq Changes(s, n) /\ IsFiniteSet(Changes(s, i))
         /\ Cardinality(Changes(s, i)) \in Nat
         /\ Cardinality(Changes(s, i)) <= Cardinality(Changes(s, n))
<1>1. IsFiniteSet(2 .. n) /\ Changes(s, n) \subseteq 2 .. n
  BY FS_Interval DEF Changes
<1>2. IsFiniteSet(Changes(s, n))
  BY <1>1, FS_Subset
<1>3. Changes(s, i) \subseteq Changes(s, n)
  BY DEF Changes
<1> QED
  BY <1>2, <1>3, FS_Subset, FS_CardinalityType

\* The entries of a story that goes on with x: the ones there are if x is the
\* last status again, and one more for x if not.
LEMMA StoryGoesOn ==
  ASSUME NEW s \in Seq(RowStatuses), s # <<>>, NEW x \in RowStatuses,
         NEW t \in Seq(Entry), Tells(t, s), NEW t2,
         \/ x = s[Len(s)] /\ t2 = t
         \/ x # s[Len(s)] /\ \E en \in Entry : en.cur = x /\ t2 = Append(t, en)
  PROVE  Tells(t2, Append(s, x))
<1> DEFINE n == Len(s)
           u == Append(s, x)
           C(i) == Cardinality(Changes(s, i))
<1>1. /\ n \in Nat \ {0} /\ u \in Seq(RowStatuses) /\ Len(u) = n + 1 /\ u[n + 1] = x
      /\ \A i \in 1 .. n : u[i] = s[i]
  OBVIOUS
<1>2. DOMAIN s = 1 .. n /\ DOMAIN u = 1 .. n + 1
  BY <1>1
<1> HIDE DEF u
<1>3. ASSUME NEW i \in 1 .. n
      PROVE  Changes(u, i) = Changes(s, i)
  <2>1. \A j \in 2 .. i : u[j] = s[j] /\ u[j - 1] = s[j - 1]
    <3>1. \A j \in 2 .. i : j \in 1 .. n /\ j - 1 \in 1 .. n
      BY <1>1
    <3> QED
      BY <1>1, <3>1
  <2> QED
    BY <2>1 DEF Changes
<1>4. IsFiniteSet(Changes(s, n)) /\ \A i \in 1 .. n : C(i) \in Nat /\ C(i) <= C(n)
  BY <1>1, ChangesCount
<1>5. Len(t) = 1 + C(n) /\ \A i \in 1 .. n : t[1 + C(i)].cur = s[i]
  BY <1>1, <1>2 DEF Tells
<1>6. CASE x = s[n] /\ t2 = t
  <2>1. Changes(u, n + 1) = Changes(s, n)
    BY <1>1, <1>6 DEF Changes
  <2>2. ASSUME NEW i \in 1 .. n + 1
        PROVE  t2[1 + Cardinality(Changes(u, i))].cur = u[i]
    <3>1. CASE i = n + 1
      BY <1>1, <1>5, <1>6, <2>1, <3>1
    <3>2. CASE i # n + 1
      BY <1>1, <1>3, <1>5, <1>6, <3>2
    <3> QED
      BY <3>1, <3>2
  <2>3. Len(t2) = 1 + Cardinality(Changes(u, Len(u)))
    BY <1>1, <1>5, <1>6, <2>1
  <2> QED
    BY <1>2, <2>2, <2>3 DEF Tells, u
<1>7. ASSUME NEW en \in Entry, x # s[n], en.cur = x, t2 = Append(t, en)
      PROVE  Tells(t2, u)
  <2>1. Changes(u, n + 1) = Changes(s, n) \union {n + 1} /\ n + 1 \notin Changes(s, n)
    BY <1>1, <1>7 DEF Changes
  <2>2. Cardinality(Changes(u, n + 1)) = C(n) + 1
    BY <1>4, <2>1, FS_AddElement
  <2>3. /\ Len(t2) = Len(t) + 1 /\ t2[Len(t) + 1] = en
        /\ \A j \in 1 .. Len(t) : t2[j] = t[j]
    BY <1>7
  <2>4. ASSUME NEW i \in 1 .. n + 1
        PROVE  t2[1 + Cardinality(Changes(u, i))].cur = u[i]
    <3>1. CASE i = n + 1
      <4>1. 1 + Cardinality(Changes(u, i)) = Len(t) + 1
        BY <1>4, <1>5, <1>1, <2>2, <3>1
      <4> QED
        BY <1>1, <1>7, <2>3, <3>1, <4>1
    <3>2. CASE i # n + 1
      <4>1. i \in 1 .. n /\ 1 + C(i) \in 1 .. Len(t)
        BY <1>1, <1>4, <1>5, <3>2
      <4> QED
        BY <1>1, <1>3, <1>5, <2>3, <4>1
    <3> QED
      BY <3>1, <3>2
  <2>5. Len(t2) = 1 + Cardinality(Changes(u, Len(u)))
    BY <1>1, <1>4, <1>5, <2>2, <2>3
  <2> QED
    BY <1>2, <2>4, <2>5 DEF Tells
<1> QED
  BY <1>6, <1>7 DEF u

\* A story begins with one entry.
LEMMA StoryBegins ==
  ASSUME NEW s, Len(s) = 1, DOMAIN s = 1 .. 1, NEW t, Len(t) = 1, t[1].cur = s[1]
  PROVE  Tells(t, s)
<1>1. Changes(s, 1) = {}
  BY DEF Changes
<1> QED
  BY <1>1, FS_EmptySet DEF Tells

\* The statuses that snapshots show, and one snapshot more.
LEMMA ShownType ==
  ASSUME NEW h \in Seq(Snapshot)
  PROVE  /\ StatusesShown(h) \in Seq(RowStatuses) /\ Len(StatusesShown(h)) = Len(h)
         /\ \A i \in 1 .. Len(h) : StatusesShown(h)[i] = h[i].row.status
<1>1. /\ DOMAIN h = 1 .. Len(h) /\ Len(h) \in Nat
      /\ \A i \in 1 .. Len(h) : h[i].row.status \in RowStatuses
  <2>1. DOMAIN h = 1 .. Len(h) /\ Len(h) \in Nat /\ \A i \in 1 .. Len(h) : h[i] \in Snapshot
    OBVIOUS
  <2> QED
    BY <2>1 DEF Snapshot, Row
<1>2. /\ StatusesShown(h) \in [1 .. Len(h) -> RowStatuses]
      /\ \A i \in 1 .. Len(h) : StatusesShown(h)[i] = h[i].row.status
  BY <1>1 DEF StatusesShown
<1> QED
  BY <1>1, <1>2

LEMMA ShownNext ==
  ASSUME NEW h \in Seq(Snapshot), NEW snap \in Snapshot
  PROVE  StatusesShown(Append(h, snap)) = Append(StatusesShown(h), snap.row.status)
<1> DEFINE n == Len(h)
           g == Append(h, snap)
           s == StatusesShown(h)
           u == Append(s, snap.row.status)
<1>1. /\ n \in Nat /\ g \in Seq(Snapshot) /\ Len(g) = n + 1 /\ g[n + 1] = snap
      /\ \A i \in 1 .. n : g[i] = h[i]
  OBVIOUS
<1>2. /\ s \in Seq(RowStatuses) /\ Len(s) = n /\ snap.row.status \in RowStatuses
      /\ \A i \in 1 .. n : s[i] = h[i].row.status
  BY ShownType DEF Snapshot, Row
<1> HIDE DEF g, s, n
<1>3. /\ u \in Seq(RowStatuses) /\ Len(u) = n + 1 /\ u[n + 1] = snap.row.status
      /\ \A i \in 1 .. n : u[i] = s[i]
  BY <1>1, <1>2
<1>4. /\ StatusesShown(g) \in Seq(RowStatuses) /\ Len(StatusesShown(g)) = n + 1
      /\ \A i \in 1 .. n + 1 : StatusesShown(g)[i] = g[i].row.status
  BY <1>1, ShownType
<1> HIDE DEF u
<1>5. \A i \in 1 .. n + 1 : StatusesShown(g)[i] = u[i]
  BY <1>1, <1>2, <1>3, <1>4
<1>6. StatusesShown(g) = u
  BY <1>3, <1>4, <1>5, SeqEqual
<1> QED
  BY <1>6 DEF g, u, s

\* The entry of a step of the lifecycle never starts where it ends.
LEMMA EntriesMove ==
  ASSUME StoreTypeOK, [Lifecycle!Next]_(Lifecycle!lifecycle), NEW c \in Consents, NEW en \in Entry,
         audit'[c] = Append(audit[c], en)
  PROVE  en.prev # en.cur
<1>1. audit \in [Consents -> Seq(Entry)]
  BY DEF StoreTypeOK
<1>2. audit'[c] # audit[c]
  <2>1. Len(audit'[c]) = Len(audit[c]) + 1 /\ Len(audit[c]) \in Nat
    BY <1>1
  <2> QED
    BY <2>1
<1>3. PICK d \in Consents : \/ Lifecycle!Create(d) \/ Lifecycle!Update(d) \/ Lifecycle!Revoke(d)
                            \/ Lifecycle!Expire(d) \/ Lifecycle!Authorize(d)
  BY <1>2 DEF Lifecycle!Next, Lifecycle!lifecycle
<1>4. PICK p, s, b : Lifecycle!Move(d, p, s, b) /\ p # s
  <2>1. "NONE" \notin LiveStatuses
    BY DEF LiveStatuses
  <2> QED
    BY <1>3, <2>1, SameStatusNames
       DEF Lifecycle!Create, Lifecycle!Update, Lifecycle!Revoke, Lifecycle!Expire,
           Lifecycle!Authorize
<1> DEFINE e2 == [prev |-> p, cur |-> s, by |-> b]
<1>5. audit' = [audit EXCEPT ![d] = Append(@, e2)]
  BY <1>4 DEF Lifecycle!Move
<1>6. e2.prev = p /\ e2.cur = s
  OBVIOUS
<1> HIDE DEF e2
<1>7. d = c
  BY <1>1, <1>2, <1>5
<1>8. Append(audit[c], e2) = Append(audit[c], en)
  BY <1>1, <1>5, <1>7
<1>9. e2 = en
  <2>1. audit[c] \in Seq(Entry)
    BY <1>1
  <2>2. Append(audit[c], e2)[Len(audit[c]) + 1] = e2
    BY <2>1
  <2>3. Append(audit[c], en)[Len(audit[c]) + 1] = en
    BY <2>1
  <2> QED
    BY <1>8, <2>2, <2>3
<1> QED
  BY <1>4, <1>6, <1>9

\* A transaction goes on with the story of its consent.
LEMMA TrailsKept ==
  ASSUME LifecycleInv, TrailsAgree, [Next]_vars
  PROVE  TrailsAgree'
<1>a. ServerInv /\ ServerInv' /\ StoreStep /\ StoreTypeOK /\ StoreTypeOK'
  BY InvStep, StepEffect DEF LifecycleInv, ServerInv, TypeOK
<1> SUFFICES ASSUME NEW c \in Consents, HistoryEnabled, Exists(c)',
                    stale'[c] \subseteq {"updauth"}
             PROVE  Tells(audit[c], StatusesHad(c))'
  BY DEF TrailsAgree
<1>1. ASSUME row'[c] = row[c], audit'[c] = audit[c], history'[c] = history[c], stale'[c] = stale[c]
      PROVE  Tells(audit[c], StatusesHad(c))'
  <2>1. StatusesHad(c)' = StatusesHad(c)
    BY <1>1 DEF StatusesHad
  <2>2. Tells(audit[c], StatusesHad(c))
    BY <1>1 DEF TrailsAgree, Exists
  <2> QED
    BY <1>1, <2>1, <2>2 DEF Tells
<1>2. CASE UNCHANGED store
  BY <1>1, <1>2 DEF store
<1>3. ASSUME NEW d \in Consents, Transaction(d), d # c
      PROVE  Tells(audit[c], StatusesHad(c))'
  BY <1>1, <1>3 DEF Transaction, Untouched
<1>4. ASSUME Transaction(c), Exists(c)
      PROVE  Tells(audit[c], StatusesHad(c))'
  <2> DEFINE s == StatusesHad(c)
             x == row'[c].status
             snap == [row |-> row[c], auths |-> auths[c]]
  <2>1. KeepsTrail(c)
    BY <1>4 DEF Transaction
  <2>2. audit[c] \in Seq(Entry) /\ x \in RowStatuses /\ snap \in Snapshot /\ snap.row = row[c]
    BY <1>a DEF StoreTypeOK, Row, Snapshot
  <2>3. s \in Seq(RowStatuses) /\ s # <<>> /\ s[Len(s)] = row[c].status
    <3>1. StatusesShown(history[c]) \in Seq(RowStatuses) /\ row[c].status \in RowStatuses
      BY <1>a, ShownType DEF StoreTypeOK, Row
    <3> QED
      BY <3>1 DEF StatusesHad
  <2>4. Tells(audit[c], s)
    BY <1>4, <2>1 DEF TrailsAgree, KeepsTrail
  <2>5. history'[c] = Append(history[c], snap)
    BY <1>4, <1>a, <2>1, SnapshotAppended DEF KeepsTrail
  <2> HIDE DEF snap
  <2>6. StatusesHad(c)' = Append(s, x)
    <3>1. history[c] \in Seq(Snapshot)
      BY <1>a DEF StoreTypeOK
    <3>2. StatusesShown(history'[c]) = Append(StatusesShown(history[c]), row[c].status)
      BY <2>2, <2>5, <3>1, ShownNext
    <3> QED
      BY <3>2 DEF StatusesHad
  <2>7. \/ x = s[Len(s)] /\ audit'[c] = audit[c]
        \/ x # s[Len(s)] /\ \E en \in Entry : en.cur = x /\ audit'[c] = Append(audit[c], en)
    <3>1. CASE audit'[c] = audit[c] /\ x = row[c].status
      BY <2>3, <3>1
    <3>2. CASE Audited(c)
      <4>1. PICK en \in Entry : /\ audit'[c] = Append(audit[c], en)
                                /\ en.cur = x /\ en.prev = row[c].status
        BY <3>2 DEF Audited
      <4>2. en.prev # en.cur
        BY <1>a, <4>1, StepMaps, EntriesMove
      <4> QED
        BY <2>3, <4>1, <4>2
    <3> QED
      BY <1>4, <2>1, <3>1, <3>2 DEF KeepsTrail
  <2> HIDE DEF s, x
  <2>8. Tells(audit'[c], Append(s, x))
    BY <2>2, <2>3, <2>4, <2>7, StoryGoesOn
  <2> QED
    BY <2>6, <2>8 DEF Tells
<1>5. ASSUME Transaction(c), ~Exists(c)
      PROVE  Tells(audit[c], StatusesHad(c))'
  <2>1. KeepsTrail(c) /\ audit[c] = <<>> /\ history[c] = <<>>
    BY <1>5 DEF Transaction, ServerInv, LifecycleInv, AuditMatchesStatus, NothingYet
  <2>2. history'[c] = <<>> /\ Audited(c)
    BY <1>5, <2>1 DEF KeepsTrail
  <2>3. PICK en \in Entry : audit'[c] = Append(<<>>, en) /\ en.cur = row'[c].status
    BY <2>1, <2>2 DEF Audited
  <2>4. Len(audit'[c]) = 1 /\ audit'[c][1] = en
    BY <2>3
  <2>5. /\ Len(StatusesHad(c)') = 1 /\ DOMAIN StatusesHad(c)' = 1 .. 1
        /\ StatusesHad(c)'[1] = row'[c].status
    <3>1. StatusesShown(history'[c]) = <<>>
      <4>1. history'[c] \in Seq(Snapshot) /\ Len(history'[c]) = 0
        BY <2>2
      <4>2. StatusesShown(history'[c]) \in Seq(RowStatuses) /\ Len(StatusesShown(history'[c])) = 0
        BY <4>1, ShownType
      <4> QED
        BY <4>2
    <3>2. StatusesHad(c)' = Append(<<>>, row'[c].status)
      BY <3>1 DEF StatusesHad
    <3> QED
      BY <3>2
  <2>6. Tells(audit'[c], StatusesHad(c)')
    BY <2>3, <2>4, <2>5, StoryBegins
  <2> QED
    BY <2>6 DEF Tells
<1> QED
  BY <1>2, <1>3, <1>4, <1>5, <1>a DEF StoreStep

\* The audit trail and the history of a consent tell the same, for any number of
\* clients and consents, unless an update or revocation of it was overtaken.
THEOREM TrailsTellTheSame == Spec => []TrailsAgree
<1>1. Init => TrailsAgree
  BY DEF Init, StoreInit, TrailsAgree, Absent, Exists
<1>2. LifecycleInv /\ [Next]_vars => LifecycleInv'
  BY InvStep, ReadsKept DEF LifecycleInv
<1> QED
  BY InitMaps, <1>1, <1>2, TrailsKept, PTL DEF Spec
=============================================================================
