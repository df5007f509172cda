------------------------ MODULE ConsentServerProofs ------------------------
(***************************************************************************)
(* Theorems about the server, for every set of consents and of clients,    *)
(* every input and every bound.                                            *)
(***************************************************************************)
EXTENDS ConsentServer, TLAPS

-----------------------------------------------------------------------------
(* The operators.                                                          *)

\* A derived status is a live one: no authorization write revokes or expires.
LEMMA DerivedIsLive ==
  ASSUME NEW S
  PROVE  DeriveStatus(S) \in LiveStatuses
  BY DEF DeriveStatus, LiveStatuses

\* The statuses of a request body and those of the rows stored for it derive
\* the same status: the default given to an omitted status is an approval.
LEMMA DeriveStored ==
  ASSUME NEW l \in Seq(AuthInput), NEW n \in Nat
  PROVE  DeriveStatus(StatusesOf(BuildAuths(l, n))) = DeriveStatus(StatusesIn(l))
<1> DEFINE S == StatusesIn(l)
           T == StatusesOf(BuildAuths(l, n))
           row_of(i) == [id |-> n + i, type |-> StoredType(l[i].type),
                         status |-> StoredStatus(l[i].status)]
<1>1. BuildAuths(l, n) = {row_of(i) : i \in DOMAIN l}
  BY Zenon DEF BuildAuths
<1>a. \A i \in DOMAIN l : row_of(i).status = StoredStatus(l[i].status)
  OBVIOUS
<1>b. T = {row_of(i).status : i \in DOMAIN l}
  <2> HIDE DEF row_of
  <2> QED BY <1>1 DEF StatusesOf
<1>2. T = {StoredStatus(s) : s \in S}
  <2> HIDE DEF row_of
  <2> QED BY <1>a, <1>b DEF StatusesIn
<1>3. "REJECTED" \in Participating(T) <=> "REJECTED" \in Participating(S)
  BY <1>2 DEF Participating, StoredStatus, SystemStatuses
<1>4. Participating(T) = {StoredStatus(s) : s \in Participating(S)}
  BY <1>2 DEF Participating, StoredStatus, SystemStatuses
<1>5. Participating(T) \subseteq {"APPROVED", ""} <=> Participating(S) \subseteq {"APPROVED", ""}
  BY <1>4 DEF StoredStatus
<1>6. Participating(T) # {} <=> Participating(S) # {}
  <2> HIDE DEF S, T
  <2> QED BY <1>4
<1> QED
  BY <1>3, <1>5, <1>6 DEF DeriveStatus

\* The rows built for a request body are authorizations.
LEMMA BuildAuthsType ==
  ASSUME NEW l \in Seq(AuthInput), NEW n \in Nat
  PROVE  BuildAuths(l, n) \in SUBSET Auth
<1>1. ASSUME NEW i \in DOMAIN l
      PROVE  [id |-> n + i, type |-> StoredType(l[i].type),
              status |-> StoredStatus(l[i].status)] \in Auth
  <2>1. l[i] \in AuthInput /\ n + i \in Nat
    OBVIOUS
  <2>2. StoredType(l[i].type) \in AuthTypes
    BY <2>1 DEF AuthInput, StoredType, AuthTypes
  <2>3. StoredStatus(l[i].status) \in AuthStatuses
    BY <2>1 DEF AuthInput, StoredStatus, AuthStatuses, CallerStatuses
  <2> QED
    BY <2>1, <2>2, <2>3 DEF Auth
<1> QED
  BY <1>1, Zenon DEF BuildAuths

\* Marking every authorization leaves authorizations with that mark only.
LEMMA MarkedType ==
  ASSUME NEW A \in SUBSET Auth, NEW s \in AuthStatuses
  PROVE  /\ UpdateAllStatusByConsentID(A, s) \in SUBSET Auth
         /\ StatusesOf(UpdateAllStatusByConsentID(A, s)) \subseteq {s}
  BY DEF UpdateAllStatusByConsentID, StatusesOf, Auth

-----------------------------------------------------------------------------
(* The type invariant.                                                     *)

\* A request is of the kind its pc says.
LEMMA KindOfRequest ==
  ASSUME NEW r \in Requests
  PROVE  /\ r.pc = "idle" => r = IdleReq
         /\ r.pc = "created" => r \in CreatedReqs
         /\ r.pc = "renew" => r \in RenewReqs
         /\ r.pc = "update" => r \in UpdateReqs
         /\ r.pc = "updated" => r \in UpdatedReqs
         /\ r.pc = "revoke" => r \in RevokeReqs
         /\ r.pc = "updauth" => r \in UpdAuthReqs
         /\ r.pc = "expire" => r \in ExpireReqs
         /\ r.pc = "refetch" => r \in RefetchReqs
         /\ r.pc = "load" => r \in LoadReqs
         /\ r.pc = "answered" => r \in AnsweredReqs
  BY DEF Requests, IdleReq, CreatedReqs, RenewReqs, UpdateReqs, UpdatedReqs, RevokeReqs,
         UpdAuthReqs, ExpireReqs, RefetchReqs, LoadReqs, AnsweredReqs

\* A transaction with well-typed arguments keeps the types of the tables.
LEMMA TransactionType ==
  ASSUME StoreTypeOK, NEW c \in Consents, NEW r \in Row, NEW A \in SUBSET Auth,
         NEW k \in Nat, NEW e \in Seq(Entry), NEW h \in Seq(Snapshot),
         ExecuteTransaction(c, r, A, k, e, h),
         stale' \in [Consents -> SUBSET StaleOps], now' = now
  PROVE  StoreTypeOK'
<1>1. row' \in [Consents -> Row] /\ auths' \in [Consents -> SUBSET Auth]
  BY DEF StoreTypeOK, ExecuteTransaction
<1>2. nextAuth' \in [Consents -> Nat] /\ ver' \in [Consents -> Nat]
  BY DEF StoreTypeOK, ExecuteTransaction
<1>3. audit' \in [Consents -> Seq(Entry)]
  BY DEF StoreTypeOK, ExecuteTransaction
<1>4. history' \in [Consents -> Seq(Snapshot)]
  BY DEF StoreTypeOK, ExecuteTransaction
<1> QED
  BY <1>1, <1>2, <1>3, <1>4 DEF StoreTypeOK

\* The snapshots and the audit entries that transactions add have their types.
LEMMA SnapshotType ==
  ASSUME StoreTypeOK, NEW c \in Consents
  PROVE  RecordConsentHistory(c) \in Seq(Snapshot)
<1>1. [row |-> row[c], auths |-> auths[c]] \in Snapshot
  BY DEF StoreTypeOK, Snapshot
<1> QED
  BY <1>1 DEF RecordConsentHistory

\* An entry of the status audit, from a status to a later one.
LEMMA EntryType ==
  ASSUME NEW p \in RowStatuses, NEW s \in ConsentStatuses,
         NEW b \in {"GROUP", "USER", "SYSTEM", "NONE"}
  PROVE  StatusAudit(p, s, b) \in Seq(Entry)
  BY DEF StatusAudit, Entry

\* The parts of the state that requests are in have their types after a step
\* that gives client cl the request r.
LEMMA RequestType ==
  ASSUME ServiceTypeOK, NEW cl \in Clients, NEW r \in Requests, Become(cl, r),
         issued' \in Nat, faults' \in Nat
  PROVE  ServiceTypeOK'
  BY DEF ServiceTypeOK, Become

\* What Begin and Resume leave.
LEMMA BeginType ==
  ASSUME ServiceTypeOK, NEW cl \in Clients, Begin(cl)
  PROVE  now' = now /\ issued' \in Nat /\ faults' \in Nat
  BY DEF ServiceTypeOK, Begin

\* What Resume leaves, and what is known of the request it resumes.
LEMMA ResumeType ==
  ASSUME ServiceTypeOK, NEW cl \in Clients, NEW pc, Resume(cl, pc)
  PROVE  /\ now' = now /\ issued' \in Nat /\ faults' \in Nat
         /\ req[cl] \in Requests /\ req[cl].pc = pc
  BY DEF ServiceTypeOK, Resume

\* An unchanged store keeps its types, and so does a ticking clock.
LEMMA UnchangedStoreType ==
  ASSUME StoreTypeOK, UNCHANGED store, now' \in Nat
  PROVE  StoreTypeOK'
  BY DEF StoreTypeOK, store

\* The expiry of a consent keeps the types of the tables.
LEMMA ExpireType ==
  ASSUME StoreTypeOK, NEW c \in Consents, ExpireConsent(c), now' = now
  PROVE  StoreTypeOK'
<1>1. CASE UNCHANGED store
  BY <1>1, UnchangedStoreType DEF StoreTypeOK
<1>2. CASE ~UNCHANGED store
  <2> DEFINE r == [row[c] EXCEPT !.status = "EXPIRED"]
             A == UpdateAllStatusByConsentID(auths[c], "SYS_EXPIRED")
             e == StatusAudit(row[c].status, "EXPIRED", "SYSTEM")
             h == RecordConsentHistory(c)
  <2>1. ExecuteTransaction(c, r, A, 0, e, h) /\ stale' = stale
    BY <1>2 DEF ExpireConsent
  <2>2. r \in Row
    BY DEF StoreTypeOK, Row, RowStatuses, ConsentStatuses, TerminalStatuses
  <2>3. A \in SUBSET Auth
    <3>1. auths[c] \in SUBSET Auth
      BY DEF StoreTypeOK
    <3> QED
      BY <3>1, MarkedType DEF AuthStatuses, SystemStatuses
  <2>4. e \in Seq(Entry)
    <3>1. row[c].status \in RowStatuses
      BY DEF StoreTypeOK, Row
    <3> QED
      BY <3>1, EntryType DEF ConsentStatuses, TerminalStatuses
  <2>5. h \in Seq(Snapshot)
    BY SnapshotType
  <2>6. stale' \in [Consents -> SUBSET StaleOps]
    BY <2>1 DEF StoreTypeOK
  <2> HIDE DEF r, A, e, h
  <2> QED
    BY <2>1, <2>2, <2>3, <2>4, <2>5, <2>6, TransactionType
<1> QED
  BY <1>1, <1>2

\* CreateConsent keeps the types of the tables and of the requests.
LEMMA CreateConsentType ==
  ASSUME TypeOK, NEW cl \in Clients, NEW c \in Consents, NEW l \in AuthLists,
         NEW e \in CreateTimes, NEW ok \in BOOLEAN, CreateConsent(cl, c, l, e, ok)
  PROVE  StoreTypeOK' /\ ServiceTypeOK'
<1> DEFINE s == DeriveStatus(StatusesIn(l))
           r == [status |-> s, exp |-> e, approved |-> ok]
           A == BuildAuths(l, nextAuth[c])
           q == [pc |-> "created", c |-> c, exp |-> e, local |-> s]
<1>1. l \in Seq(AuthInput) /\ e \in Times /\ nextAuth[c] \in Nat
  BY ServiceAssumption DEF TypeOK, StoreTypeOK
<1>2. s \in ConsentStatuses /\ s \in RowStatuses
  BY DerivedIsLive DEF ConsentStatuses, RowStatuses
<1>3. /\ ExecuteTransaction(c, r, A, Len(l), StatusAudit("NONE", s, "GROUP"), <<>>)
      /\ stale' = stale
      /\ Begin(cl)
      /\ Become(cl, q)
  BY DEF CreateConsent
<1>4. r \in Row /\ q \in Requests
  BY <1>1, <1>2 DEF Row, Requests, CreatedReqs
<1>5. A \in SUBSET Auth
  BY <1>1, BuildAuthsType
<1>6. StatusAudit("NONE", s, "GROUP") \in Seq(Entry)
  BY <1>2, EntryType DEF RowStatuses
<1>7. stale' \in [Consents -> SUBSET StaleOps] /\ Len(l) \in Nat /\ <<>> \in Seq(Snapshot)
  BY <1>1, <1>3 DEF TypeOK, StoreTypeOK
<1>8. now' = now /\ issued' \in Nat /\ faults' \in Nat
  BY <1>3, BeginType DEF TypeOK
<1> HIDE DEF s, r, A, q
<1>9. StoreTypeOK'
  BY <1>3, <1>4, <1>5, <1>6, <1>7, <1>8, TransactionType DEF TypeOK
<1> QED
  BY <1>3, <1>4, <1>8, <1>9, RequestType DEF TypeOK

\* The transaction of UpdateConsent keeps them.
LEMMA CommitUpdateType ==
  ASSUME TypeOK, NEW cl \in Clients, CommitUpdate(cl)
  PROVE  StoreTypeOK' /\ ServiceTypeOK'
<1> DEFINE r == req[cl]
           w == UpdatedRow(r, row[r.c])
           A == IF r.in.replace THEN BuildAuths(r.in.list, nextAuth[r.c]) ELSE auths[r.c]
           k == IF r.in.replace THEN Len(r.in.list) ELSE 0
           q == [pc |-> "updated", c |-> r.c]
<1>1. /\ Resume(cl, "update")
      /\ ExecuteTransaction(r.c, w, A, k, UpdateAudit(r), RecordConsentHistory(r.c))
      /\ ActsOnVersion(r.c, r.ver, "update")
      /\ Become(cl, q)
  BY DEF CommitUpdate
<1>2. /\ now' = now /\ issued' \in Nat /\ faults' \in Nat
      /\ r \in UpdateReqs
  BY <1>1, ResumeType, KindOfRequest DEF TypeOK
<1>3. /\ r.c \in Consents /\ r.saw \in Row /\ r.new \in ConsentStatuses
      /\ r.in \in UpdateInput
  BY <1>2 DEF UpdateReqs
<1>4. /\ r.in.exp \in Times /\ r.in.replace \in BOOLEAN /\ r.in.list \in Seq(AuthInput)
      /\ r.saw.status \in RowStatuses /\ r.saw.exp \in Times
  BY <1>3 DEF UpdateInput, Row
<1>5. /\ row[r.c] \in Row /\ auths[r.c] \in SUBSET Auth /\ nextAuth[r.c] \in Nat
      /\ stale[r.c] \in SUBSET StaleOps
  BY <1>3 DEF TypeOK, StoreTypeOK
<1>6. w \in Row
  <2>1. row[r.c].status \in RowStatuses /\ row[r.c].approved \in BOOLEAN
    BY <1>5 DEF Row
  <2>2. EffectiveTime(r.in, r.saw) \in Times
    BY <1>4 DEF EffectiveTime
  <2>3. r.new \in RowStatuses
    BY <1>3 DEF RowStatuses
  <2> QED
    BY <2>1, <2>2, <2>3 DEF UpdatedRow, Row
<1>7. A \in SUBSET Auth /\ k \in Nat
  BY <1>4, <1>5, BuildAuthsType
<1>8. UpdateAudit(r) \in Seq(Entry)
  BY <1>3, <1>4, EntryType DEF UpdateAudit
<1>9. RecordConsentHistory(r.c) \in Seq(Snapshot)
  BY <1>3, SnapshotType DEF TypeOK
<1>10. stale' \in [Consents -> SUBSET StaleOps]
  BY <1>1, <1>5 DEF TypeOK, StoreTypeOK, ActsOnVersion, StaleOps
<1>11. q \in Requests
  BY <1>3 DEF Requests, UpdatedReqs
<1> HIDE DEF r, w, A, k, q
<1>12. StoreTypeOK'
  BY <1>1, <1>2, <1>3, <1>6, <1>7, <1>8, <1>9, <1>10, TransactionType DEF TypeOK
<1> QED
  BY <1>1, <1>2, <1>11, <1>12, RequestType DEF TypeOK

\* The transaction of RevokeConsent keeps them.
LEMMA CommitRevokeType ==
  ASSUME TypeOK, NEW cl \in Clients, CommitRevoke(cl)
  PROVE  StoreTypeOK' /\ ServiceTypeOK'
<1> DEFINE r == req[cl]
           w == [row[r.c] EXCEPT !.status = "REVOKED"]
           A == UpdateAllStatusByConsentID(auths[r.c], "SYS_REVOKED")
           e == StatusAudit(r.saw.status, "REVOKED", "USER")
<1>1. /\ Resume(cl, "revoke")
      /\ ExecuteTransaction(r.c, w, A, 0, e, RecordConsentHistory(r.c))
      /\ ActsOnVersion(r.c, r.ver, "revoke")
      /\ Become(cl, IdleReq)
  BY DEF CommitRevoke
<1>2. now' = now /\ issued' \in Nat /\ faults' \in Nat /\ r \in RevokeReqs
  BY <1>1, ResumeType, KindOfRequest DEF TypeOK
<1>3. r.c \in Consents /\ r.saw.status \in RowStatuses
  BY <1>2 DEF RevokeReqs, Row
<1>4. row[r.c] \in Row /\ auths[r.c] \in SUBSET Auth /\ stale[r.c] \in SUBSET StaleOps
  BY <1>3 DEF TypeOK, StoreTypeOK
<1>5. w \in Row
  BY <1>4 DEF Row, RowStatuses, ConsentStatuses, TerminalStatuses
<1>6. A \in SUBSET Auth
  BY <1>4, MarkedType DEF AuthStatuses, SystemStatuses
<1>7. e \in Seq(Entry)
  BY <1>3, EntryType DEF ConsentStatuses, TerminalStatuses
<1>8. RecordConsentHistory(r.c) \in Seq(Snapshot)
  BY <1>3, SnapshotType DEF TypeOK
<1>9. stale' \in [Consents -> SUBSET StaleOps]
  BY <1>1, <1>4 DEF TypeOK, StoreTypeOK, ActsOnVersion, StaleOps
<1>10. IdleReq \in Requests
  BY DEF Requests
<1> HIDE DEF r, w, A, e
<1>11. StoreTypeOK'
  BY <1>1, <1>2, <1>3, <1>5, <1>6, <1>7, <1>8, <1>9, TransactionType DEF TypeOK
<1> QED
  BY <1>1, <1>2, <1>10, <1>11, RequestType DEF TypeOK

\* The audit entries of an authorization write.
LEMMA DerivedAuditType ==
  ASSUME StoreTypeOK, NEW c \in Consents, NEW s,
         s = row[c].status \/ s \in ConsentStatuses
  PROVE  DerivedAudit(c, s) \in Seq(Entry)
<1>1. row[c].status \in RowStatuses
  BY DEF StoreTypeOK, Row
<1> QED
  BY <1>1, EntryType DEF DerivedAudit

\* The transaction of CreateAuthResource keeps them.
LEMMA CreateAuthType ==
  ASSUME TypeOK, NEW cl \in Clients, NEW c \in Consents, NEW in \in AuthInputs,
         CreateAuthResource(cl, c, in)
  PROVE  StoreTypeOK' /\ ServiceTypeOK'
<1> DEFINE A == auths[c] \union BuildAuths(<<in>>, nextAuth[c])
           s == DeriveStatus(StatusesOf(A))
           w == [row[c] EXCEPT !.status = s]
<1>1. /\ Begin(cl)
      /\ ExecuteTransaction(c, w, A, 1, DerivedAudit(c, s), RecordConsentHistory(c))
      /\ stale' = stale /\ req' = req
  BY DEF CreateAuthResource
<1>2. now' = now /\ issued' \in Nat /\ faults' \in Nat
  BY <1>1, BeginType DEF TypeOK
<1>3. /\ row[c] \in Row /\ auths[c] \in SUBSET Auth /\ nextAuth[c] \in Nat
      /\ <<in>> \in Seq(AuthInput)
  BY AuthAssumption DEF TypeOK, StoreTypeOK
<1>4. s \in ConsentStatuses
  BY DerivedIsLive DEF ConsentStatuses
<1>5. w \in Row
  BY <1>3, <1>4 DEF Row, RowStatuses
<1>6. A \in SUBSET Auth
  BY <1>3, BuildAuthsType
<1>7. DerivedAudit(c, s) \in Seq(Entry) /\ RecordConsentHistory(c) \in Seq(Snapshot)
  BY <1>4, DerivedAuditType, SnapshotType DEF TypeOK
<1>8. stale' \in [Consents -> SUBSET StaleOps]
  BY <1>1 DEF TypeOK, StoreTypeOK
<1> HIDE DEF A, s, w
<1>9. StoreTypeOK'
  BY <1>1, <1>2, <1>5, <1>6, <1>7, <1>8, TransactionType DEF TypeOK
<1> QED
  BY <1>1, <1>2, <1>9 DEF TypeOK, ServiceTypeOK

\* What a request means to leave in an authorization is an authorization.
LEMMA UpdatedType ==
  ASSUME NEW r \in UpdAuthReqs
  PROVE  Updated(r) \in Auth /\ Updated(r).id = r.saw.id
<1>1. /\ r.saw.id \in Nat /\ r.saw.type \in AuthTypes /\ r.saw.status \in AuthStatuses
      /\ r.in.type \in AuthTypes \union {""} /\ r.in.status \in CallerStatuses \union {""}
  BY DEF UpdAuthReqs, Auth, AuthInput
<1> QED
  BY <1>1 DEF Updated, Auth, AuthStatuses

\* The write of one authorization leaves authorizations.
LEMMA UpdateAuthType ==
  ASSUME NEW A \in SUBSET Auth, NEW u \in Auth
  PROVE  UpdateAuth(A, u) \in SUBSET Auth
<1>1. \A a \in A : [a EXCEPT !.status = u.status] \in Auth
  BY DEF Auth
<1> QED
  BY <1>1 DEF UpdateAuth

\* An authorization update leaves a derived status or the present one.
LEMMA StatusAfterType ==
  ASSUME NEW r
  PROVE  StatusAfter(r) \in LiveStatuses \/ StatusAfter(r) = row[r.c].status
  BY DerivedIsLive DEF StatusAfter

\* The transaction of UpdateAuthResource keeps the types.
LEMMA CommitUpdateAuthType ==
  ASSUME TypeOK, NEW cl \in Clients, CommitUpdateAuth(cl)
  PROVE  StoreTypeOK' /\ ServiceTypeOK'
<1> DEFINE r == req[cl]
           s == StatusAfter(r)
           w == [row[r.c] EXCEPT !.status = s]
           A == UpdateAuth(auths[r.c], Updated(r))
<1>1. /\ Resume(cl, "updauth")
      /\ ExecuteTransaction(r.c, w, A, 0, DerivedAudit(r.c, s), RecordConsentHistory(r.c))
      /\ ActsOnVersion(r.c, r.ver, "updauth")
      /\ Become(cl, IdleReq)
  BY DEF CommitUpdateAuth
<1>2. now' = now /\ issued' \in Nat /\ faults' \in Nat /\ r \in UpdAuthReqs
  BY <1>1, ResumeType, KindOfRequest DEF TypeOK
<1>3. r.c \in Consents
  BY <1>2 DEF UpdAuthReqs
<1>4. row[r.c] \in Row /\ auths[r.c] \in SUBSET Auth /\ stale[r.c] \in SUBSET StaleOps
  BY <1>3 DEF TypeOK, StoreTypeOK
<1>5. s = row[r.c].status \/ s \in ConsentStatuses
  BY StatusAfterType DEF ConsentStatuses
<1>6. w \in Row
  BY <1>4, <1>5 DEF Row, RowStatuses
<1>7. A \in SUBSET Auth
  BY <1>2, <1>4, UpdatedType, UpdateAuthType
<1>8. DerivedAudit(r.c, s) \in Seq(Entry) /\ RecordConsentHistory(r.c) \in Seq(Snapshot)
  BY <1>3, <1>5, DerivedAuditType, SnapshotType DEF TypeOK
<1>9. stale' \in [Consents -> SUBSET StaleOps]
  BY <1>1, <1>4 DEF TypeOK, StoreTypeOK, ActsOnVersion, StaleOps
<1>10. IdleReq \in Requests
  BY DEF Requests
<1> HIDE DEF r, w, A, s
<1>11. StoreTypeOK'
  BY <1>1, <1>2, <1>3, <1>6, <1>7, <1>8, <1>9, TransactionType DEF TypeOK
<1> QED
  BY <1>1, <1>2, <1>10, <1>11, RequestType DEF TypeOK

\* The steps of a request that only read the tables.
ReadStep(cl) ==
  \/ CheckCreated(cl)
  \/ Refetch(cl)
  \/ LoadConsentOutput(cl)
  \/ Answer(cl)
  \/ ReadAuthsForRenewal(cl)
  \/ CheckUpdated(cl)
  \/ CallFails(cl)
  \/ RefuseUpdateAuth(cl)
  \/ \E c \in Consents :
       \/ GetConsent(cl, c)
       \/ ValidateConsent(cl, c)
       \/ RevokeConsent(cl, c)
       \/ \E in \in UpdateInputs : UpdateConsent(cl, c, in)
       \/ \E in \in AuthInputs, a \in auths[c] : UpdateAuthResource(cl, c, a, in)

\* A step that only reads leaves the tables alone and a well-typed request.
LEMMA ReadStepType ==
  ASSUME TypeOK, NEW cl \in Clients, ReadStep(cl)
  PROVE  UNCHANGED <<store, now>> /\ ServiceTypeOK'
<1> USE DEF TypeOK
<1>a. now \in Nat /\ \A c \in Consents : row[c] \in Row /\ ver[c] \in Nat /\ auths[c] \in SUBSET Auth
  BY DEF StoreTypeOK
<1>b. \A c \in Consents : row[c].status \in RowStatuses
  BY <1>a DEF Row
<1>c. IdleReq \in Requests
  BY DEF Requests
<1>d. ASSUME NEW c \in Consents, NEW for \in {"validate", "other"}, NEW s \in RowStatuses
      PROVE  ToExpire(c, for, s) \in Requests
  BY <1>a DEF ToExpire, ExpireReqs, Requests
<1>e. ASSUME NEW c \in Consents, NEW s \in RowStatuses, NEW t \in Nat
      PROVE  [pc |-> "load", c |-> c, local |-> s, at |-> t] \in Requests
  BY DEF LoadReqs, Requests
<1>1. CASE CheckCreated(cl)
  <2>1. /\ Resume(cl, "created") /\ UNCHANGED store
        /\ Become(cl, ToExpire(req[cl].c, "other", req[cl].local)) \/ Become(cl, IdleReq)
    BY <1>1 DEF CheckCreated
  <2>2. req[cl] \in CreatedReqs
    BY <2>1, ResumeType, KindOfRequest
  <2>3. req[cl].c \in Consents /\ req[cl].local \in RowStatuses
    BY <2>2 DEF CreatedReqs, RowStatuses
  <2> QED
    BY <2>1, <2>3, <1>c, <1>d, ResumeType, RequestType
<1>2. CASE Refetch(cl)
  <2>1. /\ Resume(cl, "refetch") /\ UNCHANGED store
        /\ Become(cl, [pc |-> "load", c |-> req[cl].c, local |-> row[req[cl].c].status,
                       at |-> req[cl].at])
    BY <1>2 DEF Refetch
  <2>2. req[cl] \in RefetchReqs
    BY <2>1, ResumeType, KindOfRequest
  <2>3. req[cl].c \in Consents /\ req[cl].at \in Nat
    BY <2>2 DEF RefetchReqs
  <2> QED
    BY <2>1, <2>3, <1>b, <1>e, ResumeType, RequestType
<1>3. CASE LoadConsentOutput(cl)
  <2> DEFINE q == [pc |-> "answered", c |-> req[cl].c, at |-> req[cl].at,
                   valid |-> Verdict(req[cl].local, row[req[cl].c].approved)]
  <2>1. Resume(cl, "load") /\ UNCHANGED store /\ Become(cl, q)
    BY <1>3 DEF LoadConsentOutput
  <2>2. req[cl] \in LoadReqs
    BY <2>1, ResumeType, KindOfRequest
  <2>3. req[cl].c \in Consents /\ req[cl].at \in Nat
    BY <2>2 DEF LoadReqs
  <2>4. Verdict(req[cl].local, row[req[cl].c].approved) \in BOOLEAN
    BY DEF Verdict
  <2>5. q \in Requests
    BY <2>3, <2>4 DEF AnsweredReqs, Requests
  <2> HIDE DEF q
  <2> QED
    BY <2>1, <2>5, ResumeType, RequestType
<1>4. CASE Answer(cl)
  <2>1. Resume(cl, "answered") /\ UNCHANGED store /\ Become(cl, IdleReq)
    BY <1>4 DEF Answer
  <2> QED
    BY <2>1, <1>c, ResumeType, RequestType
<1>5. CASE ReadAuthsForRenewal(cl)
  <2> DEFINE r == req[cl]
             q == [pc |-> "update", c |-> r.c, ver |-> r.ver, saw |-> r.saw, in |-> r.in,
                   new |-> DeriveStatus(StatusesOf(auths[r.c]))]
  <2>1. Resume(cl, "renew") /\ UNCHANGED store /\ Become(cl, q)
    BY <1>5 DEF ReadAuthsForRenewal
  <2>2. r \in RenewReqs
    BY <2>1, ResumeType, KindOfRequest
  <2>3. q \in UpdateReqs
    BY <2>2, DerivedIsLive DEF RenewReqs, UpdateReqs, ConsentStatuses
  <2>4. q \in Requests
    BY <2>3 DEF Requests
  <2> HIDE DEF q
  <2> QED
    BY <2>1, <2>4, ResumeType, RequestType
<1>6. CASE CheckUpdated(cl)
  <2> DEFINE c == req[cl].c
  <2>1. /\ Resume(cl, "updated") /\ UNCHANGED store
        /\ Become(cl, ToExpire(c, "other", row[c].status)) \/ Become(cl, IdleReq)
    BY <1>6 DEF CheckUpdated
  <2>2. req[cl] \in UpdatedReqs
    BY <2>1, ResumeType, KindOfRequest
  <2>3. c \in Consents /\ row[c].status \in RowStatuses
    BY <2>2, <1>b DEF UpdatedReqs
  <2> HIDE DEF c
  <2> QED
    BY <2>1, <2>3, <1>c, <1>d, ResumeType, RequestType
<1>7. CASE CallFails(cl)
  <2> DEFINE r == req[cl]
  <2>1. /\ UNCHANGED <<store, now, issued>> /\ faults' = faults + 1
        /\ Become(cl, AfterFailure(r)) /\ r \in Requests
    BY <1>7 DEF CallFails, ServiceTypeOK
  <2>2. AfterFailure(r) \in Requests
    <3>1. CASE r.pc = "refetch"
      <4>1. r \in RefetchReqs
        BY <2>1, <3>1, KindOfRequest
      <4>2. r.c \in Consents /\ r.local \in RowStatuses /\ r.at \in Nat
        BY <4>1 DEF RefetchReqs
      <4> HIDE DEF r
      <4> QED
        BY <4>2, <3>1, <1>e DEF AfterFailure
    <3>2. CASE r.pc = "expire" /\ r.for = "validate"
      <4>1. r \in ExpireReqs
        BY <2>1, <3>2, KindOfRequest
      <4>2. r.c \in Consents /\ r.local \in RowStatuses /\ r.at \in Nat
        BY <4>1 DEF ExpireReqs
      <4> HIDE DEF r
      <4> QED
        BY <4>2, <3>2, <1>e DEF AfterFailure
    <3> HIDE DEF r
    <3> QED
      BY <3>1, <3>2, <1>c DEF AfterFailure
  <2> HIDE DEF r
  <2> QED
    BY <2>1, <2>2, RequestType DEF ServiceTypeOK
<1>8. CASE RefuseUpdateAuth(cl)
  <2>1. Resume(cl, "updauth") /\ UNCHANGED store /\ Become(cl, IdleReq)
    BY <1>8 DEF RefuseUpdateAuth
  <2> QED
    BY <2>1, <1>c, ResumeType, RequestType
<1>9. ASSUME NEW c \in Consents, GetConsent(cl, c)
      PROVE  UNCHANGED <<store, now>> /\ ServiceTypeOK'
  <2>1. Begin(cl) /\ UNCHANGED store /\ Become(cl, ToExpire(c, "other", row[c].status))
    BY <1>9 DEF GetConsent
  <2> QED
    BY <2>1, <1>b, <1>d, BeginType, RequestType
<1>10. ASSUME NEW c \in Consents, ValidateConsent(cl, c)
       PROVE  UNCHANGED <<store, now>> /\ ServiceTypeOK'
  <2>1. /\ Begin(cl) /\ UNCHANGED store
        /\ \/ Become(cl, ToExpire(c, "validate", row[c].status))
           \/ Become(cl, [pc |-> "load", c |-> c, local |-> row[c].status, at |-> now])
    BY <1>10 DEF ValidateConsent
  <2> QED
    BY <2>1, <1>a, <1>b, <1>d, <1>e, BeginType, RequestType
<1>11. ASSUME NEW c \in Consents, RevokeConsent(cl, c)
       PROVE  UNCHANGED <<store, now>> /\ ServiceTypeOK'
  <2> DEFINE q == [pc |-> "revoke", c |-> c, ver |-> ver[c], saw |-> row[c]]
  <2>1. Begin(cl) /\ UNCHANGED store /\ Become(cl, q)
    BY <1>11 DEF RevokeConsent
  <2>2. q \in Requests
    BY <1>a DEF RevokeReqs, Requests
  <2> HIDE DEF q
  <2> QED
    BY <2>1, <2>2, BeginType, RequestType
<1>12. ASSUME NEW c \in Consents, NEW in \in UpdateInputs, UpdateConsent(cl, c, in)
       PROVE  UNCHANGED <<store, now>> /\ ServiceTypeOK'
  <2> DEFINE q(s) == [pc |-> "update", c |-> c, ver |-> ver[c], saw |-> row[c], in |-> in,
                      new |-> s]
             p == [pc |-> "renew", c |-> c, ver |-> ver[c], saw |-> row[c], in |-> in]
  <2>1. /\ Begin(cl) /\ Exists(c) /\ UNCHANGED store
        /\ \/ Become(cl, q(DeriveStatus(StatusesIn(in.list))))
           \/ Become(cl, p)
           \/ Become(cl, q(row[c].status))
    BY <1>12 DEF UpdateConsent
  <2>2. in \in UpdateInput
    BY ServiceAssumption
  <2>3. \A s \in ConsentStatuses : q(s) \in Requests
    BY <2>2, <1>a DEF UpdateReqs, Requests
  <2>4. p \in Requests
    BY <2>2, <1>a DEF RenewReqs, Requests
  <2>5. row[c].status \in ConsentStatuses /\ DeriveStatus(StatusesIn(in.list)) \in ConsentStatuses
    BY <2>1, <1>b, DerivedIsLive DEF Exists, RowStatuses, ConsentStatuses
  <2> HIDE DEF q, p
  <2> QED
    BY <2>1, <2>3, <2>4, <2>5, BeginType, RequestType
<1>13. ASSUME NEW c \in Consents, NEW in \in AuthInputs, NEW a \in auths[c],
              UpdateAuthResource(cl, c, a, in)
       PROVE  UNCHANGED <<store, now>> /\ ServiceTypeOK'
  <2> DEFINE q == [pc |-> "updauth", c |-> c, ver |-> ver[c], saw |-> a, in |-> in]
  <2>1. Begin(cl) /\ UNCHANGED store /\ Become(cl, q)
    BY <1>13 DEF UpdateAuthResource
  <2>2. q \in Requests
    BY <1>a, AuthAssumption DEF UpdAuthReqs, Requests
  <2> HIDE DEF q
  <2> QED
    BY <2>1, <2>2, BeginType, RequestType
<1> QED
  BY <1>1, <1>2, <1>3, <1>4, <1>5, <1>6, <1>7, <1>8, <1>9, <1>10, <1>11, <1>12, <1>13 DEF ReadStep

\* The steps that leave the tables and the clock alone and are not a request's.
QuietStep == UNCHANGED store /\ (RunExpirationJob \/ Crash \/ Done \/ UNCHANGED vars
                                \/ \E c \in Consents : ExpireListedFails(c))

\* Every step is a read of a request, one of the transactions, a tick, or none
\* of these and quiet.
LEMMA StepCases ==
  ASSUME [Next]_vars
  PROVE  \/ QuietStep
         \/ UNCHANGED <<store, req, issued, faults, todo>> /\ Tick
         \/ \E c \in Consents : ExpireListed(c)
         \/ /\ UNCHANGED todo
            /\ \E cl \in Clients :
                 \/ ReadStep(cl)
                 \/ CommitExpire(cl)
                 \/ CommitUpdate(cl)
                 \/ CommitRevoke(cl)
                 \/ CommitUpdateAuth(cl)
                 \/ \E c \in Consents :
                      \/ \E l \in AuthLists, e \in CreateTimes, ok \in BOOLEAN :
                           CreateConsent(cl, c, l, e, ok)
                      \/ \E in \in AuthInputs : CreateAuthResource(cl, c, in)
<1>1. CASE RequestStep /\ UNCHANGED todo
  <2>1. PICK cl \in Clients : ConsentServiceNext(cl) \/ AuthServiceNext(cl)
    BY <1>1 DEF RequestStep
  <2>2. CASE ConsentServiceNext(cl)
    BY <1>1, <2>2, Zenon DEF ConsentServiceNext, ReadStep
  <2>3. CASE AuthServiceNext(cl)
    BY <1>1, <2>3, Zenon DEF AuthServiceNext, ReadStep
  <2> QED
    BY <2>1, <2>2, <2>3
<1>2. CASE JobNext
  BY <1>2 DEF JobNext, QuietStep, RunExpirationJob, ExpireListedFails
<1>3. CASE Tick /\ UNCHANGED <<req, issued, faults, todo>>
  BY <1>3 DEF Tick
<1>4. CASE Crash
  BY <1>4 DEF Crash, QuietStep
<1>5. CASE Done \/ UNCHANGED vars
  BY <1>5 DEF Done, QuietStep, vars, store
<1> QED
  BY <1>1, <1>2, <1>3, <1>4, <1>5 DEF Next

\* The empty tables of a new server are well typed.
LEMMA TypeInit == Init => TypeOK
<1> SUFFICES ASSUME Init PROVE TypeOK
  OBVIOUS
<1>1. StoreTypeOK
  BY DEF Init, StoreInit, StoreTypeOK, Absent, Row, RowStatuses, Times, NoTime
<1>2. ServiceTypeOK
  BY DEF Init, ServiceInit, ServiceTypeOK, Requests
<1>3. JobTypeOK
  BY DEF Init, JobInit, JobTypeOK
<1> QED
  BY <1>1, <1>2, <1>3 DEF TypeOK

\* Every step of the server keeps the types.
LEMMA TypeStep ==
  ASSUME TypeOK, [Next]_vars
  PROVE  TypeOK'
<1>1. CASE QuietStep
  <2>1. /\ UNCHANGED <<store, now>>
        /\ issued' \in Nat /\ faults' \in Nat
        /\ req' = req \/ req' = [cl \in Clients |-> IdleReq]
        /\ todo' \subseteq Consents
    BY <1>1 DEF QuietStep, TypeOK, ServiceTypeOK, JobTypeOK, RunExpirationJob, GetExpiredConsents,
                Crash, Done, vars, ExpireListedFails
  <2>2. StoreTypeOK'
    BY <2>1, UnchangedStoreType DEF TypeOK, StoreTypeOK
  <2>3. ServiceTypeOK'
    BY <2>1 DEF TypeOK, ServiceTypeOK, Requests
  <2> QED
    BY <2>1, <2>2, <2>3 DEF TypeOK, JobTypeOK
<1>2. CASE UNCHANGED <<store, req, issued, faults, todo>> /\ Tick
  <2>1. now' \in Nat
    BY <1>2 DEF Tick, TypeOK, StoreTypeOK
  <2>2. StoreTypeOK'
    BY <1>2, <2>1, UnchangedStoreType DEF TypeOK
  <2> QED
    BY <1>2, <2>2 DEF TypeOK, ServiceTypeOK, JobTypeOK
<1>3. ASSUME NEW c \in Consents, ExpireListed(c)
      PROVE  TypeOK'
  <2>1. StoreTypeOK'
    BY <1>3, ExpireType DEF ExpireListed, TypeOK
  <2> QED
    BY <1>3, <2>1 DEF ExpireListed, TypeOK, ServiceTypeOK, JobTypeOK
<1>4. ASSUME NEW cl \in Clients, ReadStep(cl), UNCHANGED todo
      PROVE  TypeOK'
  <2>1. UNCHANGED <<store, now>> /\ ServiceTypeOK'
    BY <1>4, ReadStepType
  <2>2. StoreTypeOK'
    BY <2>1, UnchangedStoreType DEF TypeOK, StoreTypeOK
  <2> QED
    BY <1>4, <2>1, <2>2 DEF TypeOK, JobTypeOK
<1>5. ASSUME NEW cl \in Clients, CommitExpire(cl), UNCHANGED todo
      PROVE  TypeOK'
  <2> DEFINE r == req[cl]
             s == IF row[r.c].status = "EXPIRED" THEN r.local ELSE "EXPIRED"
             q == [pc |-> "refetch", c |-> r.c, at |-> r.at, local |-> s]
  <2>1. /\ Resume(cl, "expire") /\ ExpireConsent(r.c)
        /\ Become(cl, q) \/ Become(cl, IdleReq)
    BY <1>5 DEF CommitExpire
  <2>2. r \in ExpireReqs
    BY <2>1, ResumeType, KindOfRequest DEF TypeOK
  <2>3. r.c \in Consents /\ s \in RowStatuses /\ r.at \in Nat
    BY <2>2 DEF ExpireReqs, RowStatuses, ConsentStatuses, TerminalStatuses
  <2>4. q \in Requests /\ IdleReq \in Requests
    BY <2>3 DEF RefetchReqs, Requests
  <2>5. now' = now
    BY <2>1 DEF Resume
  <2> HIDE DEF r, s, q
  <2>6. StoreTypeOK'
    BY <2>1, <2>3, <2>5, ExpireType DEF TypeOK
  <2>7. ServiceTypeOK'
    BY <2>1, <2>4, ResumeType, RequestType DEF TypeOK
  <2> QED
    BY <1>5, <2>6, <2>7 DEF TypeOK, JobTypeOK
<1>6. ASSUME StoreTypeOK' /\ ServiceTypeOK', UNCHANGED todo
      PROVE  TypeOK'
  BY <1>6 DEF TypeOK, JobTypeOK
<1> QED
  BY <1>1, <1>2, <1>3, <1>4, <1>5, <1>6, StepCases, CommitUpdateType, CommitRevokeType,
     CommitUpdateAuthType, CreateConsentType, CreateAuthType

\* Every variable keeps its type.
THEOREM TypeCorrect == Spec => []TypeOK
  BY TypeInit, TypeStep, PTL DEF Spec
=============================================================================
