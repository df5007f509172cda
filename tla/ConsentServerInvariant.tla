----------------------- MODULE ConsentServerInvariant -----------------------
(***************************************************************************)
(* The safety properties of the server, proved for every value of the      *)
(* constants: one inductive invariant, whose parts the transactions keep   *)
(* one by one, and the properties that follow from it; then a second one,  *)
(* on top of it, for a server that works on one request at a time.         *)
(***************************************************************************)
EXTENDS ConsentServerProofs

-----------------------------------------------------------------------------
(* The inductive invariant.                                                *)

\* What a request remembers fits its consent, which has row p, version v and
\* authorizations A: the consent exists, and what was read and decided is still
\* right unless a transaction on the consent has been committed since.
Fits(r, p, v, A) ==
  /\ r.pc # "idle" => p.status # "NONE"
  /\ r.pc \in {"renew", "update", "revoke", "updauth"} => r.ver <= v
  /\ r.pc \in {"renew", "update", "revoke"} /\ r.ver = v => r.saw = p
  /\ r.pc = "updauth" /\ r.ver = v => r.saw \in A
  /\ r.pc \in {"renew", "update"} => AcceptableList(r.in.list)
  /\ r.pc = "renew" => ~r.in.replace
  /\ r.pc = "update" /\ r.in.replace => r.new = DeriveStatus(StatusesIn(r.in.list))
  /\ r.pc = "update" /\ ~r.in.replace /\ r.ver = v
       => r.new \in {p.status, DeriveStatus(StatusesOf(A))}

FitsConsent(r) == Fits(r, row[r.c], ver[r.c], auths[r.c])

\* Every request fits its consent, and the job lists consents that exist.
RequestsFit ==
  /\ \A cl \in Clients : req[cl] # IdleReq => FitsConsent(req[cl])
  /\ \A c \in todo : Exists(c)

\* The authorizations A have different ids up to n.
DistinctIds(A, n) ==
  /\ \A a \in A : a.id <= n
  /\ \A a, b \in A : a.id = b.id => a = b

\* A consent that does not exist has had no transaction.
NothingYet(c) == auths[c] = {} /\ ver[c] = 0 /\ history[c] = <<>>

\* The inductive invariant: the properties, and what they rest on.
ServerInv ==
  /\ TypeOK
  /\ RequestsFit
  /\ \A c \in Consents : DistinctIds(auths[c], nextAuth[c])
  /\ \A c \in Consents : ~Exists(c) => NothingYet(c)
  /\ AuditMatchesStatus
  /\ AuditChain
  /\ HistoryComplete
  /\ DelegationRule
  /\ ParticipationRule
  /\ StatusAgrees

-----------------------------------------------------------------------------
(* The operators on authorizations.                                        *)

\* The rows for a request body have the types the body was checked with.
LEMMA StoredTypes ==
  ASSUME NEW l \in Seq(AuthInput), NEW n \in Nat
  PROVE  TypesOf(BuildAuths(l, n)) = TypesIn(l)
<1> DEFINE row_of(i) == [id |-> n + i, type |-> StoredType(l[i].type),
                         status |-> StoredStatus(l[i].status)]
<1>1. BuildAuths(l, n) = {row_of(i) : i \in DOMAIN l}
  BY Zenon DEF BuildAuths
<1>2. \A i \in DOMAIN l : row_of(i).type = StoredType(l[i].type)
  OBVIOUS
<1> HIDE DEF row_of
<1>3. TypesOf(BuildAuths(l, n)) = {row_of(i).type : i \in DOMAIN l}
  BY <1>1 DEF TypesOf
<1> QED
  BY <1>2, <1>3 DEF TypesIn

\* A participant of a request body is one in the rows stored for it.
LEMMA StoredParticipates ==
  ASSUME NEW l \in Seq(AuthInput), NEW n \in Nat, Participates(StatusesIn(l))
  PROVE  Participates(StatusesOf(BuildAuths(l, n)))
<1> DEFINE row_of(i) == [id |-> n + i, type |-> StoredType(l[i].type),
                         status |-> StoredStatus(l[i].status)]
<1>1. PICK i \in DOMAIN l : l[i].status # "RECORDED"
  BY DEF Participates, StatusesIn
<1>2. row_of(i) \in BuildAuths(l, n)
  BY Zenon DEF BuildAuths
<1>3. row_of(i).status \in StatusesOf(BuildAuths(l, n))
  <2> HIDE DEF row_of
  <2> QED BY <1>2 DEF StatusesOf
<1>4. row_of(i).status # "RECORDED"
  BY <1>1 DEF StoredStatus
<1> QED
  BY <1>3, <1>4 DEF Participates

\* The rows for a request body have different ids, later than the ones before.
LEMMA StoredIds ==
  ASSUME NEW l \in Seq(AuthInput), NEW n \in Nat
  PROVE  /\ DistinctIds(BuildAuths(l, n), n + Len(l))
         /\ \A a \in BuildAuths(l, n) : a.id > n
<1> DEFINE row_of(i) == [id |-> n + i, type |-> StoredType(l[i].type),
                         status |-> StoredStatus(l[i].status)]
<1>a. DOMAIN l = 1 .. Len(l)
  OBVIOUS
<1>1. \A a \in BuildAuths(l, n) : \E i \in 1 .. Len(l) : a = row_of(i)
  BY <1>a, Zenon DEF BuildAuths
<1>2. \A i \in 1 .. Len(l) : row_of(i).id = n + i
  OBVIOUS
<1> HIDE DEF row_of
<1>3. ASSUME NEW a \in BuildAuths(l, n)
      PROVE  n < a.id /\ a.id <= n + Len(l)
  BY <1>1, <1>2
<1>4. ASSUME NEW a \in BuildAuths(l, n), NEW b \in BuildAuths(l, n), a.id = b.id
      PROVE  a = b
  <2>1. PICK i \in 1 .. Len(l) : a = row_of(i)
    BY <1>1
  <2>2. PICK j \in 1 .. Len(l) : b = row_of(j)
    BY <1>1
  <2>3. n + i = n + j
    BY <1>2, <1>4, <2>1, <2>2
  <2> QED
    BY <2>1, <2>2, <2>3
<1> QED
  BY <1>3, <1>4 DEF DistinctIds

\* Marking authorizations keeps types and ids, and a mark is not passive.
LEMMA MarkedAuths ==
  ASSUME NEW A \in SUBSET Auth, NEW s \in SystemStatuses, NEW n \in Nat
  PROVE  LET M == UpdateAllStatusByConsentID(A, s) IN
         /\ TypesOf(M) = TypesOf(A)
         /\ DistinctIds(A, n) => DistinctIds(M, n)
         /\ M # {} => Participates(StatusesOf(M))
<1> DEFINE M == UpdateAllStatusByConsentID(A, s)
           mark(a) == [a EXCEPT !.status = s]
<1>1. M = {mark(a) : a \in A}
  BY Zenon DEF UpdateAllStatusByConsentID
<1>2. \A a \in A : mark(a).id = a.id /\ mark(a).type = a.type /\ mark(a).status = s
  BY DEF Auth
<1> HIDE DEF M, mark
<1>3. TypesOf(M) = TypesOf(A)
  BY <1>1, <1>2 DEF TypesOf
<1>4. DistinctIds(A, n) => DistinctIds(M, n)
  BY <1>1, <1>2 DEF DistinctIds
<1>5. M # {} => Participates(StatusesOf(M))
  BY <1>1, <1>2 DEF Participates, StatusesOf, SystemStatuses
<1> QED
  BY <1>3, <1>4, <1>5 DEF M

\* Writing one authorization keeps types and ids, and leaves the statuses that
\* the check before it, which has the type written too, looks at.
LEMMA WrittenAuths ==
  ASSUME NEW A \in SUBSET Auth, NEW u \in Auth, NEW n \in Nat
  PROVE  /\ TypesOf(UpdateAuth(A, u)) = TypesOf(A)
         /\ DistinctIds(A, n) => DistinctIds(UpdateAuth(A, u), n)
         /\ StatusesOf(UpdateAuthWithType(A, u)) = StatusesOf(UpdateAuth(A, u))
<1> DEFINE w(a) == IF a.id = u.id THEN [a EXCEPT !.status = u.status] ELSE a
           t(a) == IF a.id = u.id THEN u ELSE a
<1>1. UpdateAuth(A, u) = {w(a) : a \in A}
  BY Zenon DEF UpdateAuth
<1>2. UpdateAuthWithType(A, u) = {t(a) : a \in A}
  BY Zenon DEF UpdateAuthWithType
<1>3. \A a \in A : w(a).id = a.id /\ w(a).type = a.type /\ w(a).status = t(a).status
  BY DEF Auth
<1> HIDE DEF w, t
<1>4. TypesOf(UpdateAuth(A, u)) = TypesOf(A)
  BY <1>1, <1>3 DEF TypesOf
<1>5. DistinctIds(A, n) => DistinctIds(UpdateAuth(A, u), n)
  BY <1>1, <1>3 DEF DistinctIds
<1>6. StatusesOf(UpdateAuthWithType(A, u)) = StatusesOf(UpdateAuth(A, u))
  BY <1>1, <1>2, <1>3 DEF StatusesOf
<1> QED
  BY <1>4, <1>5, <1>6

\* Writing the status an authorization has changes nothing.
LEMMA WrittenUnchanged ==
  ASSUME NEW A \in SUBSET Auth, NEW u \in Auth, NEW n \in Nat, NEW a \in A,
         DistinctIds(A, n), u.id = a.id, u.status = a.status
  PROVE  UpdateAuth(A, u) = A
<1> DEFINE w(b) == IF b.id = u.id THEN [b EXCEPT !.status = u.status] ELSE b
<1>1. UpdateAuth(A, u) = {w(b) : b \in A}
  BY Zenon DEF UpdateAuth
<1>2. ASSUME NEW b \in A
      PROVE  w(b) = b
  <2>1. b.id = u.id => b = a
    BY DEF DistinctIds
  <2>2. b.status = u.status => [b EXCEPT !.status = u.status] = b
    BY DEF Auth
  <2> QED
    BY <2>1, <2>2
<1> HIDE DEF w
<1> QED
  BY <1>1, <1>2

-----------------------------------------------------------------------------
(* What a transaction on a consent does to it and leaves of the others.    *)

\* The tables of d are as before.
Untouched(d) ==
  /\ row'[d] = row[d] /\ auths'[d] = auths[d] /\ nextAuth'[d] = nextAuth[d]
  /\ audit'[d] = audit[d] /\ history'[d] = history[d]
  /\ ver'[d] = ver[d] /\ stale'[d] = stale[d]

\* The status of c moves with an audit entry: the entry starts at the present
\* status unless what it starts from was overtaken, and only the owning group
\* makes a closed consent live.
Audited(c) ==
  \E en \in Entry :
    /\ audit'[c] = Append(audit[c], en)
    /\ en.cur = row'[c].status
    /\ stale'[c] \subseteq {"updauth"} => en.prev = row[c].status
    /\ row[c].status \in TerminalStatuses /\ row'[c].status \in LiveStatuses => en.by = "GROUP"

\* What a transaction does to the status, the trail and the history of c.
KeepsTrail(c) ==
  /\ ver'[c] = ver[c] + 1
  /\ stale[c] \subseteq stale'[c]
  /\ row'[c].status # "NONE"
  /\ Exists(c) => history'[c] = history[c] \o RecordConsentHistory(c)
  /\ ~Exists(c) => history'[c] = history[c]
  /\ \/ Exists(c) /\ audit'[c] = audit[c] /\ row'[c].status = row[c].status
     \/ Audited(c)

\* The statuses of c and of its authorizations are as before.
SameStatuses(c) ==
  row'[c].status = row[c].status /\ StatusesOf(auths'[c]) = StatusesOf(auths[c])

\* What a transaction does to the authorizations of c.
KeepsAuths(c) ==
  /\ DistinctIds(auths'[c], nextAuth'[c])
  /\ WellDelegated(TypesOf(auths'[c]))
  /\ "updauth" \notin stale'[c] /\ auths'[c] # {}
       => Participates(StatusesOf(auths'[c])) \/ auths'[c] = auths[c]
  /\ stale'[c] \subseteq {"revoke"} => Agrees(c)' \/ SameStatuses(c)

\* A transaction on c.
Transaction(c) ==
  /\ \A d \in Consents \ {c} : Untouched(d)
  /\ KeepsTrail(c)
  /\ KeepsAuths(c)

\* What ExecuteTransaction does to c and leaves of the others.
LEMMA Effect ==
  ASSUME StoreTypeOK, NEW c \in Consents, NEW r, NEW A, NEW k, NEW e, NEW h,
         ExecuteTransaction(c, r, A, k, e, h)
  PROVE  /\ row'[c] = r /\ auths'[c] = A /\ nextAuth'[c] = nextAuth[c] + k
         /\ audit'[c] = audit[c] \o e /\ history'[c] = history[c] \o h
         /\ ver'[c] = ver[c] + 1
         /\ \A d \in Consents \ {c} :
              /\ row'[d] = row[d] /\ auths'[d] = auths[d] /\ nextAuth'[d] = nextAuth[d]
              /\ audit'[d] = audit[d] /\ history'[d] = history[d] /\ ver'[d] = ver[d]
  BY DEF StoreTypeOK, ExecuteTransaction

\* What the mark of an overtaken read does.
LEMMA StaleEffect ==
  ASSUME StoreTypeOK, NEW c \in Consents, NEW v, NEW op, ActsOnVersion(c, v, op)
  PROVE  /\ stale[c] \subseteq stale'[c]
         /\ v # ver[c] => op \in stale'[c]
         /\ \A d \in Consents \ {c} : stale'[d] = stale[d]
  BY DEF StoreTypeOK, ActsOnVersion

\* An audit entry is appended.
LEMMA AppendedEntry ==
  ASSUME StoreTypeOK, NEW c \in Consents, NEW p \in RowStatuses, NEW s \in ConsentStatuses,
         NEW b \in {"GROUP", "USER", "SYSTEM", "NONE"}, NEW e, e = StatusAudit(p, s, b),
         audit'[c] = audit[c] \o e, row'[c].status = s,
         stale'[c] \subseteq {"updauth"} => p = row[c].status,
         row[c].status \in TerminalStatuses /\ s \in LiveStatuses => b = "GROUP"
  PROVE  Audited(c)
<1> DEFINE en == [prev |-> p, cur |-> s, by |-> b]
<1>1. en \in Entry /\ en.prev = p /\ en.cur = s /\ en.by = b
  BY DEF Entry
<1>2. e = <<en>>
  BY DEF StatusAudit
<1> HIDE DEF en
<1>3. audit[c] \in Seq(Entry)
  BY DEF StoreTypeOK
<1>4. audit'[c] = Append(audit[c], en)
  BY <1>1, <1>2, <1>3
<1> QED
  BY <1>1, <1>4 DEF Audited

\* The snapshots of a consent that exists.
LEMMA NoHistoryAdded ==
  ASSUME StoreTypeOK, NEW c \in Consents
  PROVE  history[c] \o <<>> = history[c] /\ audit[c] \o <<>> = audit[c]
<1>1. history[c] \in Seq(Snapshot) /\ audit[c] \in Seq(Entry)
  BY DEF StoreTypeOK
<1> QED
  BY <1>1

\* The expiry of a consent that exists is a transaction or changes nothing.
LEMMA ExpireEffect ==
  ASSUME ServerInv, NEW c \in Consents, Exists(c), ExpireConsent(c)
  PROVE  UNCHANGED store \/ Transaction(c)
<1> DEFINE w == [row[c] EXCEPT !.status = "EXPIRED"]
           A == UpdateAllStatusByConsentID(auths[c], "SYS_EXPIRED")
           e == StatusAudit(row[c].status, "EXPIRED", "SYSTEM")
<1> SUFFICES ASSUME row[c].status # "EXPIRED",
                    ExecuteTransaction(c, w, A, 0, e, RecordConsentHistory(c)),
                    stale' = stale
             PROVE  Transaction(c)
  BY DEF ExpireConsent
<1>1. StoreTypeOK
  BY DEF ServerInv, TypeOK
<1>2. /\ row[c] \in Row /\ row[c].status \in RowStatuses /\ auths[c] \in SUBSET Auth
      /\ nextAuth[c] \in Nat
  BY <1>1 DEF StoreTypeOK, Row
<1>3. w.status = "EXPIRED"
  BY <1>2 DEF Row
<1> HIDE DEF w, A, e
<1>4. /\ row'[c] = w /\ auths'[c] = A /\ nextAuth'[c] = nextAuth[c] + 0
      /\ audit'[c] = audit[c] \o e /\ ver'[c] = ver[c] + 1
      /\ history'[c] = history[c] \o RecordConsentHistory(c)
      /\ \A d \in Consents \ {c} : Untouched(d)
  BY <1>1, Effect DEF Untouched
<1>5. Audited(c)
  <2>1. "EXPIRED" \in ConsentStatuses /\ "EXPIRED" \notin LiveStatuses
    BY DEF ConsentStatuses, TerminalStatuses, LiveStatuses
  <2> QED
    BY <1>1, <1>2, <1>3, <1>4, <2>1, AppendedEntry DEF e
<1>6. KeepsTrail(c)
  BY <1>3, <1>4, <1>5 DEF KeepsTrail
<1>7. KeepsAuths(c)
  <2>1. "SYS_EXPIRED" \in SystemStatuses /\ "SYS_EXPIRED" \in AuthStatuses
    BY DEF SystemStatuses, AuthStatuses
  <2>2. /\ TypesOf(A) = TypesOf(auths[c])
        /\ DistinctIds(auths[c], nextAuth[c]) => DistinctIds(A, nextAuth[c])
        /\ A # {} => Participates(StatusesOf(A))
        /\ StatusesOf(A) \subseteq {"SYS_EXPIRED"}
    BY <1>2, <2>1, MarkedAuths, MarkedType DEF A
  <2>3. DistinctIds(auths'[c], nextAuth'[c])
    BY <1>2, <1>4, <2>2 DEF ServerInv
  <2>4. WellDelegated(TypesOf(auths'[c]))
    BY <1>4, <2>2 DEF ServerInv, DelegationRule
  <2>5. Agrees(c)'
    BY <1>3, <1>4, <2>2 DEF Agrees, LiveStatuses
  <2> QED
    BY <1>4, <2>2, <2>3, <2>4, <2>5 DEF KeepsAuths
<1> QED
  BY <1>4, <1>6, <1>7 DEF Transaction

\* CreateConsent is a transaction on a consent that did not exist.
LEMMA CreateEffect ==
  ASSUME ServerInv, NEW cl \in Clients, NEW c \in Consents, NEW l \in AuthLists,
         NEW t \in CreateTimes, NEW ok \in BOOLEAN, CreateConsent(cl, c, l, t, ok)
  PROVE  Transaction(c)
<1> DEFINE s == DeriveStatus(StatusesIn(l))
           w == [status |-> s, exp |-> t, approved |-> ok]
           A == BuildAuths(l, nextAuth[c])
           e == StatusAudit("NONE", s, "GROUP")
           h == <<>>
           k == Len(l)
<1>1. StoreTypeOK
  BY DEF ServerInv, TypeOK
<1>2. /\ ExecuteTransaction(c, w, A, k, e, h) /\ stale' = stale
      /\ ~Exists(c) /\ AcceptableList(l)
  BY DEF CreateConsent
<1>3. l \in Seq(AuthInput) /\ nextAuth[c] \in Nat
  BY <1>1, ServiceAssumption DEF StoreTypeOK
<1>4. s \in LiveStatuses /\ s \in ConsentStatuses /\ s # "NONE" /\ w.status = s
  BY DerivedIsLive DEF ConsentStatuses, LiveStatuses
<1>5. DeriveStatus(StatusesOf(A)) = s
  BY <1>3, DeriveStored
<1> HIDE DEF s, w, A, e, h, k
<1>6. /\ row'[c] = w /\ auths'[c] = A /\ nextAuth'[c] = nextAuth[c] + k
      /\ audit'[c] = audit[c] \o e /\ ver'[c] = ver[c] + 1
      /\ history'[c] = history[c] \o h
      /\ \A d \in Consents \ {c} : Untouched(d)
  BY <1>1, <1>2, Effect DEF Untouched
<1>7. Audited(c)
  <2>1. "NONE" \in RowStatuses /\ row[c].status = "NONE" /\ "NONE" \notin TerminalStatuses
    BY <1>2 DEF RowStatuses, Exists, TerminalStatuses
  <2> QED
    BY <1>1, <1>4, <1>6, <2>1, AppendedEntry DEF e
<1>8. KeepsTrail(c)
  BY <1>1, <1>2, <1>4, <1>6, <1>7, NoHistoryAdded DEF KeepsTrail, h
<1>9. KeepsAuths(c)
  <2>1. DistinctIds(auths'[c], nextAuth'[c])
    BY <1>3, <1>6, StoredIds DEF A, k
  <2>2. TypesOf(A) = TypesIn(l)
    BY <1>3, StoredTypes DEF A
  <2>3. CASE l = <<>>
    <3>1. TypesIn(l) = {} /\ A = {}
      BY <2>3 DEF A, TypesIn, BuildAuths
    <3>2. WellDelegated(TypesOf(auths'[c])) /\ auths'[c] = {}
      BY <3>1, <1>6, <2>2 DEF WellDelegated
    <3>3. Agrees(c)'
      BY <1>4, <1>5, <1>6 DEF Agrees, LiveStatuses
    <3> QED
      BY <2>1, <3>2, <3>3 DEF KeepsAuths
  <2>4. CASE l # <<>>
    <3>1. 1 \in DOMAIN l
      BY <1>3, <2>4
    <3>2. StatusesIn(l) # {}
      BY <3>1 DEF StatusesIn
    <3>3. Participates(StatusesIn(l)) /\ WellDelegated(TypesIn(l))
      BY <1>2, <3>2 DEF AcceptableList, AcceptableAuths
    <3>4. Participates(StatusesOf(A))
      BY <1>3, <3>3, StoredParticipates DEF A
    <3>5. Agrees(c)'
      BY <1>4, <1>5, <1>6 DEF Agrees, LiveStatuses
    <3> QED
      BY <1>6, <2>1, <2>2, <3>3, <3>4, <3>5 DEF KeepsAuths
  <2> QED
    BY <2>3, <2>4
<1> QED
  BY <1>6, <1>8, <1>9 DEF Transaction

\* The transaction of RevokeConsent.
LEMMA RevokeEffect ==
  ASSUME ServerInv, NEW cl \in Clients, NEW c \in Consents, req[cl].c = c, CommitRevoke(cl)
  PROVE  Transaction(c)
<1> DEFINE r == req[cl]
           w == [row[c] EXCEPT !.status = "REVOKED"]
           A == UpdateAllStatusByConsentID(auths[c], "SYS_REVOKED")
           e == StatusAudit(r.saw.status, "REVOKED", "USER")
<1>1. StoreTypeOK
  BY DEF ServerInv, TypeOK
<1>2. /\ r.pc = "revoke" /\ r \in RevokeReqs
      /\ ExecuteTransaction(c, w, A, 0, e, RecordConsentHistory(c))
      /\ ActsOnVersion(c, r.ver, "revoke")
  <2>1. Resume(cl, "revoke")
    BY DEF CommitRevoke
  <2> QED
    BY <2>1, ResumeType, KindOfRequest DEF CommitRevoke, ServerInv, TypeOK
<1>3. r.saw.status \in RowStatuses
  BY <1>2 DEF RevokeReqs, Row
<1>4. Exists(c) /\ (r.ver = ver[c] => r.saw = row[c])
  <2>1. r # IdleReq
    BY <1>2 DEF IdleReq
  <2> QED
    BY <1>2, <2>1 DEF ServerInv, RequestsFit, FitsConsent, Fits, Exists
<1>5. /\ row[c] \in Row /\ auths[c] \in SUBSET Auth /\ nextAuth[c] \in Nat
  BY <1>1, <1>3 DEF StoreTypeOK
<1>6. w.status = "REVOKED"
  BY <1>5 DEF Row
<1> HIDE DEF r, w, A, e
<1>7. /\ row'[c] = w /\ auths'[c] = A /\ nextAuth'[c] = nextAuth[c] + 0
      /\ audit'[c] = audit[c] \o e /\ ver'[c] = ver[c] + 1
      /\ history'[c] = history[c] \o RecordConsentHistory(c)
      /\ stale[c] \subseteq stale'[c]
      /\ r.ver # ver[c] => "revoke" \in stale'[c]
      /\ \A d \in Consents \ {c} : Untouched(d)
  BY <1>1, <1>2, <1>3, Effect, StaleEffect DEF Untouched
<1>8. Audited(c)
  <2>1. "REVOKED" \in ConsentStatuses /\ "REVOKED" \notin LiveStatuses
    BY DEF ConsentStatuses, TerminalStatuses, LiveStatuses
  <2>2. stale'[c] \subseteq {"updauth"} => r.saw.status = row[c].status
    BY <1>4, <1>7
  <2> QED
    BY <1>1, <1>3, <1>6, <1>7, <2>1, <2>2, AppendedEntry DEF e
<1>9. KeepsTrail(c)
  BY <1>4, <1>6, <1>7, <1>8 DEF KeepsTrail
<1>10. KeepsAuths(c)
  <2>1. "SYS_REVOKED" \in SystemStatuses /\ "SYS_REVOKED" \in AuthStatuses
    BY DEF SystemStatuses, AuthStatuses
  <2>2. /\ TypesOf(A) = TypesOf(auths[c])
        /\ DistinctIds(auths[c], nextAuth[c]) => DistinctIds(A, nextAuth[c])
        /\ A # {} => Participates(StatusesOf(A))
        /\ StatusesOf(A) \subseteq {"SYS_REVOKED"}
    BY <1>5, <2>1, MarkedAuths, MarkedType DEF A
  <2>3. DistinctIds(auths'[c], nextAuth'[c])
    BY <1>3, <1>5, <1>7, <2>2 DEF ServerInv
  <2>4. WellDelegated(TypesOf(auths'[c]))
    BY <1>3, <1>7, <2>2 DEF ServerInv, DelegationRule
  <2>5. Agrees(c)'
    BY <1>6, <1>7, <2>2 DEF Agrees, LiveStatuses
  <2> QED
    BY <1>7, <2>2, <2>3, <2>4, <2>5 DEF KeepsAuths
<1> QED
  BY <1>7, <1>9, <1>10 DEF Transaction

\* The transaction of UpdateConsent: its trail.
LEMMA UpdateTrail ==
  ASSUME ServerInv, NEW cl \in Clients, NEW c \in Consents, req[cl].c = c, CommitUpdate(cl)
  PROVE  KeepsTrail(c) /\ \A d \in Consents \ {c} : Untouched(d)
<1> DEFINE r == req[cl]
           w == UpdatedRow(r, row[c])
           A == IF r.in.replace THEN BuildAuths(r.in.list, nextAuth[c]) ELSE auths[c]
           k == IF r.in.replace THEN Len(r.in.list) ELSE 0
           e == UpdateAudit(r)
<1>1. StoreTypeOK
  BY DEF ServerInv, TypeOK
<1>2. /\ r.pc = "update" /\ r \in UpdateReqs
      /\ ExecuteTransaction(c, w, A, k, e, RecordConsentHistory(c))
      /\ ActsOnVersion(c, r.ver, "update")
  <2>1. Resume(cl, "update")
    BY DEF CommitUpdate
  <2> QED
    BY <2>1, ResumeType, KindOfRequest DEF CommitUpdate, ServerInv, TypeOK
<1>3. r.new \in ConsentStatuses /\ r.saw.status \in RowStatuses
  BY <1>2 DEF UpdateReqs, Row
<1>4. Exists(c) /\ (r.ver = ver[c] => r.saw = row[c])
  <2>1. r # IdleReq
    BY <1>2 DEF IdleReq
  <2> QED
    BY <1>2, <2>1 DEF ServerInv, RequestsFit, FitsConsent, Fits, Exists
<1>5. w.status = IF r.new # r.saw.status THEN r.new ELSE row[c].status
  BY DEF UpdatedRow
<1>6. "NONE" \notin ConsentStatuses
  BY DEF ConsentStatuses, LiveStatuses, TerminalStatuses
<1> HIDE DEF r, w, A, k, e
<1>7. /\ row'[c] = w /\ audit'[c] = audit[c] \o e /\ ver'[c] = ver[c] + 1
      /\ history'[c] = history[c] \o RecordConsentHistory(c)
      /\ stale[c] \subseteq stale'[c]
      /\ r.ver # ver[c] => "update" \in stale'[c]
      /\ \A d \in Consents \ {c} : Untouched(d)
  BY <1>1, <1>2, Effect, StaleEffect DEF Untouched
<1>8. CASE r.new = r.saw.status
  <2>1. e = <<>>
    BY <1>8 DEF e, UpdateAudit, r
  <2>2. audit'[c] = audit[c]
    BY <1>1, <1>7, <2>1, NoHistoryAdded
  <2> QED
    BY <1>4, <1>5, <1>7, <1>8, <2>2 DEF KeepsTrail, Exists
<1>9. CASE r.new # r.saw.status
  <2>1. e = StatusAudit(r.saw.status, r.new, "GROUP")
    BY <1>9 DEF e, UpdateAudit, r
  <2>2. stale'[c] \subseteq {"updauth"} => r.saw.status = row[c].status
    BY <1>4, <1>7
  <2>3. Audited(c)
    BY <1>1, <1>3, <1>5, <1>7, <1>9, <2>1, <2>2, AppendedEntry
  <2> QED
    BY <1>3, <1>4, <1>5, <1>6, <1>7, <1>9, <2>3 DEF KeepsTrail
<1> QED
  BY <1>7, <1>8, <1>9

\* The transaction of UpdateConsent: the authorizations.
LEMMA UpdateAuths ==
  ASSUME ServerInv, NEW cl \in Clients, NEW c \in Consents, req[cl].c = c, CommitUpdate(cl)
  PROVE  KeepsAuths(c)
<1> DEFINE r == req[cl]
           l == r.in.list
           w == UpdatedRow(r, row[c])
           A == IF r.in.replace THEN BuildAuths(l, nextAuth[c]) ELSE auths[c]
           k == IF r.in.replace THEN Len(l) ELSE 0
           e == UpdateAudit(r)
<1>1. StoreTypeOK
  BY DEF ServerInv, TypeOK
<1>2. /\ r.pc = "update" /\ r \in UpdateReqs
      /\ ExecuteTransaction(c, w, A, k, e, RecordConsentHistory(c))
      /\ ActsOnVersion(c, r.ver, "update")
  <2>1. Resume(cl, "update")
    BY DEF CommitUpdate
  <2> QED
    BY <2>1, ResumeType, KindOfRequest DEF CommitUpdate, ServerInv, TypeOK
<1>3. /\ l \in Seq(AuthInput) /\ nextAuth[c] \in Nat /\ r.in.replace \in BOOLEAN
      /\ auths[c] \in SUBSET Auth
  BY <1>1, <1>2 DEF UpdateReqs, UpdateInput, StoreTypeOK
<1>4. /\ r.ver = ver[c] => r.saw = row[c]
      /\ AcceptableList(l)
      /\ r.in.replace => r.new = DeriveStatus(StatusesIn(l))
      /\ ~r.in.replace /\ r.ver = ver[c]
           => r.new \in {row[c].status, DeriveStatus(StatusesOf(auths[c]))}
  <2>1. r # IdleReq
    BY <1>2 DEF IdleReq
  <2> QED
    BY <1>2, <2>1 DEF ServerInv, RequestsFit, FitsConsent, Fits
<1>5. w.status = IF r.new # r.saw.status THEN r.new ELSE row[c].status
  BY DEF UpdatedRow
<1> HIDE DEF r, l, w, A, k, e
<1>6. /\ row'[c] = w /\ auths'[c] = A /\ nextAuth'[c] = nextAuth[c] + k
      /\ r.ver # ver[c] => "update" \in stale'[c]
  BY <1>1, <1>2, Effect, StaleEffect
<1>7. stale'[c] \subseteq {"revoke"} => r.ver = ver[c] /\ w.status = r.new
  BY <1>4, <1>5, <1>6
<1>8. CASE r.in.replace
  <2>1. A = BuildAuths(l, nextAuth[c]) /\ k = Len(l)
    BY <1>8 DEF A, k
  <2>2. DistinctIds(auths'[c], nextAuth'[c])
    BY <1>3, <1>6, <2>1, StoredIds
  <2>3. TypesOf(A) = TypesIn(l) /\ DeriveStatus(StatusesOf(A)) = DeriveStatus(StatusesIn(l))
    BY <1>3, <2>1, StoredTypes, DeriveStored
  <2>4. stale'[c] \subseteq {"revoke"} => Agrees(c)'
    <3>1. r.new \in LiveStatuses /\ r.new = DeriveStatus(StatusesOf(A))
      BY <1>4, <1>8, <2>3, DerivedIsLive
    <3> QED
      BY <1>6, <1>7, <3>1 DEF Agrees, LiveStatuses
  <2>5. WellDelegated(TypesOf(A)) /\ (A # {} => Participates(StatusesOf(A)))
    <3>1. CASE l = <<>>
      <4>1. A = {} /\ TypesIn(l) = {}
        BY <2>1, <3>1 DEF BuildAuths, TypesIn
      <4> QED
        BY <2>3, <4>1 DEF WellDelegated
    <3>2. CASE l # <<>>
      <4>1. 1 \in DOMAIN l
        BY <1>3, <3>2
      <4>2. StatusesIn(l) # {}
        BY <4>1 DEF StatusesIn
      <4>3. Participates(StatusesIn(l)) /\ WellDelegated(TypesIn(l))
        BY <1>4, <4>2 DEF AcceptableList, AcceptableAuths
      <4> QED
        BY <1>3, <2>1, <2>3, <4>3, StoredParticipates
    <3> QED
      BY <3>1, <3>2
  <2> QED
    BY <1>6, <2>2, <2>4, <2>5 DEF KeepsAuths
<1>9. CASE ~r.in.replace
  <2>1. A = auths[c] /\ k = 0
    BY <1>9 DEF A, k
  <2>2. DistinctIds(auths'[c], nextAuth'[c]) /\ WellDelegated(TypesOf(auths'[c]))
    BY <1>3, <1>6, <2>1 DEF ServerInv, DelegationRule
  <2>3. stale'[c] \subseteq {"revoke"} => Agrees(c)' \/ SameStatuses(c)
    <3>1. CASE r.new = DeriveStatus(StatusesOf(auths[c]))
      <4>1. r.new \in LiveStatuses
        BY <3>1, DerivedIsLive
      <4> QED
        BY <1>6, <1>7, <2>1, <3>1, <4>1 DEF Agrees, LiveStatuses
    <3>2. CASE r.new = row[c].status
      BY <1>6, <1>7, <2>1, <3>2 DEF SameStatuses
    <3> QED
      BY <1>4, <1>7, <1>9, <3>1, <3>2
  <2> QED
    BY <1>6, <2>1, <2>2, <2>3 DEF KeepsAuths
<1> QED
  BY <1>3, <1>8, <1>9

\* The audit entry of an authorization write.
LEMMA DerivedTrail ==
  ASSUME ServerInv, NEW c \in Consents, NEW s, s = row[c].status \/ s \in LiveStatuses,
         EnsureAcceptsWrites(c), Exists(c),
         audit'[c] = audit[c] \o DerivedAudit(c, s), row'[c].status = s
  PROVE  \/ audit'[c] = audit[c] /\ row'[c].status = row[c].status
         \/ Audited(c)
<1>1. StoreTypeOK
  BY DEF ServerInv, TypeOK
<1>2. row[c].status \in RowStatuses
  BY <1>1 DEF StoreTypeOK, Row
<1>3. CASE s = row[c].status
  BY <1>1, <1>3, NoHistoryAdded DEF DerivedAudit
<1>4. CASE s # row[c].status
  <2>1. DerivedAudit(c, s) = StatusAudit(row[c].status, s, "NONE")
    BY <1>4 DEF DerivedAudit
  <2>2. row[c].status \notin TerminalStatuses
    BY DEF EnsureAcceptsWrites
  <2>3. s \in ConsentStatuses
    BY <1>4 DEF ConsentStatuses
  <2> QED
    BY <1>1, <1>2, <2>1, <2>2, <2>3, AppendedEntry
<1> QED
  BY <1>3, <1>4

\* CreateAuthResource is a transaction.
LEMMA CreateAuthEffect ==
  ASSUME ServerInv, NEW cl \in Clients, NEW c \in Consents, NEW in \in AuthInputs,
         CreateAuthResource(cl, c, in)
  PROVE  Transaction(c)
<1> DEFINE B == BuildAuths(<<in>>, nextAuth[c])
           A == auths[c] \union B
           s == DeriveStatus(StatusesOf(A))
           w == [row[c] EXCEPT !.status = s]
           e == DerivedAudit(c, s)
<1>1. StoreTypeOK
  BY DEF ServerInv, TypeOK
<1>2. /\ ExecuteTransaction(c, w, A, 1, e, RecordConsentHistory(c)) /\ stale' = stale
      /\ Exists(c) /\ EnsureAcceptsWrites(c)
      /\ AcceptableAuths(TypesOf(A), StatusesOf(A))
  BY DEF CreateAuthResource
<1>3. /\ row[c] \in Row /\ nextAuth[c] \in Nat /\ auths[c] \in SUBSET Auth
      /\ <<in>> \in Seq(AuthInput) /\ Len(<<in>>) = 1 /\ DOMAIN <<in>> = {1}
  BY <1>1, AuthAssumption DEF StoreTypeOK
<1>4. s \in LiveStatuses /\ s # "NONE" /\ w.status = s
  BY <1>3, DerivedIsLive DEF LiveStatuses, Row
<1>5. /\ DistinctIds(B, nextAuth[c] + 1)
      /\ \A a \in B : a.id > nextAuth[c]
      /\ B \in SUBSET Auth /\ B # {}
  <2>1. B # {}
    BY <1>3 DEF BuildAuths
  <2> QED
    BY <1>3, <2>1, StoredIds, BuildAuthsType
<1>6. s = DeriveStatus(StatusesOf(A))
  OBVIOUS
<1>7. A = auths[c] \union B
  OBVIOUS
<1> HIDE DEF s, w, A, B, e
<1>8. /\ row'[c] = w /\ auths'[c] = A /\ nextAuth'[c] = nextAuth[c] + 1
      /\ audit'[c] = audit[c] \o e /\ ver'[c] = ver[c] + 1
      /\ history'[c] = history[c] \o RecordConsentHistory(c)
      /\ \A d \in Consents \ {c} : Untouched(d)
  BY <1>1, <1>2, Effect DEF Untouched
<1>9. KeepsTrail(c)
  <2>1. \/ audit'[c] = audit[c] /\ row'[c].status = row[c].status
        \/ Audited(c)
    BY <1>2, <1>4, <1>8, DerivedTrail DEF e
  <2> QED
    BY <1>2, <1>4, <1>8, <2>1 DEF KeepsTrail
<1>10. DistinctIds(A, nextAuth[c] + 1)
  <2>1. DistinctIds(auths[c], nextAuth[c])
    BY DEF ServerInv
  <2> QED
    BY <1>3, <1>5, <1>7, <2>1 DEF DistinctIds, Auth
<1>11. KeepsAuths(c)
  <2>1. StatusesOf(A) # {}
    BY <1>5, <1>7 DEF StatusesOf
  <2>2. Participates(StatusesOf(A)) /\ WellDelegated(TypesOf(A))
    BY <1>2, <2>1 DEF AcceptableAuths
  <2>3. Agrees(c)'
    BY <1>4, <1>6, <1>8 DEF Agrees, LiveStatuses
  <2> QED
    BY <1>8, <1>10, <2>2, <2>3 DEF KeepsAuths
<1> QED
  BY <1>8, <1>9, <1>11 DEF Transaction

\* The transaction of UpdateAuthResource.
LEMMA UpdateAuthEffect ==
  ASSUME ServerInv, NEW cl \in Clients, NEW c \in Consents, req[cl].c = c, CommitUpdateAuth(cl)
  PROVE  Transaction(c)
<1> DEFINE r == req[cl]
           u == Updated(r)
           s == StatusAfter(r)
           w == [row[c] EXCEPT !.status = s]
           A == UpdateAuth(auths[c], u)
           T == UpdateAuthWithType(auths[c], u)
           e == DerivedAudit(c, s)
<1>1. StoreTypeOK
  BY DEF ServerInv, TypeOK
<1>2. /\ r.pc = "updauth" /\ r \in UpdAuthReqs /\ AcceptsUpdate(r)
      /\ ExecuteTransaction(c, w, A, 0, e, RecordConsentHistory(c))
      /\ ActsOnVersion(c, r.ver, "updauth")
  <2>1. Resume(cl, "updauth")
    BY DEF CommitUpdateAuth
  <2> QED
    BY <2>1, ResumeType, KindOfRequest DEF CommitUpdateAuth, ServerInv, TypeOK
<1>3. /\ row[c] \in Row /\ nextAuth[c] \in Nat /\ auths[c] \in SUBSET Auth
      /\ DistinctIds(auths[c], nextAuth[c]) /\ WellDelegated(TypesOf(auths[c]))
  BY <1>1 DEF StoreTypeOK, ServerInv, DelegationRule
<1>4. Exists(c) /\ (r.ver = ver[c] => r.saw \in auths[c])
  <2>1. r # IdleReq
    BY <1>2 DEF IdleReq
  <2> QED
    BY <1>2, <2>1 DEF ServerInv, RequestsFit, FitsConsent, Fits, Exists
<1>5. /\ u \in Auth /\ u.id = r.saw.id
      /\ StatusChanged(r) <=> u.status # r.saw.status
  BY <1>2, UpdatedType DEF StatusChanged
<1>6. /\ EnsureAcceptsWrites(c)
      /\ StatusChanged(r) \/ TypeChanged(r) => AcceptableAuths(TypesOf(T), StatusesOf(T))
      /\ s = IF StatusChanged(r) THEN DeriveStatus(StatusesOf(T)) ELSE row[c].status
  BY <1>2 DEF AcceptsUpdate, StatusAfter
<1>7. s = row[c].status \/ s \in LiveStatuses
  BY <1>6, DerivedIsLive
<1>8. w.status = s
  BY <1>3 DEF Row
<1>9. s # "NONE"
  BY <1>4, <1>7 DEF Exists, LiveStatuses
<1> HIDE DEF r, u, s, w, A, T, e
<1>10. /\ TypesOf(A) = TypesOf(auths[c]) /\ StatusesOf(T) = StatusesOf(A)
       /\ DistinctIds(A, nextAuth[c])
  BY <1>3, <1>5, WrittenAuths DEF A, T
<1>11. /\ row'[c] = w /\ auths'[c] = A /\ nextAuth'[c] = nextAuth[c] + 0
       /\ audit'[c] = audit[c] \o e /\ ver'[c] = ver[c] + 1
       /\ history'[c] = history[c] \o RecordConsentHistory(c)
       /\ stale[c] \subseteq stale'[c]
       /\ r.ver # ver[c] => "updauth" \in stale'[c]
       /\ \A d \in Consents \ {c} : Untouched(d)
  BY <1>1, <1>2, Effect, StaleEffect DEF Untouched
<1>12. KeepsTrail(c)
  <2>1. \/ audit'[c] = audit[c] /\ row'[c].status = row[c].status
        \/ Audited(c)
    BY <1>4, <1>6, <1>7, <1>8, <1>11, DerivedTrail DEF e
  <2> QED
    BY <1>4, <1>8, <1>9, <1>11, <2>1 DEF KeepsTrail
<1>13. CASE StatusChanged(r)
  <2>1. s = DeriveStatus(StatusesOf(A)) /\ s \in LiveStatuses
    BY <1>6, <1>10, <1>13, DerivedIsLive
  <2>2. Agrees(c)'
    BY <1>8, <1>11, <2>1 DEF Agrees, LiveStatuses
  <2>3. A # {} => Participates(StatusesOf(A))
    <3>1. A # {} => StatusesOf(A) # {}
      BY DEF StatusesOf
    <3> QED
      BY <1>6, <1>10, <1>13, <3>1 DEF AcceptableAuths
  <2> QED
    BY <1>3, <1>10, <1>11, <1>12, <2>2, <2>3 DEF KeepsAuths, Transaction
<1>14. CASE ~StatusChanged(r)
  <2>1. "updauth" \notin stale'[c] => A = auths[c]
    BY <1>3, <1>4, <1>5, <1>11, <1>14, WrittenUnchanged DEF A
  <2>2. "updauth" \notin stale'[c] => SameStatuses(c)
    BY <1>6, <1>8, <1>11, <1>14, <2>1 DEF SameStatuses
  <2> QED
    BY <1>3, <1>10, <1>11, <1>12, <2>1, <2>2 DEF KeepsAuths, Transaction
<1> QED
  BY <1>13, <1>14

-----------------------------------------------------------------------------
(* The invariant is kept.                                                  *)

\* With the history on, a transaction on a consent that exists appends one
\* snapshot of it.
LEMMA SnapshotAppended ==
  ASSUME StoreTypeOK, NEW c \in Consents, HistoryEnabled,
         history'[c] = history[c] \o RecordConsentHistory(c)
  PROVE  /\ history'[c] = Append(history[c], [row |-> row[c], auths |-> auths[c]])
         /\ Len(history'[c]) = Len(history[c]) + 1
<1> DEFINE snap == [row |-> row[c], auths |-> auths[c]]
<1>1. snap \in Snapshot /\ history[c] \in Seq(Snapshot)
  BY DEF StoreTypeOK, Snapshot
<1>2. history'[c] = history[c] \o <<snap>>
  BY DEF RecordConsentHistory
<1> HIDE DEF snap
<1>3. history'[c] = Append(history[c], snap)
  BY <1>1, <1>2
<1>4. Len(history'[c]) = Len(history[c]) + 1
  BY <1>1, <1>3
<1> QED
  BY <1>3, <1>4 DEF snap

\* The audit trail and the history after a transaction.
LEMMA TrailKept ==
  ASSUME ServerInv, TypeOK', NEW c \in Consents, Transaction(c)
  PROVE  /\ AuditMatchesStatus' /\ AuditChain' /\ HistoryComplete'
         /\ \A d \in Consents : ~Exists(d)' => NothingYet(d)'
<1>1. KeepsTrail(c) /\ \A d \in Consents \ {c} : Untouched(d)
  BY DEF Transaction
<1>2. /\ audit[c] \in Seq(Entry) /\ audit'[c] \in Seq(Entry) /\ history[c] \in Seq(Snapshot)
      /\ ver[c] \in Nat
  BY DEF ServerInv, TypeOK, StoreTypeOK
<1>3. row'[c].status # "NONE"
  BY <1>1 DEF KeepsTrail
<1>a. ASSUME Audited(c)
      PROVE  /\ audit'[c] # <<>> /\ LastEntry(c)'.cur = row'[c].status
             /\ stale'[c] \subseteq {"updauth"} => Chained(c)'
  <2>1. PICK en \in Entry :
           /\ audit'[c] = Append(audit[c], en)
           /\ en.cur = row'[c].status
           /\ stale'[c] \subseteq {"updauth"} => en.prev = row[c].status
    BY <1>a DEF Audited
  <2>2. /\ Len(audit'[c]) = Len(audit[c]) + 1
        /\ audit'[c][Len(audit[c]) + 1] = en
        /\ \A i \in 1 .. Len(audit[c]) : audit'[c][i] = audit[c][i]
    BY <1>2, <2>1
  <2>3. audit'[c] # <<>> /\ LastEntry(c)'.cur = row'[c].status
    BY <1>2, <2>1, <2>2 DEF LastEntry
  <2>4. ASSUME stale'[c] \subseteq {"updauth"}
        PROVE  Chained(c)'
    <3>1. Chained(c)
      BY <1>1, <2>4 DEF KeepsTrail, ServerInv, AuditChain
    <3>2. row[c].status = IF audit[c] = <<>> THEN "NONE" ELSE audit[c][Len(audit[c])].cur
      BY DEF ServerInv, AuditMatchesStatus, LastEntry, Exists
    <3>3. ASSUME NEW i \in 1 .. Len(audit'[c])
          PROVE  audit'[c][i].prev = IF i = 1 THEN "NONE" ELSE audit'[c][i - 1].cur
      <4>1. CASE i = Len(audit[c]) + 1
        <5>1. audit'[c][i].prev = row[c].status
          BY <2>1, <2>2, <2>4, <4>1
        <5>2. CASE audit[c] = <<>>
          BY <1>2, <3>2, <4>1, <5>1, <5>2
        <5>3. CASE audit[c] # <<>>
          <6>1. Len(audit[c]) \in 1 .. Len(audit[c])
            BY <1>2, <5>3
          <6> QED
            BY <1>2, <2>2, <3>2, <4>1, <5>1, <5>3, <6>1
        <5> QED
          BY <5>2, <5>3
      <4>2. CASE i # Len(audit[c]) + 1
        <5>1. i \in 1 .. Len(audit[c]) /\ (i # 1 => i - 1 \in 1 .. Len(audit[c]))
          BY <1>2, <2>2, <4>2
        <5> QED
          BY <2>2, <3>1, <5>1 DEF Chained
      <4> QED
        BY <4>1, <4>2
    <3> QED
      BY <3>3 DEF Chained
  <2> QED
    BY <2>3, <2>4
<1>b. ASSUME Exists(c), audit'[c] = audit[c], row'[c].status = row[c].status
      PROVE  /\ audit'[c] # <<>> /\ LastEntry(c)'.cur = row'[c].status
             /\ stale'[c] \subseteq {"updauth"} => Chained(c)'
  <2>1. audit'[c] # <<>> /\ LastEntry(c)'.cur = row'[c].status
    BY <1>b DEF ServerInv, AuditMatchesStatus, LastEntry
  <2>2. stale'[c] \subseteq {"updauth"} => Chained(c)'
    BY <1>1, <1>b DEF ServerInv, AuditChain, Chained, KeepsTrail
  <2> QED
    BY <2>1, <2>2
<1>4. /\ audit'[c] # <<>> /\ LastEntry(c)'.cur = row'[c].status
      /\ stale'[c] \subseteq {"updauth"} => Chained(c)'
  BY <1>1, <1>a, <1>b DEF KeepsTrail
<1>5. HistoryEnabled => Len(history'[c]) + 1 = ver'[c]
  <2>1. CASE Exists(c)
    <3>1. history'[c] = history[c] \o RecordConsentHistory(c)
      BY <1>1, <2>1 DEF KeepsTrail
    <3>2. HistoryEnabled => Len(history'[c]) = Len(history[c]) + 1
      BY <3>1, SnapshotAppended DEF ServerInv, TypeOK
    <3>3. HistoryEnabled => Len(history[c]) + 1 = ver[c]
      BY <2>1 DEF ServerInv, HistoryComplete
    <3>4. ver'[c] = ver[c] + 1
      BY <1>1 DEF KeepsTrail
    <3> QED
      BY <1>2, <3>2, <3>3, <3>4
  <2>2. CASE ~Exists(c)
    <3>1. history'[c] = <<>> /\ ver'[c] = 1
      BY <1>1, <2>2 DEF KeepsTrail, ServerInv, NothingYet
    <3> QED
      BY <3>1
  <2> QED
    BY <2>1, <2>2
<1>6. AuditMatchesStatus'
  <2> SUFFICES ASSUME NEW d \in Consents
               PROVE  IF Exists(d)' THEN audit'[d] # <<>> /\ LastEntry(d)'.cur = row'[d].status
                                    ELSE audit'[d] = <<>>
    BY DEF AuditMatchesStatus
  <2>1. CASE d = c
    BY <1>3, <1>4, <2>1 DEF Exists
  <2>2. CASE d # c
    BY <1>1, <2>2 DEF Untouched, ServerInv, AuditMatchesStatus, Exists, LastEntry
  <2> QED
    BY <2>1, <2>2
<1>7. AuditChain'
  <2> SUFFICES ASSUME NEW d \in Consents, stale'[d] \subseteq {"updauth"}
               PROVE  Chained(d)'
    BY DEF AuditChain
  <2>1. CASE d # c
    BY <1>1, <2>1 DEF Untouched, ServerInv, AuditChain, Chained
  <2> QED
    BY <1>4, <2>1
<1>8. HistoryComplete'
  <2> SUFFICES ASSUME NEW d \in Consents, HistoryEnabled, Exists(d)'
               PROVE  Len(history'[d]) + 1 = ver'[d]
    BY DEF HistoryComplete
  <2>1. CASE d # c
    BY <1>1, <2>1 DEF Untouched, ServerInv, HistoryComplete, Exists
  <2> QED
    BY <1>5, <2>1
<1>9. ASSUME NEW d \in Consents, ~Exists(d)'
      PROVE  NothingYet(d)'
  <2>1. d # c
    BY <1>3, <1>9 DEF Exists
  <2> QED
    BY <1>1, <1>9, <2>1 DEF Untouched, ServerInv, NothingYet, Exists
<1> QED
  BY <1>6, <1>7, <1>8, <1>9

\* The authorizations after a transaction.
LEMMA AuthsKept ==
  ASSUME ServerInv, NEW c \in Consents, Transaction(c)
  PROVE  /\ \A d \in Consents : DistinctIds(auths'[d], nextAuth'[d])
         /\ DelegationRule' /\ ParticipationRule' /\ StatusAgrees'
<1>1. /\ KeepsAuths(c) /\ row'[c].status # "NONE" /\ stale[c] \subseteq stale'[c]
      /\ \A d \in Consents \ {c} : Untouched(d)
  BY DEF Transaction, KeepsTrail
<1>2. ASSUME NEW d \in Consents
      PROVE  DistinctIds(auths'[d], nextAuth'[d]) /\ WellDelegated(TypesOf(auths'[d]))
  <2>1. CASE d # c
    BY <1>1, <2>1 DEF Untouched, ServerInv, DelegationRule
  <2> QED
    BY <1>1, <2>1 DEF KeepsAuths
<1>3. ParticipationRule'
  <2> SUFFICES ASSUME NEW d \in Consents, "updauth" \notin stale'[d], auths'[d] # {}
               PROVE  Participates(StatusesOf(auths'[d]))
    BY DEF ParticipationRule
  <2>1. CASE d # c
    BY <1>1, <2>1 DEF Untouched, ServerInv, ParticipationRule
  <2>2. CASE d = c
    BY <1>1, <2>2 DEF KeepsAuths, ServerInv, ParticipationRule
  <2> QED
    BY <2>1, <2>2
<1>4. StatusAgrees'
  <2> SUFFICES ASSUME NEW d \in Consents, stale'[d] \subseteq {"revoke"}
               PROVE  Agrees(d)'
    BY DEF StatusAgrees
  <2>1. CASE d # c
    <3>1. Agrees(d)
      BY <1>1, <2>1 DEF Untouched, ServerInv, StatusAgrees
    <3> QED
      BY <1>1, <2>1, <3>1 DEF Untouched, Agrees
  <2>2. CASE d = c
    <3>1. CASE Agrees(c)'
      BY <2>2, <3>1
    <3>2. CASE SameStatuses(c)
      <4>1. Agrees(c)
        BY <1>1, <2>2 DEF ServerInv, StatusAgrees
      <4>2. StatusesOf(auths'[c]) = StatusesOf(auths[c]) /\ row'[c].status = row[c].status
        BY <3>2 DEF SameStatuses
      <4>3. auths[c] = {} => auths'[c] = {}
        BY <4>2 DEF StatusesOf
      <4> QED
        BY <2>2, <4>1, <4>2, <4>3 DEF Agrees, LiveStatuses
    <3> QED
      BY <1>1, <2>2, <3>1, <3>2 DEF KeepsAuths
  <2> QED
    BY <2>1, <2>2
<1> QED
  BY <1>2, <1>3, <1>4 DEF DelegationRule

\* A request goes on fitting its consent when that has changed: what was read
\* has been overtaken, and nothing is asked of it any more.
LEMMA OvertakenFits ==
  ASSUME NEW r, NEW p, NEW v \in Nat, NEW A, NEW p2, NEW A2, Fits(r, p, v, A),
         r \in Requests, p2.status # "NONE"
  PROVE  Fits(r, p2, v + 1, A2)
<1>1. r.pc \in {"renew", "update", "revoke", "updauth"} => r.ver \in Nat /\ r.ver <= v
  BY KindOfRequest DEF Fits, RenewReqs, UpdateReqs, RevokeReqs, UpdAuthReqs
<1>2. r.pc \in {"renew", "update", "revoke", "updauth"} => r.ver <= v + 1 /\ r.ver # v + 1
  BY <1>1
<1> QED
  BY <1>2 DEF Fits

\* The consent of a request.
LEMMA ConsentOfRequest ==
  ASSUME NEW r \in Requests, r # IdleReq
  PROVE  r.c \in Consents /\ r.pc # "idle"
  BY DEF Requests, IdleReq, CreatedReqs, RenewReqs, UpdateReqs, UpdatedReqs, RevokeReqs,
         UpdAuthReqs, ExpireReqs, RefetchReqs, LoadReqs, AnsweredReqs

\* The tables are unchanged or one transaction has been committed.
StoreStep == UNCHANGED store \/ \E c \in Consents : Transaction(c)

\* Consents go on existing.
LEMMA StillExists ==
  ASSUME StoreStep, NEW c \in Consents, Exists(c)
  PROVE  row'[c].status # "NONE"
<1>1. CASE UNCHANGED store
  BY <1>1 DEF store, Exists
<1>2. ASSUME NEW d \in Consents, Transaction(d)
      PROVE  row'[c].status # "NONE"
  BY <1>2 DEF Transaction, KeepsTrail, Untouched, Exists
<1> QED
  BY <1>1, <1>2 DEF StoreStep

\* A request that fits its consent goes on fitting it.
LEMMA RequestKept ==
  ASSUME ServerInv, StoreStep, NEW r \in Requests, r # IdleReq, FitsConsent(r)
  PROVE  Fits(r, row'[r.c], ver'[r.c], auths'[r.c])
<1>1. r.c \in Consents /\ r.pc # "idle"
  BY ConsentOfRequest
<1>2. CASE UNCHANGED store
  BY <1>2 DEF store, FitsConsent
<1>3. ASSUME NEW c \in Consents, Transaction(c)
      PROVE  Fits(r, row'[r.c], ver'[r.c], auths'[r.c])
  <2>1. CASE r.c = c
    <3>1. ver[c] \in Nat /\ ver'[c] = ver[c] + 1 /\ row'[c].status # "NONE"
      BY <1>3 DEF ServerInv, TypeOK, StoreTypeOK, Transaction, KeepsTrail
    <3> QED
      BY <2>1, <3>1, OvertakenFits DEF FitsConsent
  <2>2. CASE r.c # c
    BY <1>1, <1>3, <2>2 DEF Transaction, Untouched, FitsConsent
  <2> QED
    BY <2>1, <2>2
<1> QED
  BY <1>2, <1>3 DEF StoreStep

\* Requests fit after a step that gives client cl the request q, if that fits.
LEMMA BecomeFits ==
  ASSUME ServerInv, StoreStep, NEW cl \in Clients, NEW q, Become(cl, q),
         q = IdleReq \/ Fits(q, row'[q.c], ver'[q.c], auths'[q.c]), UNCHANGED todo
  PROVE  RequestsFit'
<1>1. ASSUME NEW k \in Clients, req'[k] # IdleReq
      PROVE  Fits(req'[k], row'[req'[k].c], ver'[req'[k].c], auths'[req'[k].c])
  <2>1. req \in [Clients -> Requests]
    BY DEF ServerInv, TypeOK, ServiceTypeOK
  <2>2. CASE k = cl
    BY <1>1, <2>1, <2>2 DEF Become
  <2>3. CASE k # cl
    <3>1. req'[k] = req[k] /\ req[k] \in Requests
      BY <2>1, <2>3 DEF Become
    <3>2. FitsConsent(req[k])
      BY <1>1, <3>1 DEF ServerInv, RequestsFit
    <3> QED
      BY <1>1, <3>1, <3>2, RequestKept
  <2> QED
    BY <2>2, <2>3
<1>2. ASSUME NEW c \in todo'
      PROVE  row'[c].status # "NONE"
  <2>1. c \in Consents /\ Exists(c)
    BY <1>2 DEF ServerInv, TypeOK, JobTypeOK, RequestsFit
  <2> QED
    BY <2>1, StillExists
<1> QED
  BY <1>1, <1>2 DEF RequestsFit, FitsConsent, Exists

\* A request that remembers no read fits a consent that exists.
LEMMA PlainFits ==
  ASSUME NEW q, q.pc \in {"created", "updated", "expire", "refetch", "load", "answered"},
         NEW p, NEW v, NEW A, p.status # "NONE"
  PROVE  Fits(q, p, v, A)
  BY DEF Fits

\* Requests fit after a step that gives client cl such a request, or none.
LEMMA PlainBecomes ==
  ASSUME ServerInv, StoreStep, NEW cl \in Clients, NEW q, Become(cl, q), UNCHANGED todo,
         \/ q = IdleReq
         \/ /\ q.pc \in {"created", "updated", "expire", "refetch", "load", "answered"}
            /\ q.c \in Consents
            /\ row'[q.c].status # "NONE"
  PROVE  RequestsFit'
  BY PlainFits, BecomeFits

\* The request of a client that has begun one.
LEMMA CurrentRequest ==
  ASSUME ServerInv, NEW cl \in Clients, req[cl].pc # "idle"
  PROVE  /\ req[cl] \in Requests /\ req[cl].c \in Consents /\ Exists(req[cl].c)
         /\ FitsConsent(req[cl])
<1>1. req[cl] \in Requests /\ req[cl] # IdleReq
  BY DEF ServerInv, TypeOK, ServiceTypeOK, IdleReq
<1>2. FitsConsent(req[cl])
  BY <1>1 DEF ServerInv, RequestsFit
<1> QED
  BY <1>1, <1>2, ConsentOfRequest DEF FitsConsent, Fits, Exists

\* Requests fit their consents after a step that only reads.
LEMMA ReadFits ==
  ASSUME ServerInv, NEW cl \in Clients, ReadStep(cl), UNCHANGED todo
  PROVE  UNCHANGED store /\ RequestsFit'
<1> DEFINE r == req[cl]
           plain(q) == /\ q.pc \in {"created", "updated", "expire", "refetch", "load", "answered"}
                       /\ q.c \in Consents
                       /\ Exists(q.c)
<1>1. UNCHANGED store /\ StoreStep
  BY ReadStepType DEF ServerInv, StoreStep
<1> SUFFICES RequestsFit'
  BY <1>1
<1>2. row' = row /\ ver' = ver /\ auths' = auths
  BY <1>1 DEF store
<1>3. ASSUME NEW q, Become(cl, q), q = IdleReq \/ plain(q)
      PROVE  RequestsFit'
  BY <1>1, <1>2, <1>3, PlainBecomes DEF Exists
<1>4. ASSUME NEW q, Become(cl, q), Fits(q, row[q.c], ver[q.c], auths[q.c])
      PROVE  RequestsFit'
  BY <1>1, <1>2, <1>4, BecomeFits
<1>5. r.pc # "idle" => r \in Requests /\ r.c \in Consents /\ Exists(r.c) /\ FitsConsent(r)
  BY CurrentRequest
<1>6. ASSUME NEW c \in Consents, Exists(c), NEW for, NEW s
      PROVE  plain(ToExpire(c, for, s))
  BY <1>6 DEF ToExpire
<1>7. ASSUME NEW c \in Consents, Exists(c), NEW s, NEW t
      PROVE  plain([pc |-> "load", c |-> c, local |-> s, at |-> t])
  BY <1>7
<1>8. \A c \in Consents : ver[c] \in Nat
  BY DEF ServerInv, TypeOK, StoreTypeOK
<1> HIDE DEF plain
<1>a. CASE CheckCreated(cl)
  <2>1. /\ r.pc = "created"
        /\ Become(cl, ToExpire(r.c, "other", r.local)) \/ Become(cl, IdleReq)
    BY <1>a DEF CheckCreated, Resume
  <2> QED
    BY <2>1, <1>3, <1>5, <1>6
<1>b. CASE Refetch(cl)
  <2>1. /\ r.pc = "refetch"
        /\ Become(cl, [pc |-> "load", c |-> r.c, local |-> row[r.c].status, at |-> r.at])
    BY <1>b DEF Refetch, Resume
  <2> QED
    BY <2>1, <1>3, <1>5, <1>7
<1>c. CASE LoadConsentOutput(cl)
  <2> DEFINE q == [pc |-> "answered", c |-> r.c, at |-> r.at,
                   valid |-> Verdict(r.local, row[r.c].approved)]
  <2>1. r.pc = "load" /\ Become(cl, q)
    BY <1>c DEF LoadConsentOutput, Resume
  <2>2. plain(q)
    BY <2>1, <1>5 DEF plain
  <2> HIDE DEF q
  <2> QED
    BY <2>1, <2>2, <1>3
<1>d. CASE Answer(cl) \/ RefuseUpdateAuth(cl)
  <2>1. Become(cl, IdleReq)
    BY <1>d DEF Answer, RefuseUpdateAuth
  <2> QED
    BY <2>1, <1>3
<1>e. CASE ReadAuthsForRenewal(cl)
  <2> DEFINE q == [pc |-> "update", c |-> r.c, ver |-> r.ver, saw |-> r.saw, in |-> r.in,
                   new |-> DeriveStatus(StatusesOf(auths[r.c]))]
  <2>1. r.pc = "renew" /\ Become(cl, q)
    BY <1>e DEF ReadAuthsForRenewal, Resume
  <2>2. Fits(q, row[r.c], ver[r.c], auths[r.c]) /\ q.c = r.c
    BY <2>1, <1>5 DEF Fits, FitsConsent
  <2> HIDE DEF q
  <2> QED
    BY <2>1, <2>2, <1>4
<1>f. CASE CheckUpdated(cl)
  <2>1. /\ r.pc = "updated"
        /\ Become(cl, ToExpire(r.c, "other", row[r.c].status)) \/ Become(cl, IdleReq)
    BY <1>f DEF CheckUpdated, Resume
  <2> QED
    BY <2>1, <1>3, <1>5, <1>6
<1>g. CASE CallFails(cl)
  <2>1. r.pc # "idle" /\ Become(cl, AfterFailure(r))
    BY <1>g DEF CallFails
  <2>2. \/ AfterFailure(r) = IdleReq
        \/ AfterFailure(r) = [pc |-> "load", c |-> r.c, local |-> r.local, at |-> r.at]
    BY DEF AfterFailure
  <2> HIDE DEF r
  <2> QED
    BY <2>1, <2>2, <1>3, <1>5, <1>7
<1>h. ASSUME NEW c \in Consents, GetConsent(cl, c) \/ ValidateConsent(cl, c)
      PROVE  RequestsFit'
  <2>1. /\ Exists(c)
        /\ \/ \E for \in {"validate", "other"} : Become(cl, ToExpire(c, for, row[c].status))
           \/ Become(cl, [pc |-> "load", c |-> c, local |-> row[c].status, at |-> now])
    BY <1>h DEF GetConsent, ValidateConsent
  <2> QED
    BY <2>1, <1>3, <1>6, <1>7
<1>i. ASSUME NEW c \in Consents, RevokeConsent(cl, c)
      PROVE  RequestsFit'
  <2> DEFINE q == [pc |-> "revoke", c |-> c, ver |-> ver[c], saw |-> row[c]]
  <2>1. Exists(c) /\ Become(cl, q)
    BY <1>i DEF RevokeConsent
  <2>2. Fits(q, row[c], ver[c], auths[c]) /\ q.c = c
    BY <2>1, <1>8 DEF Fits, Exists
  <2> HIDE DEF q
  <2> QED
    BY <2>1, <2>2, <1>4
<1>j. ASSUME NEW c \in Consents, NEW in \in UpdateInputs, UpdateConsent(cl, c, in)
      PROVE  RequestsFit'
  <2> DEFINE q(s) == [pc |-> "update", c |-> c, ver |-> ver[c], saw |-> row[c], in |-> in,
                      new |-> s]
             p == [pc |-> "renew", c |-> c, ver |-> ver[c], saw |-> row[c], in |-> in]
  <2>1. /\ Exists(c) /\ AcceptableList(in.list)
        /\ \/ in.replace /\ Become(cl, q(DeriveStatus(StatusesIn(in.list))))
           \/ ~in.replace /\ Become(cl, p)
           \/ ~in.replace /\ Become(cl, q(row[c].status))
    BY <1>j DEF UpdateConsent
  <2>2. CASE in.replace /\ Become(cl, q(DeriveStatus(StatusesIn(in.list))))
    <3> DEFINE t == q(DeriveStatus(StatusesIn(in.list)))
    <3>1. Fits(t, row[c], ver[c], auths[c]) /\ t.c = c
      BY <2>1, <2>2, <1>8 DEF Fits, Exists
    <3> HIDE DEF t
    <3> QED
      BY <2>2, <3>1, <1>4 DEF t
  <2>3. CASE ~in.replace /\ Become(cl, p)
    <3>1. Fits(p, row[c], ver[c], auths[c]) /\ p.c = c
      BY <2>1, <2>3, <1>8 DEF Fits, Exists
    <3> HIDE DEF p
    <3> QED
      BY <2>3, <3>1, <1>4
  <2>4. CASE ~in.replace /\ Become(cl, q(row[c].status))
    <3> DEFINE t == q(row[c].status)
    <3>1. Fits(t, row[c], ver[c], auths[c]) /\ t.c = c
      BY <2>1, <2>4, <1>8 DEF Fits, Exists
    <3> HIDE DEF t
    <3> QED
      BY <2>4, <3>1, <1>4 DEF t
  <2> QED
    BY <2>1, <2>2, <2>3, <2>4
<1>k. ASSUME NEW c \in Consents, NEW in \in AuthInputs, NEW a \in auths[c],
             UpdateAuthResource(cl, c, a, in)
      PROVE  RequestsFit'
  <2> DEFINE q == [pc |-> "updauth", c |-> c, ver |-> ver[c], saw |-> a, in |-> in]
  <2>1. Become(cl, q)
    BY <1>k DEF UpdateAuthResource
  <2>2. Exists(c)
    BY DEF ServerInv, NothingYet
  <2>3. Fits(q, row[c], ver[c], auths[c]) /\ q.c = c
    BY <2>2, <1>8 DEF Fits, Exists
  <2> HIDE DEF q
  <2> QED
    BY <2>1, <2>3, <1>4
<1> QED
  BY <1>1, <1>a, <1>b, <1>c, <1>d, <1>e, <1>f, <1>g, <1>h, <1>i, <1>j, <1>k DEF ReadStep

\* Requests fit their consents after a committed transaction, and it is one.
LEMMA CommitFits ==
  ASSUME ServerInv, NEW cl \in Clients, UNCHANGED todo,
         \/ CommitExpire(cl) \/ CommitUpdate(cl) \/ CommitRevoke(cl) \/ CommitUpdateAuth(cl)
  PROVE  StoreStep /\ RequestsFit'
<1> DEFINE r == req[cl]
<1>1. r.pc # "idle"
  BY DEF CommitExpire, CommitUpdate, CommitRevoke, CommitUpdateAuth, Resume
<1>2. PICK c \in Consents : c = r.c
  BY <1>1, CurrentRequest
<1>3. Exists(c)
  BY <1>1, <1>2, CurrentRequest
<1>4. StoreStep
  <2>1. CASE CommitExpire(cl)
    <3>1. ExpireConsent(c)
      BY <1>2, <2>1 DEF CommitExpire
    <3> QED
      BY <1>3, <3>1, ExpireEffect DEF StoreStep
  <2>2. CASE CommitUpdate(cl)
    <3>1. Transaction(c)
      BY <1>2, <2>2, UpdateTrail, UpdateAuths DEF Transaction
    <3> QED
      BY <3>1 DEF StoreStep
  <2>3. CASE CommitRevoke(cl)
    BY <1>2, <2>3, RevokeEffect DEF StoreStep
  <2>4. CASE CommitUpdateAuth(cl)
    BY <1>2, <2>4, UpdateAuthEffect DEF StoreStep
  <2> QED
    BY <2>1, <2>2, <2>3, <2>4
<1>5. row'[c].status # "NONE"
  BY <1>3, <1>4, StillExists
<1>6. PICK q : /\ Become(cl, q)
               /\ q = IdleReq \/ (q.pc \in {"updated", "refetch"} /\ q.c = c)
  <2>1. CASE CommitExpire(cl)
    <3> DEFINE q == [pc |-> "refetch", c |-> c, at |-> r.at,
                     local |-> IF row[c].status = "EXPIRED" THEN r.local ELSE "EXPIRED"]
    <3>1. Become(cl, q) \/ Become(cl, IdleReq)
      BY <1>2, <2>1 DEF CommitExpire
    <3>2. q.pc = "refetch" /\ q.c = c
      OBVIOUS
    <3> HIDE DEF q
    <3> QED
      BY <3>1, <3>2
  <2>2. CASE CommitUpdate(cl)
    <3> DEFINE q == [pc |-> "updated", c |-> c]
    <3>1. Become(cl, q) /\ q.pc = "updated" /\ q.c = c
      BY <1>2, <2>2 DEF CommitUpdate
    <3> HIDE DEF q
    <3> QED
      BY <3>1
  <2>3. CASE CommitRevoke(cl) \/ CommitUpdateAuth(cl)
    BY <2>3 DEF CommitRevoke, CommitUpdateAuth
  <2> QED
    BY <2>1, <2>2, <2>3
<1> QED
  BY <1>4, <1>5, <1>6, PlainBecomes

\* Requests fit after the transactions that begin and end a request.
LEMMA CreateFits ==
  ASSUME ServerInv, NEW cl \in Clients, NEW c \in Consents, UNCHANGED todo,
         \/ \E l \in AuthLists, t \in CreateTimes, ok \in BOOLEAN : CreateConsent(cl, c, l, t, ok)
         \/ \E in \in AuthInputs : CreateAuthResource(cl, c, in)
  PROVE  StoreStep /\ RequestsFit'
<1>1. Transaction(c)
  BY CreateEffect, CreateAuthEffect
<1>2. StoreStep /\ row'[c].status # "NONE"
  BY <1>1 DEF StoreStep, Transaction, KeepsTrail
<1>3. CASE \E in \in AuthInputs : CreateAuthResource(cl, c, in)
  <2>1. req' = req
    BY <1>3 DEF CreateAuthResource
  <2>2. Become(cl, req[cl]) /\ (req[cl] = IdleReq \/ FitsConsent(req[cl]))
    BY <2>1 DEF Become, ServerInv, TypeOK, ServiceTypeOK, RequestsFit
  <2>3. req[cl] \in Requests
    BY DEF ServerInv, TypeOK, ServiceTypeOK
  <2>4. \/ req[cl] = IdleReq
        \/ Fits(req[cl], row'[req[cl].c], ver'[req[cl].c], auths'[req[cl].c])
    BY <1>2, <2>2, <2>3, RequestKept
  <2> QED
    BY <1>2, <2>2, <2>4, BecomeFits
<1>4. ASSUME NEW l \in AuthLists, NEW t \in CreateTimes, NEW ok \in BOOLEAN,
             CreateConsent(cl, c, l, t, ok)
      PROVE  RequestsFit'
  <2> DEFINE q == [pc |-> "created", c |-> c, exp |-> t, local |-> DeriveStatus(StatusesIn(l))]
  <2>1. Become(cl, q) /\ q.pc = "created" /\ q.c = c
    BY <1>4 DEF CreateConsent
  <2> HIDE DEF q
  <2> QED
    BY <1>2, <2>1, PlainBecomes
<1> QED
  BY <1>2, <1>3, <1>4

\* Requests fit, and the job's list exists, after a step of the job, the clock
\* or a crash.
LEMMA OtherFits ==
  ASSUME ServerInv, TypeOK',
         \/ QuietStep
         \/ UNCHANGED <<store, req, issued, faults, todo>> /\ Tick
         \/ \E c \in Consents : ExpireListed(c)
  PROVE  StoreStep /\ RequestsFit'
<1>1. /\ StoreStep
      /\ req' = req \/ req' = [cl \in Clients |-> IdleReq]
      /\ \A c \in todo' : Exists(c)
  <2>1. CASE QuietStep
    <3>1. \A c \in GetExpiredConsents : Exists(c)
      BY JobAssumption DEF GetExpiredConsents, Exists, ConsentStatuses, LiveStatuses, TerminalStatuses
    <3> QED
      BY <2>1, <3>1 DEF QuietStep, StoreStep, RunExpirationJob, Crash, Done, vars,
                        ExpireListedFails, ServerInv, RequestsFit
  <2>2. CASE UNCHANGED <<store, req, issued, faults, todo>> /\ Tick
    BY <2>2 DEF StoreStep, ServerInv, RequestsFit
  <2>3. ASSUME NEW c \in Consents, ExpireListed(c)
        PROVE  /\ StoreStep /\ req' = req
               /\ \A d \in todo' : Exists(d)
    <3>1. c \in todo /\ ExpireConsent(c) /\ todo' = todo \ {c} /\ req' = req
      BY <2>3 DEF ExpireListed
    <3>2. \A d \in todo : Exists(d)
      BY DEF ServerInv, RequestsFit
    <3> QED
      BY <3>1, <3>2, ExpireEffect DEF StoreStep
  <2> QED
    BY <2>1, <2>2, <2>3
<1>2. ASSUME NEW c \in todo'
      PROVE  row'[c].status # "NONE"
  <2>1. c \in Consents /\ Exists(c)
    BY <1>1, <1>2 DEF TypeOK, JobTypeOK
  <2> QED
    BY <1>1, <2>1, StillExists
<1>3. ASSUME NEW k \in Clients, req'[k] # IdleReq
      PROVE  Fits(req'[k], row'[req'[k].c], ver'[req'[k].c], auths'[req'[k].c])
  <2>1. req' = req
    BY <1>1, <1>3
  <2>2. req[k] \in Requests /\ FitsConsent(req[k])
    BY <1>3, <2>1 DEF ServerInv, TypeOK, ServiceTypeOK, RequestsFit
  <2> QED
    BY <1>1, <1>3, <2>1, <2>2, RequestKept
<1> QED
  BY <1>1, <1>2, <1>3 DEF RequestsFit, FitsConsent, Exists

\* A step changes the tables by one transaction at most, and requests fit after it.
LEMMA StepEffect ==
  ASSUME ServerInv, TypeOK', [Next]_vars
  PROVE  StoreStep /\ RequestsFit'
<1>1. ASSUME NEW cl \in Clients, ReadStep(cl), UNCHANGED todo
      PROVE  StoreStep /\ RequestsFit'
  BY <1>1, ReadFits DEF StoreStep
<1> QED
  BY <1>1, StepCases, CommitFits, CreateFits, OtherFits

\* The invariant holds in the beginning.
LEMMA InvInit == Init => ServerInv
<1> SUFFICES ASSUME Init PROVE ServerInv
  OBVIOUS
<1>1. TypeOK
  BY TypeInit
<1>2. /\ \A cl \in Clients : req[cl] = IdleReq
      /\ todo = {}
      /\ \A c \in Consents : /\ row[c] = Absent /\ auths[c] = {} /\ audit[c] = <<>>
                             /\ history[c] = <<>> /\ ver[c] = 0
  BY DEF Init, StoreInit, ServiceInit, JobInit
<1>3. \A c \in Consents : ~Exists(c) /\ row[c].status = "NONE"
  BY <1>2 DEF Exists, Absent
<1>4. RequestsFit
  BY <1>2 DEF RequestsFit
<1>5. \A c \in Consents : /\ DistinctIds(auths[c], nextAuth[c]) /\ NothingYet(c)
                          /\ TypesOf(auths[c]) = {} /\ Chained(c)
  BY <1>2 DEF DistinctIds, NothingYet, TypesOf, Chained
<1>6. \A c \in Consents : Agrees(c)
  BY <1>2, <1>3 DEF Agrees, LiveStatuses
<1>7. AuditMatchesStatus /\ AuditChain /\ HistoryComplete
  BY <1>2, <1>3, <1>5 DEF AuditMatchesStatus, AuditChain, HistoryComplete
<1>8. DelegationRule /\ ParticipationRule /\ StatusAgrees
  BY <1>2, <1>5, <1>6 DEF DelegationRule, ParticipationRule, StatusAgrees, WellDelegated
<1> QED
  BY <1>1, <1>4, <1>5, <1>7, <1>8 DEF ServerInv

\* Every step keeps the invariant.
LEMMA InvStep ==
  ASSUME ServerInv, [Next]_vars
  PROVE  ServerInv'
<1>1. TypeOK'
  BY TypeStep DEF ServerInv
<1>2. StoreStep /\ RequestsFit'
  BY <1>1, StepEffect
<1>3. CASE UNCHANGED store
  <2>1. /\ row' = row /\ auths' = auths /\ nextAuth' = nextAuth /\ audit' = audit
        /\ history' = history /\ ver' = ver /\ stale' = stale
    BY <1>3 DEF store
  <2>2. /\ AuditMatchesStatus' /\ AuditChain' /\ HistoryComplete'
        /\ DelegationRule' /\ ParticipationRule'
    BY <2>1 DEF ServerInv, AuditMatchesStatus, LastEntry, AuditChain, Chained, HistoryComplete,
                DelegationRule, ParticipationRule, Exists
  <2>3. StatusAgrees'
    BY <2>1 DEF ServerInv, StatusAgrees, Agrees
  <2>4. \A c \in Consents : /\ DistinctIds(auths'[c], nextAuth'[c])
                            /\ ~Exists(c)' => NothingYet(c)'
    BY <2>1 DEF ServerInv, Exists, NothingYet
  <2> QED
    BY <1>1, <1>2, <2>2, <2>3, <2>4 DEF ServerInv
<1>4. ASSUME NEW c \in Consents, Transaction(c)
      PROVE  ServerInv'
  BY <1>1, <1>2, <1>4, TrailKept, AuthsKept DEF ServerInv
<1> QED
  BY <1>2, <1>3, <1>4 DEF StoreStep

-----------------------------------------------------------------------------
(* The theorems.                                                           *)

\* The invariant holds throughout.
THEOREM Invariance == Spec => []ServerInv
  BY InvInit, InvStep, PTL DEF Spec

\* No status is ever written without its audit entry.
THEOREM AuditIsComplete == Spec => []AuditMatchesStatus
<1>1. ServerInv => AuditMatchesStatus
  BY DEF ServerInv
<1> QED
  BY <1>1, Invariance, PTL

\* Only overtaken updates and revocations of a consent break its audit trail.
THEOREM AuditIsChained == Spec => []AuditChain
<1>1. ServerInv => AuditChain
  BY DEF ServerInv
<1> QED
  BY <1>1, Invariance, PTL

\* Only overtaken updates part the status of a consent and its authorizations.
THEOREM StatusFollowsAuths == Spec => []StatusAgrees
<1>1. ServerInv => StatusAgrees
  BY DEF ServerInv
<1> QED
  BY <1>1, Invariance, PTL

\* Only an overtaken update of an authorization leaves nobody taking part.
THEOREM SomebodyParticipates == Spec => []ParticipationRule
<1>1. ServerInv => ParticipationRule
  BY DEF ServerInv
<1> QED
  BY <1>1, Invariance, PTL

\* Delegates and subjects come together, whatever overtakes what.
THEOREM DelegationHolds == Spec => []DelegationRule
<1>1. ServerInv => DelegationRule
  BY DEF ServerInv
<1> QED
  BY <1>1, Invariance, PTL

\* Every transaction but the first leaves exactly one snapshot.
THEOREM HistoryHasNoGaps == Spec => []HistoryComplete
<1>1. ServerInv => HistoryComplete
  BY DEF ServerInv
<1> QED
  BY <1>1, Invariance, PTL

\* Only its owning group makes a closed consent live again.
THEOREM OnlyGroupReopens == Spec => ReopenedOnlyByGroup
<1> DEFINE Reopening == \A c \in Consents :
             row[c].status \in TerminalStatuses /\ row'[c].status \in LiveStatuses
               => LastEntry(c)'.by = "GROUP"
<1>1. ASSUME ServerInv, ServerInv', [Next]_vars, NEW c \in Consents,
             row[c].status \in TerminalStatuses, row'[c].status \in LiveStatuses
      PROVE  LastEntry(c)'.by = "GROUP"
  <2>1. row'[c].status # row[c].status
    BY <1>1 DEF TerminalStatuses, LiveStatuses
  <2>2. StoreStep
    BY <1>1, StepEffect DEF ServerInv
  <2>3. Transaction(c)
    BY <2>1, <2>2 DEF StoreStep, store, Transaction, Untouched
  <2>4. PICK en \in Entry : audit'[c] = Append(audit[c], en) /\ en.by = "GROUP"
    BY <1>1, <2>1, <2>3 DEF Transaction, KeepsTrail, Audited
  <2>5. audit[c] \in Seq(Entry)
    BY <1>1 DEF ServerInv, TypeOK, StoreTypeOK
  <2>6. audit'[c][Len(audit'[c])] = en
    BY <2>4, <2>5
  <2> QED
    BY <2>4, <2>6 DEF LastEntry
<1>2. ServerInv /\ ServerInv' /\ [Next]_vars => [Reopening]_vars
  BY <1>1
<1> QED
  BY <1>2, Invariance, PTL DEF Spec, ReopenedOnlyByGroup

\* The history holds each consent as it was right before each transaction.
THEOREM HistoryIsFaithful == Spec => HistoryIsPreMutation
<1> DEFINE Present(c) == <<row[c], auths[c], audit[c], ver[c]>>
           Recorded(c) ==
             IF Present(c)' = Present(c)
             THEN history'[c] = history[c]
             ELSE history'[c] = Append(history[c], [row |-> row[c], auths |-> auths[c]])
           Recording == \A c \in Consents : HistoryEnabled /\ Exists(c) => Recorded(c)
<1>1. ASSUME ServerInv, ServerInv', [Next]_vars, NEW c \in Consents, HistoryEnabled, Exists(c)
      PROVE  Recorded(c)
  <2>1. StoreStep
    BY <1>1, StepEffect DEF ServerInv
  <2>2. CASE ~Transaction(c)
    <3>1. Present(c)' = Present(c) /\ history'[c] = history[c]
      BY <2>1, <2>2 DEF StoreStep, store, Transaction, Untouched
    <3> QED
      BY <3>1
  <2>3. CASE Transaction(c)
    <3>1. history'[c] = history[c] \o RecordConsentHistory(c) /\ ver'[c] = ver[c] + 1
      BY <1>1, <2>3 DEF Transaction, KeepsTrail
    <3>2. ver[c] \in Nat
      BY <1>1 DEF ServerInv, TypeOK, StoreTypeOK
    <3>3. Present(c)' # Present(c)
      BY <3>1, <3>2
    <3>4. history'[c] = Append(history[c], [row |-> row[c], auths |-> auths[c]])
      BY <1>1, <3>1, SnapshotAppended DEF ServerInv, TypeOK
    <3> QED
      BY <3>3, <3>4
  <2> QED
    BY <2>2, <2>3
<1>2. ServerInv /\ ServerInv' /\ [Next]_vars => [Recording]_vars
  BY <1>1
<1> QED
  BY <1>2, Invariance, PTL DEF Spec, HistoryIsPreMutation

-----------------------------------------------------------------------------
(* One request at a time, and no scheduler: nothing is ever overtaken.     *)

OneAtATime == (\A x, y \in Clients : x = y) /\ ~SchedulerEnabled

\* What the request r of the only client has read of the row p of its consent,
\* at version v, is still so at time t, and what it decided follows from it.
FitsAlone(r, p, v, t) ==
  /\ r.pc \in {"renew", "update", "revoke", "updauth"} => r.ver = v
  /\ r.pc = "created" => r.exp = p.exp
  /\ r.pc = "expire" => IsConsentExpired(p.exp, t)
  /\ r.pc = "update" /\ r.new = "EXPIRED" => IsConsentExpired(EffectiveTime(r.in, r.saw), t)

\* The same of a request to validate, as long as no call fails.
FitsVerdict(r, p) ==
  /\ r.pc = "refetch" => p.status = "EXPIRED"
  /\ r.pc = "load" => /\ r.local = p.status
                      /\ p.status = "ACTIVE" => ~IsConsentExpired(p.exp, r.at)
  /\ r.pc = "answered" /\ r.valid => /\ p.status = "ACTIVE" /\ p.approved
                                     /\ ~IsConsentExpired(p.exp, r.at)

\* The inductive invariant of a server that works on one request at a time.
AloneInv ==
  /\ ServerInv
  /\ todo = {}
  /\ \A c \in Consents : stale[c] = {}
  /\ ExpiredIsDue
  /\ \A cl \in Clients : FitsAlone(req[cl], row[req[cl].c], ver[req[cl].c], now)
  /\ MaxFaults = 0 => \A cl \in Clients : FitsVerdict(req[cl], row[req[cl].c])

\* An idle request fits anything.
LEMMA IdleFitsAlone ==
  ASSUME NEW p, NEW v, NEW t
  PROVE  FitsAlone(IdleReq, p, v, t) /\ FitsVerdict(IdleReq, p)
  BY DEF FitsAlone, FitsVerdict, IdleReq

\* Time passes: what has lapsed stays so.
LEMMA LapsedStays ==
  ASSUME NEW e \in Times, NEW t \in Nat, NEW u \in Nat, t <= u, IsConsentExpired(e, t)
  PROVE  IsConsentExpired(e, u)
  BY DEF IsConsentExpired, Times, NoTime

\* The invariant after a step that gives the only client the request q and does
\* to one consent what keeps the tables as they should be.
LEMMA AloneBecomes ==
  ASSUME OneAtATime, AloneInv, ServerInv', UNCHANGED todo, now' = now,
         NEW cl \in Clients, NEW q, Become(cl, q),
         \/ q = IdleReq
         \/ /\ FitsAlone(q, row'[q.c], ver'[q.c], now)
            /\ MaxFaults = 0 => FitsVerdict(q, row'[q.c]),
         \/ UNCHANGED store
         \/ \E c \in Consents :
              /\ \A d \in Consents \ {c} : Untouched(d)
              /\ stale' = stale
              /\ row'[c].status = "EXPIRED" => IsConsentExpired(row'[c].exp, now)
  PROVE  AloneInv'
<1>1. \A k \in Clients : req'[k] = q
  <2>1. req \in [Clients -> Requests]
    BY DEF AloneInv, ServerInv, TypeOK, ServiceTypeOK
  <2> QED
    BY <2>1 DEF OneAtATime, Become
<1>2. \A k \in Clients :
        /\ FitsAlone(req'[k], row'[req'[k].c], ver'[req'[k].c], now')
        /\ MaxFaults = 0 => FitsVerdict(req'[k], row'[req'[k].c])
  BY <1>1, IdleFitsAlone
<1>3. \A c \in Consents : stale'[c] = {}
  BY DEF AloneInv, store
<1>4. ExpiredIsDue'
  <2>1. CASE UNCHANGED store
    BY <2>1 DEF AloneInv, ExpiredIsDue, Lapsed, store
  <2>2. ASSUME NEW c \in Consents, \A d \in Consents \ {c} : Untouched(d),
               row'[c].status = "EXPIRED" => IsConsentExpired(row'[c].exp, now)
        PROVE  ExpiredIsDue'
    BY <2>2 DEF AloneInv, ExpiredIsDue, Lapsed, Untouched
  <2> QED
    BY <2>1, <2>2
<1> QED
  BY <1>2, <1>3, <1>4 DEF AloneInv

\* The invariant after the steps of the job, the clock and a crash.
LEMMA AloneOther ==
  ASSUME OneAtATime, AloneInv, ServerInv',
         \/ QuietStep
         \/ UNCHANGED <<store, req, issued, faults, todo>> /\ Tick
         \/ \E c \in Consents : ExpireListed(c)
  PROVE  AloneInv'
<1>1. /\ UNCHANGED store /\ todo' = todo
      /\ now' = now \/ (now' = now + 1)
      /\ req' = req \/ req' = [cl \in Clients |-> IdleReq]
  BY DEF OneAtATime, AloneInv, QuietStep, RunExpirationJob, Crash, Done, vars, ExpireListed,
         ExpireListedFails, Tick
<1>2. row' = row /\ ver' = ver /\ stale' = stale
  BY <1>1 DEF store
<1>3. now \in Nat /\ now' \in Nat /\ now <= now'
  BY <1>1 DEF AloneInv, ServerInv, TypeOK, StoreTypeOK
<1>4. row \in [Consents -> Row] /\ req \in [Clients -> Requests]
  BY DEF AloneInv, ServerInv, TypeOK, StoreTypeOK, ServiceTypeOK
<1>5. ExpiredIsDue'
  <2> SUFFICES ASSUME NEW c \in Consents, row[c].status = "EXPIRED"
               PROVE  IsConsentExpired(row[c].exp, now')
    BY <1>2 DEF ExpiredIsDue, Lapsed
  <2>1. IsConsentExpired(row[c].exp, now) /\ row[c].exp \in Times
    BY <1>4 DEF AloneInv, ExpiredIsDue, Lapsed, Row
  <2> QED
    BY <1>3, <2>1, LapsedStays
<1>6. ASSUME NEW cl \in Clients
      PROVE  /\ FitsAlone(req'[cl], row[req'[cl].c], ver[req'[cl].c], now')
             /\ MaxFaults = 0 => FitsVerdict(req'[cl], row[req'[cl].c])
  <2>1. CASE req'[cl] = IdleReq
    BY <2>1, IdleFitsAlone
  <2>2. CASE req'[cl] = req[cl]
    <3> DEFINE r == req[cl]
    <3>1. /\ FitsAlone(r, row[r.c], ver[r.c], now)
          /\ MaxFaults = 0 => FitsVerdict(r, row[r.c])
      BY DEF AloneInv
    <3>2. r.pc = "expire" => row[r.c].exp \in Times
      BY <1>4, KindOfRequest DEF ExpireReqs, Row
    <3>3. r.pc = "update" => EffectiveTime(r.in, r.saw) \in Times
      BY <1>4, KindOfRequest DEF UpdateReqs, UpdateInput, Row, EffectiveTime
    <3> HIDE DEF r
    <3> QED
      BY <1>3, <2>2, <3>1, <3>2, <3>3, LapsedStays DEF FitsAlone, r
  <2> QED
    BY <1>1, <2>1, <2>2
<1> QED
  BY <1>1, <1>2, <1>5, <1>6 DEF AloneInv

\* The invariant after a step of the request that only reads.
LEMMA AloneReads ==
  ASSUME OneAtATime, AloneInv, ServerInv', UNCHANGED todo,
         NEW cl \in Clients, ReadStep(cl)
  PROVE  AloneInv'
<1> DEFINE r == req[cl]
           fits(q) == FitsAlone(q, row[q.c], ver[q.c], now)
                      /\ (MaxFaults = 0 => FitsVerdict(q, row[q.c]))
<1>1. UNCHANGED <<store, now>>
  BY ReadStepType DEF AloneInv, ServerInv
<1>2. row' = row /\ ver' = ver /\ now' = now
  BY <1>1 DEF store
<1>3. ASSUME NEW q, Become(cl, q), q = IdleReq \/ fits(q)
      PROVE  AloneInv'
  BY <1>1, <1>2, <1>3, AloneBecomes
<1>4. fits(r)
  BY DEF AloneInv
<1>5. ASSUME NEW c \in Consents, Lapsed(c), NEW for, NEW s
      PROVE  fits(ToExpire(c, for, s))
  BY <1>5 DEF ToExpire, FitsAlone, FitsVerdict, Lapsed
<1>6. \A c \in Consents : row[c].exp \in Times
  BY DEF AloneInv, ServerInv, TypeOK, StoreTypeOK, Row
<1>7. r.pc # "idle" => r \in Requests /\ r.c \in Consents
  BY CurrentRequest DEF AloneInv
<1> HIDE DEF fits
<1>a. CASE CheckCreated(cl)
  <2>1. /\ r.pc = "created"
        /\ Become(cl, IF IsConsentExpired(r.exp, now)
                      THEN ToExpire(r.c, "other", r.local) ELSE IdleReq)
    BY <1>a DEF CheckCreated, Resume
  <2>2. r.exp = row[r.c].exp
    BY <1>4, <2>1 DEF fits, FitsAlone
  <2>3. CASE Lapsed(r.c)
    BY <1>3, <1>5, <1>7, <2>1, <2>2, <2>3 DEF Lapsed
  <2>4. CASE ~Lapsed(r.c)
    BY <1>3, <2>1, <2>2, <2>4 DEF Lapsed
  <2> QED
    BY <2>3, <2>4
<1>b. CASE CheckUpdated(cl)
  <2>1. /\ r.pc = "updated"
        /\ \/ Lapsed(r.c) /\ Become(cl, ToExpire(r.c, "other", row[r.c].status))
           \/ Become(cl, IdleReq)
    BY <1>b DEF CheckUpdated, Resume
  <2> QED
    BY <1>3, <1>5, <1>7, <2>1
<1>c. CASE Refetch(cl)
  <2> DEFINE q == [pc |-> "load", c |-> r.c, local |-> row[r.c].status, at |-> r.at]
  <2>1. r.pc = "refetch" /\ Become(cl, q)
    BY <1>c DEF Refetch, Resume
  <2>2. MaxFaults = 0 => row[r.c].status = "EXPIRED"
    BY <1>4, <2>1 DEF fits, FitsVerdict
  <2>3. fits(q)
    BY <2>2 DEF fits, FitsAlone, FitsVerdict
  <2> HIDE DEF q
  <2> QED
    BY <1>3, <2>1, <2>3
<1>d. CASE LoadConsentOutput(cl)
  <2> DEFINE q == [pc |-> "answered", c |-> r.c, at |-> r.at,
                   valid |-> Verdict(r.local, row[r.c].approved)]
  <2>1. r.pc = "load" /\ Become(cl, q)
    BY <1>d DEF LoadConsentOutput, Resume
  <2>2. fits(q)
    BY <1>4, <2>1 DEF fits, FitsAlone, FitsVerdict, Verdict
  <2> HIDE DEF q
  <2> QED
    BY <1>3, <2>1, <2>2
<1>e. CASE Answer(cl) \/ RefuseUpdateAuth(cl)
  BY <1>3, <1>e DEF Answer, RefuseUpdateAuth
<1>f. CASE ReadAuthsForRenewal(cl)
  <2> DEFINE q == [pc |-> "update", c |-> r.c, ver |-> r.ver, saw |-> r.saw, in |-> r.in,
                   new |-> DeriveStatus(StatusesOf(auths[r.c]))]
  <2>1. r.pc = "renew" /\ Become(cl, q)
    BY <1>f DEF ReadAuthsForRenewal, Resume
  <2>2. q.new \in LiveStatuses
    BY DerivedIsLive
  <2>3. fits(q)
    BY <1>4, <2>1, <2>2 DEF fits, FitsAlone, FitsVerdict, LiveStatuses
  <2> HIDE DEF q
  <2> QED
    BY <1>3, <2>1, <2>3
<1>g. CASE CallFails(cl)
  <2>1. r.pc # "idle" /\ Become(cl, AfterFailure(r)) /\ faults < MaxFaults
    BY <1>g DEF CallFails
  <2>2. MaxFaults # 0
    BY <2>1 DEF AloneInv, ServerInv, TypeOK, ServiceTypeOK
  <2>3. AfterFailure(r) = IdleReq \/ AfterFailure(r).pc = "load"
    BY DEF AfterFailure
  <2>4. AfterFailure(r) = IdleReq \/ fits(AfterFailure(r))
    BY <2>2, <2>3 DEF fits, FitsAlone
  <2> QED
    BY <1>3, <2>1, <2>4
<1>h. ASSUME NEW c \in Consents, GetConsent(cl, c) \/ RevokeConsent(cl, c)
      PROVE  AloneInv'
  <2> DEFINE q == [pc |-> "revoke", c |-> c, ver |-> ver[c], saw |-> row[c]]
  <2>1. \/ Lapsed(c) /\ Become(cl, ToExpire(c, "other", row[c].status))
        \/ Become(cl, q)
    BY <1>h DEF GetConsent, RevokeConsent
  <2>2. fits(q)
    BY DEF fits, FitsAlone, FitsVerdict
  <2> HIDE DEF q
  <2> QED
    BY <1>3, <1>5, <2>1, <2>2
<1>i. ASSUME NEW c \in Consents, ValidateConsent(cl, c)
      PROVE  AloneInv'
  <2> DEFINE q == [pc |-> "load", c |-> c, local |-> row[c].status, at |-> now]
  <2>1. \/ Lapsed(c) /\ Become(cl, ToExpire(c, "validate", row[c].status))
        \/ (~Lapsed(c) \/ row[c].status = "EXPIRED") /\ Become(cl, q)
    BY <1>i DEF ValidateConsent
  <2>2. ~Lapsed(c) \/ row[c].status = "EXPIRED" => fits(q)
    BY DEF fits, FitsAlone, FitsVerdict, Lapsed
  <2> HIDE DEF q
  <2> QED
    BY <1>3, <1>5, <2>1, <2>2
<1>j. ASSUME NEW c \in Consents, NEW in \in UpdateInputs, UpdateConsent(cl, c, in)
      PROVE  AloneInv'
  <2> DEFINE q(s) == [pc |-> "update", c |-> c, ver |-> ver[c], saw |-> row[c], in |-> in,
                      new |-> s]
             p == [pc |-> "renew", c |-> c, ver |-> ver[c], saw |-> row[c], in |-> in]
  <2>1. \/ Become(cl, q(DeriveStatus(StatusesIn(in.list))))
        \/ Become(cl, p)
        \/ ~Renews(in, row[c]) /\ Become(cl, q(row[c].status))
    BY <1>j DEF UpdateConsent
  <2>2. fits(p)
    BY DEF fits, FitsAlone, FitsVerdict
  <2>3. ASSUME NEW s, s = "EXPIRED" => IsConsentExpired(EffectiveTime(in, row[c]), now)
        PROVE  fits(q(s))
    BY <2>3 DEF fits, FitsAlone, FitsVerdict
  <2>4. fits(q(DeriveStatus(StatusesIn(in.list))))
    <3>1. DeriveStatus(StatusesIn(in.list)) # "EXPIRED"
      BY DerivedIsLive DEF LiveStatuses
    <3> QED
      BY <2>3, <3>1
  <2>5. ~Renews(in, row[c]) => fits(q(row[c].status))
    BY <2>3 DEF Renews
  <2> HIDE DEF q, p
  <2> QED
    BY <1>3, <2>1, <2>2, <2>4, <2>5
<1>k. ASSUME NEW c \in Consents, NEW in \in AuthInputs, NEW a \in auths[c],
             UpdateAuthResource(cl, c, a, in)
      PROVE  AloneInv'
  <2> DEFINE q == [pc |-> "updauth", c |-> c, ver |-> ver[c], saw |-> a, in |-> in]
  <2>1. Become(cl, q)
    BY <1>k DEF UpdateAuthResource
  <2>2. fits(q)
    BY DEF fits, FitsAlone, FitsVerdict
  <2> HIDE DEF q
  <2> QED
    BY <1>3, <2>1, <2>2
<1> QED
  BY <1>a, <1>b, <1>c, <1>d, <1>e, <1>f, <1>g, <1>h, <1>i, <1>j, <1>k DEF ReadStep

\* An operation that acts on the present version is not marked.
LEMMA NotOvertaken ==
  ASSUME StoreTypeOK, NEW c \in Consents, NEW op, ActsOnVersion(c, ver[c], op)
  PROVE  stale' = stale
  BY DEF StoreTypeOK, ActsOnVersion

\* The invariant after a transaction of the request.
LEMMA AloneCommits ==
  ASSUME OneAtATime, AloneInv, ServerInv', UNCHANGED todo, NEW cl \in Clients,
         CommitExpire(cl) \/ CommitUpdate(cl) \/ CommitRevoke(cl) \/ CommitUpdateAuth(cl)
  PROVE  AloneInv'
<1> DEFINE r == req[cl]
           due(d) == row'[d].status = "EXPIRED" => IsConsentExpired(row'[d].exp, now)
<1>1. r.pc # "idle" /\ now' = now
  BY DEF CommitExpire, CommitUpdate, CommitRevoke, CommitUpdateAuth, Resume
<1>2. ServerInv /\ StoreTypeOK
  BY DEF AloneInv, ServerInv, TypeOK
<1>3. PICK c \in Consents : c = r.c
  BY <1>1, <1>2, CurrentRequest
<1>4. Exists(c) /\ r \in Requests /\ r # IdleReq
  BY <1>1, <1>2, <1>3, CurrentRequest DEF IdleReq
<1>5. /\ FitsAlone(r, row[c], ver[c], now)
      /\ MaxFaults = 0 => FitsVerdict(r, row[c])
      /\ Fits(r, row[c], ver[c], auths[c])
  BY <1>3, <1>4 DEF AloneInv, ServerInv, RequestsFit, FitsConsent
<1>6. row[c] \in Row
  BY <1>2 DEF StoreTypeOK
<1>7. ASSUME NEW q, Become(cl, q), \A d \in Consents \ {c} : Untouched(d), stale' = stale, due(c),
             q = IdleReq \/ q.pc = "updated"
      PROVE  AloneInv'
  <2>1. q.pc = "updated" => FitsAlone(q, row'[q.c], ver'[q.c], now) /\ FitsVerdict(q, row'[q.c])
    BY DEF FitsAlone, FitsVerdict
  <2> QED
    BY <1>1, <1>7, <2>1, AloneBecomes
<1> HIDE DEF r, due
<1>a. CASE CommitExpire(cl)
  <2> DEFINE q == [pc |-> "refetch", c |-> c, at |-> r.at,
                   local |-> IF row[c].status = "EXPIRED" THEN r.local ELSE "EXPIRED"]
  <2>1. /\ r.pc = "expire" /\ ExpireConsent(c)
        /\ Become(cl, q) \/ Become(cl, IdleReq)
    BY <1>3, <1>a DEF CommitExpire, Resume, r
  <2>2. Lapsed(c)
    BY <1>5, <2>1 DEF FitsAlone, Lapsed
  <2>3. \/ UNCHANGED store /\ row[c].status = "EXPIRED"
        \/ /\ \A d \in Consents \ {c} : Untouched(d)
           /\ stale' = stale
           /\ row'[c].status = "EXPIRED" /\ row'[c].exp = row[c].exp
    <3> DEFINE w == [row[c] EXCEPT !.status = "EXPIRED"]
               A == UpdateAllStatusByConsentID(auths[c], "SYS_EXPIRED")
               e == StatusAudit(row[c].status, "EXPIRED", "SYSTEM")
    <3>1. w.status = "EXPIRED" /\ w.exp = row[c].exp
      BY <1>6 DEF Row
    <3>2. \/ UNCHANGED store /\ row[c].status = "EXPIRED"
          \/ ExecuteTransaction(c, w, A, 0, e, RecordConsentHistory(c)) /\ stale' = stale
      BY <2>1 DEF ExpireConsent
    <3> HIDE DEF w, A, e
    <3> QED
      BY <1>2, <3>1, <3>2, Effect DEF Untouched
  <2>4. row'[c].status = "EXPIRED"
    BY <2>3 DEF store
  <2>5. FitsAlone(q, row'[q.c], ver'[q.c], now) /\ FitsVerdict(q, row'[q.c])
    BY <2>4 DEF FitsAlone, FitsVerdict
  <2> HIDE DEF q
  <2>6. \/ UNCHANGED store
        \/ /\ \A d \in Consents \ {c} : Untouched(d)
           /\ stale' = stale
           /\ row'[c].status = "EXPIRED" => IsConsentExpired(row'[c].exp, now)
    BY <2>2, <2>3 DEF Lapsed
  <2> QED
    BY <1>1, <2>1, <2>5, <2>6, AloneBecomes
<1>b. CASE CommitUpdate(cl)
  <2> DEFINE q == [pc |-> "updated", c |-> c]
             w == UpdatedRow(r, row[c])
  <2>1. /\ r.pc = "update" /\ ActsOnVersion(c, r.ver, "update") /\ Become(cl, q)
        /\ \E A, k, e, h : ExecuteTransaction(c, w, A, k, e, h)
    BY <1>3, <1>b DEF CommitUpdate, Resume, r
  <2>2. r.ver = ver[c] /\ r.saw = row[c]
    BY <1>5, <2>1 DEF FitsAlone, Fits
  <2>3. w.status = r.new /\ w.exp = EffectiveTime(r.in, r.saw)
    BY <2>2 DEF UpdatedRow
  <2>4. r.new = "EXPIRED" => IsConsentExpired(EffectiveTime(r.in, r.saw), now)
    BY <1>5, <2>1 DEF FitsAlone
  <2> HIDE DEF w
  <2>5. row'[c] = w
    BY <1>2, <2>1, Effect
  <2>6. stale' = stale
    BY <1>2, <2>1, <2>2, NotOvertaken
  <2>7. \A d \in Consents \ {c} : Untouched(d)
    BY <1>2, <1>3, <1>b, UpdateTrail DEF r
  <2>8. q.pc = "updated"
    OBVIOUS
  <2> HIDE DEF q
  <2> QED
    BY <1>7, <2>1, <2>3, <2>4, <2>5, <2>6, <2>7, <2>8 DEF due
<1>c. CASE CommitRevoke(cl)
  <2> DEFINE w == [row[c] EXCEPT !.status = "REVOKED"]
  <2>1. /\ r.pc = "revoke" /\ ActsOnVersion(c, r.ver, "revoke") /\ Become(cl, IdleReq)
        /\ \E A, k, e, h : ExecuteTransaction(c, w, A, k, e, h)
    BY <1>3, <1>c DEF CommitRevoke, Resume, r
  <2>2. w.status = "REVOKED"
    BY <1>6 DEF Row
  <2>3. stale' = stale
    BY <1>2, <1>5, <2>1, NotOvertaken DEF FitsAlone
  <2> HIDE DEF w
  <2>4. row'[c] = w
    BY <1>2, <2>1, Effect
  <2>5. \A d \in Consents \ {c} : Untouched(d)
    BY <1>2, <1>3, <1>c, RevokeEffect DEF Transaction, r
  <2> QED
    BY <1>7, <2>1, <2>2, <2>3, <2>4, <2>5 DEF due
<1>d. CASE CommitUpdateAuth(cl)
  <2> DEFINE s == StatusAfter(r)
             w == [row[c] EXCEPT !.status = s]
  <2>1. /\ r.pc = "updauth" /\ ActsOnVersion(c, r.ver, "updauth") /\ Become(cl, IdleReq)
        /\ AcceptsUpdate(r)
        /\ \E A, k, e, h : ExecuteTransaction(c, w, A, k, e, h)
    BY <1>3, <1>d DEF CommitUpdateAuth, Resume, r
  <2>2. w.status = s
    BY <1>6 DEF Row
  <2>3. s # "EXPIRED"
    <3>1. row[c].status \notin TerminalStatuses
      BY <1>3, <2>1 DEF AcceptsUpdate, EnsureAcceptsWrites
    <3>2. s = row[c].status \/ s \in LiveStatuses
      BY <1>3, DerivedIsLive DEF StatusAfter
    <3> QED
      BY <3>1, <3>2 DEF TerminalStatuses, LiveStatuses
  <2>4. stale' = stale
    BY <1>2, <1>5, <2>1, NotOvertaken DEF FitsAlone
  <2> HIDE DEF s, w
  <2>5. row'[c] = w
    BY <1>2, <2>1, Effect
  <2>6. \A d \in Consents \ {c} : Untouched(d)
    BY <1>2, <1>3, <1>d, UpdateAuthEffect DEF Transaction, r
  <2> QED
    BY <1>7, <2>1, <2>2, <2>3, <2>4, <2>5, <2>6 DEF due
<1> QED
  BY <1>a, <1>b, <1>c, <1>d

\* The invariant after the transactions that begin a request or are all of it.
LEMMA AloneCreates ==
  ASSUME OneAtATime, AloneInv, ServerInv', UNCHANGED todo, NEW cl \in Clients, NEW c \in Consents,
         \/ \E l \in AuthLists, t \in CreateTimes, ok \in BOOLEAN : CreateConsent(cl, c, l, t, ok)
         \/ \E in \in AuthInputs : CreateAuthResource(cl, c, in)
  PROVE  AloneInv'
<1>1. ServerInv /\ StoreTypeOK /\ row[c] \in Row
  BY DEF AloneInv, ServerInv, TypeOK, StoreTypeOK
<1>2. \A d \in Consents \ {c} : Untouched(d)
  BY <1>1, CreateEffect, CreateAuthEffect DEF Transaction
<1>3. ASSUME NEW l \in AuthLists, NEW t \in CreateTimes, NEW ok \in BOOLEAN,
             CreateConsent(cl, c, l, t, ok)
      PROVE  AloneInv'
  <2> DEFINE s == DeriveStatus(StatusesIn(l))
             w == [status |-> s, exp |-> t, approved |-> ok]
             q == [pc |-> "created", c |-> c, exp |-> t, local |-> s]
  <2>1. /\ Become(cl, q) /\ stale' = stale /\ now' = now
        /\ \E A, k, e, h : ExecuteTransaction(c, w, A, k, e, h)
    BY <1>3 DEF CreateConsent, Begin
  <2>2. s # "EXPIRED"
    BY DerivedIsLive DEF LiveStatuses
  <2>3. row'[c] = w
    <3> HIDE DEF w
    <3> QED
      BY <1>1, <2>1, Effect
  <2>4. row'[c].status # "EXPIRED"
    BY <2>2, <2>3
  <2>5. FitsAlone(q, row'[q.c], ver'[q.c], now) /\ FitsVerdict(q, row'[q.c])
    BY <2>3 DEF FitsAlone, FitsVerdict
  <2> HIDE DEF q, w
  <2> QED
    BY <1>2, <2>1, <2>4, <2>5, AloneBecomes
<1>4. ASSUME NEW in \in AuthInputs, CreateAuthResource(cl, c, in)
      PROVE  AloneInv'
  <2> DEFINE s == DeriveStatus(StatusesOf(auths[c] \union BuildAuths(<<in>>, nextAuth[c])))
             w == [row[c] EXCEPT !.status = s]
  <2>1. /\ req[cl] = IdleReq /\ req' = req /\ stale' = stale /\ now' = now
        /\ \E A, k, e, h : ExecuteTransaction(c, w, A, k, e, h)
    BY <1>4 DEF CreateAuthResource, Begin
  <2>2. s # "EXPIRED"
    BY DerivedIsLive DEF LiveStatuses
  <2>3. w.status # "EXPIRED"
    BY <1>1, <2>2 DEF Row
  <2> HIDE DEF s, w
  <2>4. row'[c] = w
    BY <1>1, <2>1, Effect
  <2>5. Become(cl, IdleReq)
    BY <2>1 DEF Become, AloneInv, ServerInv, TypeOK, ServiceTypeOK
  <2> QED
    BY <1>2, <2>1, <2>3, <2>4, <2>5, AloneBecomes
<1> QED
  BY <1>3, <1>4

\* The invariant of one request at a time holds throughout.
LEMMA AloneInvariance ==
  ASSUME OneAtATime
  PROVE  Spec => []AloneInv
<1>1. Init => AloneInv
  <2> SUFFICES ASSUME Init PROVE AloneInv
    OBVIOUS
  <2>1. ServerInv
    BY InvInit
  <2>2. todo = {} /\ \A c \in Consents : stale[c] = {} /\ row[c].status # "EXPIRED"
    BY DEF Init, JobInit, StoreInit, Absent
  <2>3. \A cl \in Clients : req[cl] = IdleReq
    BY DEF Init, ServiceInit
  <2> QED
    BY <2>1, <2>2, <2>3, IdleFitsAlone DEF AloneInv, ExpiredIsDue
<1>2. AloneInv /\ [Next]_vars => AloneInv'
  <2> SUFFICES ASSUME AloneInv, [Next]_vars PROVE AloneInv'
    OBVIOUS
  <2>1. ServerInv'
    BY InvStep DEF AloneInv
  <2> QED
    BY <2>1, StepCases, AloneOther, AloneReads, AloneCommits, AloneCreates
<1> QED
  BY <1>1, <1>2, PTL DEF Spec

\* With one request at a time and no scheduler, nothing acts on an overtaken
\* read, whichever calls fail and whenever the server crashes: the status of a
\* consent always agrees with its authorizations, which somebody takes part in,
\* and its audit trail is a chain.
THEOREM OneRequestAgrees ==
  ASSUME OneAtATime
  PROVE  Spec => []SerialAgreement
<1>1. AloneInv => SerialAgreement
  <2> SUFFICES ASSUME AloneInv, NEW c \in Consents
               PROVE  /\ stale[c] = {} /\ Agrees(c) /\ Chained(c)
                      /\ auths[c] # {} => Participates(StatusesOf(auths[c]))
    BY DEF SerialAgreement
  <2>1. stale[c] = {} /\ StatusAgrees /\ AuditChain /\ ParticipationRule
    BY DEF AloneInv, ServerInv
  <2> QED
    BY <2>1 DEF StatusAgrees, AuditChain, ParticipationRule
<1> QED
  BY <1>1, AloneInvariance, PTL

\* Then a consent is EXPIRED only when its expiration time has passed, again
\* whichever calls fail: an update that shortens or renews it included.
THEOREM OneRequestExpiresDue ==
  ASSUME OneAtATime
  PROVE  Spec => []ExpiredIsDue
<1>1. AloneInv => ExpiredIsDue
  BY DEF AloneInv
<1> QED
  BY <1>1, AloneInvariance, PTL

\* When nothing fails either, what ValidateConsent calls valid is ACTIVE, has its
\* elements approved and had not lapsed.  (With a failing call it may have.)
THEOREM OneRequestIsRight ==
  ASSUME OneAtATime, MaxFaults = 0
  PROVE  Spec => []ValidVerdict
<1>1. AloneInv => ValidVerdict
  BY DEF AloneInv, FitsVerdict, ValidVerdict
<1> QED
  BY <1>1, AloneInvariance, PTL
=============================================================================
