------------------------ MODULE AuthResourceService ------------------------
(***************************************************************************)
(* The authorization resource service: a caller adds one authorization to  *)
(* a consent, or updates one.  The first is a single transaction that      *)
(* reads under the lock of the consent's row.  The second reads the        *)
(* authorization before its transaction and writes it back in it.          *)
(***************************************************************************)
EXTENDS ConsentService

CONSTANT AuthInputs  \* the authorizations callers send to add or to update

ASSUME AuthAssumption == AuthInputs \subseteq AuthInput

-----------------------------------------------------------------------------
\* A variant: only a revocation closes a consent.
EnsureNotRevoked(c) == row[c].status # "REVOKED"

\* Neither a revoked nor an expired consent takes authorization writes.
EnsureAcceptsWrites(c) == row[c].status \notin TerminalStatuses

\* Variants: no entry, and the status taken as the previous one after the write.
NoAudit(c, s) == <<>>
DerivedAuditAfterWrite(c, s) ==
  IF s = row[c].status THEN <<>> ELSE StatusAudit(s, s, "NONE")

\* The audit entry of a derived status that differs from the present one.
DerivedAudit(c, s) ==
  IF s = row[c].status THEN <<>> ELSE StatusAudit(row[c].status, s, "NONE")

\* CreateAuthResource, in one transaction; a refusal rolls it back.
CreateAuthResource(cl, c, in) ==
  LET A == auths[c] \union BuildAuths(<<in>>, nextAuth[c])
      s == DeriveStatus(StatusesOf(A))
  IN
  /\ Begin(cl)
  /\ Exists(c)
  /\ EnsureAcceptsWrites(c)
  /\ AcceptableAuths(TypesOf(A), StatusesOf(A))
  /\ ExecuteTransaction(c, [row[c] EXCEPT !.status = s], A, 1,
                        DerivedAudit(c, s), RecordConsentHistory(c))
  /\ UNCHANGED <<stale, req>>

-----------------------------------------------------------------------------
\* UpdateAuthResource reads the authorization.
UpdateAuthResource(cl, c, a, in) ==
  /\ Begin(cl)
  /\ Become(cl, [pc |-> "updauth", c |-> c, ver |-> ver[c], saw |-> a, in |-> in])
  /\ UNCHANGED store

\* The authorization as the request means to leave it: what the body omits
\* comes from what was read.
Updated(r) ==
  [id     |-> r.saw.id,
   type   |-> IF r.in.type = "" THEN r.saw.type ELSE r.in.type,
   status |-> IF r.in.status = "" THEN r.saw.status ELSE r.in.status]

StatusChanged(r) == Updated(r).status # r.saw.status
TypeChanged(r)   == Updated(r).type # r.saw.type

\* The transaction goes through: the consent takes writes and, when the type
\* or the status changes, its resulting authorizations are acceptable.
AcceptsUpdate(r) ==
  LET A == UpdateAuthWithType(auths[r.c], Updated(r)) IN
  /\ EnsureAcceptsWrites(r.c)
  /\ StatusChanged(r) \/ TypeChanged(r) => AcceptableAuths(TypesOf(A), StatusesOf(A))

\* A variant that derives no status.
NoStatusAfter(r) == row[r.c].status

\* The status the transaction leaves: derived again if the request changes the
\* status of the authorization it read.
StatusAfter(r) ==
  IF StatusChanged(r)
  THEN DeriveStatus(StatusesOf(UpdateAuthWithType(auths[r.c], Updated(r))))
  ELSE row[r.c].status

\* The transaction of UpdateAuthResource.
CommitUpdateAuth(cl) ==
  LET r == req[cl] IN
  /\ Resume(cl, "updauth")
  /\ AcceptsUpdate(r)
  /\ ExecuteTransaction(r.c, [row[r.c] EXCEPT !.status = StatusAfter(r)],
                        UpdateAuth(auths[r.c], Updated(r)), 0,
                        DerivedAudit(r.c, StatusAfter(r)), RecordConsentHistory(r.c))
  /\ ActsOnVersion(r.c, r.ver, "updauth")
  /\ Become(cl, IdleReq)

\* The transaction of UpdateAuthResource is refused and rolled back.
RefuseUpdateAuth(cl) ==
  /\ Resume(cl, "updauth")
  /\ ~AcceptsUpdate(req[cl])
  /\ Become(cl, IdleReq)
  /\ UNCHANGED store

AuthServiceNext(cl) ==
  \/ \E c \in Consents, in \in AuthInputs :
       \/ CreateAuthResource(cl, c, in)
       \/ \E a \in auths[c] : UpdateAuthResource(cl, c, a, in)
  \/ CommitUpdateAuth(cl)
  \/ RefuseUpdateAuth(cl)
=============================================================================
