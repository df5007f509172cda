---------------------------- MODULE ConsentStore ----------------------------
(***************************************************************************)
(* The database tables of a consent and the transactions that write them.  *)
(* Each transaction of the server locks the row of one consent first, by   *)
(* SELECT ... FOR UPDATE or by writing it (SQLite: a transaction that read *)
(* an old snapshot fails when it writes), and commits or rolls back as a   *)
(* whole: a committed transaction is one step of the model.                *)
(*                                                                         *)
(* ver and stale are history variables.  ver[c] counts the transactions    *)
(* committed on c; stale[c] is the set of operations that committed on c a *)
(* decision taken from a read that another transaction had overtaken.      *)
(***************************************************************************)
EXTENDS ConsentStatus

CONSTANTS
  Consents,         \* the consents
  HistoryEnabled,   \* consent.history.enabled of the configuration
  MaxTime           \* bound: the last value of the clock

ASSUME StoreAssumption ==
  /\ HistoryEnabled \in BOOLEAN
  /\ MaxTime \in Nat

VARIABLES
  now,       \* the server's clock
  row,       \* CONSENT: status, expiration time, all mandatory elements approved
  auths,     \* CONSENT_AUTH_RESOURCE: the authorizations of each consent
  nextAuth,  \* the next unused authorization id of each consent
  audit,     \* CONSENT_STATUS_AUDIT
  history,   \* CONSENT_HISTORY
  ver,
  stale

store == <<row, auths, nextAuth, audit, history, ver, stale>>

\* "NONE" is the status of a consent that does not exist yet.
RowStatuses == ConsentStatuses \union {"NONE"}

Row      == [status : RowStatuses, exp : Times, approved : BOOLEAN]
Auth     == [id : Nat, type : AuthTypes, status : AuthStatuses]
Entry    == [prev : RowStatuses, cur : ConsentStatuses,
             by : {"GROUP", "USER", "SYSTEM", "NONE"}]
Snapshot == [row : Row, auths : SUBSET Auth]
StaleOps == {"update", "revoke", "updauth"}

\* The row of a consent that does not exist yet.
Absent    == [status |-> "NONE", exp |-> NoTime, approved |-> FALSE]
Exists(c) == row[c].status # "NONE"

StatusesOf(A) == {a.status : a \in A}
TypesOf(A)    == {a.type : a \in A}

\* IsConsentExpired for the row of c, now.
Lapsed(c) == IsConsentExpired(row[c].exp, now)

-----------------------------------------------------------------------------
\* A variant that leaves the authorizations that record no decision alone.
MarkParticipating(A, s) ==
  {IF a.status = "RECORDED" THEN a ELSE [a EXCEPT !.status = s] : a \in A}

\* UPDATE ... SET AUTH_STATUS: every authorization of the consent.
UpdateAllStatusByConsentID(A, s) == {[a EXCEPT !.status = s] : a \in A}

\* The write of the type the code leaves out.
UpdateAuthWithType(A, u) == {IF a.id = u.id THEN u ELSE a : a \in A}

\* UPDATE of one authorization row; it does not write AUTH_TYPE, and when the
\* row is gone it changes nothing and reports no error.
UpdateAuth(A, u) ==
  {IF a.id = u.id THEN [a EXCEPT !.status = u.status] ELSE a : a \in A}

\* The rows for a list l of authorization inputs, with ids from n on.
BuildAuths(l, n) ==
  {[id |-> n + i, type |-> StoredType(l[i].type), status |-> StoredStatus(l[i].status)]
     : i \in DOMAIN l}

-----------------------------------------------------------------------------
\* The audit entry of an operation by b that moves the status from p to s.
StatusAudit(p, s, b) == <<[prev |-> p, cur |-> s, by |-> b]>>

\* A variant that takes the snapshot after the writes.
SnapshotAfter(c) ==
  IF HistoryEnabled THEN <<[row |-> row'[c], auths |-> auths'[c]]>> ELSE <<>>

\* The snapshot a transaction on c records before it writes.
RecordConsentHistory(c) ==
  IF HistoryEnabled THEN <<[row |-> row[c], auths |-> auths[c]]>> ELSE <<>>

\* The transaction on c that leaves row r, authorizations A of which k are new,
\* and adds the audit entries e and the snapshots h.
ExecuteTransaction(c, r, A, k, e, h) ==
  /\ row' = [row EXCEPT ![c] = r]
  /\ auths' = [auths EXCEPT ![c] = A]
  /\ nextAuth' = [nextAuth EXCEPT ![c] = @ + k]
  /\ audit' = [audit EXCEPT ![c] = @ \o e]
  /\ history' = [history EXCEPT ![c] = @ \o h]
  /\ ver' = [ver EXCEPT ![c] = @ + 1]

\* The operation op commits on c a decision taken at version v.
ActsOnVersion(c, v, op) ==
  stale' = [stale EXCEPT ![c] = IF v = ver[c] THEN @ ELSE @ \union {op}]

-----------------------------------------------------------------------------
StoreInit ==
  /\ now = 1
  /\ row = [c \in Consents |-> Absent]
  /\ auths = [c \in Consents |-> {}]
  /\ nextAuth = [c \in Consents |-> 0]
  /\ audit = [c \in Consents |-> <<>>]
  /\ history = [c \in Consents |-> <<>>]
  /\ ver = [c \in Consents |-> 0]
  /\ stale = [c \in Consents |-> {}]

StoreTypeOK ==
  /\ now \in Nat
  /\ row \in [Consents -> Row]
  /\ auths \in [Consents -> SUBSET Auth]
  /\ nextAuth \in [Consents -> Nat]
  /\ audit \in [Consents -> Seq(Entry)]
  /\ history \in [Consents -> Seq(Snapshot)]
  /\ ver \in [Consents -> Nat]
  /\ stale \in [Consents -> SUBSET StaleOps]

\* Time passes.
Tick ==
  /\ now < MaxTime
  /\ now' = now + 1
  /\ UNCHANGED store
=============================================================================
