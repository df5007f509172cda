---------------------------- MODULE ConsentContent ----------------------------
(***************************************************************************)
(* What one consent holds - its row, authorizations, purposes and          *)
(* approvals of elements - with the times of its audit trail and of its    *)
(* history, which is on, and the transactions that write them.  Each       *)
(* transaction has the lock of the consent's row from its start, or from   *)
(* its first write, and is one step (see AtomicTransactions).  The consent *)
(* has no expiration time: expiry is in ConsentServer.                     *)
(*                                                                         *)
(* ver, late and sent are history variables: the transactions committed,   *)
(* the operations among them that had been overtaken since they read the   *)
(* consent, and what the callers last sent for each part.                  *)
(***************************************************************************)
EXTENDS ConsentStatus

CONSTANTS
  Fields,      \* the columns of CONSENT that an update may set: type, frequency, ...
  Values,      \* their values
  Versions,    \* the versions of purposes in the catalog
  Elements,    \* the versions of elements
  ElementsOf,  \* the elements of each version of a purpose
  MandatoryOf  \* the mandatory ones of them

ASSUME ContentAssumption ==
  /\ ElementsOf \in [Versions -> SUBSET Elements]
  /\ MandatoryOf \in [Versions -> SUBSET Elements]
  /\ \A v \in Versions : MandatoryOf[v] \subseteq ElementsOf[v]

VARIABLES
  now,        \* the server's clock
  row,        \* CONSENT
  auths,      \* CONSENT_AUTH_RESOURCE: the statuses of the authorizations
  links,      \* PURPOSE_CONSENT_MAPPING
  approvals,  \* CONSENT_ELEMENT_APPROVAL
  audits,     \* CONSENT_STATUS_AUDIT, in the order it was written
  snaps,      \* CONSENT_HISTORY, in the order it was written
  ver, late, sent

content == <<row, auths, links, approvals, audits, snaps, ver, late, sent>>

Row      == [status : ConsentStatuses, terms : [Fields -> Values], updated : Nat]
Approval == [v : Versions, e : Elements, approved : BOOLEAN]
Entry    == [prev : ConsentStatuses \union {"NONE"}, cur : ConsentStatuses, at : Nat]
Content  == [row : Row, auths : SUBSET AuthStatuses, links : SUBSET Versions,
             approvals : SUBSET Approval]

\* What a caller asks of a version of a purpose: the elements he approves.
Ask == [v : Versions, yes : SUBSET Elements]

\* The body of an update: the fields it has, and whether it has authorizations
\* (replace) and purposes (relink).  That of a creation has everything.
Body == [terms : UNION {[F -> Values] : F \in SUBSET Fields},
         replace : BOOLEAN, auths : SUBSET CallerStatuses,
         relink : BOOLEAN, asks : SUBSET Ask]

\* The purposes of a body name elements of their versions and no version twice,
\* and its authorizations have a participant.
Acceptable(in) ==
  /\ \A p \in in.asks : p.yes \subseteq ElementsOf[p.v]
  /\ \A p, q \in in.asks : p.v = q.v => p = q
  /\ in.auths # {} => Participates(in.auths)

-----------------------------------------------------------------------------
\* A variant: rows for the elements that the caller names only.
ResolveAsked(asks) ==
  UNION {{[v |-> p.v, e |-> e, approved |-> TRUE] : e \in p.yes} : p \in asks}

\* The approval rows for the purposes of a body: one for every element of each
\* version, not approved unless the caller approves it.
Resolve(asks) ==
  UNION {{[v |-> p.v, e |-> e, approved |-> e \in p.yes] : e \in ElementsOf[p.v]} : p \in asks}

VersionsIn(asks) == {p.v : p \in asks}

\* The fields as an update leaves them: those its body omits as it read them.
Merge(in, saw) ==
  [f \in Fields |-> IF f \in DOMAIN in.terms THEN in.terms[f] ELSE saw.terms[f]]

Present == [row |-> row, auths |-> auths, links |-> links, approvals |-> approvals]

\* A variant: the time at which the request began.
AskedTime(at) == at

\* The time of a snapshot is taken when it is, in the transaction.
SnapshotTime(at) == now

\* A variant that takes no snapshot when the request was overtaken.
SnapshotUnlessLate(op, v, at) ==
  /\ snaps' = IF v = ver THEN Append(snaps, [at |-> SnapshotTime(at), content |-> Present])
                         ELSE snaps
  /\ ver' = ver + 1
  /\ late' = IF v = ver THEN late ELSE late \union {op}
  /\ UNCHANGED now

\* A transaction by op of a request that read the consent at version v and took
\* the time at: the snapshot before its writes.
RecordConsentHistory(op, v, at) ==
  /\ snaps' = Append(snaps, [at |-> SnapshotTime(at), content |-> Present])
  /\ ver' = ver + 1
  /\ late' = IF v = ver THEN late ELSE late \union {op}
  /\ UNCHANGED now

\* Variants: no entry, and one with the statuses the other way round.
NoEntry(p, s, at) == audits
SwappedEntry(p, s, at) == Append(audits, [prev |-> s, cur |-> p, at |-> at])

\* An audit entry for a status that moves from p to s.
StatusAudit(p, s, at) == Append(audits, [prev |-> p, cur |-> s, at |-> at])

\* A variant that leaves old approvals.
KeepApprovals(asks) == {a \in approvals : a.v \notin VersionsIn(asks)} \union Resolve(asks)

\* The approvals after an update whose body has purposes.
ReplaceApprovals(asks) == Resolve(asks)

\* CreateConsent at time 1, with which the model begins.
CreateConsent(in) ==
  LET s == DeriveStatus(in.auths) IN
  /\ now = 1
  /\ row = [status |-> s, terms |-> in.terms, updated |-> 1]
  /\ auths = in.auths
  /\ links = VersionsIn(in.asks)
  /\ approvals = Resolve(in.asks)
  /\ audits = <<[prev |-> "NONE", cur |-> s, at |-> 1]>>
  /\ snaps = <<>>
  /\ ver = 0
  /\ late = {}
  /\ sent = [terms |-> in.terms, asks |-> in.asks]

\* The transaction of UpdateConsent with body in, for a caller that read saw at
\* version v, and then took the time at and decided on the status new.  UPDATE
\* CONSENT writes all the fields, and the status only when it changes.
UpdateConsent(in, saw, v, at, new) ==
  /\ RecordConsentHistory("update", v, at)
  /\ row' = [status  |-> IF new # saw.status THEN new ELSE row.status,
             terms   |-> Merge(in, saw),
             updated |-> at]
  /\ audits' = IF new # saw.status THEN StatusAudit(saw.status, new, at) ELSE audits
  /\ auths' = IF in.replace THEN in.auths ELSE auths
  /\ links' = IF in.relink THEN VersionsIn(in.asks) ELSE links
  /\ approvals' = IF in.relink THEN ReplaceApprovals(in.asks) ELSE approvals
  /\ sent' = [terms |-> [f \in Fields |-> IF f \in DOMAIN in.terms THEN in.terms[f]
                                                                  ELSE sent.terms[f]],
              asks  |-> IF in.relink THEN in.asks ELSE sent.asks]

\* The transaction of RevokeConsent.
RevokeConsent(saw, v, at) ==
  /\ RecordConsentHistory("revoke", v, at)
  /\ row' = [row EXCEPT !.status = "REVOKED", !.updated = at]
  /\ audits' = StatusAudit(saw.status, "REVOKED", at)
  /\ auths' = IF auths = {} THEN {} ELSE {"SYS_REVOKED"}
  /\ UNCHANGED <<links, approvals, sent>>

\* CreateAuthResource adds an authorization of status s, reads everything in its
\* transaction, and takes the time of a change of status there.
CreateAuthResource(s) ==
  LET d == DeriveStatus(auths \union {s}) IN
  /\ row.status \notin TerminalStatuses
  /\ Participates(auths \union {s})
  /\ RecordConsentHistory("createauth", ver, now)
  /\ auths' = auths \union {s}
  /\ row' = IF d # row.status THEN [row EXCEPT !.status = d, !.updated = now] ELSE row
  /\ audits' = IF d # row.status THEN StatusAudit(row.status, d, now) ELSE audits
  /\ UNCHANGED <<links, approvals, sent>>

-----------------------------------------------------------------------------
ContentTypeOK ==
  /\ now \in Nat
  /\ Present \in Content
  /\ audits \in Seq(Entry)
  /\ snaps \in Seq([at : Nat, content : Content])
  /\ ver = Len(snaps)
  /\ late \in SUBSET {"update", "revoke", "createauth"}
  /\ sent \in [terms : [Fields -> Values], asks : SUBSET Ask]

\* The consent as it was after i transactions, from its history.
ContentAt(i) == IF i = ver THEN Present ELSE snaps[i + 1].content
=============================================================================
