--------------------------- MODULE ConsentStatus ---------------------------
(***************************************************************************)
(* The statuses of a consent and of its authorizations, and the pure rules *)
(* of the validator package: how the status of a consent follows from its  *)
(* authorizations, which sets of authorizations a consent may hold, and    *)
(* when a consent has expired.  The names are those of the default         *)
(* configuration; letter case, which the code ignores, is abstracted.      *)
(***************************************************************************)
EXTENDS Integers, Sequences

LiveStatuses     == {"CREATED", "ACTIVE", "REJECTED"}
TerminalStatuses == {"REVOKED", "EXPIRED"}
ConsentStatuses  == LiveStatuses \union TerminalStatuses

\* The server's own marks, which a caller may not set.
SystemStatuses == {"SYS_EXPIRED", "SYS_REVOKED"}
\* "CUSTOM" stands for every status that is not in the configured mappings.
CallerStatuses == {"APPROVED", "REJECTED", "CREATED", "RECORDED", "CUSTOM"}
AuthStatuses   == CallerStatuses \union SystemStatuses

DelegationTypes == {"delegate", "delegate_subject"}
\* "agent" stands for every custom type.
AuthTypes       == DelegationTypes \union {"primary", "agent"}

\* A caller may omit (leave empty) the type and the status of an authorization.
AuthInput == [type : AuthTypes \union {""}, status : CallerStatuses \union {""}]

\* The values a row gets when the caller omits them.
StatusAsSent(s) == s  \* a variant: no default for the status
StoredType(t)   == IF t = "" THEN "primary" ELSE t
StoredStatus(s) == IF s = "" THEN "APPROVED" ELSE s

-----------------------------------------------------------------------------
\* Statuses that record a participant's decision.
Participating(S) == S \ ({"RECORDED"} \union SystemStatuses)

\* The status of a consent whose authorizations have the statuses S.
DeriveStatus(S) ==
  LET P == Participating(S)
  IN CASE "REJECTED" \in P -> "REJECTED"
       [] P # {} /\ P \subseteq {"APPROVED", ""} -> "ACTIVE"
       [] OTHER -> "CREATED"

-----------------------------------------------------------------------------
\* At least one authorization has a status other than RECORDED.
Participates(S) == \E s \in S : s # "RECORDED"

\* A delegated consent has delegates and subjects and nobody else.
WellDelegated(T) ==
  T \intersect DelegationTypes # {} => T = DelegationTypes

\* Variants that forget one of the two rules.
AcceptableTypesOnly(T, S)    == S # {} => WellDelegated(T)
AcceptableStatusesOnly(T, S) == S # {} => Participates(S)

\* The authorizations with types T and statuses S may form a consent.
AcceptableAuths(T, S) == S # {} => Participates(S) /\ WellDelegated(T)

TypesIn(l)    == {StoredType(l[i].type) : i \in DOMAIN l}
StatusesIn(l) == {l[i].status : i \in DOMAIN l}

\* ValidateAuthTypeConstraints on the authorizations of a list.
AcceptableList(l) == AcceptableAuths(TypesIn(l), StatusesIn(l))

-----------------------------------------------------------------------------
\* An expiration time is a number of time units, 0 for "never", or absent.
NoTime == -1
Times  == Nat \union {NoTime}

\* IsConsentExpired at time t, behind the callers' test for an absent time.
IsConsentExpired(exp, t) == exp # NoTime /\ exp # 0 /\ t > exp
=============================================================================
