--------------------------- MODULE ConsentLifecycle ---------------------------
(***************************************************************************)
(* What the server promises of the status of a consent and of its audit    *)
(* trail to somebody who sees only these two: each change is one step that *)
(* moves the status and adds the entry that names who did it.  Entries     *)
(* start from a status the consent has had; those of the server itself     *)
(* start from the status it has.                                           *)
(***************************************************************************)
EXTENDS ConsentStatus

CONSTANT Consents

VARIABLES
  status,  \* of each consent, "NONE" before it is created
  trail    \* the audit entries of each consent, in the order they were written

lifecycle == <<status, trail>>

Init ==
  /\ status = [c \in Consents |-> "NONE"]
  /\ trail = [c \in Consents |-> <<>>]

\* The statuses the consent has had.
Had(c) == {trail[c][i].cur : i \in 1 .. Len(trail[c])}

\* The status of c becomes s; the entry of the change names b and starts at p.
Move(c, p, s, b) ==
  /\ status' = [status EXCEPT ![c] = s]
  /\ trail' = [trail EXCEPT ![c] = Append(@, [prev |-> p, cur |-> s, by |-> b])]

\* The owning group creates a consent.
Create(c) ==
  /\ status[c] = "NONE"
  /\ \E s \in LiveStatuses : Move(c, "NONE", s, "GROUP")

\* The owning group updates a consent, which may reopen a closed one.
Update(c) ==
  \E p \in Had(c), s \in LiveStatuses : p # s /\ Move(c, p, s, "GROUP")

\* Somebody revokes a consent that he saw in another status.
Revoke(c) ==
  \E p \in Had(c) \ {"REVOKED"} : Move(c, p, "REVOKED", "USER")

\* The server expires a consent.
Expire(c) ==
  /\ status[c] \in ConsentStatuses \ {"EXPIRED"}
  /\ Move(c, status[c], "EXPIRED", "SYSTEM")

\* An authorization changes, and the status of its live consent with it.
Authorize(c) ==
  /\ status[c] \in LiveStatuses
  /\ \E s \in LiveStatuses \ {status[c]} : Move(c, status[c], s, "NONE")

Next ==
  \E c \in Consents : Create(c) \/ Update(c) \/ Revoke(c) \/ Expire(c) \/ Authorize(c)

Spec == Init /\ [][Next]_lifecycle
=============================================================================
