-------------------------- MODULE StatusEvaluation --------------------------
(***************************************************************************)
(* The loops behind the rules of ConsentStatus: a list of authorizations,  *)
(* of a request body or of the table, is first validated and then its      *)
(* consent status is evaluated.  The other modules use what the loops      *)
(* compute, AcceptableList and DeriveStatus; here they run, one iteration  *)
(* a step, and are shown to compute just that, whatever the order and the  *)
(* length of the list.                                                     *)
(***************************************************************************)
EXTENDS ConsentStatus

CONSTANT Lists  \* the lists to evaluate

\* An authorization of a request, where both may be omitted, or of the table.
Listed == [type : AuthTypes \union {""}, status : AuthStatuses \union {""}]

ASSUME ListsAssumption == Lists \subseteq Seq(Listed)

VARIABLES
  list,    \* the list under evaluation
  pc,      \* the loop that runs
  i,       \* its position
  raised,  \* the flags raised: hasDelegate, hasRejected, ~allApproved, ...
  kept,    \* the positions of participatingStatuses
  answer   \* the consent status, or "refused"

vars == <<list, pc, i, raised, kept, answer>>

Flags   == {"delegate", "delegate_subject", "rejected", "created", "not_approved"}
Loops   == {"participation", "delegation", "pairing", "filter", "evaluate"}
Answers == LiveStatuses \union {"refused", "none"}

Init ==
  /\ list \in Lists
  /\ pc = IF list = <<>> THEN "filter" ELSE "participation"
  /\ i = 1
  /\ raised = {}
  /\ kept = {}
  /\ answer = "none"

-----------------------------------------------------------------------------
\* The next iteration, the next loop, and the end.
Continue == i' = i + 1 /\ UNCHANGED <<list, pc, answer>>
Goto(l)  == pc' = l /\ i' = 1 /\ UNCHANGED <<list, raised, kept, answer>>
Return(a) == pc' = "done" /\ answer' = a /\ UNCHANGED <<list, i, raised, kept>>

More(l) == pc = l /\ i <= Len(list)
Over(l) == pc = l /\ i > Len(list)

\* validateParticipation.
Participation ==
  \/ /\ More("participation")
     /\ IF list[i].status # "RECORDED"
        THEN Goto("delegation")
        ELSE Continue /\ UNCHANGED <<raised, kept>>
  \/ Over("participation") /\ Return("refused")

\* The first loop of validateDelegationTypes: is this a delegated consent?
Delegation ==
  \/ /\ More("delegation")
     /\ IF StoredType(list[i].type) \in DelegationTypes
        THEN Goto("pairing")
        ELSE Continue /\ UNCHANGED <<raised, kept>>
  \/ Over("delegation") /\ Goto("filter")

\* The second one, of a delegated consent.
Pairing ==
  \/ /\ More("pairing")
     /\ IF StoredType(list[i].type) \in DelegationTypes
        THEN /\ raised' = raised \union {StoredType(list[i].type)}
             /\ Continue
             /\ UNCHANGED kept
        ELSE Return("refused")
  \/ /\ Over("pairing")
     /\ IF DelegationTypes \subseteq raised THEN Goto("filter") ELSE Return("refused")

\* A variant that takes the server's own marks for decisions.
DecisionsAndMarks == {"APPROVED", "REJECTED", "CREATED", "CUSTOM", ""} \union SystemStatuses

\* The statuses the filter keeps: those that record a decision.
Decisions == (AuthStatuses \union {""}) \ ({"RECORDED"} \union SystemStatuses)

\* The first loop of EvaluateConsentStatusFromAuthStatuses.
Filter ==
  \/ /\ More("filter")
     /\ kept' = IF list[i].status \in Decisions THEN kept \union {i} ELSE kept
     /\ Continue
     /\ UNCHANGED raised
  \/ /\ Over("filter")
     /\ IF kept = {} THEN Return("CREATED") ELSE Goto("evaluate")

\* The flags that a participating status raises.
FlagsOf(s) ==
  CASE s \in {"APPROVED", ""} -> {}
    [] s = "REJECTED"         -> {"rejected", "not_approved"}
    [] OTHER                  -> {"created", "not_approved"}

\* The status by priority: rejected, created, approved.
ByPriority ==
  CASE "rejected" \in raised                             -> "REJECTED"
    [] {"rejected", "created"} \intersect raised = {}
         /\ "not_approved" \notin raised                 -> "ACTIVE"
    [] OTHER                                             -> "CREATED"

\* The second loop, over what the filter kept.
Evaluate ==
  \/ /\ More("evaluate")
     /\ raised' = IF i \in kept THEN raised \union FlagsOf(list[i].status) ELSE raised
     /\ Continue
     /\ UNCHANGED kept
  \/ Over("evaluate") /\ Return(ByPriority)

Done == pc = "done" /\ UNCHANGED vars

Next == Participation \/ Delegation \/ Pairing \/ Filter \/ Evaluate \/ Done

Spec == Init /\ [][Next]_vars

-----------------------------------------------------------------------------
\* The loops answer what the rules say of the whole list: they refuse a list
\* that is not acceptable and derive the status of any other.
AnswerIsDerived ==
  pc = "done" =>
    answer = IF AcceptableList(list) THEN DeriveStatus(StatusesIn(list)) ELSE "refused"
=============================================================================
