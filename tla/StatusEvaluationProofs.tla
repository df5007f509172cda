----------------------- MODULE StatusEvaluationProofs -----------------------
(***************************************************************************)
(* The loops of the validator compute the rules of ConsentStatus for lists *)
(* of every length.  Each loop has an invariant that says what the part of *)
(* the list it has passed amounts to; at the end of the loop that part is  *)
(* the whole list.                                                         *)
(***************************************************************************)
EXTENDS StatusEvaluation, TLAPS

\* The positions a loop has passed.
Passed == 1 .. i - 1

TypeInv ==
  /\ list \in Seq(Listed)
  /\ pc \in Loops \union {"done"}
  /\ i \in 1 .. Len(list) + 1
  /\ raised \subseteq Flags

InParticipation ==
  pc = "participation" =>
    /\ list # <<>>
    /\ raised = {} /\ kept = {}
    /\ \A j \in Passed : list[j].status = "RECORDED"

InDelegation ==
  pc = "delegation" =>
    /\ raised = {} /\ kept = {}
    /\ Participates(StatusesIn(list))
    /\ \A j \in Passed : StoredType(list[j].type) \notin DelegationTypes

InPairing ==
  pc = "pairing" =>
    /\ kept = {}
    /\ Participates(StatusesIn(list))
    /\ \E j \in 1 .. Len(list) : StoredType(list[j].type) \in DelegationTypes
    /\ \A j \in Passed : StoredType(list[j].type) \in DelegationTypes
    /\ raised = {StoredType(list[j].type) : j \in Passed}

InFilter ==
  pc = "filter" =>
    /\ AcceptableList(list)
    /\ raised \subseteq DelegationTypes
    /\ kept = {j \in Passed : list[j].status \in Decisions}

InEvaluate ==
  pc = "evaluate" =>
    /\ AcceptableList(list)
    /\ kept = {j \in 1 .. Len(list) : list[j].status \in Decisions}
    /\ kept # {}
    /\ "rejected" \in raised <=> \E j \in Passed \intersect kept : list[j].status = "REJECTED"
    /\ "created" \in raised <=>
         \E j \in Passed \intersect kept : list[j].status \in {"CREATED", "CUSTOM"}
    /\ "not_approved" \in raised <=> {"rejected", "created"} \intersect raised # {}

LoopInv ==
  /\ TypeInv
  /\ InParticipation
  /\ InDelegation
  /\ InPairing
  /\ InFilter
  /\ InEvaluate
  /\ AnswerIsDerived

-----------------------------------------------------------------------------
\* The invariant holds when a list is handed in: an empty one is acceptable.
LEMMA InitInv == Init => LoopInv
<1> SUFFICES ASSUME Init PROVE LoopInv
  OBVIOUS
<1> USE DEF Init
<1>1. TypeInv
  BY ListsAssumption DEF TypeInv, Loops, Flags
<1>2. list = <<>> => AcceptableList(list)
  BY DEF AcceptableList, AcceptableAuths, StatusesIn
<1>3. QED
  BY <1>1, <1>2 DEF LoopInv, InParticipation, InDelegation, InPairing, InFilter, InEvaluate,
    AnswerIsDerived, Passed

\* The statuses of a list are those at its positions, and so are its types.
LEMMA ListFacts ==
  ASSUME TypeInv
  PROVE  /\ DOMAIN list = 1 .. Len(list)
         /\ Len(list) \in Nat
         /\ \A j \in 1 .. Len(list) :
              /\ list[j] \in Listed
              /\ list[j].type \in AuthTypes \union {""}
              /\ list[j].status \in AuthStatuses \union {""}
<1>1. DOMAIN list = 1 .. Len(list) /\ Len(list) \in Nat
  BY DEF TypeInv
<1>2. \A j \in 1 .. Len(list) : list[j] \in Listed
  BY DEF TypeInv
<1>3. QED
  BY <1>1, <1>2 DEF Listed

\* The participation loop ends on the first status that is not RECORDED.
LEMMA ParticipationInv == LoopInv /\ Participation => LoopInv'
<1> SUFFICES ASSUME LoopInv, Participation PROVE LoopInv'
  OBVIOUS
<1> USE DEF LoopInv
<1>0. /\ DOMAIN list = 1 .. Len(list)
      /\ Len(list) \in Nat
  BY ListFacts
<1>1. CASE More("participation") /\ list[i].status # "RECORDED" /\ Goto("delegation")
  <2>1. Participates(StatusesIn(list))
    <3>1. i \in DOMAIN list
      BY <1>0, <1>1 DEF More, TypeInv
    <3>2. list[i].status \in StatusesIn(list)
      BY <3>1 DEF StatusesIn
    <3>3. QED
      BY <1>1, <3>2 DEF Participates
  <2>2. TypeInv'
    BY <1>1 DEF Goto, TypeInv, Loops
  <2>3. InDelegation'
    BY <1>1, <2>1 DEF More, Goto, InParticipation, InDelegation, Passed, Participates, StatusesIn
  <2>4. QED
    BY <1>1, <2>2, <2>3 DEF Goto, InParticipation, InPairing, InFilter, InEvaluate, AnswerIsDerived
<1>2. CASE More("participation") /\ list[i].status = "RECORDED" /\ Continue
           /\ UNCHANGED <<raised, kept>>
  <2>1. TypeInv'
    BY <1>2 DEF More, Continue, TypeInv
  <2>2. InParticipation'
    BY <1>2 DEF More, Continue, InParticipation, Passed, TypeInv
  <2>3. QED
    BY <1>2, <2>1, <2>2 DEF More, Continue, InDelegation, InPairing, InFilter, InEvaluate,
      AnswerIsDerived
<1>3. CASE Over("participation") /\ Return("refused")
  <2>1. i = Len(list) + 1
    BY <1>3 DEF Over, TypeInv
  <2>2. ~Participates(StatusesIn(list)) /\ StatusesIn(list) # {}
    BY <1>3, <2>1 DEF Over, InParticipation, Passed, Participates, StatusesIn, TypeInv
  <2>3. ~AcceptableList(list)
    BY <2>2 DEF AcceptableList, AcceptableAuths
  <2>4. TypeInv'
    BY <1>3 DEF Return, TypeInv
  <2>5. QED
    BY <1>3, <2>3, <2>4 DEF Return, InParticipation, InDelegation, InPairing, InFilter,
      InEvaluate, AnswerIsDerived, StatusesIn, AcceptableList, TypesIn
<1>4. QED
  BY <1>1, <1>2, <1>3 DEF Participation

\* The loop that looks for a delegation type.
LEMMA DelegationInv == LoopInv /\ Delegation => LoopInv'
<1> SUFFICES ASSUME LoopInv, Delegation PROVE LoopInv'
  OBVIOUS
<1> USE DEF LoopInv
<1>0. /\ DOMAIN list = 1 .. Len(list)
      /\ Len(list) \in Nat
  BY ListFacts
<1>1. CASE More("delegation") /\ StoredType(list[i].type) \in DelegationTypes /\ Goto("pairing")
  <2>1. \E j \in 1 .. Len(list) : StoredType(list[j].type) \in DelegationTypes
    BY <1>1 DEF More, TypeInv
  <2>2. TypeInv'
    BY <1>1 DEF Goto, TypeInv, Loops
  <2>3. InPairing'
    BY <1>1, <2>1 DEF More, Goto, InDelegation, InPairing, Passed, StatusesIn
  <2>4. QED
    BY <1>1, <2>2, <2>3 DEF Goto, InParticipation, InDelegation, InFilter, InEvaluate,
      AnswerIsDerived
<1>2. CASE More("delegation") /\ StoredType(list[i].type) \notin DelegationTypes /\ Continue
           /\ UNCHANGED <<raised, kept>>
  <2>1. TypeInv'
    BY <1>2 DEF More, Continue, TypeInv
  <2>2. InDelegation'
    BY <1>2 DEF More, Continue, InDelegation, Passed, TypeInv, StatusesIn
  <2>3. QED
    BY <1>2, <2>1, <2>2 DEF More, Continue, InParticipation, InPairing, InFilter, InEvaluate,
      AnswerIsDerived
<1>3. CASE Over("delegation") /\ Goto("filter")
  <2>1. i = Len(list) + 1
    BY <1>3 DEF Over, TypeInv
  <2>2. WellDelegated(TypesIn(list))
    BY <1>3, <2>1 DEF Over, InDelegation, Passed, WellDelegated, TypesIn
  <2>3. AcceptableList(list)
    BY <1>3, <2>2 DEF Over, InDelegation, AcceptableList, AcceptableAuths
  <2>4. InFilter'
    BY <1>3, <2>3 DEF Over, Goto, InFilter, InDelegation, Passed, AcceptableList, TypesIn, StatusesIn
  <2>5. TypeInv'
    BY <1>3 DEF Goto, TypeInv, Loops
  <2>6. QED
    BY <1>3, <2>4, <2>5 DEF Goto, InParticipation, InDelegation, InPairing, InEvaluate,
      AnswerIsDerived
<1>4. QED
  BY <1>1, <1>2, <1>3 DEF Delegation

\* The loop that collects the delegation types.
LEMMA PairingInv == LoopInv /\ Pairing => LoopInv'
<1> SUFFICES ASSUME LoopInv, Pairing PROVE LoopInv'
  OBVIOUS
<1> USE DEF LoopInv
<1>0. /\ DOMAIN list = 1 .. Len(list)
      /\ Len(list) \in Nat
  BY ListFacts
<1>1. CASE /\ More("pairing")
           /\ StoredType(list[i].type) \in DelegationTypes
           /\ raised' = raised \union {StoredType(list[i].type)}
           /\ Continue
           /\ UNCHANGED kept
  <2>1. TypeInv'
    <3>1. raised' \subseteq Flags
      BY <1>1 DEF TypeInv, DelegationTypes, Flags
    <3>2. i' \in 1 .. Len(list') + 1
      BY <1>0, <1>1 DEF More, Continue, TypeInv
    <3>3. QED
      BY <1>1, <3>1, <3>2 DEF Continue, TypeInv
  <2>2. Passed' = Passed \union {i}
    BY <1>1 DEF More, Continue, Passed, TypeInv
  <2>3. InPairing'
    BY <1>1, <2>2 DEF More, Continue, InPairing, StatusesIn, Participates
  <2>4. QED
    BY <1>1, <2>1, <2>3 DEF More, Continue, InParticipation, InDelegation, InFilter, InEvaluate,
      AnswerIsDerived
<1>2. CASE /\ More("pairing")
           /\ StoredType(list[i].type) \notin DelegationTypes
           /\ Return("refused")
  <2>1. /\ StatusesIn(list) # {}
        /\ StoredType(list[i].type) \in TypesIn(list)
    BY <1>0, <1>2 DEF More, StatusesIn, TypesIn, TypeInv
  <2>2. TypesIn(list) \intersect DelegationTypes # {}
    BY <1>0, <1>2 DEF More, InPairing, TypesIn
  <2>3. ~AcceptableList(list)
    BY <1>2, <2>1, <2>2 DEF AcceptableList, AcceptableAuths, WellDelegated
  <2>4. QED
    BY <1>2, <2>3 DEF Return, TypeInv, InParticipation, InDelegation, InPairing, InFilter,
      InEvaluate, AnswerIsDerived, AcceptableList, TypesIn, StatusesIn
<1>3. CASE Over("pairing") /\ DelegationTypes \subseteq raised /\ Goto("filter")
  <2>1. raised = TypesIn(list) /\ raised \subseteq DelegationTypes
    BY <1>0, <1>3 DEF Over, InPairing, Passed, TypesIn, TypeInv
  <2>2. AcceptableList(list)
    BY <1>3, <2>1 DEF Over, InPairing, AcceptableList, AcceptableAuths, WellDelegated
  <2>3. InFilter'
    BY <1>3, <2>1, <2>2 DEF Over, Goto, InFilter, InPairing, Passed, AcceptableList, TypesIn,
      StatusesIn
  <2>4. QED
    BY <1>3, <2>3 DEF Goto, TypeInv, Loops, InParticipation, InDelegation, InPairing, InEvaluate,
      AnswerIsDerived
<1>4. CASE Over("pairing") /\ ~(DelegationTypes \subseteq raised) /\ Return("refused")
  <2>1. raised = TypesIn(list) /\ raised \intersect DelegationTypes # {}
    BY <1>0, <1>4 DEF Over, InPairing, Passed, TypesIn, TypeInv
  <2>2. StatusesIn(list) # {}
    BY <1>0, <1>4 DEF Over, InPairing, StatusesIn
  <2>3. ~AcceptableList(list)
    BY <1>4, <2>1, <2>2 DEF AcceptableList, AcceptableAuths, WellDelegated
  <2>4. QED
    BY <1>4, <2>3 DEF Return, TypeInv, InParticipation, InDelegation, InPairing, InFilter,
      InEvaluate, AnswerIsDerived, AcceptableList, TypesIn, StatusesIn
<1>5. QED
  BY <1>1, <1>2, <1>3, <1>4 DEF Pairing

\* What participates among the statuses of a list is what the filter keeps.
LEMMA KeptParticipates ==
  ASSUME TypeInv, kept = {j \in 1 .. Len(list) : list[j].status \in Decisions}
  PROVE  Participating(StatusesIn(list)) = {list[j].status : j \in kept}
<1>1. \A j \in 1 .. Len(list) :
        list[j].status \in Decisions
          <=> list[j].status \notin {"RECORDED"} \union SystemStatuses
  BY ListFacts DEF Decisions
<1>2. QED
  BY <1>1, ListFacts DEF Participating, StatusesIn

\* The loop that keeps the statuses that record a decision.
LEMMA FilterInv == LoopInv /\ Filter => LoopInv'
<1> SUFFICES ASSUME LoopInv, Filter PROVE LoopInv'
  OBVIOUS
<1> USE DEF LoopInv
<1>0. /\ DOMAIN list = 1 .. Len(list)
      /\ Len(list) \in Nat
  BY ListFacts
<1>1. CASE /\ More("filter")
           /\ kept' = IF list[i].status \in Decisions THEN kept \union {i} ELSE kept
           /\ Continue
           /\ UNCHANGED raised
  <2>1. TypeInv'
    BY <1>1 DEF More, Continue, TypeInv
  <2>2. Passed' = Passed \union {i}
    BY <1>1 DEF More, Continue, Passed, TypeInv
  <2>3. InFilter'
    BY <1>1, <2>2 DEF More, Continue, InFilter, AcceptableList, TypesIn, StatusesIn
  <2>4. QED
    BY <1>1, <2>1, <2>3 DEF More, Continue, InParticipation, InDelegation, InPairing, InEvaluate,
      AnswerIsDerived
<1>2. ASSUME Over("filter")
      PROVE  kept = {j \in 1 .. Len(list) : list[j].status \in Decisions}
  BY <1>0, <1>2 DEF Over, InFilter, Passed, TypeInv
<1>3. CASE Over("filter") /\ kept = {} /\ Return("CREATED")
  <2>1. Participating(StatusesIn(list)) = {}
    BY <1>2, <1>3, KeptParticipates
  <2>2. DeriveStatus(StatusesIn(list)) = "CREATED"
    BY <2>1 DEF DeriveStatus
  <2>3. AnswerIsDerived'
    BY <1>3, <2>2 DEF Over, Return, InFilter, AnswerIsDerived
  <2>4. QED
    BY <1>3, <2>3 DEF Return, TypeInv, InParticipation, InDelegation, InPairing, InFilter,
      InEvaluate
<1>4. CASE Over("filter") /\ kept # {} /\ Goto("evaluate")
  <2>1. InEvaluate'
    BY <1>2, <1>4 DEF Over, Goto, InFilter, InEvaluate, Passed, AcceptableList, TypesIn,
      StatusesIn, DelegationTypes
  <2>2. QED
    BY <1>4, <2>1 DEF Goto, TypeInv, Loops, InParticipation, InDelegation, InPairing, InFilter,
      AnswerIsDerived
<1>5. QED
  BY <1>1, <1>3, <1>4 DEF Filter

\* When the last loop is over its flags tell the derived status.
LEMMA ByPriorityDerives ==
  ASSUME LoopInv, Over("evaluate")
  PROVE  ByPriority = DeriveStatus(StatusesIn(list))
<1> DEFINE P == Participating(StatusesIn(list))
<1>1. Passed = 1 .. Len(list)
  BY DEF LoopInv, TypeInv, Over, Passed
<1>2. P = {list[j].status : j \in kept}
  BY KeptParticipates DEF LoopInv, InEvaluate, Over
<1>3. "rejected" \in raised <=> "REJECTED" \in P
  BY <1>1, <1>2 DEF LoopInv, InEvaluate, Over
<1>4. "created" \in raised <=> "CREATED" \in P \/ "CUSTOM" \in P
  BY <1>1, <1>2 DEF LoopInv, InEvaluate, Over
<1>5. P # {} /\ P \subseteq {"APPROVED", "REJECTED", "CREATED", "CUSTOM", ""}
  BY <1>2 DEF LoopInv, InEvaluate, Over, Decisions, AuthStatuses, CallerStatuses, SystemStatuses
<1>6. "not_approved" \in raised <=> ("rejected" \in raised \/ "created" \in raised)
  BY DEF LoopInv, InEvaluate, Over
<1>7. CASE "rejected" \in raised
  BY <1>3, <1>7 DEF ByPriority, DeriveStatus
<1>8. CASE "rejected" \notin raised /\ "created" \in raised
  <2>1. ByPriority = "CREATED"
    BY <1>8 DEF ByPriority
  <2>2. "REJECTED" \notin P /\ ~(P \subseteq {"APPROVED", ""})
    BY <1>3, <1>4, <1>8
  <2>3. QED
    BY <2>1, <2>2 DEF DeriveStatus
<1>9. CASE "rejected" \notin raised /\ "created" \notin raised
  <2>1. ByPriority = "ACTIVE"
    BY <1>6, <1>9 DEF ByPriority
  <2>2. "REJECTED" \notin P /\ P \subseteq {"APPROVED", ""}
    BY <1>3, <1>4, <1>5, <1>9
  <2>3. QED
    BY <1>5, <2>1, <2>2 DEF DeriveStatus
<1>10. QED
  BY <1>7, <1>8, <1>9

\* The loop that raises the flags.
LEMMA EvaluateInv == LoopInv /\ Evaluate => LoopInv'
<1> SUFFICES ASSUME LoopInv, Evaluate PROVE LoopInv'
  OBVIOUS
<1> USE DEF LoopInv
<1>0. /\ DOMAIN list = 1 .. Len(list)
      /\ Len(list) \in Nat
  BY ListFacts
<1>1. CASE /\ More("evaluate")
           /\ raised' = IF i \in kept THEN raised \union FlagsOf(list[i].status) ELSE raised
           /\ Continue
           /\ UNCHANGED kept
  <2>1. TypeInv'
    <3>1. FlagsOf(list[i].status) \subseteq Flags
      BY DEF FlagsOf, Flags
    <3>2. raised' \subseteq Flags
      BY <1>1, <3>1 DEF TypeInv
    <3>3. i' \in 1 .. Len(list') + 1
      BY <1>0, <1>1 DEF More, Continue, TypeInv
    <3>4. QED
      BY <1>1, <3>2, <3>3 DEF Continue, TypeInv
  <2>2. Passed' = Passed \union {i}
    BY <1>1 DEF More, Continue, Passed, TypeInv
  <2>3. i \in kept => list[i].status \in {"APPROVED", "REJECTED", "CREATED", "CUSTOM", ""}
    BY <1>1 DEF More, InEvaluate, Decisions, AuthStatuses, CallerStatuses, SystemStatuses
  <2>4. i \in kept =>
          /\ "rejected" \in FlagsOf(list[i].status) <=> list[i].status = "REJECTED"
          /\ "created" \in FlagsOf(list[i].status) <=> list[i].status \in {"CREATED", "CUSTOM"}
          /\ "not_approved" \in FlagsOf(list[i].status)
               <=> {"rejected", "created"} \intersect FlagsOf(list[i].status) # {}
    BY <2>3 DEF FlagsOf
  <2>5. InEvaluate'
    <3> DEFINE J == Passed \intersect kept
    <3>1. AcceptableList(list)' /\ kept' # {}
          /\ kept' = {j \in 1 .. Len(list') : list'[j].status \in Decisions}
      BY <1>1 DEF More, Continue, InEvaluate, AcceptableList, TypesIn, StatusesIn
    <3>2. J' = IF i \in kept THEN J \union {i} ELSE J
      BY <1>1, <2>2
    <3>3. "rejected" \in raised' <=> \E j \in J' : list'[j].status = "REJECTED"
      BY <1>1, <2>4, <3>2 DEF More, Continue, InEvaluate
    <3>4. "created" \in raised' <=> \E j \in J' : list'[j].status \in {"CREATED", "CUSTOM"}
      BY <1>1, <2>4, <3>2 DEF More, Continue, InEvaluate
    <3>5. "not_approved" \in raised' <=> {"rejected", "created"} \intersect raised' # {}
      BY <1>1, <2>4 DEF More, InEvaluate
    <3>6. QED
      BY <3>1, <3>3, <3>4, <3>5 DEF InEvaluate
  <2>6. QED
    BY <1>1, <2>1, <2>5 DEF More, Continue, InParticipation, InDelegation, InPairing, InFilter,
      AnswerIsDerived
<1>2. CASE Over("evaluate") /\ Return(ByPriority)
  <2>1. AcceptableList(list) /\ ByPriority = DeriveStatus(StatusesIn(list))
    BY <1>2, ByPriorityDerives DEF Over, InEvaluate
  <2>2. AnswerIsDerived'
    BY <1>2, <2>1 DEF Return, AnswerIsDerived
  <2>3. QED
    BY <1>2, <2>2 DEF Return, TypeInv, InParticipation, InDelegation, InPairing, InFilter,
      InEvaluate
<1>3. QED
  BY <1>1, <1>2 DEF Evaluate

\* The loops of ValidateAuthTypeConstraints and of
\* EvaluateConsentStatusFromAuthStatuses compute the rules that the rest of
\* the model uses in their place, for lists of every length and in every order.
THEOREM LoopsComputeTheRules == Spec => []AnswerIsDerived
<1>1. LoopInv /\ [Next]_vars => LoopInv'
  <2> SUFFICES ASSUME LoopInv, [Next]_vars PROVE LoopInv'
    OBVIOUS
  <2>1. CASE Done \/ UNCHANGED vars
    BY <2>1 DEF Done, vars, LoopInv, TypeInv, InParticipation, InDelegation, InPairing, InFilter,
      InEvaluate, AnswerIsDerived, Passed, AcceptableList, TypesIn, StatusesIn
  <2>2. QED
    BY <2>1, ParticipationInv, DelegationInv, PairingInv, FilterInv, EvaluateInv DEF Next
<1>2. LoopInv => AnswerIsDerived
  BY DEF LoopInv
<1>3. QED
  BY InitInv, <1>1, <1>2, PTL DEF Spec
=============================================================================
