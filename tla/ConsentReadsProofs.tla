-------------------------- MODULE ConsentReadsProofs --------------------------
(***************************************************************************)
(* Theorems about reading a consent while it is written, for every         *)
(* catalog, set of clients, bodies and bounds.                             *)
(***************************************************************************)
EXTENDS ConsentReads, TLAPS

-----------------------------------------------------------------------------
(* Types.                                                                  *)

\* The links and the approval rows for a body have their types.
LEMMA ResolveTyped ==
  ASSUME NEW asks \in SUBSET Ask
  PROVE  VersionsIn(asks) \in SUBSET Versions /\ Resolve(asks) \in SUBSET Approval
<1>1. VersionsIn(asks) \in SUBSET Versions
  BY DEF VersionsIn, Ask
<1>2. ASSUME NEW p \in asks, NEW e \in ElementsOf[p.v]
      PROVE  [v |-> p.v, e |-> e, approved |-> e \in p.yes] \in Approval
  <2>1. p.v \in Versions /\ e \in Elements
    BY ContentAssumption DEF Ask
  <2>2. (e \in p.yes) \in BOOLEAN
    OBVIOUS
  <2> QED
    BY <2>1, <2>2 DEF Approval
<1> QED
  BY <1>1, <1>2 DEF Resolve

\* The fields after an update have values.
LEMMA MergeTyped ==
  ASSUME NEW in \in Body, NEW terms \in [Fields -> Values]
  PROVE  [f \in Fields |-> IF f \in DOMAIN in.terms THEN in.terms[f] ELSE terms[f]]
           \in [Fields -> Values]
<1>1. PICK F \in SUBSET Fields : in.terms \in [F -> Values]
  BY DEF Body
<1> QED
  BY <1>1

\* A derived status is a live one.
LEMMA DerivedIsLive ==
  ASSUME NEW S
  PROVE  DeriveStatus(S) \in LiveStatuses
  BY DEF DeriveStatus, LiveStatuses

\* An audit entry keeps the type of the trail.
LEMMA EntryTyped ==
  ASSUME ContentTypeOK, NEW p \in ConsentStatuses, NEW s \in ConsentStatuses, NEW at \in Nat
  PROVE  StatusAudit(p, s, at) \in Seq(Entry)
  BY DEF StatusAudit, Entry, ContentTypeOK

\* A transaction that writes well-typed values keeps the types of the tables.
LEMMA TransactionTyped ==
  ASSUME ContentTypeOK, NEW op \in {"update", "revoke", "createauth"}, NEW v, NEW at,
         RecordConsentHistory(op, v, at), row' \in Row, auths' \in SUBSET AuthStatuses,
         links' \in SUBSET Versions, approvals' \in SUBSET Approval, audits' \in Seq(Entry),
         sent' \in [terms : [Fields -> Values], asks : SUBSET Ask]
  PROVE  ContentTypeOK'
<1>1. Present \in Content
  BY DEF ContentTypeOK
<1>2. Present' \in Content
  BY DEF Present, Content
<1>3. [at |-> SnapshotTime(at), content |-> Present] \in [at : Nat, content : Content]
  BY <1>1 DEF SnapshotTime, ContentTypeOK
<1>4. snaps' \in Seq([at : Nat, content : Content]) /\ ver' = Len(snaps')
  BY <1>3 DEF RecordConsentHistory, ContentTypeOK
<1>5. late' \in SUBSET {"update", "revoke", "createauth"} /\ now' \in Nat
  BY DEF RecordConsentHistory, ContentTypeOK
<1> QED
  BY <1>2, <1>4, <1>5 DEF ContentTypeOK

\* The parts of the present content have their types.
LEMMA PresentTyped ==
  ASSUME ContentTypeOK
  PROVE  /\ row \in Row /\ auths \in SUBSET AuthStatuses
         /\ links \in SUBSET Versions /\ approvals \in SUBSET Approval
  BY DEF ContentTypeOK, Present, Content

\* The transactions keep the types of the tables.
LEMMA UpdateTyped ==
  ASSUME ContentTypeOK, NEW in \in Body, NEW saw \in Row, NEW v \in Nat, NEW at \in Nat,
         NEW new \in ConsentStatuses, UpdateConsent(in, saw, v, at, new)
  PROVE  ContentTypeOK'
<1> USE PresentTyped
<1>1. in.asks \in SUBSET Ask /\ in.auths \in SUBSET AuthStatuses
  BY DEF Body, AuthStatuses
<1>2. links' \in SUBSET Versions /\ approvals' \in SUBSET Approval
  BY <1>1, ResolveTyped DEF UpdateConsent, ReplaceApprovals
<1>3. row' \in Row
  <2>1. Merge(in, saw) \in [Fields -> Values]
    BY MergeTyped DEF Merge, Row
  <2>2. (IF new # saw.status THEN new ELSE row.status) \in ConsentStatuses
    BY DEF Row
  <2> QED
    BY <2>1, <2>2 DEF UpdateConsent, Row
<1>4. audits' \in Seq(Entry)
  BY EntryTyped DEF UpdateConsent, ContentTypeOK, Row
<1>5. sent' \in [terms : [Fields -> Values], asks : SUBSET Ask]
  <2>1. sent.terms \in [Fields -> Values] /\ sent.asks \in SUBSET Ask
    BY DEF ContentTypeOK
  <2> QED
    BY <1>1, <2>1, MergeTyped DEF UpdateConsent
<1>6. auths' \in SUBSET AuthStatuses
  BY <1>1 DEF UpdateConsent
<1> QED
  BY <1>2, <1>3, <1>4, <1>5, <1>6, TransactionTyped DEF UpdateConsent

LEMMA RevokeTyped ==
  ASSUME ContentTypeOK, NEW saw \in Row, NEW v \in Nat, NEW at \in Nat,
         RevokeConsent(saw, v, at)
  PROVE  ContentTypeOK'
<1> USE PresentTyped
<1>1. "REVOKED" \in ConsentStatuses
  BY DEF ConsentStatuses, TerminalStatuses
<1>2. row' \in Row
  BY <1>1 DEF RevokeConsent, Row
<1>3. audits' \in Seq(Entry)
  BY <1>1, EntryTyped DEF RevokeConsent, Row
<1>4. auths' \in SUBSET AuthStatuses
  BY DEF RevokeConsent, AuthStatuses, SystemStatuses
<1>5. /\ links' \in SUBSET Versions /\ approvals' \in SUBSET Approval
      /\ sent' \in [terms : [Fields -> Values], asks : SUBSET Ask]
  BY DEF RevokeConsent, ContentTypeOK
<1> QED
  BY <1>2, <1>3, <1>4, <1>5, TransactionTyped DEF RevokeConsent

LEMMA CreateAuthTyped ==
  ASSUME ContentTypeOK, NEW s \in CallerStatuses, CreateAuthResource(s)
  PROVE  ContentTypeOK'
<1> USE PresentTyped
<1> DEFINE d == DeriveStatus(auths \union {s})
<1>1. d \in ConsentStatuses
  BY DerivedIsLive DEF ConsentStatuses
<1> HIDE DEF d
<1>2. /\ auths' = auths \union {s}
      /\ row' = IF d # row.status THEN [row EXCEPT !.status = d, !.updated = now] ELSE row
      /\ audits' = IF d # row.status THEN StatusAudit(row.status, d, now) ELSE audits
      /\ RecordConsentHistory("createauth", ver, now)
      /\ UNCHANGED <<links, approvals, sent>>
  BY DEF CreateAuthResource, d
<1>3. now \in Nat
  BY DEF ContentTypeOK
<1>4. row' \in Row
  BY <1>1, <1>2, <1>3 DEF Row
<1>5. audits' \in Seq(Entry)
  BY <1>1, <1>2, <1>3, EntryTyped DEF Row, ContentTypeOK
<1>6. auths' \in SUBSET AuthStatuses
  BY <1>2 DEF AuthStatuses
<1>7. /\ links' \in SUBSET Versions /\ approvals' \in SUBSET Approval
      /\ sent' \in [terms : [Fields -> Values], asks : SUBSET Ask]
  BY <1>2 DEF ContentTypeOK
<1> QED
  BY <1>2, <1>4, <1>5, <1>6, <1>7, TransactionTyped
\* A request is of the kind its pc says.
LEMMA KindOfRequest ==
  ASSUME ReadsTypeOK, NEW cl \in Clients
  PROVE  /\ req[cl].pc = "update" =>
              req[cl] \in [pc : {"update"}, saw : Row, ver : Nat, at : Nat, in : Body,
                           new : ConsentStatuses]
         /\ req[cl].pc = "revoke" =>
              req[cl] \in [pc : {"revoke"}, saw : Row, ver : Nat, at : Nat]
         /\ req[cl].pc \in {"auths", "purposes", "approvals", "audits", "answered"} =>
              req[cl] \in Reading
<1>1. req[cl] \in {Idle, Begun} \union Writing \union Reading
  BY DEF ReadsTypeOK
<1> QED
  BY <1>1 DEF Idle, Begun, Writing, Reading

\* The request of one client changes, to one of its type.
LEMMA RequestTyped ==
  ASSUME ReadsTypeOK, NEW cl \in Clients, NEW r \in {Idle, Begun} \union Writing \union Reading,
         Become(cl, r), ContentTypeOK', issued' \in Nat, faults' \in Nat
  PROVE  ReadsTypeOK'
  BY DEF ReadsTypeOK, Become

\* The tables keep their types when nothing is written.
LEMMA QuietTyped ==
  ASSUME ContentTypeOK, UNCHANGED <<now, content>>
  PROVE  ContentTypeOK'
  BY DEF ContentTypeOK, content, Present, Content

\* A request that has read the row and one that goes on to read have their type.
LEMMA LoadTyped ==
  ASSUME ContentTypeOK, NEW for \in Kinds
  PROVE  LoadConsentOutput(for) \in Reading
<1>1. row \in Row /\ ver \in Nat
  BY PresentTyped DEF ContentTypeOK
<1> QED
  BY <1>1 DEF LoadConsentOutput, Reading

LEMMA ReadTyped ==
  ASSUME NEW r \in Reading, ContentTypeOK
  PROVE  /\ [r EXCEPT !.pc = "purposes", !.auths = auths] \in Reading
         /\ [r EXCEPT !.pc = "approvals", !.links = links, !.from.links = ver] \in Reading
         /\ [r EXCEPT !.pc = AfterApprovals(r), !.approvals = Shown(r.links, approvals),
                      !.from.approvals = ver,
                      !.valid = r.for = "validate" /\ Verdict(r.row.status, r.links, approvals)]
              \in Reading
         /\ [r EXCEPT !.pc = "answered", !.audits = {audits[i] : i \in DOMAIN audits}]
              \in Reading
         /\ \A p \in {"purposes", "approvals"} :
              [r EXCEPT !.pc = IF p = "purposes" THEN "approvals" ELSE "answered",
                        !.lost = @ \union {p}] \in Reading
<1>1. /\ auths \in SUBSET AuthStatuses /\ links \in SUBSET Versions
      /\ approvals \in SUBSET Approval /\ ver \in Nat /\ audits \in Seq(Entry)
  BY PresentTyped DEF ContentTypeOK
<1>2. [r EXCEPT !.pc = "purposes", !.auths = auths] \in Reading
  BY <1>1 DEF Reading
<1>3. [r EXCEPT !.pc = "approvals", !.links = links, !.from.links = ver] \in Reading
  BY <1>1 DEF Reading
<1>4. [r EXCEPT !.pc = "answered", !.audits = {audits[i] : i \in DOMAIN audits}] \in Reading
  <2>1. {audits[i] : i \in DOMAIN audits} \in SUBSET Entry
    BY <1>1
  <2> QED
    BY <2>1 DEF Reading
<1>5. \A p \in {"purposes", "approvals"} :
        [r EXCEPT !.pc = IF p = "purposes" THEN "approvals" ELSE "answered",
                  !.lost = @ \union {p}] \in Reading
  BY DEF Reading
<1>6. [r EXCEPT !.pc = AfterApprovals(r), !.approvals = Shown(r.links, approvals),
                !.from.approvals = ver,
                !.valid = r.for = "validate" /\ Verdict(r.row.status, r.links, approvals)]
        \in Reading
  <2> DEFINE b == r.for = "validate" /\ Verdict(r.row.status, r.links, approvals)
             S == Shown(r.links, approvals)
             p == AfterApprovals(r)
  <2>1. b \in BOOLEAN
    OBVIOUS
  <2>2. S \in SUBSET Approval
    BY <1>1 DEF Shown
  <2>3. p \in {"audits", "answered"}
    BY DEF AfterApprovals
  <2> HIDE DEF b, S, p
  <2>4. [r EXCEPT !.pc = p, !.approvals = S, !.from.approvals = ver, !.valid = b] \in Reading
    BY <1>1, <2>1, <2>2, <2>3 DEF Reading
  <2> QED
    BY <2>4 DEF b, S, p
<1> QED
  BY <1>2, <1>3, <1>4, <1>5, <1>6

\* The server starts well typed.
LEMMA InitTyped == Init => ReadsTypeOK
<1> SUFFICES ASSUME Init
             PROVE  ReadsTypeOK
  OBVIOUS
<1> USE DEF Init, CreateConsent
<1>1. NewBody \in Body /\ NewBody.terms \in [Fields -> Values]
  <2>1. PICK F \in SUBSET Fields : NewBody.terms \in [F -> Values]
    BY ReadsAssumption DEF Body
  <2> QED
    BY <2>1, ReadsAssumption
<1>2. NewBody.asks \in SUBSET Ask /\ NewBody.auths \in SUBSET AuthStatuses
  BY <1>1 DEF Body, AuthStatuses
<1>3. DeriveStatus(NewBody.auths) \in ConsentStatuses
  BY DerivedIsLive DEF ConsentStatuses
<1>4. row \in Row
  BY <1>1, <1>3 DEF Row
<1>5. links \in SUBSET Versions /\ approvals \in SUBSET Approval
  BY <1>2, ResolveTyped
<1>6. Present \in Content
  BY <1>2, <1>4, <1>5 DEF Present, Content
<1>7. audits \in Seq(Entry)
  BY <1>3 DEF Entry
<1>8. ContentTypeOK
  BY <1>1, <1>2, <1>6, <1>7 DEF ContentTypeOK
<1> QED
  BY <1>8 DEF ReadsTypeOK

\* Every step keeps the types.
LEMMA StepTyped == ReadsTypeOK /\ [Next]_vars => ReadsTypeOK'
<1> SUFFICES ASSUME ReadsTypeOK, [Next]_vars
             PROVE  ReadsTypeOK'
  OBVIOUS
<1>0. ContentTypeOK /\ now \in Nat /\ ver \in Nat /\ issued \in Nat /\ faults \in Nat
  BY DEF ReadsTypeOK, ContentTypeOK
<1> USE DEF Begin, Resume
<1>1. ASSUME NEW cl \in Clients, NEW in \in Bodies, BeginUpdate(cl, in)
      PROVE  ReadsTypeOK'
  <2>1. in \in Body /\ row \in Row
    BY <1>0, ReadsAssumption, PresentTyped
  <2>2. (IF in.replace THEN DeriveStatus(in.auths) ELSE row.status) \in ConsentStatuses
    BY <2>1, DerivedIsLive DEF ConsentStatuses, Row
  <2>3. [pc |-> "update", saw |-> row, ver |-> ver, at |-> now, in |-> in,
         new |-> IF in.replace THEN DeriveStatus(in.auths) ELSE row.status] \in Writing
    BY <1>0, <2>1, <2>2 DEF Writing
  <2> QED
    BY <1>0, <1>1, <2>3, QuietTyped, RequestTyped DEF BeginUpdate
<1>2. ASSUME NEW cl \in Clients, CommitUpdate(cl)
      PROVE  ReadsTypeOK'
  <2>1. ContentTypeOK'
    BY <1>0, <1>2, KindOfRequest, UpdateTyped DEF CommitUpdate
  <2> QED
    BY <1>0, <1>2, <2>1, RequestTyped DEF CommitUpdate
<1>3. ASSUME NEW cl \in Clients, Refetch(cl)
      PROVE  ReadsTypeOK'
  <2>1. LoadConsentOutput("get") \in Reading
    BY <1>0, LoadTyped DEF Kinds
  <2> QED
    BY <1>0, <1>3, <2>1, QuietTyped, RequestTyped DEF Refetch
<1>4. ASSUME NEW cl \in Clients, BeginRevoke(cl)
      PROVE  ReadsTypeOK'
  <2>1. [pc |-> "revoke", saw |-> row, ver |-> ver, at |-> now] \in Writing
    BY <1>0, PresentTyped DEF Writing
  <2> QED
    BY <1>0, <1>4, <2>1, QuietTyped, RequestTyped DEF BeginRevoke
<1>5. ASSUME NEW cl \in Clients, CommitRevoke(cl)
      PROVE  ReadsTypeOK'
  <2>1. ContentTypeOK'
    BY <1>0, <1>5, KindOfRequest, RevokeTyped DEF CommitRevoke
  <2> QED
    BY <1>0, <1>5, <2>1, RequestTyped DEF CommitRevoke
<1>6. ASSUME NEW cl \in Clients, NEW s \in NewAuths, AddAuthResource(cl, s)
      PROVE  ReadsTypeOK'
  <2>1. ContentTypeOK'
    BY <1>0, <1>6, ReadsAssumption, CreateAuthTyped DEF AddAuthResource
  <2> QED
    BY <1>0, <1>6, <2>1 DEF AddAuthResource, ReadsTypeOK
<1>7. ASSUME NEW cl \in Clients, NEW for \in Kinds, GetConsent(cl, for)
      PROVE  ReadsTypeOK'
  BY <1>0, <1>7, LoadTyped, QuietTyped, RequestTyped DEF GetConsent
<1>8. ASSUME NEW cl \in Clients, GetAuthResources(cl)
      PROVE  ReadsTypeOK'
  <2>1. req[cl] \in Reading
    BY <1>8, KindOfRequest DEF GetAuthResources
  <2> QED
    BY <1>0, <1>8, <2>1, ReadTyped, QuietTyped, RequestTyped DEF GetAuthResources
<1>9. ASSUME NEW cl \in Clients, GetPurposes(cl)
      PROVE  ReadsTypeOK'
  <2>1. req[cl] \in Reading
    BY <1>9, KindOfRequest DEF GetPurposes
  <2> QED
    BY <1>0, <1>9, <2>1, ReadTyped, QuietTyped, RequestTyped DEF GetPurposes
<1>10. ASSUME NEW cl \in Clients, GetElementApprovals(cl)
       PROVE  ReadsTypeOK'
  <2>1. req[cl] \in Reading
    BY <1>10, KindOfRequest DEF GetElementApprovals
  <2> QED
    BY <1>0, <1>10, <2>1, ReadTyped, QuietTyped, RequestTyped DEF GetElementApprovals
<1>11. ASSUME NEW cl \in Clients, GetStatusAudits(cl)
       PROVE  ReadsTypeOK'
  <2>1. req[cl] \in Reading
    BY <1>11, KindOfRequest DEF GetStatusAudits
  <2> QED
    BY <1>0, <1>11, <2>1, ReadTyped, QuietTyped, RequestTyped DEF GetStatusAudits
<1>12. ASSUME NEW cl \in Clients, Answer(cl)
       PROVE  ReadsTypeOK'
  BY <1>0, <1>12, QuietTyped, RequestTyped DEF Answer
<1>13. ASSUME NEW cl \in Clients, CallFails(cl)
       PROVE  ReadsTypeOK'
  <2>1. CASE req[cl].pc \in {"purposes", "approvals"} /\ req[cl].for = "search"
    <3>1. req[cl] \in Reading
      BY <2>1, KindOfRequest
    <3>2. [req[cl] EXCEPT !.pc = IF req[cl].pc = "purposes" THEN "approvals" ELSE "answered",
                          !.lost = @ \union {req[cl].pc}] \in Reading
      BY <1>0, <2>1, <3>1, ReadTyped
    <3> QED
      BY <1>0, <1>13, <2>1, <3>2, QuietTyped, RequestTyped DEF CallFails
  <2>2. CASE ~(req[cl].pc \in {"purposes", "approvals"} /\ req[cl].for = "search")
    BY <1>0, <1>13, <2>2, QuietTyped, RequestTyped DEF CallFails
  <2> QED
    BY <2>1, <2>2
<1>14. CASE Tick
  BY <1>0, <1>14 DEF Tick, ReadsTypeOK, ContentTypeOK, content, Present, Content
<1>15. CASE UNCHANGED vars
  BY <1>0, <1>15, QuietTyped DEF vars, ReadsTypeOK
<1> QED
  BY <1>1, <1>2, <1>3, <1>4, <1>5, <1>6, <1>7, <1>8, <1>9, <1>10, <1>11, <1>12, <1>13, <1>14,
     <1>15 DEF Next, Done

\* Whatever requests interleave, consent and answers are well typed.
THEOREM TypeCorrect == Spec => []ReadsTypeOK
  BY InitTyped, StepTyped, PTL DEF Spec
-----------------------------------------------------------------------------
(* What requests have read, and what the tables hold.                      *)

ReadPcs == {"auths", "purposes", "approvals", "audits", "answered"}

\* The consent has had the status s.
StatusHad(s) == \E i \in 1 .. Len(audits) : audits[i].cur = s

\* The approvals of a content are those of all elements of its purposes.
WholeContent(C) ==
  /\ \A a \in C.approvals : a.v \in C.links /\ a.e \in ElementsOf[a.v]
  /\ \A v \in C.links : \A e \in ElementsOf[v] : \E a \in C.approvals : a.v = v /\ a.e = e

\* A request that is about to write and was not overtaken has seen the present
\* row, and has taken its time after the row's.
WriteFits(cl) ==
  LET r == req[cl] IN
  r.pc \in {"update", "revoke"} =>
    /\ r.ver <= ver /\ r.at <= now
    /\ r.ver = ver => r.saw = row /\ row.updated <= r.at

\* The row of an answer is that of a version, and its status has an entry.
RowFits(cl) ==
  LET r == req[cl] IN
  r.pc \in ReadPcs =>
    /\ r.from.row <= ver /\ r.from.links <= ver /\ r.from.approvals <= ver
    /\ r.row = ContentAt(r.from.row).row
    /\ StatusHad(r.row.status)
    /\ r.lost # {} => r.for = "search"

\* What has not been read is empty.
Unread(cl) ==
  LET r == req[cl] IN
  /\ r.pc \in {"auths", "purposes"} => r.links = {} /\ r.lost = {}
  /\ r.pc \in {"auths", "purposes", "approvals"} =>
       r.approvals = {} /\ ~r.valid /\ "approvals" \notin r.lost

\* What has been read is that of the version read at.
PartsFit(cl) ==
  LET r == req[cl] IN
  /\ r.pc \in {"approvals", "audits", "answered"} =>
       r.links = IF "purposes" \in r.lost THEN {} ELSE ContentAt(r.from.links).links
  /\ r.pc \in {"audits", "answered"} =>
       /\ r.approvals = IF "approvals" \in r.lost THEN {}
                        ELSE Shown(r.links, ContentAt(r.from.approvals).approvals)
       /\ r.valid =>
            /\ r.for = "validate"
            /\ Verdict(r.row.status, r.links, ContentAt(r.from.approvals).approvals)
  /\ r.pc = "answered" /\ r.for = "status" =>
       /\ \E a \in r.audits : a.cur = r.row.status
       /\ r.from.row = ver => r.audits = {audits[i] : i \in DOMAIN audits}

Fits(cl) == WriteFits(cl) /\ RowFits(cl) /\ Unread(cl) /\ PartsFit(cl)

\* The trail ends in the present status, the times are not ahead of the clock,
\* and every version of the consent is whole.
TrailFits == Len(audits) >= 1 /\ audits[Len(audits)].cur = row.status
TimesFit  == row.updated <= now /\ \A i \in 1 .. Len(snaps) : snaps[i].at <= now
PastWhole == \A i \in 0 .. ver : WholeContent(ContentAt(i))

\* The inductive invariant.
ReadsInv ==
  /\ ReadsTypeOK
  /\ TrailFits /\ TimesFit /\ PastWhole
  /\ TimesFollowCommits /\ LastWriteStands
  /\ \A cl \in Clients : Fits(cl)

-----------------------------------------------------------------------------
(* What every step keeps.                                                  *)

\* Versions and trail only grow, and nothing changes without a new version.
Kept ==
  /\ ver' \in Nat /\ ver <= ver' /\ now <= now'
  /\ \A i \in 0 .. ver : ContentAt(i)' = ContentAt(i)
  /\ Len(audits) <= Len(audits')
  /\ \A i \in 1 .. Len(audits) : audits'[i] = audits[i]
  /\ ver' = ver => row' = row /\ audits' = audits

\* Reading and the clock keep everything.
LEMMA QuietKeeps ==
  ASSUME ReadsTypeOK, UNCHANGED content, now' \in Nat, now <= now'
  PROVE  Kept
<1>1. ver \in Nat
  BY DEF ReadsTypeOK, ContentTypeOK
<1> QED
  BY <1>1 DEF Kept, content, ContentAt, Present

\* So does a transaction, the present content becoming a snapshot.
LEMMA TransactionKeeps ==
  ASSUME ReadsTypeOK, NEW op, NEW v, NEW at, RecordConsentHistory(op, v, at),
         \/ audits' = audits
         \/ \E e \in Entry : audits' = Append(audits, e)
  PROVE  Kept
<1>1. ver \in Nat /\ ver = Len(snaps) /\ now \in Nat /\ audits \in Seq(Entry)
      /\ snaps \in Seq([at : Nat, content : Content]) /\ Present \in Content
  BY DEF ReadsTypeOK, ContentTypeOK
<1>2. ver' = ver + 1 /\ now' = now
      /\ snaps' = Append(snaps, [at |-> now, content |-> Present])
  BY DEF RecordConsentHistory, SnapshotTime
<1>3. [at |-> now, content |-> Present] \in [at : Nat, content : Content]
  BY <1>1
<1>4. ASSUME NEW i \in 0 .. ver
      PROVE  ContentAt(i)' = ContentAt(i)
  <2>1. ContentAt(i)' = snaps'[i + 1].content
    BY <1>1, <1>2 DEF ContentAt
  <2>2. CASE i = ver
    <3>1. snaps'[i + 1] = [at |-> now, content |-> Present]
      BY <1>1, <1>2, <1>3, <2>2
    <3> QED
      BY <2>1, <2>2, <3>1 DEF ContentAt
  <2>3. CASE i # ver
    <3>1. snaps'[i + 1] = snaps[i + 1]
      BY <1>1, <1>2, <1>3, <2>3
    <3> QED
      BY <2>1, <2>3, <3>1 DEF ContentAt
  <2> QED
    BY <2>2, <2>3
<1>5. Len(audits) <= Len(audits') /\ \A i \in 1 .. Len(audits) : audits'[i] = audits[i]
  BY <1>1
<1> QED
  BY <1>1, <1>2, <1>4, <1>5 DEF Kept

\* A status once had is had for ever.
LEMMA HadForEver ==
  ASSUME ReadsTypeOK, ReadsTypeOK', Kept, NEW s, StatusHad(s)
  PROVE  StatusHad(s)'
<1>1. PICK i \in 1 .. Len(audits) : audits[i].cur = s
  BY DEF StatusHad
<1>2. Len(audits) \in Nat /\ Len(audits') \in Nat
  BY DEF ReadsTypeOK, ContentTypeOK
<1>3. i \in 1 .. Len(audits') /\ audits'[i].cur = s
  BY <1>1, <1>2 DEF Kept
<1> QED
  BY <1>3 DEF StatusHad

\* A request that a step leaves alone still fits.
LEMMA OthersFit ==
  ASSUME ReadsInv, ReadsTypeOK', Kept, NEW cl \in Clients, req'[cl] = req[cl]
  PROVE  Fits(cl)'
<1> DEFINE r == req[cl]
<1>0. Fits(cl) /\ ReadsTypeOK /\ ver \in Nat /\ ver' \in Nat
  BY DEF ReadsInv, ReadsTypeOK, ContentTypeOK
<1>1. WriteFits(cl)'
  <2> SUFFICES ASSUME r.pc \in {"update", "revoke"}
               PROVE  WriteFits(cl)'
    BY DEF WriteFits
  <2>1. r.ver \in Nat /\ r.at \in Nat /\ now \in Nat /\ now' \in Nat
    BY <1>0, KindOfRequest DEF ReadsTypeOK, ContentTypeOK
  <2> QED
    BY <1>0, <2>1 DEF WriteFits, Fits, Kept
<1>r. ASSUME r.pc \in ReadPcs
      PROVE  /\ r.from.row \in 0 .. ver /\ r.from.links \in 0 .. ver
             /\ r.from.approvals \in 0 .. ver
  <2>1. r.from.row \in Nat /\ r.from.links \in Nat /\ r.from.approvals \in Nat
    BY <1>0, <1>r, KindOfRequest DEF ReadPcs, Reading
  <2> QED
    BY <1>0, <1>r, <2>1 DEF Fits, RowFits
<1>c. ASSUME r.pc \in ReadPcs
      PROVE  /\ ContentAt(r.from.row)' = ContentAt(r.from.row)
             /\ ContentAt(r.from.links)' = ContentAt(r.from.links)
             /\ ContentAt(r.from.approvals)' = ContentAt(r.from.approvals)
  BY <1>c, <1>r DEF Kept, ContentAt
<1>2. RowFits(cl)'
  <2> SUFFICES ASSUME r.pc \in ReadPcs
               PROVE  RowFits(cl)'
    BY DEF RowFits
  <2>1. \A s : StatusHad(s) => StatusHad(s)'
    BY <1>0, HadForEver
  <2>2. StatusHad(r.row.status)'
    BY <1>0, <2>1 DEF Fits, RowFits, StatusHad
  <2> QED
    BY <1>0, <1>r, <1>c, <2>2 DEF Fits, RowFits, Kept
<1>3. Unread(cl)'
  BY <1>0 DEF Fits, Unread
<1>4. PartsFit(cl)'
  <2> SUFFICES ASSUME r.pc \in ReadPcs
               PROVE  PartsFit(cl)'
    BY DEF PartsFit, ReadPcs
  <2>1. r.from.row = ver' => ver' = ver
    BY <1>0, <1>r DEF Kept
  <2> QED
    BY <1>0, <1>c, <2>1 DEF Fits, PartsFit, Kept
<1> QED
  BY <1>1, <1>2, <1>3, <1>4 DEF Fits
-----------------------------------------------------------------------------
(* What transactions keep of the tables.                                   *)

\* What is written for the purposes of a body is whole.
LEMMA SentIsWhole ==
  ASSUME NEW asks \in SUBSET Ask, NEW C, C.links = VersionsIn(asks), C.approvals = Resolve(asks)
  PROVE  WholeContent(C)
<1>1. ASSUME NEW a \in C.approvals
      PROVE  a.v \in C.links /\ a.e \in ElementsOf[a.v]
  <2>1. PICK p \in asks :
          a \in {[v |-> p.v, e |-> e, approved |-> e \in p.yes] : e \in ElementsOf[p.v]}
    BY DEF Resolve
  <2>2. PICK e \in ElementsOf[p.v] : a = [v |-> p.v, e |-> e, approved |-> e \in p.yes]
    BY <2>1
  <2>3. a.v = p.v /\ a.e = e
    BY <2>2
  <2> QED
    BY <2>2, <2>3 DEF VersionsIn
<1>2. ASSUME NEW v \in C.links, NEW e \in ElementsOf[v]
      PROVE  \E a \in C.approvals : a.v = v /\ a.e = e
  <2>1. PICK p \in asks : p.v = v
    BY DEF VersionsIn
  <2>2. [v |-> p.v, e |-> e, approved |-> e \in p.yes] \in C.approvals
    BY <2>1 DEF Resolve
  <2>3. /\ [v |-> p.v, e |-> e, approved |-> e \in p.yes].v = v
        /\ [v |-> p.v, e |-> e, approved |-> e \in p.yes].e = e
    BY <2>1
  <2> QED
    BY <2>2, <2>3
<1> QED
  BY <1>1, <1>2 DEF WholeContent

\* The present content is whole if it is what was last sent.
LEMMA PresentIsWhole ==
  ASSUME ContentTypeOK, LastWriteStands
  PROVE  WholeContent(Present)
<1>1. sent.asks \in SUBSET Ask
  BY DEF ContentTypeOK
<1>2. Present.links = VersionsIn(sent.asks) /\ Present.approvals = Resolve(sent.asks)
  BY DEF Present, LastWriteStands
<1> QED
  BY <1>1, <1>2, SentIsWhole

\* A later entry keeps a trail in order.
LEMMA AppendInOrder ==
  ASSUME NEW s \in Seq(Entry), NEW e \in Entry, NEW t \in Nat,
         InOrder(s), \A i \in 1 .. Len(s) : s[i].at <= t, t <= e.at
  PROVE  /\ InOrder(Append(s, e))
         /\ \A i \in 1 .. Len(Append(s, e)) : Append(s, e)[i].at <= e.at
<1> DEFINE a == Append(s, e)
<1>1. Len(s) \in Nat /\ Len(a) = Len(s) + 1 /\ a[Len(s) + 1] = e
      /\ \A i \in 1 .. Len(s) : a[i] = s[i]
  OBVIOUS
<1>2. e.at \in Nat /\ \A i \in 1 .. Len(s) : s[i].at \in Nat
  <2>1. \A i \in 1 .. Len(s) : s[i] \in Entry
    OBVIOUS
  <2>2. \A x \in Entry : x.at \in Nat
    BY DEF Entry
  <2> QED
    BY <2>1, <2>2
<1>3. \A i \in 1 .. Len(a) : a[i].at <= e.at
  <2> SUFFICES ASSUME NEW i \in 1 .. Len(a)
               PROVE  a[i].at <= e.at
    OBVIOUS
  <2> HIDE DEF a
  <2>1. CASE i \in 1 .. Len(s)
    BY <1>1, <1>2, <2>1
  <2>2. CASE i = Len(s) + 1
    BY <1>1, <1>2, <2>2
  <2> QED
    BY <1>1, <2>1, <2>2
<1>4. InOrder(a)
  <2> SUFFICES ASSUME NEW i \in 1 .. Len(a), NEW j \in 1 .. Len(a), i < j
               PROVE  a[i].at <= a[j].at
    BY DEF InOrder
  <2> HIDE DEF a
  <2>1. i \in 1 .. Len(s)
    BY <1>1
  <2>2. CASE j \in 1 .. Len(s)
    BY <1>1, <2>1, <2>2 DEF InOrder
  <2>3. CASE j = Len(s) + 1
    BY <1>1, <1>3, <2>3
  <2> QED
    BY <1>1, <2>2, <2>3
<1> QED
  BY <1>3, <1>4

\* The audit entries are in order and not after the last update.
AuditInOrder == InOrder(audits) /\ \A i \in 1 .. Len(audits) : audits[i].at <= row.updated

\* A transaction keeps of the tables what its writes keep.
LEMMA TablesFit ==
  ASSUME ReadsInv, ReadsTypeOK', Kept, NEW op, NEW v, NEW at, RecordConsentHistory(op, v, at),
         TrailFits', row'.updated <= now, late' = {} => AuditInOrder', LastWriteStands'
  PROVE  TrailFits' /\ TimesFit' /\ PastWhole' /\ TimesFollowCommits' /\ LastWriteStands'
<1>t. ContentTypeOK /\ ContentTypeOK'
  BY DEF ReadsInv, ReadsTypeOK
<1>0. /\ ver \in Nat /\ ver = Len(snaps) /\ now \in Nat /\ Present \in Content
      /\ snaps \in Seq([at : Nat, content : Content])
      /\ ver' = ver + 1 /\ now' = now
      /\ snaps' = Append(snaps, [at |-> now, content |-> Present])
  BY <1>t DEF ContentTypeOK, RecordConsentHistory, SnapshotTime
<1>s. /\ Len(snaps) \in Nat /\ Len(snaps') = Len(snaps) + 1
      /\ snaps'[Len(snaps) + 1].at = now
      /\ \A i \in 1 .. Len(snaps) : snaps'[i] = snaps[i] /\ snaps[i].at \in Nat
  <2> DEFINE S == [at : Nat, content : Content]
             x == [at |-> now, content |-> Present]
  <2>1. x \in S /\ x.at = now /\ \A y \in S : y.at \in Nat
    BY <1>0
  <2>2. snaps \in Seq(S) /\ snaps' = Append(snaps, x)
    BY <1>0
  <2> HIDE DEF S, x
  <2>3. /\ Len(snaps) \in Nat /\ Len(snaps') = Len(snaps) + 1
        /\ snaps'[Len(snaps) + 1] = x
        /\ \A i \in 1 .. Len(snaps) : snaps'[i] = snaps[i] /\ snaps[i] \in S
    BY <2>1, <2>2
  <2> QED
    BY <2>1, <2>3
<1>o. InOrder(snaps) /\ \A i \in 1 .. Len(snaps) : snaps[i].at <= now
  BY DEF ReadsInv, TimesFollowCommits, TimesFit
<1>1. \A i \in 1 .. Len(snaps') : snaps'[i].at <= now
  <2> SUFFICES ASSUME NEW i \in 1 .. Len(snaps')
               PROVE  snaps'[i].at <= now
    OBVIOUS
  <2>1. CASE i \in 1 .. Len(snaps)
    BY <1>s, <1>o, <2>1
  <2>2. CASE i = Len(snaps) + 1
    BY <1>0, <1>s, <2>2
  <2> QED
    BY <1>s, <2>1, <2>2
<1>2. InOrder(snaps')
  <2> SUFFICES ASSUME NEW i \in 1 .. Len(snaps'), NEW j \in 1 .. Len(snaps'), i < j
               PROVE  snaps'[i].at <= snaps'[j].at
    BY DEF InOrder
  <2>1. i \in 1 .. Len(snaps)
    BY <1>s
  <2>2. CASE j \in 1 .. Len(snaps)
    BY <1>s, <1>o, <2>1, <2>2 DEF InOrder
  <2>3. CASE j = Len(snaps) + 1
    BY <1>s, <1>1, <2>3
  <2> QED
    BY <1>s, <2>2, <2>3
<1>3. PastWhole'
  <2> SUFFICES ASSUME NEW i \in 0 .. ver'
               PROVE  WholeContent(ContentAt(i)')
    BY DEF PastWhole
  <2>1. CASE i \in 0 .. ver
    <3>1. ContentAt(i)' = ContentAt(i) /\ WholeContent(ContentAt(i))
      BY <2>1 DEF Kept, ReadsInv, PastWhole
    <3> QED
      BY <3>1
  <2>2. CASE i = ver'
    <3>0. /\ (sent.asks)' \in SUBSET Ask
          /\ Present'.links = VersionsIn((sent.asks)')
          /\ Present'.approvals = Resolve((sent.asks)')
      BY <1>t DEF ContentTypeOK, Present, LastWriteStands
    <3>1. WholeContent(Present')
      BY <3>0, SentIsWhole
    <3>2. ContentAt(i)' = Present'
      BY <2>2 DEF ContentAt
    <3> QED
      BY <3>1, <3>2
  <2> QED
    BY <1>0, <2>1, <2>2
<1>4. TimesFit'
  BY <1>0, <1>1 DEF TimesFit
<1>5. TimesFollowCommits'
  BY <1>2 DEF TimesFollowCommits, AuditInOrder, InOrder
<1> QED
  BY <1>3, <1>4, <1>5
\* The trail after a transaction that moves the status from p to s, if it does,
\* by an operation that was not overtaken at the time at, or that counts as late.
LEMMA TrailAfter ==
  ASSUME ReadsInv, ReadsTypeOK', NEW p \in ConsentStatuses, NEW s \in ConsentStatuses, NEW at \in Nat,
         audits' = StatusAudit(p, s, at), row'.status = s, row'.updated = at,
         late' = {} => late = {} /\ row.updated <= at
  PROVE  TrailFits' /\ (late' = {} => AuditInOrder')
<1> DEFINE e == [prev |-> p, cur |-> s, at |-> at]
<1>1. e \in Entry /\ e.cur = s /\ e.at = at
  BY DEF Entry
<1>2. audits \in Seq(Entry) /\ row.updated \in Nat
  BY PresentTyped DEF ReadsInv, ReadsTypeOK, ContentTypeOK, Row
<1>3. audits' = Append(audits, e)
  BY DEF StatusAudit
<1> HIDE DEF e
<1>4. Len(audits) \in Nat /\ Len(audits') = Len(audits) + 1 /\ audits'[Len(audits')] = e
  BY <1>1, <1>2, <1>3
<1>5. TrailFits'
  BY <1>1, <1>4 DEF TrailFits
<1>6. ASSUME late' = {}
      PROVE  AuditInOrder'
  <2>1. InOrder(audits) /\ \A i \in 1 .. Len(audits) : audits[i].at <= row.updated
    BY <1>6 DEF ReadsInv, TimesFollowCommits
  <2>2. \A i \in 1 .. Len(audits) : audits[i].at \in Nat
    <3>1. \A i \in 1 .. Len(audits) : audits[i] \in Entry
      BY <1>2
    <3>2. \A x \in Entry : x.at \in Nat
      BY DEF Entry
    <3> QED
      BY <3>1, <3>2
  <2>3. \A i \in 1 .. Len(audits) : audits[i].at <= at
    BY <1>2, <1>6, <2>1, <2>2
  <2>4. /\ InOrder(Append(audits, e))
        /\ \A i \in 1 .. Len(Append(audits, e)) : Append(audits, e)[i].at <= e.at
    BY <1>1, <1>2, <2>1, <2>3, AppendInOrder
  <2> QED
    BY <1>1, <1>3, <2>4 DEF AuditInOrder, InOrder
<1> QED
  BY <1>5, <1>6

\* The trail after a transaction that leaves the status alone.
LEMMA TrailStays ==
  ASSUME ReadsInv, ReadsTypeOK', audits' = audits, row'.status = row.status,
         late' = {} => late = {} /\ row.updated <= row'.updated
  PROVE  TrailFits' /\ (late' = {} => AuditInOrder')
<1>1. TrailFits'
  BY DEF ReadsInv, TrailFits
<1>2. ASSUME late' = {}
      PROVE  AuditInOrder'
  <2>1. InOrder(audits) /\ \A i \in 1 .. Len(audits) : audits[i].at <= row.updated
    BY <1>2 DEF ReadsInv, TimesFollowCommits
  <2>2. row.updated \in Nat /\ row'.updated \in Nat
    BY PresentTyped DEF ReadsInv, ReadsTypeOK, ContentTypeOK, Present, Content, Row
  <2>3. \A i \in 1 .. Len(audits) : audits[i].at \in Nat
    <3>1. \A i \in 1 .. Len(audits) : audits[i] \in Entry
      BY DEF ReadsInv, ReadsTypeOK, ContentTypeOK
    <3>2. \A x \in Entry : x.at \in Nat
      BY DEF Entry
    <3> QED
      BY <3>1, <3>2
  <2> QED
    BY <1>2, <2>1, <2>2, <2>3 DEF AuditInOrder, InOrder
<1> QED
  BY <1>1, <1>2

\* A transaction that was not overtaken is not late.
LEMMA LateOnlyGrows ==
  ASSUME NEW op, NEW v, NEW at, RecordConsentHistory(op, v, at)
  PROVE  /\ late' = {} => late = {} /\ v = ver
         /\ op \notin late' => op \notin late /\ v = ver
         /\ \A x : x \notin late' => x \notin late
  BY DEF RecordConsentHistory

\* What each transaction keeps.
TablesKept ==
  Kept /\ TrailFits' /\ TimesFit' /\ PastWhole' /\ TimesFollowCommits' /\ LastWriteStands'

LEMMA UpdateFits ==
  ASSUME ReadsInv, ReadsTypeOK', NEW cl \in Clients, CommitUpdate(cl)
  PROVE  TablesKept
<1> DEFINE r == req[cl]
<1>0. /\ r \in [pc : {"update"}, saw : Row, ver : Nat, at : Nat, in : Body, new : ConsentStatuses]
      /\ r.at <= now /\ (r.ver = ver => r.saw = row /\ row.updated <= r.at)
      /\ UpdateConsent(r.in, r.saw, r.ver, r.at, r.new)
      /\ row.status \in ConsentStatuses /\ row.updated \in Nat /\ now \in Nat
  <2>1. ReadsTypeOK /\ r.pc = "update" /\ WriteFits(cl)
    BY DEF ReadsInv, Fits, CommitUpdate, Resume
  <2>2. row \in Row /\ now \in Nat
    BY PresentTyped DEF ReadsInv, ReadsTypeOK, ContentTypeOK
  <2> QED
    BY <2>1, <2>2, KindOfRequest DEF WriteFits, CommitUpdate, Row
<1> HIDE DEF r
<1>1. RecordConsentHistory("update", r.ver, r.at)
  BY <1>0 DEF UpdateConsent
<1>s. /\ r.saw.status \in ConsentStatuses /\ r.new \in ConsentStatuses /\ r.at \in Nat
      /\ r.in \in Body /\ r.saw.terms \in [Fields -> Values]
  BY <1>0 DEF Row
<1>r. /\ row'.status = IF r.new # r.saw.status THEN r.new ELSE row.status
      /\ row'.terms = Merge(r.in, r.saw)
      /\ row'.updated = r.at
      /\ audits' = IF r.new # r.saw.status THEN StatusAudit(r.saw.status, r.new, r.at) ELSE audits
  BY <1>0 DEF UpdateConsent
<1>a. /\ late' = {} => late = {} /\ row.updated <= r.at
      /\ "update" \notin late' => "update" \notin late /\ r.saw = row
  BY <1>0, <1>1, LateOnlyGrows
<1>2. Kept
  <2>1. [prev |-> r.saw.status, cur |-> r.new, at |-> r.at] \in Entry
    BY <1>s DEF Entry
  <2>2. audits' = audits \/ \E e \in Entry : audits' = Append(audits, e)
    BY <1>r, <2>1 DEF StatusAudit
  <2> QED
    BY <1>1, <2>2, TransactionKeeps DEF ReadsInv
<1>3. TrailFits' /\ (late' = {} => AuditInOrder')
  <2>1. CASE r.new # r.saw.status
    BY <1>a, <1>r, <1>s, <2>1, TrailAfter
  <2>2. CASE r.new = r.saw.status
    BY <1>a, <1>r, <2>2, TrailStays
  <2> QED
    BY <2>1, <2>2
<1>4. LastWriteStands'
  <2>1. links' = VersionsIn((sent.asks)') /\ approvals' = Resolve((sent.asks)')
    BY <1>0 DEF UpdateConsent, ReplaceApprovals, ReadsInv, LastWriteStands
  <2>2. ASSUME "update" \notin late'
        PROVE  row'.terms = (sent.terms)'
    <3>1. r.saw.terms = sent.terms
      BY <1>a, <2>2 DEF ReadsInv, LastWriteStands
    <3>2. (sent.terms)' = [f \in Fields |-> IF f \in DOMAIN r.in.terms THEN r.in.terms[f]
                                                                       ELSE sent.terms[f]]
      BY <1>0 DEF UpdateConsent
    <3> QED
      BY <1>r, <3>1, <3>2 DEF Merge
  <2> QED
    BY <2>1, <2>2 DEF LastWriteStands
<1>5. row'.updated <= now
  BY <1>0, <1>r
<1> QED
  BY <1>1, <1>2, <1>3, <1>4, <1>5, TablesFit DEF TablesKept

LEMMA RevokeFits ==
  ASSUME ReadsInv, ReadsTypeOK', NEW cl \in Clients, CommitRevoke(cl)
  PROVE  TablesKept
<1> DEFINE r == req[cl]
<1>0. /\ r \in [pc : {"revoke"}, saw : Row, ver : Nat, at : Nat]
      /\ r.at <= now /\ (r.ver = ver => row.updated <= r.at)
      /\ RevokeConsent(r.saw, r.ver, r.at)
      /\ row \in Row
  <2>1. ReadsTypeOK /\ r.pc = "revoke" /\ WriteFits(cl)
    BY DEF ReadsInv, Fits, CommitRevoke, Resume
  <2>2. row \in Row
    BY PresentTyped DEF ReadsInv, ReadsTypeOK
  <2> QED
    BY <2>1, <2>2, KindOfRequest DEF WriteFits, CommitRevoke
<1> HIDE DEF r
<1>1. RecordConsentHistory("revoke", r.ver, r.at)
  BY <1>0 DEF RevokeConsent
<1>s. r.saw.status \in ConsentStatuses /\ r.at \in Nat /\ "REVOKED" \in ConsentStatuses
  BY <1>0 DEF Row, ConsentStatuses, TerminalStatuses
<1>r. /\ row'.status = "REVOKED" /\ row'.terms = row.terms /\ row'.updated = r.at
      /\ audits' = StatusAudit(r.saw.status, "REVOKED", r.at)
      /\ UNCHANGED <<links, approvals, sent>>
  BY <1>0 DEF RevokeConsent, Row
<1>a. /\ late' = {} => late = {} /\ row.updated <= r.at
      /\ "update" \notin late' => "update" \notin late
  BY <1>0, <1>1, LateOnlyGrows
<1>2. Kept
  <2>1. [prev |-> r.saw.status, cur |-> "REVOKED", at |-> r.at] \in Entry
    BY <1>s DEF Entry
  <2>2. \E e \in Entry : audits' = Append(audits, e)
    BY <1>r, <2>1 DEF StatusAudit
  <2> QED
    BY <1>1, <2>2, TransactionKeeps DEF ReadsInv
<1>3. TrailFits' /\ (late' = {} => AuditInOrder')
  BY <1>a, <1>r, <1>s, TrailAfter
<1>4. LastWriteStands'
  BY <1>a, <1>r DEF ReadsInv, LastWriteStands
<1>5. row'.updated <= now
  BY <1>0, <1>r
<1> QED
  BY <1>1, <1>2, <1>3, <1>4, <1>5, TablesFit DEF TablesKept

LEMMA CreateAuthFits ==
  ASSUME ReadsInv, ReadsTypeOK', NEW s \in CallerStatuses, CreateAuthResource(s)
  PROVE  TablesKept
<1> DEFINE d == DeriveStatus(auths \union {s})
<1>0. row \in Row /\ now \in Nat /\ row.updated <= now
  BY PresentTyped DEF ReadsInv, ReadsTypeOK, ContentTypeOK, TimesFit
<1>d. d \in ConsentStatuses /\ row.status \in ConsentStatuses
  BY <1>0, DerivedIsLive DEF ConsentStatuses, Row
<1> HIDE DEF d
<1>r. /\ row' = IF d # row.status THEN [row EXCEPT !.status = d, !.updated = now] ELSE row
      /\ audits' = IF d # row.status THEN StatusAudit(row.status, d, now) ELSE audits
      /\ RecordConsentHistory("createauth", ver, now)
      /\ UNCHANGED <<links, approvals, sent>>
  BY DEF CreateAuthResource, d
<1>a. /\ late' = {} => late = {}
      /\ "update" \notin late' => "update" \notin late
  BY <1>r, LateOnlyGrows
<1>2. Kept
  <2>1. [prev |-> row.status, cur |-> d, at |-> now] \in Entry
    BY <1>0, <1>d DEF Entry
  <2>2. audits' = audits \/ \E e \in Entry : audits' = Append(audits, e)
    BY <1>r, <2>1 DEF StatusAudit
  <2> QED
    BY <1>r, <2>2, TransactionKeeps DEF ReadsInv
<1>3. TrailFits' /\ (late' = {} => AuditInOrder') /\ row'.updated <= now
      /\ row'.terms = row.terms
  <2>1. CASE d # row.status
    <3>1. row'.status = d /\ row'.updated = now /\ row'.terms = row.terms
      BY <1>0, <1>r, <2>1 DEF Row
    <3> QED
      BY <1>0, <1>a, <1>d, <1>r, <2>1, <3>1, TrailAfter
  <2>2. CASE d = row.status
    <3>1. row.updated \in Nat
      BY <1>0 DEF Row
    <3> QED
      BY <1>0, <1>a, <1>r, <2>2, <3>1, TrailStays
  <2> QED
    BY <2>1, <2>2
<1>4. LastWriteStands'
  BY <1>a, <1>r, <1>3 DEF ReadsInv, LastWriteStands
<1> QED
  BY <1>r, <1>2, <1>3, <1>4, TablesFit DEF TablesKept
-----------------------------------------------------------------------------
(* The steps.                                                              *)

\* A step keeps the invariant when it keeps the tables and its own request fits.
LEMMA StepFits ==
  ASSUME ReadsInv, ReadsTypeOK', TablesKept, NEW cl \in Clients, NEW r,
         Become(cl, r), Fits(cl)'
  PROVE  ReadsInv'
<1>1. ASSUME NEW k \in Clients
      PROVE  Fits(k)'
  <2>1. CASE k = cl
    BY <2>1
  <2>2. CASE k # cl
    BY <2>2, OthersFit DEF Become, ReadsInv, ReadsTypeOK, TablesKept
  <2> QED
    BY <2>1, <2>2
<1> QED
  BY <1>1 DEF ReadsInv, TablesKept

\* A step that writes nothing keeps the tables.
LEMMA QuietTables ==
  ASSUME ReadsInv, UNCHANGED content, now' \in Nat, now <= now'
  PROVE  TablesKept
<1>1. Kept
  BY QuietKeeps DEF ReadsInv
<1>2. TrailFits' /\ LastWriteStands' /\ TimesFollowCommits'
  BY DEF ReadsInv, TrailFits, LastWriteStands, TimesFollowCommits, InOrder, content
<1>3. TimesFit'
  <2>1. /\ row.updated \in Nat /\ now \in Nat
        /\ \A i \in 1 .. Len(snaps) : snaps[i].at \in Nat
    <3>1. /\ snaps \in Seq([at : Nat, content : Content]) /\ now \in Nat
          /\ row \in Row
      BY PresentTyped DEF ReadsInv, ReadsTypeOK, ContentTypeOK
    <3>2. \A i \in 1 .. Len(snaps) : snaps[i] \in [at : Nat, content : Content]
      <4> DEFINE S == [at : Nat, content : Content]
      <4>1. snaps \in Seq(S)
        BY <3>1
      <4> HIDE DEF S
      <4>2. \A i \in 1 .. Len(snaps) : snaps[i] \in S
        BY <4>1
      <4> QED
        BY <4>2 DEF S
    <3> QED
      BY <3>1, <3>2 DEF Row
  <2> QED
    BY <2>1 DEF ReadsInv, TimesFit, content
<1>4. PastWhole'
  <2>1. ver' = ver
    BY DEF content
  <2> QED
    BY <1>1, <2>1 DEF ReadsInv, PastWhole, Kept
<1> QED
  BY <1>1, <1>2, <1>3, <1>4 DEF TablesKept

\* The present version of the consent is the last.
LEMMA PresentVersion ==
  ASSUME ReadsInv
  PROVE  /\ ver \in Nat /\ ContentAt(ver) = Present
         /\ row \in Row /\ StatusHad(row.status)
<1>1. ver \in Nat /\ audits \in Seq(Entry) /\ row \in Row
  BY PresentTyped DEF ReadsInv, ReadsTypeOK, ContentTypeOK
<1>2. Len(audits) \in 1 .. Len(audits) /\ audits[Len(audits)].cur = row.status
  BY <1>1 DEF ReadsInv, TrailFits
<1> QED
  BY <1>1, <1>2 DEF ContentAt, StatusHad

\* A request that has just read the row fits.
LEMMA LoadFits ==
  ASSUME ReadsInv, UNCHANGED <<now, content>>, NEW cl \in Clients, NEW for,
         req'[cl] = LoadConsentOutput(for)
  PROVE  Fits(cl)'
<1> DEFINE r == LoadConsentOutput(for)
<1>1. /\ ver' = ver /\ row' = row /\ audits' = audits
      /\ ContentAt(ver)' = Present /\ Present' = Present
  BY PresentVersion DEF content, ContentAt, Present
<1>2. /\ r.pc = "auths" /\ r.row = row /\ r.links = {} /\ r.approvals = {} /\ r.lost = {}
      /\ r.from.row = ver /\ r.from.links = ver /\ r.from.approvals = ver /\ r.valid = FALSE
  BY DEF LoadConsentOutput
<1> HIDE DEF r
<1>3. req'[cl] = r
  BY DEF r
<1>4. RowFits(cl)'
  <2>1. StatusHad(row.status)' /\ ver <= ver
    BY <1>1, PresentVersion DEF StatusHad
  <2>2. ContentAt(req[cl].from.row)' = Present
    BY <1>1, <1>2, <1>3 DEF ContentAt
  <2>3. StatusHad(req[cl].row.status)'
    BY <1>1, <1>2, <1>3, <2>1 DEF StatusHad
  <2> QED
    BY <1>1, <1>2, <1>3, <2>1, <2>2, <2>3 DEF RowFits, Present
<1> QED
  BY <1>2, <1>3, <1>4 DEF Fits, WriteFits, Unread, PartsFit

\* A request that neither writes nor reads fits.
LEMMA RestFits ==
  ASSUME NEW cl \in Clients, req'[cl].pc \in {"idle", "refetch"}
  PROVE  Fits(cl)'
  BY DEF Fits, WriteFits, RowFits, Unread, PartsFit, ReadPcs
\* A request that goes on with the row it has still has a row that fits.
LEMMA RowStillFits ==
  ASSUME ReadsInv, UNCHANGED <<now, content>>, NEW cl \in Clients, RowFits(cl),
         req[cl].pc \in ReadPcs, req'[cl].row = req[cl].row,
         req'[cl].from.row = req[cl].from.row,
         req'[cl].from.links \in {req[cl].from.links, ver},
         req'[cl].from.approvals \in {req[cl].from.approvals, ver},
         req'[cl].lost # {} => req'[cl].for = "search"
  PROVE  RowFits(cl)'
<1>1. ver' = ver /\ audits' = audits /\ ver \in Nat /\ ver <= ver
  BY PresentVersion DEF content
<1>2. /\ req[cl].from.row <= ver /\ req[cl].from.links <= ver /\ req[cl].from.approvals <= ver
      /\ req[cl].row = ContentAt(req[cl].from.row).row
      /\ StatusHad(req[cl].row.status)
  BY DEF RowFits
<1>3. StatusHad(req[cl].row.status)'
  BY <1>1, <1>2 DEF StatusHad
<1>4. ContentAt(req[cl].from.row)' = ContentAt(req[cl].from.row)
  BY <1>1 DEF ContentAt, content, Present
<1>5. (req[cl].from.row)' <= ver /\ (req[cl].from.links)' <= ver
      /\ (req[cl].from.approvals)' <= ver
  BY <1>1, <1>2
<1> QED
  BY <1>1, <1>2, <1>3, <1>4, <1>5 DEF RowFits

\* The actions, each with the request it moves.
LEMMA WritingFits ==
  ASSUME ReadsInv, ReadsTypeOK', NEW cl \in Clients,
         \/ \E in \in Bodies : BeginUpdate(cl, in)
         \/ CommitUpdate(cl)
         \/ BeginRevoke(cl)
         \/ CommitRevoke(cl)
  PROVE  ReadsInv'
<1>0. req \in [Clients -> {Idle, Begun} \union Writing \union Reading] /\ now \in Nat
      /\ row.updated <= now
  BY DEF ReadsInv, ReadsTypeOK, ContentTypeOK, TimesFit
<1>1. ASSUME NEW in \in Bodies, BeginUpdate(cl, in)
      PROVE  ReadsInv'
  <2> DEFINE r == [pc |-> "update", saw |-> row, ver |-> ver, at |-> now, in |-> in,
                   new |-> IF in.replace THEN DeriveStatus(in.auths) ELSE row.status]
  <2>1. Become(cl, r) /\ UNCHANGED <<now, content>>
    BY <1>1 DEF BeginUpdate
  <2>2. TablesKept
    BY <1>0, <2>1, QuietTables
  <2>3. r.pc = "update" /\ r.saw = row /\ r.ver = ver /\ r.at = now
    OBVIOUS
  <2> HIDE DEF r
  <2>4. req'[cl] = r
    BY <1>0, <2>1 DEF Become
  <2>5. ver' = ver /\ row' = row /\ now' = now /\ ver <= ver /\ now <= now
    BY <1>0, <2>1, PresentVersion DEF content
  <2>6. Fits(cl)'
    BY <1>0, <2>3, <2>4, <2>5 DEF Fits, WriteFits, RowFits, Unread, PartsFit, ReadPcs
  <2> QED
    BY <2>1, <2>2, <2>6, StepFits
<1>2. CASE CommitUpdate(cl)
  <2>1. TablesKept /\ Become(cl, Begun)
    BY <1>2, UpdateFits DEF CommitUpdate
  <2>2. req'[cl].pc = "refetch"
    BY <1>0, <2>1 DEF Become, Begun
  <2> QED
    BY <2>1, <2>2, RestFits, StepFits
<1>3. CASE BeginRevoke(cl)
  <2> DEFINE r == [pc |-> "revoke", saw |-> row, ver |-> ver, at |-> now]
  <2>1. Become(cl, r) /\ UNCHANGED <<now, content>>
    BY <1>3 DEF BeginRevoke
  <2>2. TablesKept
    BY <1>0, <2>1, QuietTables
  <2>3. r.pc = "revoke" /\ r.saw = row /\ r.ver = ver /\ r.at = now
    OBVIOUS
  <2> HIDE DEF r
  <2>4. req'[cl] = r
    BY <1>0, <2>1 DEF Become
  <2>5. ver' = ver /\ row' = row /\ now' = now /\ ver <= ver /\ now <= now
    BY <1>0, <2>1, PresentVersion DEF content
  <2>6. Fits(cl)'
    BY <1>0, <2>3, <2>4, <2>5 DEF Fits, WriteFits, RowFits, Unread, PartsFit, ReadPcs
  <2> QED
    BY <2>1, <2>2, <2>6, StepFits
<1>4. CASE CommitRevoke(cl)
  <2>1. TablesKept /\ Become(cl, Idle)
    BY <1>4, RevokeFits DEF CommitRevoke
  <2>2. req'[cl].pc = "idle"
    BY <1>0, <2>1 DEF Become, Idle
  <2> QED
    BY <2>1, <2>2, RestFits, StepFits
<1> QED
  BY <1>1, <1>2, <1>3, <1>4

\* An answer is put together: its next part is read, from the present version.
LEMMA ReadingFits ==
  ASSUME ReadsInv, ReadsTypeOK', NEW cl \in Clients,
         \/ GetAuthResources(cl)
         \/ GetPurposes(cl)
         \/ GetElementApprovals(cl)
         \/ GetStatusAudits(cl)
  PROVE  ReadsInv'
<1> DEFINE r == req[cl]
<1>0. /\ req \in [Clients -> {Idle, Begun} \union Writing \union Reading] /\ now \in Nat
      /\ ReadsTypeOK /\ r.pc \in ReadPcs /\ UNCHANGED <<now, content>>
      /\ r.pc # "answered"
  BY DEF ReadsInv, ReadsTypeOK, ContentTypeOK, GetAuthResources, GetPurposes, GetElementApprovals,
         GetStatusAudits, Resume, ReadPcs
<1>t. r \in Reading
  BY <1>0, KindOfRequest DEF ReadPcs
<1>f. RowFits(cl) /\ Unread(cl) /\ PartsFit(cl)
  BY DEF ReadsInv, Fits
<1>v. /\ ver \in Nat /\ ver <= ver /\ ver' = ver /\ audits' = audits
      /\ \A i : ContentAt(i)' = ContentAt(i)
      /\ ContentAt(ver).links = links /\ ContentAt(ver).approvals = approvals
      /\ \A s : StatusHad(s)' = StatusHad(s)
  BY <1>0, PresentVersion DEF content, ContentAt, Present, StatusHad
<1>k. TablesKept
  BY <1>0, QuietTables
<1>1. CASE GetAuthResources(cl)
  <2> DEFINE n == [r EXCEPT !.pc = "purposes", !.auths = auths]
  <2>1. Become(cl, n) /\ r.pc = "auths"
    BY <1>1 DEF GetAuthResources, Resume
  <2>2. /\ n.pc = "purposes" /\ n.row = r.row /\ n.links = r.links /\ n.approvals = r.approvals
        /\ n.lost = r.lost /\ n.from = r.from /\ n.valid = r.valid /\ n.for = r.for
    BY <1>t DEF Reading
  <2> HIDE DEF n
  <2>3. req'[cl] = n
    BY <1>0, <2>1 DEF Become
  <2>4. RowFits(cl)'
    <3>1. n.lost # {} => n.for = "search"
      BY <1>0, <1>f, <2>2 DEF RowFits
    <3> QED
      BY <1>0, <1>f, <2>2, <2>3, <3>1, RowStillFits
  <2>5. Fits(cl)'
    BY <1>f, <2>1, <2>2, <2>3, <2>4 DEF Fits, WriteFits, Unread, PartsFit
  <2> QED
    BY <1>k, <2>1, <2>5, StepFits
<1>2. CASE GetPurposes(cl)
  <2> DEFINE n == [r EXCEPT !.pc = "approvals", !.links = links, !.from.links = ver]
  <2>1. Become(cl, n) /\ r.pc = "purposes"
    BY <1>2 DEF GetPurposes, Resume
  <2>2. /\ n.pc = "approvals" /\ n.row = r.row /\ n.links = links /\ n.approvals = r.approvals
        /\ n.lost = r.lost /\ n.valid = r.valid /\ n.for = r.for
        /\ n.from.row = r.from.row /\ n.from.links = ver /\ n.from.approvals = r.from.approvals
    BY <1>t DEF Reading
  <2> HIDE DEF n
  <2>3. req'[cl] = n
    BY <1>0, <2>1 DEF Become
  <2>4. RowFits(cl)'
    <3>1. n.lost # {} => n.for = "search"
      BY <1>0, <1>f, <2>2 DEF RowFits
    <3> QED
      BY <1>0, <1>f, <2>2, <2>3, <3>1, RowStillFits
  <2>5. Unread(cl)' /\ WriteFits(cl)'
    BY <1>f, <2>1, <2>2, <2>3 DEF WriteFits, Unread
  <2>6. PartsFit(cl)'
    <3>1. ContentAt(req[cl].from.links)' = ContentAt(ver)
      BY <1>v, <2>2, <2>3 DEF ContentAt
    <3>2. n.lost = {}
      BY <1>f, <2>1, <2>2 DEF Unread
    <3> QED
      BY <1>v, <2>2, <2>3, <3>1, <3>2 DEF PartsFit
  <2> QED
    BY <1>k, <2>1, <2>4, <2>5, <2>6, StepFits DEF Fits
<1>3. CASE GetElementApprovals(cl)
  <2> DEFINE b == r.for = "validate" /\ Verdict(r.row.status, r.links, approvals)
             n == [r EXCEPT !.pc = AfterApprovals(r), !.approvals = Shown(r.links, approvals),
                            !.from.approvals = ver, !.valid = b]
  <2>1. Become(cl, n) /\ r.pc = "approvals"
    BY <1>3 DEF GetElementApprovals, Resume
  <2>2. /\ n.pc = AfterApprovals(r) /\ n.row = r.row /\ n.links = r.links
        /\ n.approvals = Shown(r.links, approvals)
        /\ n.lost = r.lost /\ n.valid = b /\ n.for = r.for
        /\ n.from.row = r.from.row /\ n.from.links = r.from.links /\ n.from.approvals = ver
    BY <1>t DEF Reading
  <2>a. AfterApprovals(r) \in {"audits", "answered"}
        /\ (AfterApprovals(r) = "answered" => r.for # "status")
    BY DEF AfterApprovals
  <2> HIDE DEF n
  <2>3. req'[cl] = n
    BY <1>0, <2>1 DEF Become
  <2>4. RowFits(cl)'
    <3>1. n.lost # {} => n.for = "search"
      BY <1>0, <1>f, <2>2 DEF RowFits
    <3> QED
      BY <1>0, <1>f, <2>2, <2>3, <3>1, RowStillFits
  <2>5. Unread(cl)' /\ WriteFits(cl)'
    BY <2>2, <2>a, <2>3 DEF WriteFits, Unread
  <2>6. PartsFit(cl)'
    <3>1. /\ ContentAt(req[cl].from.approvals)' = ContentAt(ver)
          /\ ContentAt(req[cl].from.links)' = ContentAt(r.from.links)
      BY <1>v, <2>2, <2>3 DEF ContentAt
    <3>2. /\ "approvals" \notin n.lost
          /\ n.links = IF "purposes" \in n.lost THEN {} ELSE ContentAt(r.from.links).links
      BY <1>f, <2>1, <2>2 DEF Unread, PartsFit
    <3>3. n.valid => n.for = "validate" /\ Verdict(n.row.status, n.links, approvals)
      BY <2>2
    <3> QED
      BY <1>v, <2>2, <2>a, <2>3, <3>1, <3>2, <3>3 DEF PartsFit
  <2> QED
    BY <1>k, <2>1, <2>4, <2>5, <2>6, StepFits DEF Fits
<1>4. CASE GetStatusAudits(cl)
  <2> DEFINE n == [r EXCEPT !.pc = "answered", !.audits = {audits[i] : i \in DOMAIN audits}]
  <2>1. Become(cl, n) /\ r.pc = "audits"
    BY <1>4 DEF GetStatusAudits, Resume
  <2>2. /\ n.pc = "answered" /\ n.row = r.row /\ n.links = r.links /\ n.approvals = r.approvals
        /\ n.lost = r.lost /\ n.from = r.from /\ n.valid = r.valid /\ n.for = r.for
        /\ n.audits = {audits[i] : i \in DOMAIN audits}
    BY <1>t DEF Reading
  <2> HIDE DEF n
  <2>3. req'[cl] = n
    BY <1>0, <2>1 DEF Become
  <2>4. RowFits(cl)'
    <3>1. n.lost # {} => n.for = "search"
      BY <1>0, <1>f, <2>2 DEF RowFits
    <3> QED
      BY <1>0, <1>f, <2>2, <2>3, <3>1, RowStillFits
  <2>5. Unread(cl)' /\ WriteFits(cl)'
    BY <2>2, <2>3 DEF WriteFits, Unread
  <2>6. PartsFit(cl)'
    <3>1. /\ ContentAt(req[cl].from.approvals)' = ContentAt(r.from.approvals)
          /\ ContentAt(req[cl].from.links)' = ContentAt(r.from.links)
      BY <1>v, <2>2, <2>3 DEF ContentAt
    <3>2. \E a \in n.audits : a.cur = n.row.status
      <4>1. StatusHad(r.row.status) /\ audits \in Seq(Entry)
        BY <1>0, <1>f DEF RowFits, ReadsTypeOK, ContentTypeOK
      <4>2. PICK i \in 1 .. Len(audits) : audits[i].cur = r.row.status
        BY <4>1 DEF StatusHad
      <4>3. audits[i] \in n.audits
        BY <2>2, <4>1
      <4> QED
        BY <2>2, <4>2, <4>3
    <3> QED
      BY <1>f, <1>v, <2>1, <2>2, <2>3, <3>1, <3>2 DEF PartsFit
  <2> QED
    BY <1>k, <2>1, <2>4, <2>5, <2>6, StepFits DEF Fits
<1> QED
  BY <1>1, <1>2, <1>3, <1>4
\* A call that fails: the search goes on without the part, others end.
LEMMA FailureFits ==
  ASSUME ReadsInv, ReadsTypeOK', NEW cl \in Clients, CallFails(cl)
  PROVE  ReadsInv'
<1> DEFINE r == req[cl]
<1>0. /\ req \in [Clients -> {Idle, Begun} \union Writing \union Reading] /\ now \in Nat
      /\ ReadsTypeOK /\ UNCHANGED <<now, content>>
  BY DEF ReadsInv, ReadsTypeOK, ContentTypeOK, CallFails
<1>k. TablesKept
  BY <1>0, QuietTables
<1>1. CASE r.pc \in {"purposes", "approvals"} /\ r.for = "search"
  <2> DEFINE n == [r EXCEPT !.pc = IF r.pc = "purposes" THEN "approvals" ELSE "answered",
                            !.lost = @ \union {r.pc}]
  <2>t. r \in Reading /\ r.pc \in ReadPcs
    BY <1>0, <1>1, KindOfRequest DEF ReadPcs
  <2>f. RowFits(cl) /\ Unread(cl) /\ PartsFit(cl)
    BY DEF ReadsInv, Fits
  <2>v. ver' = ver /\ \A i : ContentAt(i)' = ContentAt(i)
    BY <1>0 DEF content, ContentAt, Present
  <2>1. Become(cl, n)
    BY <1>1 DEF CallFails
  <2>2. /\ n.pc = IF r.pc = "purposes" THEN "approvals" ELSE "answered"
        /\ n.lost = r.lost \union {r.pc}
        /\ n.row = r.row /\ n.links = r.links /\ n.approvals = r.approvals
        /\ n.from = r.from /\ n.valid = r.valid /\ n.for = r.for
    BY <2>t DEF Reading
  <2> HIDE DEF n
  <2>3. req'[cl] = n
    BY <1>0, <2>1 DEF Become
  <2>4. RowFits(cl)'
    BY <1>0, <1>1, <2>f, <2>t, <2>2, <2>3, RowStillFits
  <2>5. Unread(cl)' /\ WriteFits(cl)'
    BY <1>1, <2>f, <2>2, <2>3 DEF WriteFits, Unread
  <2>6. PartsFit(cl)'
    <3>1. ContentAt(req[cl].from.links)' = ContentAt(r.from.links)
      BY <2>v, <2>2, <2>3 DEF ContentAt
    <3>2. r.valid = FALSE /\ r.approvals = {} /\ "approvals" \notin r.lost
      BY <1>1, <2>f, <2>t DEF Unread, Reading
    <3>3. CASE r.pc = "purposes"
      <4>1. n.links = {} /\ "purposes" \in n.lost /\ n.pc = "approvals"
        BY <2>f, <2>2, <3>3 DEF Unread
      <4> QED
        BY <2>3, <4>1 DEF PartsFit
    <3>4. CASE r.pc = "approvals"
      <4>1. /\ n.links = IF "purposes" \in n.lost THEN {} ELSE ContentAt(r.from.links).links
            /\ n.pc = "answered" /\ n.for = "search" /\ "approvals" \in n.lost
            /\ n.valid = FALSE /\ n.approvals = {}
        BY <1>1, <2>f, <2>2, <3>2, <3>4 DEF PartsFit
      <4> QED
        BY <2>3, <3>1, <4>1 DEF PartsFit
    <3> QED
      BY <1>1, <3>3, <3>4
  <2> QED
    BY <1>k, <2>1, <2>4, <2>5, <2>6, StepFits DEF Fits
<1>2. CASE ~(r.pc \in {"purposes", "approvals"} /\ r.for = "search")
  <2>1. Become(cl, Idle)
    BY <1>2 DEF CallFails
  <2>2. req'[cl].pc = "idle"
    BY <1>0, <2>1 DEF Become, Idle
  <2> QED
    BY <1>k, <2>1, <2>2, RestFits, StepFits
<1> QED
  BY <1>1, <1>2

\* The consent starts with its first version, whole and in order.
LEMMA InitFits == Init => ReadsInv
<1> SUFFICES ASSUME Init
             PROVE  ReadsInv
  OBVIOUS
<1>1. ReadsTypeOK
  BY InitTyped
<1>2. LastWriteStands /\ TrailFits /\ TimesFit /\ TimesFollowCommits
  BY DEF Init, CreateConsent, LastWriteStands, TrailFits, TimesFit, TimesFollowCommits, InOrder
<1>3. PastWhole
  <2>1. WholeContent(Present)
    BY <1>1, <1>2, PresentIsWhole DEF ReadsTypeOK
  <2> QED
    BY <2>1 DEF Init, CreateConsent, PastWhole, ContentAt
<1>4. ASSUME NEW cl \in Clients
      PROVE  Fits(cl)
  BY DEF Init, Idle, Fits, WriteFits, RowFits, Unread, PartsFit, ReadPcs
<1> QED
  BY <1>1, <1>2, <1>3, <1>4 DEF ReadsInv

\* Every step keeps the invariant.
LEMMA NextFits == ReadsInv /\ [Next]_vars => ReadsInv'
<1> SUFFICES ASSUME ReadsInv, [Next]_vars
             PROVE  ReadsInv'
  OBVIOUS
<1>0. ReadsTypeOK' /\ now \in Nat /\ now <= now
      /\ req \in [Clients -> {Idle, Begun} \union Writing \union Reading]
  BY StepTyped DEF ReadsInv, ReadsTypeOK, ContentTypeOK
<1>1. ASSUME NEW cl \in Clients,
             \/ \E in \in Bodies : BeginUpdate(cl, in)
             \/ CommitUpdate(cl)
             \/ BeginRevoke(cl)
             \/ CommitRevoke(cl)
      PROVE  ReadsInv'
  BY <1>0, <1>1, WritingFits
<1>2. ASSUME NEW cl \in Clients, NEW for, UNCHANGED <<now, content>>,
             Become(cl, LoadConsentOutput(for))
      PROVE  ReadsInv'
  <2>1. req'[cl] = LoadConsentOutput(for)
    BY <1>0, <1>2 DEF Become
  <2> QED
    BY <1>0, <1>2, <2>1, LoadFits, QuietTables, StepFits
<1>3. ASSUME NEW cl \in Clients, Refetch(cl)
      PROVE  ReadsInv'
  BY <1>2, <1>3 DEF Refetch
<1>4. ASSUME NEW cl \in Clients, NEW for \in Kinds, GetConsent(cl, for)
      PROVE  ReadsInv'
  BY <1>2, <1>4 DEF GetConsent
<1>5. ASSUME NEW cl \in Clients,
             \/ GetAuthResources(cl)
             \/ GetPurposes(cl)
             \/ GetElementApprovals(cl)
             \/ GetStatusAudits(cl)
      PROVE  ReadsInv'
  BY <1>0, <1>5, ReadingFits
<1>6. ASSUME NEW cl \in Clients, NEW s \in NewAuths, AddAuthResource(cl, s)
      PROVE  ReadsInv'
  <2>1. TablesKept
    BY <1>0, <1>6, ReadsAssumption, CreateAuthFits DEF AddAuthResource
  <2>2. \A k \in Clients : Fits(k)'
    BY <1>0, <1>6, <2>1, OthersFit DEF AddAuthResource, TablesKept
  <2> QED
    BY <1>0, <2>1, <2>2 DEF TablesKept, ReadsInv
<1>7. ASSUME NEW cl \in Clients, Answer(cl)
      PROVE  ReadsInv'
  <2>1. TablesKept
    BY <1>0, <1>7, QuietTables DEF Answer
  <2>2. Become(cl, Idle) /\ req'[cl].pc = "idle"
    BY <1>0, <1>7 DEF Answer, Become, Idle
  <2> QED
    BY <1>0, <2>1, <2>2, RestFits, StepFits
<1>8. ASSUME NEW cl \in Clients, CallFails(cl)
      PROVE  ReadsInv'
  BY <1>0, <1>8, FailureFits
<1>9. ASSUME UNCHANGED <<content, req>>, now' \in Nat, now <= now'
      PROVE  ReadsInv'
  <2>1. TablesKept
    BY <1>9, QuietTables
  <2>2. \A k \in Clients : Fits(k)'
    BY <1>0, <1>9, <2>1, OthersFit DEF TablesKept
  <2> QED
    BY <1>0, <2>1, <2>2 DEF TablesKept, ReadsInv
<1>10. CASE Tick
  BY <1>0, <1>9, <1>10 DEF Tick
<1>11. CASE UNCHANGED vars
  BY <1>0, <1>9, <1>11 DEF vars
<1> QED
  BY <1>1, <1>3, <1>4, <1>5, <1>6, <1>7, <1>8, <1>10, <1>11 DEF Next, Done

\* Everything below, for any interleaving and any failures: what requests that
\* read and write have seen is that of the versions they read at, every version
\* of the consent is whole, and times and trail follow the commits.
THEOREM Invariance == Spec => []ReadsInv
  BY InitFits, NextFits, PTL DEF Spec

-----------------------------------------------------------------------------
(* The properties.                                                         *)

LEMMA AnswersAreWhole == ReadsInv => PurposesAreWhole
<1> SUFFICES ASSUME ReadsInv, NEW cl \in Clients, Answered(cl, Kinds),
                    NEW v \in req[cl].links
             PROVE  \/ ShownOf(req[cl], v) = ElementsOf[v]
                    \/ /\ ShownOf(req[cl], v) = {}
                       /\ \/ "approvals" \in req[cl].lost
                          \/ v \notin ContentAt(req[cl].from.approvals).links
  BY DEF PurposesAreWhole
<1> DEFINE r == req[cl]
           C == ContentAt(r.from.approvals)
<1>1. /\ r.pc = "answered"
      /\ r.approvals = IF "approvals" \in r.lost THEN {} ELSE Shown(r.links, C.approvals)
  BY DEF Answered, ReadsInv, Fits, PartsFit
<1>2. r.from.approvals \in 0 .. ver
  <2>1. r.from.approvals \in Nat /\ ver \in Nat
    BY <1>1, KindOfRequest DEF ReadsInv, Reading, ReadsTypeOK, ContentTypeOK
  <2> QED
    BY <1>1, <2>1 DEF ReadsInv, Fits, RowFits, ReadPcs
<1>3. WholeContent(C)
  BY <1>2 DEF ReadsInv, PastWhole
<1>4. CASE "approvals" \in r.lost
  BY <1>1, <1>4 DEF ShownOf
<1>5. CASE "approvals" \notin r.lost /\ v \notin C.links
  <2>1. \A a \in C.approvals : a.v # v
    BY <1>3, <1>5 DEF WholeContent
  <2> QED
    BY <1>1, <1>5, <2>1 DEF ShownOf, Shown
<1>6. CASE "approvals" \notin r.lost /\ v \in C.links
  <2>1. {b \in r.approvals : b.v = v} = {b \in C.approvals : b.v = v}
    BY <1>1, <1>6 DEF Shown
  <2>2. ShownOf(r, v) \subseteq ElementsOf[v]
    BY <1>3, <2>1 DEF ShownOf, WholeContent
  <2>3. ElementsOf[v] \subseteq ShownOf(r, v)
    BY <1>3, <1>6, <2>1 DEF ShownOf, WholeContent
  <2> QED
    BY <2>2, <2>3
<1> QED
  BY <1>4, <1>5, <1>6

LEMMA StatusIsShownWithEntry == ReadsInv => ShownStatusIsExplained
  BY DEF ReadsInv, Fits, PartsFit, ShownStatusIsExplained, Answered

LEMMA NewestIsStatus == ReadsInv => NewestEntryIsStatus
<1> SUFFICES ASSUME ReadsInv, NEW cl \in Clients, Answered(cl, {"status"}), late = {},
                    req[cl].from.row = ver
             PROVE  \E a \in req[cl].audits :
                      a.cur = req[cl].row.status /\ \A b \in req[cl].audits : b.at <= a.at
  BY DEF NewestEntryIsStatus
<1>1. /\ req[cl].audits = {audits[i] : i \in DOMAIN audits}
      /\ req[cl].row = row
  <2>1. ContentAt(ver) = Present
    BY PresentVersion
  <2>2. Present.row = row
    BY DEF Present
  <2> QED
    BY <2>1, <2>2 DEF ReadsInv, Fits, PartsFit, RowFits, ReadPcs, Answered
<1>2. audits \in Seq(Entry) /\ Len(audits) >= 1 /\ audits[Len(audits)].cur = row.status
      /\ InOrder(audits)
  BY DEF ReadsInv, ReadsTypeOK, ContentTypeOK, TrailFits, TimesFollowCommits
<1>3. \A i \in 1 .. Len(audits) : audits[i].at \in Nat
  <2>1. \A i \in 1 .. Len(audits) : audits[i] \in Entry
    BY <1>2
  <2>2. \A x \in Entry : x.at \in Nat
    BY DEF Entry
  <2> QED
    BY <2>1, <2>2
<1>4. Len(audits) \in 1 .. Len(audits) /\ DOMAIN audits = 1 .. Len(audits)
  BY <1>2
<1>5. \A i \in 1 .. Len(audits) : audits[i].at <= audits[Len(audits)].at
  <2> SUFFICES ASSUME NEW i \in 1 .. Len(audits)
               PROVE  audits[i].at <= audits[Len(audits)].at
    OBVIOUS
  <2>0. Len(audits) \in Nat
    BY <1>2
  <2>1. CASE i < Len(audits)
    BY <1>2, <1>4, <2>1 DEF InOrder
  <2>2. CASE i = Len(audits)
    <3>1. audits[i].at \in Nat
      BY <1>3
    <3>2. audits[i] = audits[Len(audits)]
      BY <2>2
    <3> QED
      BY <3>1, <3>2
  <2> QED
    BY <2>0, <2>1, <2>2
<1> QED
  BY <1>1, <1>2, <1>4, <1>5

LEMMA ValidHasGround == ReadsInv => VerdictHasGround
<1> SUFFICES ASSUME ReadsInv, NEW cl \in Clients, Answered(cl, {"validate"}), req[cl].valid
             PROVE  /\ ContentAt(req[cl].from.row).row.status = "ACTIVE"
                    /\ ContentAt(req[cl].from.links).links
                         = ContentAt(req[cl].from.approvals).links
                         => AllApproved(ContentAt(req[cl].from.approvals))
  BY DEF VerdictHasGround
<1> DEFINE r == req[cl]
           C == ContentAt(r.from.approvals)
<1>1. /\ r.pc = "answered" /\ r.for = "validate" /\ r.row = ContentAt(r.from.row).row
      /\ Verdict(r.row.status, r.links, C.approvals)
      /\ r.lost = {} /\ r.links = ContentAt(r.from.links).links
  <2>1. r.pc = "answered" /\ r.for = "validate" /\ Fits(cl)
    BY DEF Answered, ReadsInv
  <2>2. r.lost = {}
    <3>1. r \in Reading /\ (r.lost # {} => r.for = "search")
      BY <2>1, KindOfRequest DEF ReadsInv, Fits, RowFits, ReadPcs
    <3> QED
      BY <2>1, <3>1
  <2> QED
    BY <2>1, <2>2 DEF Fits, PartsFit, RowFits, ReadPcs
<1>2. ContentAt(r.from.row).row.status = "ACTIVE"
  BY <1>1 DEF Verdict
<1>3. ASSUME r.links = C.links
      PROVE  AllApproved(C)
  <2> SUFFICES ASSUME NEW v \in C.links, NEW e \in MandatoryOf[v]
               PROVE  [v |-> v, e |-> e, approved |-> TRUE] \in C.approvals
    BY DEF AllApproved
  <2>1. r.from.approvals \in 0 .. ver
    <3>1. r.from.approvals \in Nat /\ ver \in Nat
      BY <1>1, KindOfRequest DEF ReadsInv, Reading, ReadsTypeOK, ContentTypeOK
    <3> QED
      BY <1>1, <3>1 DEF ReadsInv, Fits, RowFits, ReadPcs
  <2>2. WholeContent(C) /\ C \in Content
    <3>1. C \in Content
      <4> DEFINE S == [at : Nat, content : Content]
      <4>1. /\ snaps \in Seq(S) /\ ver = Len(snaps) /\ Present \in Content
            /\ \A x \in S : x.content \in Content
        BY DEF ReadsInv, ReadsTypeOK, ContentTypeOK
      <4> HIDE DEF S
      <4>2. \A i \in 1 .. Len(snaps) : snaps[i].content \in Content
        BY <4>1
      <4>3. CASE r.from.approvals = ver
        BY <4>1, <4>3 DEF ContentAt
      <4>4. CASE r.from.approvals # ver
        <5>1. r.from.approvals + 1 \in 1 .. Len(snaps)
          BY <2>1, <4>1, <4>4
        <5> QED
          BY <4>2, <4>4, <5>1 DEF ContentAt
      <4> QED
        BY <4>3, <4>4
    <3> QED
      BY <2>1, <3>1 DEF ReadsInv, PastWhole
  <2>3. v \in Versions /\ e \in ElementsOf[v]
    BY <2>2, ContentAssumption DEF Content
  <2>4. PICK a \in C.approvals : a.v = v /\ a.e = e
    BY <2>2, <2>3 DEF WholeContent
  <2>5. a.approved = TRUE /\ a \in Approval
    <3>1. a \in Approval
      BY <2>2 DEF Content
    <3>2. a.approved
      BY <1>1, <1>3, <2>4 DEF Verdict, Shown
    <3> QED
      BY <3>1, <3>2 DEF Approval
  <2>6. a = [v |-> v, e |-> e, approved |-> TRUE]
    BY <2>4, <2>5 DEF Approval
  <2> QED
    BY <2>6
<1> QED
  BY <1>1, <1>2, <1>3

\* No answer shows a part of a purpose's elements: all, or none where they were
\* lost or the purpose was unlinked in between.
THEOREM WholePurposes == Spec => []PurposesAreWhole
  BY Invariance, AnswersAreWhole, PTL

\* The status shown with the status history has an entry in it.
THEOREM StatusIsExplained == Spec => []ShownStatusIsExplained
  BY Invariance, StatusIsShownWithEntry, PTL

\* The newest entry is the status when nothing was overtaken.
THEOREM NewestIsPresent == Spec => []NewestEntryIsStatus
  BY Invariance, NewestIsStatus, PTL

\* Snapshots are in order always, audit entries unless something was overtaken.
THEOREM OrderOfTimes == Spec => []TimesFollowCommits
<1>1. ReadsInv => TimesFollowCommits
  BY DEF ReadsInv
<1> QED
  BY <1>1, Invariance, PTL

\* A verdict "valid" rests on an ACTIVE row and on approved mandatory elements.
THEOREM VerdictIsGrounded == Spec => []VerdictHasGround
  BY Invariance, ValidHasGround, PTL

\* Only an overtaken update loses what another sent.
THEOREM NoOtherLoss == Spec => []LastWriteStands
<1>1. ReadsInv => LastWriteStands
  BY DEF ReadsInv
<1> QED
  BY <1>1, Invariance, PTL
=============================================================================
