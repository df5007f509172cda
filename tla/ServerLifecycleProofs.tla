------------------------ MODULE ServerLifecycleProofs ------------------------
(***************************************************************************)
(* Proofs about transactions and the life of the process, for any number   *)
(* of goroutines, consents, connections, failures, starts and operations:  *)
(* transactions implement AtomicTransactions, no pool of connections is    *)
(* lost, after a complete shutdown only the job opens the database again,  *)
(* nobody waits in a circle, and every variable keeps its type.            *)
(***************************************************************************)
EXTENDS ServerLifecycle, FiniteSetTheorems, TLAPS

-----------------------------------------------------------------------------
(* Transactions.                                                           *)

\* The view of a transaction when its next statement is at pc: what it has
\* read, with what it has written so far.
ViewAt(label, t) ==
  LET b == t.base
      h == Append(b.history, b.status)
  IN  CASE label = "CreateHistory" -> b
        [] label = "UpdateStatus" -> [status |-> b.status, history |-> h, audit |-> b.audit]
        [] label = "CreateStatusAudit" -> [status |-> t.new, history |-> h, audit |-> b.audit]
        [] label = "commit" -> Atomic!Written(b, t.new)

\* A transaction that has read has its own writes in its view.  Once it has the
\* lock what it has read is what is committed, and before it can write it has it.
TxFits(label, t, committed, mine) ==
  /\ t \in Tx
  /\ label # "GetByIDForUpdate" => t.view = ViewAt(label, t)
  /\ label # "GetByIDForUpdate" /\ mine => t.base = committed
  /\ label \in {"UpdateStatus", "CreateStatusAudit", "commit"} => mine
  /\ label = "CreateHistory" /\ engine = "locking" => mine

Mine(w) == lock[tx[w].c] = w

TransactionsFit ==
  /\ tables \in [Consents -> Atomic!Tables]
  /\ DOMAIN lock = Consents
  /\ DOMAIN tx = Workers /\ DOMAIN pc = Workers
  /\ \A w \in Workers : InTx(w) => TxFits(pc[w], tx[w], tables[tx[w].c], Mine(w))

-----------------------------------------------------------------------------
(* What the steps do to the transactions.                                  *)

\* The step leaves the transactions alone.
Elsewhere ==
  /\ UNCHANGED <<engine, tables, lock, tx>>
  /\ DOMAIN pc' = Workers
  /\ \A w \in Workers : InTx(w) \/ InTx(w)' => pc'[w] = pc[w]

\* The transaction of w, if it has one, has come to its end.
Ended(w) ==
  /\ lock' = [c \in Consents |-> IF lock[c] = w THEN NoOne ELSE lock[c]]
  /\ tx' = [tx EXCEPT ![w] = NoTx]
  /\ pc' = [pc EXCEPT ![w] = "idle"]
  /\ UNCHANGED engine

\* The transaction of w has been committed.
Committed(w) ==
  /\ pc[w] = "commit"
  /\ tables' = [tables EXCEPT ![tx[w].c] = tx[w].view]
  /\ Ended(w)

LEMMA EndTxEnds == ASSUME NEW w \in Workers, EndTx(w) PROVE Ended(w)
  BY DEF EndTx, GivesUp, Goto, Ended

LEMMA ElsewhereKeeps ==
  ASSUME TransactionsFit, Elsewhere
  PROVE  TransactionsFit'
<1>1. ASSUME NEW w \in Workers, InTx(w)'
      PROVE  TxFits(pc[w], tx[w], tables[tx[w].c], Mine(w))'
  <2>1. pc'[w] = pc[w]
    BY <1>1 DEF Elsewhere
  <2>2. InTx(w)
    BY <1>1, <2>1 DEF InTx, Statements
  <2>3. TxFits(pc[w], tx[w], tables[tx[w].c], Mine(w))
    BY <2>2 DEF TransactionsFit
  <2> QED
    BY <2>1, <2>3 DEF Elsewhere, TxFits, Mine, ViewAt
<1> QED
  BY <1>1 DEF TransactionsFit, Elsewhere

\* Whoever does not step keeps his transaction, if what is committed and the
\* lock stay the same for him.
LEMMA OthersKeep ==
  ASSUME TransactionsFit,
         NEW v \in Workers, InTx(v)', pc'[v] = pc[v], tx'[v] = tx[v],
         UNCHANGED engine,
         Mine(v)' = Mine(v),
         Mine(v) => tables'[tx[v].c] = tables[tx[v].c]
  PROVE  TxFits(pc[v], tx[v], tables[tx[v].c], Mine(v))'
<1>1. InTx(v)
  BY DEF InTx, Statements
<1>2. TxFits(pc[v], tx[v], tables[tx[v].c], Mine(v))
  BY <1>1 DEF TransactionsFit
<1> QED
  BY <1>2 DEF TxFits, ViewAt

LEMMA EndedKeeps ==
  ASSUME TransactionsFit, NEW w \in Workers, Ended(w),
         \/ UNCHANGED tables
         \/ Committed(w)
  PROVE  TransactionsFit'
<1> USE ProviderAssumption
<1>1. ASSUME NEW v \in Workers, InTx(v)'
      PROVE  /\ v # w /\ pc'[v] = pc[v] /\ tx'[v] = tx[v]
             /\ InTx(v) /\ tx[v].c \in Consents
  <2>1. v # w
    BY <1>1 DEF Ended, InTx, Statements, TransactionsFit
  <2>2. pc'[v] = pc[v] /\ tx'[v] = tx[v]
    BY <2>1 DEF Ended, TransactionsFit
  <2>3. InTx(v)
    BY <1>1, <2>2 DEF InTx, Statements
  <2>4. tx[v] \in Tx
    BY <2>3 DEF TransactionsFit, TxFits
  <2> QED
    BY <2>1, <2>2, <2>3, <2>4 DEF Tx
<1>2. ASSUME Committed(w)
      PROVE  /\ tx[w] \in Tx /\ tx[w].view = Atomic!Written(tx[w].base, tx[w].new)
             /\ Mine(w)
  <2>1. TxFits("commit", tx[w], tables[tx[w].c], Mine(w))
    BY <1>2 DEF Committed, TransactionsFit, InTx
  <2> QED
    BY <2>1 DEF TxFits, ViewAt
<1>3. tables' \in [Consents -> Atomic!Tables]
  <2>1. CASE UNCHANGED tables
    BY <2>1 DEF TransactionsFit
  <2>2. CASE Committed(w)
    BY <1>2, <2>2 DEF Committed, TransactionsFit, Tx
  <2> QED
    BY <2>1, <2>2
<1>4. ASSUME NEW v \in Workers, InTx(v)'
      PROVE  TxFits(pc[v], tx[v], tables[tx[v].c], Mine(v))'
  <2>1. Mine(v)' = Mine(v)
    BY <1>1, <1>4 DEF Mine, Ended, Workers
  <2>2. Mine(v) => tables'[tx[v].c] = tables[tx[v].c]
    <3>1. CASE UNCHANGED tables
      BY <3>1
    <3>2. CASE Committed(w)
      BY <1>1, <1>2, <1>4, <3>2 DEF Committed, Mine, TransactionsFit
    <3> QED
      BY <3>1, <3>2
  <2> QED
    BY <1>1, <1>4, <2>1, <2>2, OthersKeep DEF Ended
<1> QED
  BY <1>3, <1>4 DEF TransactionsFit, Ended

LEMMA BeginKeeps ==
  ASSUME TransactionsFit, NEW w \in Workers, BeginTx(w)
  PROVE  TransactionsFit'
<1>1. PICK c \in Consents, s \in Statuses :
        tx' = [tx EXCEPT ![w] = [c |-> c, new |-> s, base |-> tables[c], view |-> tables[c]]]
  BY DEF BeginTx
<1>2. pc' = [pc EXCEPT ![w] = "GetByIDForUpdate"] /\ UNCHANGED <<engine, tables, lock>>
  BY DEF BeginTx, Goto
<1>3. ASSUME NEW v \in Workers, InTx(v)'
      PROVE  TxFits(pc[v], tx[v], tables[tx[v].c], Mine(v))'
  <2>1. CASE v = w
    <3>1. tx'[w] = [c |-> c, new |-> s, base |-> tables[c], view |-> tables[c]]
      BY <1>1 DEF TransactionsFit
    <3>2. tx'[w] \in Tx
      BY <3>1 DEF Tx, TransactionsFit
    <3>3. pc'[w] = "GetByIDForUpdate"
      BY <1>2 DEF TransactionsFit
    <3> QED
      BY <2>1, <3>2, <3>3 DEF TxFits
  <2>2. CASE v # w
    <3>1. pc'[v] = pc[v] /\ tx'[v] = tx[v]
      BY <1>1, <1>2, <2>2 DEF TransactionsFit
    <3> QED
      BY <1>2, <1>3, <3>1, OthersKeep DEF Mine
  <2> QED
    BY <2>1, <2>2
<1> QED
  BY <1>1, <1>2, <1>3 DEF TransactionsFit

LEMMA ReadKeeps ==
  ASSUME TransactionsFit, NEW w \in Workers, GetByIDForUpdate(w)
  PROVE  TransactionsFit'
<1> USE ProviderAssumption
<1>1. InTx(w) /\ tx[w] \in Tx
  BY DEF GetByIDForUpdate, InTx, Statements, TransactionsFit, TxFits
<1>2. /\ tx' = [tx EXCEPT ![w].base = tables[tx[w].c], ![w].view = tables[tx[w].c]]
      /\ pc' = [pc EXCEPT ![w] = "CreateHistory"]
      /\ UNCHANGED <<engine, tables>>
      /\ \/ lock[tx[w].c] \in {NoOne, w} /\ lock' = [lock EXCEPT ![tx[w].c] = w]
         \/ engine = "sqlite" /\ UNCHANGED lock
  BY DEF GetByIDForUpdate, Goto, Reads, LockFree, Locks
<1>3. ASSUME NEW v \in Workers, InTx(v)'
      PROVE  TxFits(pc[v], tx[v], tables[tx[v].c], Mine(v))'
  <2>1. CASE v = w
    <3>1. tx'[w] = [tx[w] EXCEPT !.base = tables[tx[w].c], !.view = tables[tx[w].c]]
      BY <1>2 DEF TransactionsFit
    <3>2. tables[tx[w].c] \in Atomic!Tables
      BY <1>1 DEF Tx, TransactionsFit
    <3>3. tx'[w] \in Tx /\ tx'[w].c = tx[w].c /\ tx'[w].base = tables[tx[w].c]
          /\ tx'[w].view = tables[tx[w].c]
      BY <1>1, <3>1, <3>2 DEF Tx
    <3>4. pc'[w] = "CreateHistory"
      BY <1>2 DEF TransactionsFit
    <3>5. engine = "locking" => Mine(w)'
      BY <1>1, <1>2, <3>3 DEF Mine, TransactionsFit, Tx
    <3> QED
      BY <1>2, <2>1, <3>3, <3>4, <3>5 DEF TxFits, ViewAt
  <2>2. CASE v # w
    <3>1. pc'[v] = pc[v] /\ tx'[v] = tx[v]
      BY <1>2, <2>2 DEF TransactionsFit
    <3>2. InTx(v) /\ tx[v].c \in Consents
      BY <1>3, <3>1 DEF InTx, Statements, TransactionsFit, TxFits, Tx
    <3>3. Mine(v)' = Mine(v)
      BY <1>1, <1>2, <2>2, <3>1, <3>2 DEF Mine, TransactionsFit, Workers, Tx
    <3> QED
      BY <1>2, <1>3, <3>1, <3>3, OthersKeep
  <2> QED
    BY <2>1, <2>2
<1> QED
  BY <1>2, <1>3 DEF TransactionsFit

\* A statement that writes t keeps the transactions, if t is right for the next.
LEMMA WriteKeeps ==
  ASSUME TransactionsFit, NEW w \in Workers,
         NEW statement \in {"CreateHistory", "UpdateStatus", "CreateStatusAudit"},
         NEW next \in {"UpdateStatus", "CreateStatusAudit", "commit"},
         NEW t \in Atomic!Tables, t = ViewAt(next, tx[w]),
         Write(w, statement, next, t)
  PROVE  TransactionsFit'
<1> USE ProviderAssumption
<1>1. TxFits(statement, tx[w], tables[tx[w].c], Mine(w)) /\ tx[w] \in Tx
  BY DEF Write, InTx, Statements, TransactionsFit, TxFits
<1>2. /\ tx' = [tx EXCEPT ![w].view = t]
      /\ pc' = [pc EXCEPT ![w] = next]
      /\ UNCHANGED <<engine, tables>>
      /\ lock[tx[w].c] \in {NoOne, w}
      /\ lock' = [lock EXCEPT ![tx[w].c] = w]
  BY <1>1 DEF Write, Goto, Writable, LockFree, Locks, Tx
<1>3. tx[w].base = tables[tx[w].c]
  <2>1. CASE engine = "locking"
    BY <1>1, <2>1 DEF TxFits
  <2>2. CASE engine # "locking"
    BY <2>2 DEF Write, Writable
  <2> QED
    BY <2>1, <2>2
<1>4. ASSUME NEW v \in Workers, InTx(v)'
      PROVE  TxFits(pc[v], tx[v], tables[tx[v].c], Mine(v))'
  <2>1. CASE v = w
    <3>1. tx'[w] = [tx[w] EXCEPT !.view = t]
      BY <1>2 DEF TransactionsFit
    <3>2. /\ tx'[w] \in Tx /\ tx'[w].c = tx[w].c /\ tx'[w].base = tx[w].base
          /\ tx'[w].new = tx[w].new /\ tx'[w].view = t
      BY <1>1, <3>1 DEF Tx
    <3>3. pc'[w] = next
      BY <1>2 DEF TransactionsFit
    <3>4. Mine(w)'
      BY <1>1, <1>2, <3>2 DEF Mine, TransactionsFit, Tx
    <3>5. ViewAt(next, tx'[w]) = ViewAt(next, tx[w])
      BY <3>2 DEF ViewAt
    <3> QED
      BY <1>2, <1>3, <2>1, <3>2, <3>3, <3>4, <3>5 DEF TxFits
  <2>2. CASE v # w
    <3>1. pc'[v] = pc[v] /\ tx'[v] = tx[v]
      BY <1>2, <2>2 DEF TransactionsFit
    <3>2. InTx(v) /\ tx[v].c \in Consents
      BY <1>4, <3>1 DEF InTx, Statements, TransactionsFit, TxFits, Tx
    <3>3. Mine(v)' = Mine(v)
      BY <1>1, <1>2, <2>2, <3>1, <3>2 DEF Mine, TransactionsFit, Workers, Tx
    <3> QED
      BY <1>2, <1>4, <3>1, <3>3, OthersKeep
  <2> QED
    BY <2>1, <2>2
<1> QED
  BY <1>2, <1>4 DEF TransactionsFit

LEMMA StatementKeeps ==
  ASSUME TransactionsFit, NEW w \in Workers,
         CreateHistory(w) \/ UpdateStatus(w) \/ CreateStatusAudit(w)
  PROVE  TransactionsFit'
<1>1. TxFits(pc[w], tx[w], tables[tx[w].c], Mine(w)) /\ tx[w] \in Tx
  BY DEF CreateHistory, UpdateStatus, CreateStatusAudit, Write, InTx, Statements,
         TransactionsFit, TxFits
<1> DEFINE base == tx[w].base
           new == tx[w].new
           view == tx[w].view
<1>2. base \in Atomic!Tables /\ new \in Statuses
  BY <1>1 DEF Tx
<1> DEFINE written == Append(base.history, base.status)
           V(s, h, a) == [status |-> s, history |-> h, audit |-> a]
<1>v. /\ ViewAt("CreateHistory", tx[w]) = base
      /\ ViewAt("UpdateStatus", tx[w]) = V(base.status, written, base.audit)
      /\ ViewAt("CreateStatusAudit", tx[w]) = V(new, written, base.audit)
      /\ ViewAt("commit", tx[w]) = V(new, written, Append(base.audit, new))
  BY DEF ViewAt, Atomic!Written
<1>t. /\ base.status \in Statuses /\ written \in Seq(Statuses) /\ base.audit \in Seq(Statuses)
      /\ Append(base.audit, new) \in Seq(Statuses)
      /\ base = V(base.status, base.history, base.audit)
  BY <1>2 DEF Atomic!Tables
<1>u. ASSUME NEW s \in Statuses, NEW h \in Seq(Statuses), NEW a \in Seq(Statuses)
      PROVE  V(s, h, a) \in Atomic!Tables
  BY DEF Atomic!Tables
<1>3. CASE CreateHistory(w)
  <2>1. view = base
    BY <1>1, <1>3, <1>v DEF TxFits, CreateHistory, Write
  <2>2. [view EXCEPT !.history = Append(view.history, view.status)]
          = V(base.status, written, base.audit)
    <3>1. \A s, h, a, g : [V(s, h, a) EXCEPT !.history = g] = V(s, g, a)
      OBVIOUS
    <3>2. view = V(base.status, base.history, base.audit)
      BY <1>t, <2>1
    <3>3. Append(view.history, view.status) = written
      BY <2>1
    <3> HIDE DEF view, base, written, V
    <3> QED
      BY <3>1, <3>2, <3>3
  <2>3. Write(w, "CreateHistory", "UpdateStatus", V(base.status, written, base.audit))
    BY <1>3, <2>2 DEF CreateHistory
  <2> HIDE DEF V, base, written, view
  <2> QED
    BY <1>t, <1>u, <1>v, <2>3, WriteKeeps
<1>4. CASE UpdateStatus(w)
  <2>1. view = V(base.status, written, base.audit)
    BY <1>1, <1>4, <1>v DEF TxFits, UpdateStatus, Write
  <2>2. [view EXCEPT !.status = new] = V(new, written, base.audit)
    <3>1. \A s, h, a, g : [V(s, h, a) EXCEPT !.status = g] = V(g, h, a)
      OBVIOUS
    <3> HIDE DEF view, base, new, written, V
    <3> QED
      BY <2>1, <3>1
  <2>3. Write(w, "UpdateStatus", "CreateStatusAudit", V(new, written, base.audit))
    BY <1>4, <2>2 DEF UpdateStatus
  <2> HIDE DEF V, base, written, view, new
  <2> QED
    BY <1>2, <1>t, <1>u, <1>v, <2>3, WriteKeeps
<1>5. CASE CreateStatusAudit(w)
  <2>1. view = V(new, written, base.audit)
    BY <1>1, <1>5, <1>v DEF TxFits, CreateStatusAudit, Write
  <2>2. view.audit = base.audit
    BY <2>1
  <2>3. [view EXCEPT !.audit = Append(view.audit, new)]
          = V(new, written, Append(base.audit, new))
    <3>1. \A s, h, a, g : [V(s, h, a) EXCEPT !.audit = g] = V(s, h, g)
      OBVIOUS
    <3> DEFINE more == Append(base.audit, new)
    <3>2. Append(view.audit, new) = more
      BY <2>2
    <3>3. [V(new, written, base.audit) EXCEPT !.audit = more] = V(new, written, more)
      BY <3>1, Zenon
    <3> HIDE DEF view, base, new, written, V, more
    <3>4. [view EXCEPT !.audit = more] = V(new, written, more)
      BY <2>1, <3>3, Zenon
    <3>5. [view EXCEPT !.audit = Append(view.audit, new)] = [view EXCEPT !.audit = more]
      BY <3>2, Zenon
    <3> QED
      BY <3>4, <3>5, Zenon DEF more
  <2>4. Write(w, "CreateStatusAudit", "commit", V(new, written, Append(base.audit, new)))
    BY <1>5, <2>3 DEF CreateStatusAudit
  <2> HIDE DEF V, base, written, view, new
  <2> QED
    BY <1>2, <1>t, <1>u, <1>v, <2>4, WriteKeeps
<1> QED
  BY <1>3, <1>4, <1>5

-----------------------------------------------------------------------------
(* Every step, and the theorem.                                            *)

\* The steps of a transaction, by what they do.
TxEffect ==
  \/ Elsewhere
  \/ \E w \in Workers : BeginTx(w) \/ GetByIDForUpdate(w)
  \/ \E w \in Workers : CreateHistory(w) \/ UpdateStatus(w) \/ CreateStatusAudit(w)
  \/ \E w \in Workers : Ended(w) /\ UNCHANGED tables
  \/ \E w \in Workers : Committed(w)
  \/ /\ UNCHANGED <<engine, tables>>
     /\ pc' = [w \in Workers |-> "idle"]
     /\ lock' = [c \in Consents |-> NoOne]
     /\ tx' = [w \in Workers |-> NoTx]

LEMMA MainEffect ==
  ASSUME TransactionsFit, MainNext
  PROVE  TxEffect
<1>1. CASE Exit \/ Crash
  BY <1>1 DEF Exit, Crash, Ends, ProcessGone, TxEffect
<1>2. CASE ~(Exit \/ Crash)
  <2>1. UNCHANGED <<pc, engine, tables, lock, tx>>
    BY <1>2 DEF MainNext, Start, StartFails, Signal, Shutdown, ShutdownTimesOut,
                UnregisterServices, Close, CloseDatabase, MainStep, provider, database
  <2> QED
    BY <2>1 DEF Elsewhere, TransactionsFit, TxEffect
<1> QED
  BY <1>1, <1>2

LEMMA ProviderEffect ==
  ASSUME TransactionsFit, NEW w \in Workers,
         \/ ProviderStep(w) \/ Reopen(w) \/ ReopenFails(w)
         \/ Starts(w)
  PROVE  TxEffect
<1>1. UNCHANGED <<engine, tables, lock, tx>>
  BY DEF ProviderStep, Reopen, ReopenFails, Starts, database
<1>2. \E label \in {"idle", "client", "lock", "open", "call"} :
        pc' = [pc EXCEPT ![w] = label]
  BY DEF ProviderStep, Reopen, ReopenFails, Starts, GetConsentDBClient, DoubleCheck,
         PoolIsClosed, Query, InitializeClient, InitializeClientFails, StartOperation,
         GotClient, GivesUp, Goto
<1>3. PICK label \in {"idle", "client", "lock", "open", "call"} :
        pc' = [pc EXCEPT ![w] = label]
  BY <1>2
<1>4. ASSUME NEW v \in Workers, InTx(v) \/ InTx(v)'
      PROVE  pc'[v] = pc[v]
  <2>0. ~InTx(w)
    BY DEF ProviderStep, Reopen, ReopenFails, Starts, GetConsentDBClient, DoubleCheck,
           PoolIsClosed, Query, InitializeClient, InitializeClientFails, StartOperation,
           InTx, Statements
  <2>1. v # w
    BY <1>3, <1>4, <2>0 DEF InTx, Statements, TransactionsFit
  <2> QED
    BY <1>3, <2>1 DEF TransactionsFit
<1> QED
  BY <1>1, <1>3, <1>4 DEF Elsewhere, TransactionsFit, TxEffect

LEMMA StatementEffect ==
  ASSUME NEW w \in Workers, TransactionStep(w) \/ TransactionFailure(w)
  PROVE  TxEffect
<1>1. CASE BeginTx(w) \/ GetByIDForUpdate(w)
  BY <1>1 DEF TxEffect
<1>2. CASE CreateHistory(w) \/ UpdateStatus(w) \/ CreateStatusAudit(w)
  BY <1>2 DEF TxEffect
<1>3. CASE Commit(w)
  BY <1>3, EndTxEnds DEF Commit, Committed, TxEffect
<1>4. CASE CommitFails(w)
  BY <1>4, EndTxEnds DEF CommitFails, Committed, TxEffect
<1>5. CASE Conflict(w) \/ StatementFails(w) \/ StatementPanics(w)
  BY <1>5, EndTxEnds DEF Conflict, StatementFails, StatementPanics, TxEffect
<1> QED
  BY <1>1, <1>2, <1>3, <1>4, <1>5 DEF TransactionStep, TransactionFailure

LEMMA NextEffect ==
  ASSUME TransactionsFit, [Next]_vars
  PROVE  TxEffect
<1>1. CASE MainNext
  BY <1>1, MainEffect
<1>2. CASE (\E h \in Handlers : Accept(h)) \/ Tick
  BY <1>2, ProviderEffect DEF Accept, Tick, Workers
<1>3. CASE SchedulerStops \/ Done \/ UNCHANGED vars
  <2>1. UNCHANGED <<pc, engine, tables, lock, tx>>
    BY <1>3 DEF SchedulerStops, Done, vars, provider, database
  <2> QED
    BY <2>1 DEF Elsewhere, TransactionsFit, TxEffect
<1>4. CASE \E w \in Workers : Step(w) \/ Failure(w)
  BY <1>4, ProviderEffect, StatementEffect DEF Step, Failure
<1> QED
  BY <1>1, <1>2, <1>3, <1>4 DEF Next

LEMMA EffectKeeps ==
  ASSUME TransactionsFit, TxEffect
  PROVE  TransactionsFit'
<1>1. CASE Elsewhere
  BY <1>1, ElsewhereKeeps
<1>2. CASE \E w \in Workers : BeginTx(w) \/ GetByIDForUpdate(w)
  BY <1>2, BeginKeeps, ReadKeeps
<1>3. CASE \E w \in Workers : CreateHistory(w) \/ UpdateStatus(w) \/ CreateStatusAudit(w)
  BY <1>3, StatementKeeps
<1>4. CASE \E w \in Workers : Ended(w) /\ UNCHANGED tables
  BY <1>4, EndedKeeps
<1>5. CASE \E w \in Workers : Committed(w)
  BY <1>5, EndedKeeps DEF Committed
<1>6. CASE /\ UNCHANGED <<engine, tables>>
           /\ pc' = [w \in Workers |-> "idle"]
           /\ lock' = [c \in Consents |-> NoOne]
           /\ tx' = [w \in Workers |-> NoTx]
  BY <1>6 DEF TransactionsFit, InTx, Statements
<1> QED
  BY <1>1, <1>2, <1>3, <1>4, <1>5, <1>6 DEF TxEffect

\* A step is a transaction of AtomicTransactions, or none at all.
LEMMA EffectIsAtomic ==
  ASSUME TransactionsFit, TxEffect
  PROVE  [\E c \in Consents, s \in Statuses : Atomic!Transact(c, s)]_tables
<1>1. ASSUME NEW w \in Workers, Committed(w)
      PROVE  \E c \in Consents, s \in Statuses : Atomic!Transact(c, s)
  <2>1. TxFits("commit", tx[w], tables[tx[w].c], Mine(w))
    BY <1>1 DEF Committed, TransactionsFit, InTx
  <2>2. /\ tx[w].c \in Consents /\ tx[w].new \in Statuses
        /\ tx[w].view = Atomic!Written(tables[tx[w].c], tx[w].new)
    BY <2>1 DEF TxFits, ViewAt, Tx
  <2>3. tables' = [tables EXCEPT ![tx[w].c] = Atomic!Written(tables[tx[w].c], tx[w].new)]
    BY <1>1, <2>2 DEF Committed
  <2> QED
    BY <2>2, <2>3 DEF Atomic!Transact
<1>2. CASE \E w \in Workers : Committed(w)
  BY <1>1, <1>2
<1>3. CASE ~\E w \in Workers : Committed(w)
  <2>1. UNCHANGED tables
    BY <1>3 DEF TxEffect, Elsewhere, BeginTx, GetByIDForUpdate, CreateHistory,
                UpdateStatus, CreateStatusAudit, Write
  <2> QED
    BY <2>1
<1> QED
  BY <1>2, <1>3

LEMMA TransactionsFitInit == Init => TransactionsFit
<1> SUFFICES ASSUME Init PROVE TransactionsFit
  OBVIOUS
<1>1. PICK s \in Statuses :
        tables = [c \in Consents |-> [status |-> s, history |-> <<>>, audit |-> <<s>>]]
  BY DEF Init, TransactionsInit, Atomic!Init
<1>2. [status |-> s, history |-> <<>>, audit |-> <<s>>] \in Atomic!Tables
  BY DEF Atomic!Tables
<1> QED
  BY <1>1, <1>2 DEF Init, TransactionsInit, ProviderInit, TransactionsFit, InTx, Statements

\* The statements of a transaction, among those of others, failing, panicking
\* and lost with the process, amount to one atomic step on either engine.
THEOREM Atomicity == Spec => TransactionsAreAtomic
<1>1. Init => Atomic!Init
  BY DEF Init, TransactionsInit
<1>2. TransactionsFit /\ [Next]_vars => TransactionsFit'
  BY NextEffect, EffectKeeps
<1>3. TransactionsFit /\ [Next]_vars
        => [\E c \in Consents, s \in Statuses : Atomic!Transact(c, s)]_tables
  BY NextEffect, EffectIsAtomic
<1> QED
  BY <1>1, <1>2, <1>3, TransactionsFitInit, PTL DEF Spec, TransactionsAreAtomic, Atomic!Spec

-----------------------------------------------------------------------------
(* Pools.                                                                  *)

\* Whoever opens a pool is alone in it and there is none; the process has a
\* client from its start until the database is closed, and no request opens
\* another unless main has not waited for it.
PoolsFit ==
  /\ DOMAIN pc = Workers
  /\ NoPoolIsLost
  /\ open \subseteq Nat \ {0}
  /\ opened \in Nat
  /\ \A w \in Workers : pc[w] = "open" => writer = w /\ client = NoPool
  /\ phase \in Phases
  /\ phase = "down" => /\ open = {} /\ client = NoPool
                       /\ scheduler = "off"
                       /\ \A w \in Workers : pc[w] = "idle"
  /\ phase \in {"serving", "draining", "drained", "cancelled"} => client # NoPool
  /\ phase \in {"drained", "cancelled", "closed"} /\ ~timedOut
       => \A h \in Handlers : pc[h] = "idle"
  /\ OnlyJobReopens

LEMMA PoolsFitInit == Init => PoolsFit
  BY DEF Init, ProviderInit, TransactionsInit, PoolsFit, NoPoolIsLost, OnlyJobReopens,
         NoPool, Phases

LEMMA MainKeepsPools ==
  ASSUME PoolsFit, MainNext
  PROVE  PoolsFit'
<1>1. CASE Start
  BY <1>1, ProviderAssumption
     DEF Start, OpenPool, PoolsFit, NoPoolIsLost, OnlyJobReopens, NoPool, Phases, database
<1>2. CASE StartFails
  BY <1>2 DEF StartFails, PoolsFit, NoPoolIsLost, OnlyJobReopens, provider, lifecycle
<1>3. CASE Signal \/ UnregisterServices
  BY <1>3 DEF Signal, UnregisterServices, MainStep, PoolsFit, NoPoolIsLost, OnlyJobReopens,
              Phases, provider
<1>4. CASE Shutdown \/ ShutdownTimesOut
  BY <1>4 DEF Shutdown, ShutdownTimesOut, MainStep, PoolsFit, NoPoolIsLost, OnlyJobReopens,
              Phases, provider
<1>5. CASE Close
  BY <1>5 DEF Close, CloseDatabase, PoolsFit, NoPoolIsLost, OnlyJobReopens, Phases, NoPool
<1>6. CASE Exit \/ Crash
  BY <1>6 DEF Exit, Crash, Ends, ProcessGone, PoolsFit, NoPoolIsLost, OnlyJobReopens,
              Phases, NoPool
<1> QED
  BY <1>1, <1>2, <1>3, <1>4, <1>5, <1>6 DEF MainNext

\* A step of w that opens and closes no pool, and does not start an operation.
Passes(w) ==
  /\ pc[w] # "idle"
  /\ UNCHANGED <<client, open, opened, phase, scheduler, timedOut, reopened>>
  /\ \E label : pc' = [pc EXCEPT ![w] = label] /\ (label = "open" => client = NoPool)
  /\ IF pc'[w] = "open" THEN writer = NoOne /\ writer' = w
                         ELSE writer' = IF pc[w] = "open" THEN NoOne ELSE writer

LEMMA PassesKeepsPools ==
  ASSUME PoolsFit, NEW w \in Workers, Passes(w)
  PROVE  PoolsFit'
<1> USE ProviderAssumption
<1>1. PICK label : pc' = [pc EXCEPT ![w] = label]
  BY DEF Passes
<1>2. /\ pc'[w] = label
      /\ \A v \in Workers : v # w => pc'[v] = pc[v]
      /\ DOMAIN pc' = Workers
  BY <1>1 DEF PoolsFit
<1>3. ASSUME NEW v \in Workers, pc'[v] = "open"
      PROVE  writer' = v /\ client' = NoPool
  BY <1>2, <1>3 DEF Passes, PoolsFit
<1>4. phase' = "down" => \A v \in Workers : pc'[v] = "idle"
  BY DEF Passes, PoolsFit
<1>5. ASSUME phase' \in {"drained", "cancelled", "closed"}, ~timedOut', NEW h \in Handlers
      PROVE  pc'[h] = "idle"
  BY <1>2, <1>5 DEF Passes, PoolsFit, Workers
<1> QED
  BY <1>2, <1>3, <1>4, <1>5 DEF Passes, PoolsFit, NoPoolIsLost, OnlyJobReopens

LEMMA StepPasses ==
  ASSUME PoolsFit, NEW w \in Workers,
         \/ ProviderStep(w) \/ ReopenFails(w)
         \/ (TransactionStep(w) \/ TransactionFailure(w)) /\ UNCHANGED lifecycle
  PROVE  Passes(w)
<1>d. DOMAIN pc = Workers
  BY DEF PoolsFit
<1>1. CASE ProviderStep(w)
  <2>1. UNCHANGED <<open, opened, phase, scheduler, timedOut, reopened, client>> /\ pc[w] # "idle"
    BY <1>1 DEF ProviderStep, GetConsentDBClient, DoubleCheck, PoolIsClosed, Query, lifecycle
  <2>2. CASE GetConsentDBClient(w) \/ PoolIsClosed(w) \/ Query(w)
    <3>1. \E label \in {"call", "lock", "idle", "client"} : pc' = [pc EXCEPT ![w] = label]
      BY <2>2 DEF GetConsentDBClient, PoolIsClosed, Query, GotClient, GivesUp, Goto
    <3>2. pc'[w] # "open" /\ pc[w] # "open" /\ writer' = writer
      BY <1>d, <2>2, <3>1 DEF GetConsentDBClient, PoolIsClosed, Query
    <3> QED
      BY <2>1, <3>1, <3>2 DEF Passes
  <2>3. CASE DoubleCheck(w) /\ client # NoPool
    BY <1>d, <2>1, <2>3 DEF DoubleCheck, GotClient, Goto, Passes
  <2>4. CASE DoubleCheck(w) /\ client = NoPool
    BY <1>d, <2>1, <2>4 DEF DoubleCheck, Goto, Passes
  <2> QED
    BY <1>1, <2>2, <2>3, <2>4 DEF ProviderStep
<1>2. CASE ReopenFails(w)
  <2>1. /\ pc[w] = "open" /\ pc' = [pc EXCEPT ![w] = "idle"]
        /\ UNCHANGED <<client, open, opened, phase, scheduler, timedOut, reopened>>
        /\ writer' = NoOne
    BY <1>2 DEF ReopenFails, InitializeClientFails, GivesUp, Goto, lifecycle
  <2>2. pc'[w] = "idle"
    BY <1>d, <2>1
  <2> QED
    BY <2>1, <2>2 DEF Passes
<1>3. CASE TransactionStep(w) /\ UNCHANGED lifecycle
  <2>1. CASE BeginTx(w) \/ GetByIDForUpdate(w)
    BY <1>d, <1>3, <2>1 DEF BeginTx, GetByIDForUpdate, Goto, lifecycle, Passes
  <2>2. CASE CreateHistory(w) \/ UpdateStatus(w) \/ CreateStatusAudit(w)
    BY <1>d, <1>3, <2>2 DEF CreateHistory, UpdateStatus, CreateStatusAudit, Write, Goto,
                      lifecycle, Passes
  <2>3. CASE Commit(w) \/ Conflict(w)
    BY <1>d, <1>3, <2>3 DEF Commit, Conflict, Statements, EndTx, GivesUp, Goto, lifecycle, Passes
  <2> QED
    BY <1>3, <2>1, <2>2, <2>3 DEF TransactionStep
<1>4. CASE TransactionFailure(w) /\ UNCHANGED lifecycle
  BY <1>d, <1>4 DEF TransactionFailure, CommitFails, StatementFails, StatementPanics, Statements,
              EndTx, GivesUp, Goto, lifecycle, Passes
<1> QED
  BY <1>1, <1>2, <1>3, <1>4

LEMMA StartsKeepsPools ==
  ASSUME PoolsFit, (\E h \in Handlers : Accept(h)) \/ Tick
  PROVE  PoolsFit'
<1>1. PICK w \in Workers :
        /\ Starts(w)
        /\ phase = "serving" \/ (w = Job /\ phase # "down")
  BY DEF Accept, Tick, Workers, PoolsFit
<1>2. /\ pc' = [pc EXCEPT ![w] = "client"]
      /\ UNCHANGED <<writer, client, open, opened, phase, scheduler, timedOut, reopened>>
  BY <1>1 DEF Starts, StartOperation, Goto, lifecycle
<1>3. ASSUME NEW v \in Workers, pc'[v] = "open"
      PROVE  writer' = v /\ client' = NoPool
  BY <1>2, <1>3 DEF PoolsFit
<1>4. ASSUME phase' \in {"drained", "cancelled", "closed"}, ~timedOut', NEW h \in Handlers
      PROVE  pc'[h] = "idle"
  BY <1>1, <1>2, <1>4, ProviderAssumption DEF PoolsFit, Workers
<1> QED
  BY <1>1, <1>2, <1>3, <1>4 DEF PoolsFit, NoPoolIsLost, OnlyJobReopens

LEMMA ReopenKeepsPools ==
  ASSUME PoolsFit, NEW w \in Workers, Reopen(w)
  PROVE  PoolsFit'
<1> USE ProviderAssumption
<1>1. /\ pc[w] = "open" /\ client = NoPool /\ writer = w
      /\ pc' = [pc EXCEPT ![w] = "call"]
      /\ opened' = opened + 1 /\ open' = open \cup {opened + 1} /\ client' = opened + 1
      /\ reopened' = reopened \cup {w}
      /\ UNCHANGED <<phase, scheduler, timedOut>>
  BY DEF Reopen, InitializeClient, OpenPool, GotClient, Goto, PoolsFit
<1>2. phase = "closed"
  BY <1>1 DEF PoolsFit, Phases
<1>3. open = {}
  BY <1>1 DEF PoolsFit, NoPoolIsLost, NoPool
<1>4. timedOut \/ w = Job
  BY <1>1, <1>2 DEF PoolsFit, Workers
<1>5. \A v \in Workers : pc'[v] # "open"
  BY <1>1 DEF PoolsFit
<1> QED
  BY <1>1, <1>2, <1>3, <1>4, <1>5 DEF PoolsFit, NoPoolIsLost, OnlyJobReopens, Workers

LEMMA PoolsFitStep ==
  ASSUME PoolsFit, [Next]_vars
  PROVE  PoolsFit'
<1>1. CASE MainNext
  BY <1>1, MainKeepsPools
<1>2. CASE (\E h \in Handlers : Accept(h)) \/ Tick
  BY <1>2, StartsKeepsPools
<1>3. CASE SchedulerStops
  BY <1>3 DEF SchedulerStops, provider, PoolsFit, NoPoolIsLost, OnlyJobReopens
<1>4. CASE Done \/ UNCHANGED vars
  BY <1>4 DEF Done, vars, provider, lifecycle, PoolsFit, NoPoolIsLost, OnlyJobReopens
<1>5. ASSUME NEW w \in Workers, Step(w) \/ Failure(w)
      PROVE  PoolsFit'
  BY <1>5, StepPasses, PassesKeepsPools, ReopenKeepsPools DEF Step, Failure
<1> QED
  BY <1>1, <1>2, <1>3, <1>4, <1>5 DEF Next

\* Looking twice, and under the lock, opens one pool at a time, and closing the
\* database closes it.
THEOREM PoolsAreKept == Spec => []NoPoolIsLost
<1>1. PoolsFit => NoPoolIsLost
  BY DEF PoolsFit
<1> QED
  BY <1>1, PoolsFitInit, PoolsFitStep, PTL DEF Spec

\* Waiting for the requests keeps them from opening the closed database again.
THEOREM ShutdownIsFinalForRequests == Spec => []OnlyJobReopens
<1>1. PoolsFit => OnlyJobReopens
  BY DEF PoolsFit
<1> QED
  BY <1>1, PoolsFitInit, PoolsFitStep, PTL DEF Spec

-----------------------------------------------------------------------------
(* Clients.                                                                *)

\* Who has not been given a client has no pool.  Until the database is closed the
\* client's pool is open, and so is that of everybody who has been given it.
ClientsFit ==
  /\ DOMAIN pool = Workers
  /\ \A w \in Workers : pc[w] \in {"idle", "client", "lock", "open"} => pool[w] = NoPool
  /\ phase \in {"serving", "draining", "drained", "cancelled"}
       => client \in open /\ \A w \in Workers : pool[w] \in open \cup {NoPool}

\* A step of w that does not touch the pools, and leaves w with a client or without.
Holds(w) ==
  /\ UNCHANGED <<client, open, phase>>
  /\ \E label : pc' = [pc EXCEPT ![w] = label]
  /\ pool' = pool \/ \E p \in {client, NoPool} : pool' = [pool EXCEPT ![w] = p]
  /\ pc'[w] \in {"idle", "client", "lock", "open"} => pool'[w] = NoPool

LEMMA HoldsKeepsClients ==
  ASSUME PoolsFit, ClientsFit, NEW w \in Workers, Holds(w)
  PROVE  ClientsFit'
<1>1. DOMAIN pool' = Workers /\ \A v \in Workers : v # w => pc'[v] = pc[v] /\ pool'[v] = pool[v]
  BY DEF Holds, PoolsFit, ClientsFit
<1>2. pool'[w] \in {pool[w], client, NoPool}
  BY DEF Holds, ClientsFit
<1> QED
  BY <1>1, <1>2 DEF Holds, ClientsFit

LEMMA StepHolds ==
  ASSUME PoolsFit, ClientsFit, NEW w \in Workers,
         \/ ProviderStep(w) \/ ReopenFails(w) \/ Starts(w)
         \/ (TransactionStep(w) \/ TransactionFailure(w)) /\ UNCHANGED lifecycle
  PROVE  Holds(w)
<1>d. /\ DOMAIN pc = Workers /\ DOMAIN pool = Workers
      /\ pc[w] \in {"idle", "client", "lock", "open"} => pool[w] = NoPool
  BY DEF PoolsFit, ClientsFit
<1>1. CASE GetConsentDBClient(w) /\ UNCHANGED lifecycle
  BY <1>d, <1>1 DEF GetConsentDBClient, GotClient, Goto, lifecycle, Holds
<1>2. CASE DoubleCheck(w) /\ UNCHANGED lifecycle
  BY <1>d, <1>2 DEF DoubleCheck, GotClient, Goto, lifecycle, Holds
<1>3. CASE (PoolIsClosed(w) \/ Query(w)) /\ UNCHANGED lifecycle
  BY <1>d, <1>3 DEF PoolIsClosed, Query, GivesUp, Goto, lifecycle, Holds
<1>4. CASE ReopenFails(w) \/ Starts(w)
  BY <1>d, <1>4 DEF ReopenFails, InitializeClientFails, Starts, StartOperation, GivesUp, Goto,
                    lifecycle, Holds
<1>5. CASE TransactionStep(w) /\ UNCHANGED lifecycle
  <2>1. CASE BeginTx(w) \/ GetByIDForUpdate(w)
    BY <1>d, <1>5, <2>1 DEF BeginTx, GetByIDForUpdate, Goto, lifecycle, Holds
  <2>2. CASE CreateHistory(w) \/ UpdateStatus(w) \/ CreateStatusAudit(w)
    BY <1>d, <1>5, <2>2 DEF CreateHistory, UpdateStatus, CreateStatusAudit, Write, Goto,
                            lifecycle, Holds
  <2>3. CASE Commit(w) \/ Conflict(w)
    BY <1>d, <1>5, <2>3 DEF Commit, Conflict, EndTx, GivesUp, Goto, lifecycle, Holds
  <2> QED
    BY <1>5, <2>1, <2>2, <2>3 DEF TransactionStep
<1>6. CASE TransactionFailure(w) /\ UNCHANGED lifecycle
  BY <1>d, <1>6 DEF TransactionFailure, CommitFails, StatementFails, StatementPanics, EndTx,
                    GivesUp, Goto, lifecycle, Holds
<1> QED
  BY <1>1, <1>2, <1>3, <1>4, <1>5, <1>6 DEF ProviderStep

\* Only main, at the start, and one who finds no client change the pools that are
\* open, and the latter comes when the database has been closed.
LEMMA ClientsFitStep ==
  ASSUME PoolsFit, ClientsFit, [Next]_vars
  PROVE  ClientsFit'
<1>1. CASE MainNext
  <2>1. CASE Start
    BY <2>1 DEF Start, OpenPool, PoolsFit, ClientsFit
  <2>2. CASE StartFails \/ Signal \/ Shutdown \/ ShutdownTimesOut \/ UnregisterServices
    BY <2>2 DEF StartFails, Signal, Shutdown, ShutdownTimesOut, UnregisterServices, MainStep,
                provider, lifecycle, ClientsFit
  <2>3. CASE Close
    BY <2>3 DEF Close, CloseDatabase, ClientsFit
  <2>4. CASE Exit \/ Crash
    BY <2>4 DEF Exit, Crash, Ends, ProcessGone, ClientsFit
  <2> QED
    BY <1>1, <2>1, <2>2, <2>3, <2>4 DEF MainNext
<1>2. CASE (\E h \in Handlers : Accept(h)) \/ Tick
  BY <1>2, StepHolds, HoldsKeepsClients DEF Accept, Tick, Workers
<1>3. CASE SchedulerStops \/ Done \/ UNCHANGED vars
  BY <1>3 DEF SchedulerStops, Done, vars, provider, lifecycle, ClientsFit
<1>4. ASSUME NEW w \in Workers, Reopen(w)
      PROVE  ClientsFit'
  <2>1. /\ pc[w] = "open" /\ pc' = [pc EXCEPT ![w] = "call"]
        /\ pool' = [pool EXCEPT ![w] = opened + 1]
        /\ phase' = phase
    BY <1>4 DEF Reopen, InitializeClient, GotClient, Goto
  <2>2. phase = "closed"
    BY <2>1 DEF PoolsFit, Phases
  <2> QED
    BY <2>1, <2>2 DEF PoolsFit, ClientsFit
<1>5. ASSUME NEW w \in Workers, Step(w) \/ Failure(w)
      PROVE  ClientsFit'
  BY <1>4, <1>5, StepHolds, HoldsKeepsClients DEF Step, Failure
<1> QED
  BY <1>1, <1>2, <1>3, <1>5 DEF Next

\* Whoever has been given a client can use it to the end of the operation: the
\* database is closed when the requests have ended, unless main has given up
\* waiting, and nothing else closes a pool that somebody holds.
THEOREM ClientsAreGood == Spec => []ClientsStayGood
<1>1. Init => ClientsFit
  BY DEF Init, ProviderInit, ClientsFit
<1>2. PoolsFit /\ ClientsFit => ClientsStayGood
  BY DEF PoolsFit, ClientsFit, ClientsStayGood, Phases, Workers
<1> QED
  BY <1>1, <1>2, PoolsFitInit, PoolsFitStep, ClientsFitStep, PTL DEF Spec

-----------------------------------------------------------------------------
(* Connections.                                                            *)

\* The goroutines with a transaction on pool p.
Holders(p) == {w \in Workers : InTx(w) /\ pool[w] = p}

\* A connection is in use for each transaction, which is on a pool that has been opened.
ConnectionsFit ==
  /\ DOMAIN pc = Workers /\ DOMAIN pool = Workers
  /\ inUse \in [Pools -> Int]
  /\ open \subseteq Pools
  /\ opened \in Nat
  /\ \A w \in Workers : InTx(w) => pool[w] \in Pools
  /\ \A p \in Pools : inUse[p] = Cardinality(Holders(p))

\* The step neither begins nor ends a transaction.
SameHolders ==
  /\ UNCHANGED inUse
  /\ \A w \in Workers : /\ InTx(w)' <=> InTx(w)
                        /\ InTx(w) => pool'[w] = pool[w]

\* The step opens no pools but one of Pools.
PoolsTyped ==
  /\ DOMAIN pc' = Workers /\ DOMAIN pool' = Workers
  /\ open' \subseteq Pools
  /\ opened' \in Nat

LEMMA HoldersAreFinite == \A p : IsFiniteSet(Holders(p))
<1>1. IsFiniteSet(Workers)
  BY ProviderAssumption, FS_AddElement DEF Workers
<1> QED
  BY <1>1, FS_Subset DEF Holders

LEMMA SameHoldersKeeps ==
  ASSUME ConnectionsFit, SameHolders, PoolsTyped
  PROVE  ConnectionsFit'
<1>1. \A p \in Pools : Holders(p)' = Holders(p)
  BY DEF Holders, SameHolders
<1>2. \A w \in Workers : InTx(w)' => pool'[w] \in Pools
  BY DEF SameHolders, ConnectionsFit
<1> QED
  BY <1>1, <1>2 DEF ConnectionsFit, SameHolders, PoolsTyped

LEMMA BeginKeepsConnections ==
  ASSUME ConnectionsFit, NEW w \in Workers, BeginTx(w)
  PROVE  ConnectionsFit'
<1>1. /\ pc[w] = "call" /\ pool[w] \in open
      /\ inUse' = [inUse EXCEPT ![pool[w]] = @ + 1]
      /\ pc' = [pc EXCEPT ![w] = "GetByIDForUpdate"]
      /\ UNCHANGED <<pool, open, opened>>
  BY DEF BeginTx, Available, Goto
<1>2. ~InTx(w) /\ InTx(w)'
  BY <1>1 DEF InTx, Statements, ConnectionsFit
<1>3. \A v \in Workers : v # w => (InTx(v)' <=> InTx(v))
  BY <1>1 DEF InTx, Statements, ConnectionsFit
<1>4. pool[w] \in Pools
  BY <1>1 DEF ConnectionsFit
<1>5. ASSUME NEW p \in Pools
      PROVE  inUse'[p] = Cardinality(Holders(p)')
  <2>1. CASE p = pool[w]
    <3>1. Holders(p)' = Holders(p) \cup {w} /\ w \notin Holders(p)
      BY <1>1, <1>2, <1>3, <2>1 DEF Holders
    <3>2. Cardinality(Holders(p)') = Cardinality(Holders(p)) + 1
      BY <3>1, HoldersAreFinite, FS_AddElement
    <3> QED
      BY <1>1, <2>1, <3>2 DEF ConnectionsFit
  <2>2. CASE p # pool[w]
    <3>1. Holders(p)' = Holders(p)
      BY <1>1, <1>2, <1>3, <2>2 DEF Holders
    <3> QED
      BY <1>1, <2>2, <3>1 DEF ConnectionsFit
  <2> QED
    BY <2>1, <2>2
<1>6. inUse' \in [Pools -> Int]
  BY <1>1, <1>4 DEF ConnectionsFit
<1>7. \A v \in Workers : InTx(v)' => pool'[v] \in Pools
  BY <1>1, <1>3, <1>4 DEF ConnectionsFit
<1> QED
  BY <1>1, <1>5, <1>6, <1>7 DEF ConnectionsFit

LEMMA EndKeepsConnections ==
  ASSUME ConnectionsFit, NEW w \in Workers, InTx(w), EndTx(w)
  PROVE  ConnectionsFit'
<1>1. /\ inUse' = [inUse EXCEPT ![pool[w]] = @ - 1]
      /\ pc' = [pc EXCEPT ![w] = "idle"]
      /\ pool' = [pool EXCEPT ![w] = NoPool]
      /\ UNCHANGED <<open, opened>>
  BY DEF EndTx, GivesUp, Goto
<1>2. ~InTx(w)'
  BY <1>1 DEF InTx, Statements, ConnectionsFit
<1>3. \A v \in Workers : v # w => (InTx(v)' <=> InTx(v)) /\ pool'[v] = pool[v]
  BY <1>1 DEF InTx, Statements, ConnectionsFit
<1>4. pool[w] \in Pools
  BY DEF ConnectionsFit
<1>5. ASSUME NEW p \in Pools
      PROVE  inUse'[p] = Cardinality(Holders(p)')
  <2>1. CASE p = pool[w]
    <3>1. Holders(p)' = Holders(p) \ {w} /\ w \in Holders(p)
      BY <1>2, <1>3, <2>1 DEF Holders
    <3>2. Cardinality(Holders(p)') = Cardinality(Holders(p)) - 1
      BY <3>1, HoldersAreFinite, FS_RemoveElement
    <3> QED
      BY <1>1, <2>1, <3>2 DEF ConnectionsFit
  <2>2. CASE p # pool[w]
    <3>1. Holders(p)' = Holders(p)
      BY <1>2, <1>3, <2>2 DEF Holders
    <3> QED
      BY <1>1, <2>2, <3>1 DEF ConnectionsFit
  <2> QED
    BY <2>1, <2>2
<1>6. inUse' \in [Pools -> Int]
  BY <1>1, <1>4 DEF ConnectionsFit
<1>7. \A v \in Workers : InTx(v)' => pool'[v] \in Pools
  BY <1>2, <1>3 DEF ConnectionsFit
<1> QED
  BY <1>1, <1>5, <1>6, <1>7 DEF ConnectionsFit

LEMMA MainKeepsConnections ==
  ASSUME ConnectionsFit, MainNext
  PROVE  ConnectionsFit'
<1>1. CASE Exit \/ Crash
  <2>1. /\ pc' = [w \in Workers |-> "idle"] /\ pool' = [w \in Workers |-> NoPool]
        /\ inUse' = [p \in Pools |-> 0] /\ open' = {} /\ opened' = opened
    BY <1>1 DEF Exit, Crash, Ends, ProcessGone
  <2>2. \A p \in Pools : Holders(p)' = {}
    BY <2>1 DEF Holders, InTx, Statements
  <2> QED
    BY <2>1, <2>2, FS_EmptySet DEF ConnectionsFit, InTx, Statements
<1>2. CASE ~(Exit \/ Crash)
  <2>1. UNCHANGED <<pc, pool, inUse>>
    BY <1>2 DEF MainNext, Start, StartFails, Signal, Shutdown, ShutdownTimesOut,
                UnregisterServices, Close, CloseDatabase, MainStep, provider
  <2>2. \/ UNCHANGED <<open, opened>>
        \/ opened < MaxPools /\ opened' = opened + 1 /\ open' = open \cup {opened + 1}
        \/ opened' = opened /\ open' = open \ {client}
    BY <1>2 DEF MainNext, Start, OpenPool, StartFails, Signal, Shutdown, ShutdownTimesOut,
                UnregisterServices, Close, CloseDatabase, MainStep, provider
  <2>3. PoolsTyped
    <3>1. open' \subseteq Pools
      <4>1. CASE opened < MaxPools /\ opened' = opened + 1 /\ open' = open \cup {opened + 1}
        <5>1. opened + 1 \in Pools
          BY <4>1, ProviderAssumption DEF ConnectionsFit, Pools
        <5> QED
          BY <4>1, <5>1 DEF ConnectionsFit
      <4> QED
        BY <2>2, <4>1 DEF ConnectionsFit
    <3>2. opened' \in Nat
      BY <2>2 DEF ConnectionsFit
    <3> QED
      BY <2>1, <3>1, <3>2 DEF PoolsTyped, ConnectionsFit
  <2>4. SameHolders
    BY <2>1 DEF SameHolders, InTx
  <2> QED
    BY <2>3, <2>4, SameHoldersKeeps
<1> QED
  BY <1>1, <1>2

\* The steps of a goroutine that neither begin nor end a transaction.
LEMMA QuietStepKeepsConnections ==
  ASSUME ConnectionsFit, NEW w \in Workers,
         \/ ProviderStep(w) \/ Reopen(w) \/ ReopenFails(w) \/ Starts(w)
         \/ GetByIDForUpdate(w) \/ CreateHistory(w) \/ UpdateStatus(w) \/ CreateStatusAudit(w)
  PROVE  ConnectionsFit'
<1>d. DOMAIN pc = Workers /\ DOMAIN pool = Workers
  BY DEF ConnectionsFit
<1>1. CASE ProviderStep(w)
  <2>1. /\ UNCHANGED <<inUse, open, opened>>
        /\ pc[w] \in {"client", "lock", "call"}
        /\ \E label \in {"call", "lock", "open", "idle", "client"} : pc' = [pc EXCEPT ![w] = label]
    BY <1>1 DEF ProviderStep, GetConsentDBClient, DoubleCheck, PoolIsClosed, Query,
                GotClient, GivesUp, Goto
  <2>2. pool' = pool \/ \E p : pool' = [pool EXCEPT ![w] = p]
    BY <1>1 DEF ProviderStep, GetConsentDBClient, DoubleCheck, PoolIsClosed, Query,
                GotClient, GivesUp
  <2>3. SameHolders
    BY <1>d, <2>1, <2>2 DEF SameHolders, InTx, Statements
  <2>4. PoolsTyped
    BY <1>d, <2>1, <2>2 DEF PoolsTyped, ConnectionsFit
  <2> QED
    BY <2>3, <2>4, SameHoldersKeeps
<1>2. CASE Reopen(w)
  <2>1. /\ pc[w] = "open" /\ pc' = [pc EXCEPT ![w] = "call"]
        /\ pool' = [pool EXCEPT ![w] = opened + 1]
        /\ opened < MaxPools /\ opened' = opened + 1 /\ open' = open \cup {opened + 1}
        /\ UNCHANGED inUse
    BY <1>2 DEF Reopen, InitializeClient, OpenPool, GotClient, Goto
  <2>2. SameHolders
    BY <1>d, <2>1 DEF SameHolders, InTx, Statements
  <2>3. opened + 1 \in Pools
    BY <2>1, ProviderAssumption DEF ConnectionsFit, Pools
  <2>4. PoolsTyped
    BY <1>d, <2>1, <2>3 DEF PoolsTyped, ConnectionsFit
  <2> QED
    BY <2>2, <2>4, SameHoldersKeeps
<1>3. CASE ReopenFails(w) \/ Starts(w)
  <2>1. /\ UNCHANGED <<inUse, open, opened>>
        /\ pc[w] \in {"open", "idle"}
        /\ \E label \in {"idle", "client"} : pc' = [pc EXCEPT ![w] = label]
        /\ pool' = pool \/ pool' = [pool EXCEPT ![w] = NoPool]
    BY <1>3 DEF ReopenFails, InitializeClientFails, Starts, StartOperation, GivesUp, Goto
  <2>2. SameHolders
    BY <1>d, <2>1 DEF SameHolders, InTx, Statements
  <2>3. PoolsTyped
    BY <1>d, <2>1 DEF PoolsTyped, ConnectionsFit
  <2> QED
    BY <2>2, <2>3, SameHoldersKeeps
<1>4. CASE GetByIDForUpdate(w) \/ CreateHistory(w) \/ UpdateStatus(w) \/ CreateStatusAudit(w)
  <2>1. /\ UNCHANGED <<inUse, open, opened, pool>>
        /\ pc[w] \in Statements
        /\ \E label \in Statements \cup {"commit"} : pc' = [pc EXCEPT ![w] = label]
    BY <1>4 DEF GetByIDForUpdate, CreateHistory, UpdateStatus, CreateStatusAudit, Write,
                Goto, Statements
  <2>2. SameHolders
    BY <1>d, <2>1 DEF SameHolders, InTx
  <2>3. PoolsTyped
    BY <1>d, <2>1 DEF PoolsTyped, ConnectionsFit
  <2> QED
    BY <2>2, <2>3, SameHoldersKeeps
<1> QED
  BY <1>1, <1>2, <1>3, <1>4

LEMMA ConnectionsFitInit ==
  ASSUME Init
  PROVE  ConnectionsFit
<1>1. /\ pc = [w \in Workers |-> "idle"] /\ pool = [w \in Workers |-> NoPool]
      /\ inUse = [p \in Pools |-> 0] /\ open = {} /\ opened = 0
  BY DEF Init, ProviderInit
<1>2. \A p \in Pools : Holders(p) = {}
  BY <1>1 DEF Holders, InTx, Statements
<1> QED
  BY <1>1, <1>2, FS_EmptySet DEF ConnectionsFit, InTx, Statements

LEMMA ConnectionsFitStep ==
  ASSUME ConnectionsFit, [Next]_vars
  PROVE  ConnectionsFit'
<1>1. CASE MainNext
  BY <1>1, MainKeepsConnections
<1>2. CASE (\E h \in Handlers : Accept(h)) \/ Tick
  BY <1>2, QuietStepKeepsConnections DEF Accept, Tick, Workers
<1>3. CASE SchedulerStops \/ Done \/ UNCHANGED vars
  <2>1. UNCHANGED <<pc, pool, inUse, open, opened>>
    BY <1>3 DEF SchedulerStops, Done, vars, provider
  <2> QED
    BY <2>1, SameHoldersKeeps DEF SameHolders, PoolsTyped, InTx, ConnectionsFit
<1>4. ASSUME NEW w \in Workers, Step(w) \/ Failure(w)
      PROVE  ConnectionsFit'
  <2>1. CASE \/ ProviderStep(w) \/ Reopen(w) \/ ReopenFails(w)
             \/ GetByIDForUpdate(w) \/ CreateHistory(w) \/ UpdateStatus(w) \/ CreateStatusAudit(w)
    BY <2>1, QuietStepKeepsConnections
  <2>2. CASE BeginTx(w)
    BY <2>2, BeginKeepsConnections
  <2>3. CASE Commit(w) \/ Conflict(w) \/ CommitFails(w) \/ StatementFails(w) \/ StatementPanics(w)
    <3>1. InTx(w) /\ EndTx(w)
      BY <2>3 DEF Commit, Conflict, CommitFails, StatementFails, StatementPanics, InTx
    <3> QED
      BY <3>1, EndKeepsConnections
  <2> QED
    BY <1>4, <2>1, <2>2, <2>3 DEF Step, Failure, TransactionStep, TransactionFailure
<1> QED
  BY <1>1, <1>2, <1>3, <1>4 DEF Next

\* However a transaction ends, its connection comes back to the pool once.
THEOREM ConnectionsAreKept == Spec => []NoConnectionIsLost
<1>1. ConnectionsFit => NoConnectionIsLost
  BY DEF ConnectionsFit, NoConnectionIsLost, Holders
<1> QED
  BY <1>1, ConnectionsFitInit, ConnectionsFitStep, PTL DEF Spec

-----------------------------------------------------------------------------
(* Types.                                                                  *)

\* The goroutines, the provider and the pools have their types.
ProviderTyped ==
  /\ pc \in [Workers -> {"idle", "client", "lock", "open", "call", "commit"} \cup Statements]
  /\ call \in [Workers -> Calls]
  /\ pool \in [Workers -> Pools \cup {NoPool}]
  /\ writer \in Workers \cup {NoOne}
  /\ client \in Pools \cup {NoPool}
  /\ open \in SUBSET Pools
  /\ opened \in 0..MaxPools

\* The process and what is counted have their types.
ProcessTyped ==
  /\ engine \in {"locking", "sqlite"}
  /\ faults \in 0..MaxFaults
  /\ phase \in Phases
  /\ scheduler \in {"off", "on", "cancelled"}
  /\ timedOut \in BOOLEAN
  /\ reopened \in SUBSET Workers
  /\ starts \in 0..MaxStarts
  /\ operations \in 0..MaxOperations

\* The locks and the transactions, of those who have none too, have their types.
LocksTyped ==
  /\ lock \in [Consents -> Workers \cup {NoOne}]
  /\ tx \in [Workers -> Tx \cup {NoTx}]

LEMMA TypeParts ==
  ASSUME TransactionsFit, ConnectionsFit
  PROVE  RuntimeTypeOK <=> ProviderTyped /\ ProcessTyped /\ LocksTyped
<1>1. \A p \in Pools : Cardinality(Holders(p)) \in Nat
  BY HoldersAreFinite, FS_CardinalityType
<1>2. inUse \in [Pools -> Nat]
  BY <1>1 DEF ConnectionsFit
<1>3. tables \in [Consents -> Atomic!Tables]
  BY DEF TransactionsFit
<1> QED
  BY <1>2, <1>3 DEF RuntimeTypeOK, ProviderTyped, ProcessTyped, LocksTyped

\* A goroutine goes to a place there is, with or without a pool there is.
LEMMA GoesTyped ==
  ASSUME ProviderTyped, NEW w \in Workers,
         NEW label \in {"idle", "client", "lock", "open", "call", "commit"} \cup Statements,
         Goto(w, label)
  PROVE  pc' \in [Workers -> {"idle", "client", "lock", "open", "call", "commit"} \cup Statements]
  BY DEF ProviderTyped, Goto

LEMMA OpenTyped ==
  ASSUME ProviderTyped, OpenPool
  PROVE  /\ opened' \in 0..MaxPools /\ open' \in SUBSET Pools /\ client' \in Pools \cup {NoPool}
         /\ opened + 1 \in Pools
<1>1. opened + 1 \in Pools
  BY ProviderAssumption DEF ProviderTyped, OpenPool, Pools
<1>2. opened + 1 \in 0..MaxPools
  BY ProviderAssumption DEF ProviderTyped, OpenPool
<1> QED
  BY <1>1, <1>2 DEF ProviderTyped, OpenPool

\* Every step of the process keeps the types.
LEMMA MainTyped ==
  ASSUME ProviderTyped, ProcessTyped, LocksTyped, MainNext
  PROVE  ProviderTyped' /\ ProcessTyped' /\ LocksTyped'
<1>f. ASSUME Fault
      PROVE  faults' \in 0..MaxFaults
  BY <1>f, FaultsAssumption DEF Fault, ProcessTyped
<1>s. ASSUME starts < MaxStarts, starts' = starts + 1
      PROVE  starts' \in 0..MaxStarts
  BY <1>s, LifecycleAssumption DEF ProcessTyped
<1>1. CASE Start
  <2>1. ProviderTyped'
    BY <1>1, OpenTyped DEF Start, ProviderTyped
  <2>2. ProcessTyped' /\ LocksTyped'
    BY <1>1, <1>s DEF Start, ProcessTyped, LocksTyped, database, Phases, Tx, Workers
  <2> QED
    BY <2>1, <2>2
<1>2. CASE StartFails
  BY <1>2, <1>f, <1>s DEF StartFails, ProviderTyped, ProcessTyped, LocksTyped, provider, database,
                          lifecycle
<1>3. CASE Signal \/ Shutdown \/ ShutdownTimesOut \/ UnregisterServices
  <2>1. UNCHANGED <<provider, engine, database, faults, reopened, starts, operations>>
    BY <1>3 DEF Signal, Shutdown, ShutdownTimesOut, UnregisterServices, MainStep
  <2>2. phase' \in Phases /\ scheduler' \in {"off", "on", "cancelled"} /\ timedOut' \in BOOLEAN
    BY <1>3 DEF Signal, Shutdown, ShutdownTimesOut, UnregisterServices, ProcessTyped, Phases
  <2> QED
    BY <2>1, <2>2 DEF ProviderTyped, ProcessTyped, LocksTyped, provider, database
<1>4. CASE Close
  BY <1>4 DEF Close, CloseDatabase, ProviderTyped, ProcessTyped, LocksTyped, database, Phases
<1>5. CASE Exit \/ Crash
  <2>1. Ends /\ faults' \in 0..MaxFaults
    BY <1>5, <1>f DEF Exit, Crash, ProcessTyped
  <2>2. ProviderTyped'
    BY <2>1 DEF Ends, ProcessGone, ProviderTyped
  <2>3. ProcessTyped' /\ LocksTyped'
    BY <2>1 DEF Ends, ProcessTyped, LocksTyped, Phases
  <2> QED
    BY <2>2, <2>3
<1> QED
  BY <1>1, <1>2, <1>3, <1>4, <1>5 DEF MainNext

\* Every step of a goroutine keeps the types of the provider and the process.
LEMMA StepTyped ==
  ASSUME ProviderTyped, ProcessTyped, NEW w \in Workers,
         Step(w) \/ Failure(w)
  PROVE  ProviderTyped' /\ ProcessTyped'
<1>f. ASSUME Fault
      PROVE  faults' \in 0..MaxFaults
  BY <1>f, FaultsAssumption DEF Fault, ProcessTyped
<1>1. ProcessTyped'
  <2>1. UNCHANGED <<engine, phase, scheduler, timedOut, starts, operations>>
    BY DEF Step, Failure, ProviderStep, Reopen, ReopenFails, TransactionStep, TransactionFailure,
           BeginTx, GetByIDForUpdate, CreateHistory, UpdateStatus, CreateStatusAudit, Write,
           Commit, Conflict, CommitFails, StatementFails, StatementPanics, EndTx, lifecycle
  <2>2. faults' = faults \/ Fault
    BY DEF Step, Failure, ProviderStep, Reopen, ReopenFails, TransactionStep, TransactionFailure,
           BeginTx, GetByIDForUpdate, CreateHistory, UpdateStatus, CreateStatusAudit, Write,
           Commit, Conflict, CommitFails, StatementFails, StatementPanics
  <2>3. reopened' = reopened \/ reopened' = reopened \cup {w}
    BY DEF Step, Failure, ProviderStep, Reopen, ReopenFails, lifecycle
  <2> QED
    BY <1>f, <2>1, <2>2, <2>3 DEF ProcessTyped
<1>2. ASSUME ProviderStep(w) \/ ReopenFails(w)
      PROVE  ProviderTyped'
  BY <1>2 DEF ProviderStep, ReopenFails, GetConsentDBClient, DoubleCheck, PoolIsClosed, Query,
              InitializeClientFails, GotClient, GivesUp, Goto, ProviderTyped, Calls
<1>3. ASSUME Reopen(w)
      PROVE  ProviderTyped'
  <2>1. InitializeClient(w) /\ OpenPool
    BY <1>3 DEF Reopen, InitializeClient
  <2> QED
    BY <2>1, OpenTyped DEF InitializeClient, GotClient, Goto, ProviderTyped
<1>4. ASSUME TransactionStep(w) \/ TransactionFailure(w)
      PROVE  ProviderTyped'
  <2>1. /\ UNCHANGED <<call, writer, client, open, opened>>
        /\ pool' = pool \/ pool' = [pool EXCEPT ![w] = NoPool]
        /\ \E label \in Statements \cup {"idle", "commit"} : Goto(w, label)
    BY <1>4 DEF TransactionStep, TransactionFailure, BeginTx, GetByIDForUpdate, CreateHistory,
                UpdateStatus, CreateStatusAudit, Write, Commit, Conflict, CommitFails,
                StatementFails, StatementPanics, EndTx, GivesUp, Statements
  <2> QED
    BY <2>1, GoesTyped DEF ProviderTyped
<1> QED
  BY <1>1, <1>2, <1>3, <1>4 DEF Step, Failure

\* And those of the locks and transactions, which fit after it.
LEMMA StepLocksTyped ==
  ASSUME LocksTyped, TransactionsFit, TransactionsFit', NEW w \in Workers, Step(w) \/ Failure(w)
  PROVE  LocksTyped'
<1>1. CASE ProviderStep(w) \/ Reopen(w) \/ ReopenFails(w)
  BY <1>1 DEF ProviderStep, Reopen, ReopenFails, LocksTyped, database
<1>2. CASE \/ BeginTx(w) \/ GetByIDForUpdate(w)
           \/ CreateHistory(w) \/ UpdateStatus(w) \/ CreateStatusAudit(w)
  <2>1. /\ \E label \in Statements \cup {"commit"} : Goto(w, label)
        /\ lock' = lock \/ lock' = [lock EXCEPT ![tx[w].c] = w]
        /\ \A v \in Workers : v # w => tx'[v] = tx[v]
        /\ DOMAIN tx' = Workers
    BY <1>2 DEF BeginTx, GetByIDForUpdate, CreateHistory, UpdateStatus, CreateStatusAudit, Write,
                Reads, Locks, Statements, LocksTyped
  <2>2. InTx(w)'
    BY <2>1 DEF Goto, InTx, TransactionsFit
  <2>3. tx'[w] \in Tx
    BY <2>2 DEF TransactionsFit, TxFits
  <2>4. \A v \in Workers : tx'[v] \in Tx \cup {NoTx}
    BY <2>1, <2>3 DEF LocksTyped
  <2>5. tx' = [v \in Workers |-> tx'[v]]
    BY <1>2, <2>1 DEF BeginTx, GetByIDForUpdate, CreateHistory, UpdateStatus, CreateStatusAudit,
                      Write, Reads, LocksTyped
  <2>6. tx' \in [Workers -> Tx \cup {NoTx}]
    BY <2>4, <2>5
  <2> QED
    BY <2>1, <2>6 DEF LocksTyped
<1>3. CASE \/ Commit(w) \/ Conflict(w) \/ CommitFails(w) \/ StatementFails(w)
           \/ StatementPanics(w)
  BY <1>3 DEF Commit, Conflict, CommitFails, StatementFails, StatementPanics, EndTx, LocksTyped
<1> QED
  BY <1>1, <1>2, <1>3 DEF Step, Failure, TransactionStep, TransactionFailure

\* Every step keeps the types.
LEMMA TypeStep ==
  ASSUME ProviderTyped, ProcessTyped, LocksTyped, TransactionsFit, TransactionsFit', [Next]_vars
  PROVE  ProviderTyped' /\ ProcessTyped' /\ LocksTyped'
<1>1. CASE MainNext
  BY <1>1, MainTyped
<1>2. ASSUME NEW w \in Workers, Starts(w)
      PROVE  ProviderTyped' /\ ProcessTyped' /\ LocksTyped'
  <2>1. operations' \in 0..MaxOperations
    BY <1>2, LifecycleAssumption DEF Starts, ProcessTyped
  <2>2. ProviderTyped'
    BY <1>2, GoesTyped DEF Starts, StartOperation, ProviderTyped, Calls
  <2> QED
    BY <1>2, <2>1, <2>2 DEF Starts, ProcessTyped, LocksTyped, database, lifecycle
<1>3. CASE (\E h \in Handlers : Accept(h)) \/ Tick
  BY <1>2, <1>3 DEF Accept, Tick, Workers
<1>4. CASE SchedulerStops \/ Done \/ UNCHANGED vars
  BY <1>4 DEF SchedulerStops, Done, vars, provider, database, lifecycle, ProviderTyped,
              ProcessTyped, LocksTyped
<1>5. ASSUME NEW w \in Workers, Step(w) \/ Failure(w)
      PROVE  ProviderTyped' /\ ProcessTyped' /\ LocksTyped'
  BY <1>5, StepTyped, StepLocksTyped
<1> QED
  BY <1>1, <1>3, <1>4, <1>5 DEF Next

\* Every variable keeps its type: the bounds on pools, starts and operations are
\* kept, and no pool has a negative number of connections in use.
THEOREM TypeCorrect == Spec => []RuntimeTypeOK
<1> DEFINE Fit == /\ TransactionsFit /\ ConnectionsFit
                  /\ ProviderTyped /\ ProcessTyped /\ LocksTyped
<1>1. Init => Fit
  <2> SUFFICES ASSUME Init PROVE Fit
    OBVIOUS
  <2>1. TransactionsFit /\ ConnectionsFit
    BY TransactionsFitInit, ConnectionsFitInit
  <2>2. ProviderTyped
    BY ProviderAssumption DEF Init, ProviderInit, ProviderTyped, Calls
  <2>3. 0 \in 0..MaxFaults /\ 0 \in 0..MaxStarts /\ 0 \in 0..MaxOperations
    BY FaultsAssumption, LifecycleAssumption
  <2>4. ProcessTyped
    BY <2>3 DEF Init, TransactionsInit, ProcessTyped, Phases
  <2>5. LocksTyped
    BY DEF Init, TransactionsInit, LocksTyped
  <2> QED
    BY <2>1, <2>2, <2>4, <2>5
<1>2. Fit /\ [Next]_vars => Fit'
  BY NextEffect, EffectKeeps, ConnectionsFitStep, TypeStep
<1>3. Fit => RuntimeTypeOK
  BY TypeParts
<1> QED
  BY <1>1, <1>2, <1>3, PTL DEF Spec
-----------------------------------------------------------------------------
(* Waiting.                                                                *)

\* Who has the mutex is about to open a pool.
MutexFits == writer # NoOne => writer \in Workers /\ pc[writer] = "open"

\* Who has the lock of a row has a transaction on it.
LocksFit ==
  \A c \in Consents :
    lock[c] # NoOne => lock[c] \in Workers /\ InTx(lock[c]) /\ tx[lock[c]].c = c

\* Each start opens one pool, and one more can follow when it has been closed.
StartsFit ==
  /\ opened \in Nat /\ starts \in 0..MaxStarts
  /\ opened <= 2 * starts
  /\ phase # "down" /\ (phase = "closed" => client = NoPool) => opened < 2 * starts

LEMMA StartsFitStep ==
  ASSUME PoolsFit, StartsFit, [Next]_vars
  PROVE  StartsFit'
<1>m. MaxStarts \in Nat
  BY LifecycleAssumption
<1>1. CASE MainNext
  BY <1>m, <1>1
     DEF MainNext, Start, StartFails, OpenPool, Signal, Shutdown, ShutdownTimesOut,
         UnregisterServices, Close, CloseDatabase, MainStep, Exit, Crash, Ends, ProcessGone,
         provider, lifecycle, StartsFit, PoolsFit, Phases, NoPool
<1>2. CASE (\E h \in Handlers : Accept(h)) \/ Tick \/ SchedulerStops
  BY <1>2 DEF Accept, Tick, Starts, StartOperation, SchedulerStops, provider, lifecycle, StartsFit
<1>3. CASE Done \/ UNCHANGED vars
  BY <1>3 DEF Done, vars, provider, lifecycle, StartsFit
<1>4. ASSUME NEW w \in Workers, Step(w) \/ Failure(w)
      PROVE  StartsFit'
  <2>1. starts' = starts
    BY <1>4 DEF Step, Failure
  <2>2. CASE Reopen(w)
    <3>1. pc[w] = "open" /\ opened' = opened + 1 /\ client' = opened + 1 /\ phase' = phase
      BY <2>2 DEF Reopen, InitializeClient, OpenPool
    <3>2. client = NoPool /\ phase = "closed"
      BY <3>1 DEF PoolsFit, Phases
    <3> QED
      BY <2>1, <3>1, <3>2 DEF StartsFit, NoPool
  <2>3. CASE ~Reopen(w)
    BY <1>4, <2>1, <2>3, StepPasses DEF Step, Failure, Passes, StartsFit
  <2> QED
    BY <2>2, <2>3
<1> QED
  BY <1>1, <1>2, <1>3, <1>4 DEF Next

LEMMA MutexFitsStep ==
  ASSUME PoolsFit, MutexFits, [Next]_vars
  PROVE  MutexFits'
<1> USE ProviderAssumption
<1>1. CASE MainNext
  BY <1>1
     DEF MainNext, Start, StartFails, Signal, Shutdown, ShutdownTimesOut,
         UnregisterServices, Close, CloseDatabase, MainStep, Exit, Crash, Ends, ProcessGone,
         provider, lifecycle, MutexFits
<1>2. ASSUME NEW w \in Workers, Starts(w)
      PROVE  MutexFits'
  BY <1>2 DEF Starts, StartOperation, Goto, MutexFits, PoolsFit
<1>3. CASE (\E h \in Handlers : Accept(h)) \/ Tick
  BY <1>2, <1>3 DEF Accept, Tick, Workers
<1>4. CASE SchedulerStops \/ Done \/ UNCHANGED vars
  BY <1>4 DEF SchedulerStops, Done, vars, provider, MutexFits
<1>5. ASSUME NEW w \in Workers, Step(w) \/ Failure(w)
      PROVE  MutexFits'
  <2>1. CASE Reopen(w)
    BY <2>1 DEF Reopen, InitializeClient, MutexFits
  <2>2. CASE ~Reopen(w)
    <3>1. Passes(w)
      BY <1>5, <2>2, StepPasses DEF Step, Failure
    <3>2. \A v \in Workers : v # w => pc'[v] = pc[v]
      BY <3>1 DEF Passes
    <3> QED
      BY <3>1, <3>2 DEF Passes, MutexFits, PoolsFit
  <2> QED
    BY <2>1, <2>2
<1> QED
  BY <1>1, <1>3, <1>4, <1>5 DEF Next

LEMMA LocksFitStep ==
  ASSUME TransactionsFit, LocksFit, TxEffect
  PROVE  LocksFit'
<1> USE ProviderAssumption
<1>d. DOMAIN lock = Consents /\ DOMAIN tx = Workers /\ DOMAIN pc = Workers
  BY DEF TransactionsFit
<1>1. CASE Elsewhere
  BY <1>1 DEF Elsewhere, LocksFit, InTx
\* w goes from one statement to the next, and may take the lock of its row.
<1>2. ASSUME NEW w \in Workers, NEW label \in Statements \cup {"commit"},
             pc' = [pc EXCEPT ![w] = label],
             \A v \in Workers : v # w => tx'[v] = tx[v],
             InTx(w) => tx'[w].c = tx[w].c,
             lock' = lock \/ (InTx(w) /\ lock' = [lock EXCEPT ![tx[w].c] = w])
      PROVE  LocksFit'
  <2>1. InTx(w)' /\ \A v \in Workers : v # w => (InTx(v)' <=> InTx(v))
    BY <1>d, <1>2 DEF InTx
  <2>2. ASSUME NEW c \in Consents, lock'[c] # NoOne
        PROVE  lock'[c] \in Workers /\ InTx(lock[c])' /\ (tx[lock[c]].c)' = c
    <3>1. CASE lock'[c] = lock[c]
      <4>1. lock[c] \in Workers /\ InTx(lock[c]) /\ tx[lock[c]].c = c
        BY <2>2, <3>1 DEF LocksFit
      <4>2. (InTx(lock[c]) <=> InTx(w)) \/ lock[c] # w
        OBVIOUS
      <4>3. tx'[lock[c]].c = c /\ pc'[lock[c]] \in Statements \cup {"commit"}
        BY <1>d, <1>2, <4>1 DEF InTx
      <4> QED
        BY <3>1, <4>1, <4>3 DEF InTx
    <3>2. CASE lock'[c] # lock[c]
      BY <1>d, <1>2, <2>1, <3>2 DEF InTx
    <3> QED
      BY <3>1, <3>2
  <2> QED
    BY <2>2 DEF LocksFit
<1>3. ASSUME NEW w \in Workers, BeginTx(w)
      PROVE  LocksFit'
  <2>1. /\ pc[w] = "call" /\ pc' = [pc EXCEPT ![w] = "GetByIDForUpdate"] /\ lock' = lock
        /\ \A v \in Workers : v # w => tx'[v] = tx[v]
    BY <1>3 DEF BeginTx, Goto
  <2>2. ~InTx(w)
    BY <2>1 DEF InTx, Statements
  <2> QED
    BY <1>2, <2>1, <2>2 DEF Statements
<1>4. ASSUME NEW w \in Workers, GetByIDForUpdate(w)
      PROVE  LocksFit'
  <2>1. InTx(w) /\ tx[w] \in Tx
    BY <1>4 DEF GetByIDForUpdate, InTx, Statements, TransactionsFit, TxFits
  <2>2. /\ pc' = [pc EXCEPT ![w] = "CreateHistory"]
        /\ tx' = [tx EXCEPT ![w].base = tables[tx[w].c], ![w].view = tables[tx[w].c]]
        /\ lock' = lock \/ lock' = [lock EXCEPT ![tx[w].c] = w]
    BY <1>4 DEF GetByIDForUpdate, Goto, Reads, Locks
  <2>3. tx'[w].c = tx[w].c /\ \A v \in Workers : v # w => tx'[v] = tx[v]
    BY <1>d, <2>1, <2>2 DEF Tx
  <2> QED
    BY <1>2, <2>1, <2>2, <2>3 DEF Statements
<1>5. ASSUME NEW w \in Workers, CreateHistory(w) \/ UpdateStatus(w) \/ CreateStatusAudit(w)
      PROVE  LocksFit'
  <2>1. PICK label, t :
          /\ label \in Statements \union {"commit"}
          /\ pc' = [pc EXCEPT ![w] = label] /\ pc[w] \in Statements
          /\ tx' = [tx EXCEPT ![w].view = t]
          /\ lock' = [lock EXCEPT ![tx[w].c] = w]
    BY <1>5 DEF CreateHistory, UpdateStatus, CreateStatusAudit, Write, Goto, Locks, Statements
  <2>2. InTx(w) /\ tx[w] \in Tx
    BY <2>1 DEF InTx, TransactionsFit, TxFits
  <2>3. tx'[w].c = tx[w].c /\ \A v \in Workers : v # w => tx'[v] = tx[v]
    BY <1>d, <2>1, <2>2 DEF Tx
  <2> QED
    BY <1>2, <2>1, <2>2, <2>3
<1>6. ASSUME NEW w \in Workers, Ended(w)
      PROVE  LocksFit'
  <2>1. ASSUME NEW c \in Consents, lock'[c] # NoOne
        PROVE  lock'[c] = lock[c] /\ lock[c] # w
    BY <1>6, <2>1 DEF Ended
  <2>2. \A v \in Workers : v # w => tx'[v] = tx[v] /\ (InTx(v)' <=> InTx(v))
    BY <1>d, <1>6 DEF Ended, InTx
  <2>3. ASSUME NEW c \in Consents, lock'[c] # NoOne
        PROVE  lock'[c] \in Workers /\ InTx(lock[c])' /\ (tx[lock[c]].c)' = c
    <3>1. lock[c] \in Workers /\ InTx(lock[c]) /\ tx[lock[c]].c = c
      BY <2>1, <2>3 DEF LocksFit
    <3>2. InTx(lock[c])' /\ tx'[lock[c]] = tx[lock[c]]
      BY <2>1, <2>2, <2>3, <3>1 DEF InTx
    <3> QED
      BY <2>1, <2>3, <3>1, <3>2
  <2> QED
    BY <2>3 DEF LocksFit
<1>7. CASE lock' = [c \in Consents |-> NoOne]
  BY <1>7 DEF LocksFit
<1> QED
  BY <1>1, <1>3, <1>4, <1>5, <1>6, <1>7 DEF TxEffect, Committed

\* Who waits for the mutex waits for one who opens a pool, and that is within
\* the bound.
LEMMA MutexWaits ==
  ASSUME PoolsFit, MutexFits, StartsFit
  PROVE  /\ \A w \in Workers : pc[w] = "open" => CanGoOn(w)
         /\ \A w \in Workers :
              pc[w] \in {"client", "lock"} /\ ~CanGoOn(w)
                => \E v \in Workers : Blocks(v, w) /\ CanGoOn(v)
<1>1. ASSUME NEW w \in Workers, pc[w] = "open"
      PROVE  CanGoOn(w)
  <2>1. client = NoPool /\ phase = "closed"
    BY <1>1 DEF PoolsFit, Phases
  <2>2. opened < 2 * starts
    BY <2>1 DEF StartsFit
  <2>3. 2 * starts <= MaxPools
    BY LifecycleAssumption, ProviderAssumption DEF StartsFit
  <2>4. opened < MaxPools
    BY <2>2, <2>3, ProviderAssumption DEF StartsFit
  <2> QED
    BY <1>1, <2>4 DEF CanGoOn
<1>2. ASSUME NEW w \in Workers, pc[w] \in {"client", "lock"}, ~CanGoOn(w)
      PROVE  writer \in Workers /\ Blocks(writer, w) /\ CanGoOn(writer)
  BY <1>1, <1>2 DEF MutexFits, CanGoOn, Blocks
<1> QED
  BY <1>1, <1>2

\* Who waits for a row waits for a transaction that has its row.
LEMMA RowWaits ==
  ASSUME TransactionsFit, LocksFit, engine \in {"locking", "sqlite"}
  PROVE  \A w \in Workers :
           InTx(w) /\ ~CanGoOn(w) => \E v \in Workers : Blocks(v, w) /\ CanGoOn(v)
<1> USE ProviderAssumption
<1> SUFFICES ASSUME NEW w \in Workers, InTx(w), ~CanGoOn(w)
             PROVE  \E v \in Workers : Blocks(v, w) /\ CanGoOn(v)
  OBVIOUS
<1> DEFINE c == tx[w].c
           v == lock[c]
<1>1. pc[w] \in Statements /\ v \notin {NoOne, w}
  BY DEF CanGoOn, InTx, LockFree
<1>2. c \in Consents
  BY DEF TransactionsFit, TxFits, Tx
<1>3. v \in Workers /\ InTx(v) /\ tx[v].c = c
  BY <1>1, <1>2 DEF LocksFit
<1>4. LockFree(v)
  BY <1>3 DEF LockFree
<1>5. CanGoOn(v)
  BY <1>3, <1>4 DEF CanGoOn, InTx
<1> QED
  BY <1>1, <1>3, <1>5 DEF Blocks

\* Who waits for a connection waits for transactions of its pool.
LEMMA ConnectionWaits ==
  ASSUME ConnectionsFit, NEW w \in Workers, pc[w] = "call", ~CanGoOn(w)
  PROVE  \E v \in Workers : InTx(v) /\ Blocks(v, w)
<1>1. pool[w] \in Pools /\ inUse[pool[w]] \in Int /\ ~(inUse[pool[w]] < MaxOpenConns)
  BY DEF CanGoOn, Available, ConnectionsFit
<1>2. inUse[pool[w]] = Cardinality(Holders(pool[w]))
  BY <1>1 DEF ConnectionsFit
<1>3. inUse[pool[w]] # 0
  BY <1>1, ProviderAssumption
<1>4. Holders(pool[w]) # {}
  BY <1>2, <1>3, FS_EmptySet
<1> QED
  BY <1>4 DEF Holders, Blocks

\* No goroutine waits in a circle, and nobody for what was lost: for any number
\* of goroutines, connections and consents, with failures and panics, whether
\* main has waited for the requests or has closed the database under them.
THEOREM NoDeadlock == Spec => []NobodyWaitsInCircles
<1> DEFINE Fit == /\ PoolsFit /\ TransactionsFit /\ ConnectionsFit
                  /\ MutexFits /\ LocksFit /\ StartsFit
<1>1. Init => Fit
  <2>1. Init => MutexFits /\ LocksFit /\ StartsFit
    BY LifecycleAssumption
       DEF Init, ProviderInit, TransactionsInit, MutexFits, LocksFit, StartsFit
  <2> QED
    BY <2>1, PoolsFitInit, TransactionsFitInit, ConnectionsFitInit
<1>2. Fit /\ [Next]_vars => Fit'
  BY NextEffect, EffectKeeps, PoolsFitStep, ConnectionsFitStep, MutexFitsStep, LocksFitStep,
     StartsFitStep
<1>3. ASSUME Fit, RuntimeTypeOK
      PROVE  NobodyWaitsInCircles
  <2> SUFFICES ASSUME NEW w \in Workers, pc[w] # "idle", ~CanGoOn(w)
               PROVE  \E v \in Workers :
                        /\ Blocks(v, w)
                        /\ CanGoOn(v) \/ \E u \in Workers : Blocks(u, v) /\ CanGoOn(u)
    BY DEF NobodyWaitsInCircles
  <2>0. /\ engine \in {"locking", "sqlite"}
        /\ pc[w] \in {"client", "lock", "open", "call"} \/ InTx(w)
    BY <1>3 DEF RuntimeTypeOK, InTx
  <2>1. CASE pc[w] \in {"client", "lock", "open"}
    BY <1>3, <2>1, MutexWaits
  <2>2. CASE pc[w] = "call"
    BY <1>3, <2>0, <2>2, ConnectionWaits, RowWaits
  <2>3. CASE InTx(w)
    BY <1>3, <2>0, <2>3, RowWaits
  <2> QED
    BY <2>0, <2>1, <2>2, <2>3
<1> QED
  BY <1>1, <1>2, <1>3, TypeCorrect, PTL DEF Spec

=============================================================================
