--------------------------- MODULE ServerLifecycle ---------------------------
(***************************************************************************)
(* The process: it starts, serves, is told to stop, waits for the requests *)
(* it has accepted, tells the scheduler to stop without waiting for it,    *)
(* closes the database, and ends.  It may also die at any moment.          *)
(***************************************************************************)
EXTENDS Transactions

CONSTANTS
  MaxStarts,      \* bound on the starts of the process in a run
  MaxOperations   \* bound on the operations started in a run

\* A process opens a pool when it starts and at most one after it has closed that.
ASSUME LifecycleAssumption ==
  MaxStarts \in Nat /\ MaxOperations \in Nat /\ MaxPools >= 2 * MaxStarts

VARIABLES
  phase,        \* how far main has come
  scheduler,    \* the scheduler's goroutine and whether it has been told to stop
  timedOut,     \* the requests were not waited for to the end
  reopened,     \* the goroutines that have opened a database since it was closed
  starts, operations

lifecycle == <<phase, scheduler, timedOut, reopened>>
vars == <<provider, engine, database, faults, lifecycle, starts, operations>>

Phases == {"down", "serving", "draining", "drained", "cancelled", "closed"}

Init ==
  /\ ProviderInit /\ TransactionsInit
  /\ phase = "down" /\ scheduler = "off" /\ timedOut = FALSE /\ reopened = {}
  /\ starts = 0 /\ operations = 0

-----------------------------------------------------------------------------
(* main                                                                    *)

\* Services are registered, the scheduler's goroutine is started, and the
\* database is opened by the first to ask for it, the health check.
Start ==
  /\ phase = "down" /\ starts < MaxStarts
  /\ starts' = starts + 1
  /\ OpenPool
  /\ phase' = "serving" /\ scheduler' = "on"
  /\ UNCHANGED <<pc, call, pool, writer, inUse, engine, database, faults,
                 timedOut, reopened, operations>>

\* Without a database at the start the process ends.
StartFails ==
  /\ phase = "down" /\ starts < MaxStarts
  /\ starts' = starts + 1
  /\ Fault
  /\ UNCHANGED <<provider, engine, database, lifecycle, operations>>

MainStep ==
  /\ UNCHANGED <<provider, engine, database, faults, reopened, starts, operations>>

\* SIGTERM: no more requests are accepted.
Signal ==
  /\ phase = "serving"
  /\ phase' = "draining"
  /\ UNCHANGED <<scheduler, timedOut>>
  /\ MainStep

\* A variant that does not wait.
ShutdownAtOnce ==
  /\ phase = "draining"
  /\ phase' = "drained"
  /\ UNCHANGED <<scheduler, timedOut>>
  /\ MainStep

\* All accepted requests have been answered.
Shutdown ==
  /\ phase = "draining"
  /\ \A h \in Handlers : pc[h] = "idle"
  /\ phase' = "drained"
  /\ UNCHANGED <<scheduler, timedOut>>
  /\ MainStep

\* Thirty seconds have passed.
ShutdownTimesOut ==
  /\ phase = "draining"
  /\ \E h \in Handlers : pc[h] # "idle"
  /\ phase' = "drained"
  /\ timedOut' = TRUE
  /\ UNCHANGED scheduler
  /\ MainStep

UnregisterServices ==
  /\ phase = "drained"
  /\ phase' = "cancelled"
  /\ scheduler' = IF scheduler = "on" THEN "cancelled" ELSE scheduler
  /\ UNCHANGED timedOut
  /\ MainStep

\* A variant that closes the database before it waits for the requests.
CloseFirst ==
  /\ phase = "draining"
  /\ CloseDatabase
  /\ phase' = "closed"
  /\ UNCHANGED <<engine, database, faults, scheduler, timedOut, reopened, starts, operations>>

Close ==
  /\ phase = "cancelled"
  /\ CloseDatabase
  /\ phase' = "closed"
  /\ UNCHANGED <<engine, database, faults, scheduler, timedOut, reopened, starts, operations>>

\* The process ends, and all its goroutines and connections with it; the
\* database rolls back what was not committed.
Ends ==
  /\ ProcessGone
  /\ lock' = [c \in Consents |-> NoOne]
  /\ tx' = [w \in Workers |-> NoTx]
  /\ phase' = "down" /\ scheduler' = "off" /\ timedOut' = FALSE /\ reopened' = {}
  /\ UNCHANGED <<engine, tables, starts, operations>>

Exit == phase = "closed" /\ Ends /\ UNCHANGED faults

Crash == phase # "down" /\ Ends /\ Fault

-----------------------------------------------------------------------------
(* The goroutines                                                          *)

Starts(w) ==
  /\ operations < MaxOperations
  /\ operations' = operations + 1
  /\ StartOperation(w)
  /\ UNCHANGED <<engine, database, faults, lifecycle, starts>>

Accept(h) == phase = "serving" /\ Starts(h)

\* A tick.  One that comes with the cancellation may win.
Tick == scheduler \in {"on", "cancelled"} /\ Starts(Job)

SchedulerStops ==
  /\ scheduler = "cancelled"
  /\ pc[Job] = "idle"
  /\ scheduler' = "off"
  /\ UNCHANGED <<provider, engine, database, faults, phase, timedOut, reopened, starts, operations>>

\* A step of w towards a connection, or a read with it.
ProviderStep(w) ==
  /\ \/ GetConsentDBClient(w)
     \/ DoubleCheck(w)
     \/ PoolIsClosed(w)
     \/ Query(w)
  /\ UNCHANGED <<engine, database, faults, lifecycle>>

Reopen(w) ==
  /\ InitializeClient(w)
  /\ reopened' = reopened \cup {w}
  /\ UNCHANGED <<engine, database, faults, phase, scheduler, timedOut>>

ReopenFails(w) ==
  /\ InitializeClientFails(w)
  /\ Fault
  /\ UNCHANGED <<engine, database, lifecycle>>

Step(w) ==
  /\ ProviderStep(w) \/ Reopen(w) \/ (TransactionStep(w) /\ UNCHANGED lifecycle)
  /\ UNCHANGED <<starts, operations>>

Failure(w) ==
  /\ ReopenFails(w) \/ (TransactionFailure(w) /\ UNCHANGED lifecycle)
  /\ UNCHANGED <<starts, operations>>

-----------------------------------------------------------------------------
\* Nothing is left to do within the bounds.
Done == phase = "down" /\ starts = MaxStarts /\ UNCHANGED vars

MainNext == \/ Start \/ StartFails
            \/ Signal \/ Shutdown \/ ShutdownTimesOut \/ UnregisterServices \/ Close
            \/ Exit \/ Crash

Next ==
  \/ MainNext
  \/ \E h \in Handlers : Accept(h)
  \/ Tick \/ SchedulerStops
  \/ \E w \in Workers : Step(w) \/ Failure(w)
  \/ Done

Spec == Init /\ [][Next]_vars

\* The runtime keeps every goroutine going.  Those that wait for the mutex, a
\* connection or a row stand in queues and get it in the order they came.
Fairness == \A w \in Workers : SF_vars(Step(w))

FairSpec == Spec /\ Fairness

-----------------------------------------------------------------------------
\* Every variable has its type.
RuntimeTypeOK ==
  /\ pc \in [Workers -> {"idle", "client", "lock", "open", "call", "commit"} \cup Statements]
  /\ call \in [Workers -> Calls]
  /\ pool \in [Workers -> Pools \cup {NoPool}]
  /\ writer \in Workers \cup {NoOne}
  /\ client \in Pools \cup {NoPool}
  /\ open \in SUBSET Pools
  /\ opened \in 0..MaxPools
  /\ inUse \in [Pools -> Nat]
  /\ engine \in {"locking", "sqlite"}
  /\ tables \in [Consents -> Atomic!Tables]
  /\ lock \in [Consents -> Workers \cup {NoOne}]
  /\ tx \in [Workers -> Tx \cup {NoTx}]
  /\ faults \in 0..MaxFaults
  /\ phase \in Phases
  /\ scheduler \in {"off", "on", "cancelled"}
  /\ timedOut \in BOOLEAN
  /\ reopened \in SUBSET Workers
  /\ starts \in 0..MaxStarts
  /\ operations \in 0..MaxOperations

\* No pool is lost: the open one is the client's, so there is one at a time and
\* closing the database closes it.
NoPoolIsLost == open \subseteq {client}

\* No connection is lost: those in use are those of the transactions under way,
\* also after an error or a panic in the middle of one.
NoConnectionIsLost ==
  \A p \in Pools : inUse[p] = Cardinality({w \in Workers : InTx(w) /\ pool[w] = p})

\* A client is handed out under the mutex and used after it.  Its pool is not
\* closed meanwhile: whoever has a client can use it to the end of the operation,
\* unless it is the job's or main has given up waiting, and the database is closed.
ClientsStayGood ==
  \A w \in Workers :
    \/ pool[w] \in open \cup {NoPool}
    \/ phase = "closed" /\ (timedOut \/ w = Job)

\* After a shutdown that has waited for its requests no request opens the
\* database again.  The job, for which nobody waits, may.
OnlyJobReopens == timedOut \/ reopened \subseteq {Job}

\* A transaction is one step, though it is many statements among those of
\* others, which may fail, panic or be lost with the process.
TransactionsAreAtomic == Atomic!Spec

\* Nothing keeps w from its next step: neither the mutex, nor want of a
\* connection, nor the lock of a row.
CanGoOn(w) ==
  \/ pc[w] \in {"client", "lock"} /\ writer = NoOne
  \/ pc[w] = "open" /\ opened < MaxPools
  \/ pc[w] = "call" /\ (pool[w] \notin open \/ Available(w))
  \/ pc[w] \in Statements /\ (engine = "sqlite" \/ LockFree(w))
  \/ pc[w] = "commit"

\* v has what w waits for: the mutex, a connection of the pool, or the lock.
Blocks(v, w) ==
  \/ pc[w] \in {"client", "lock"} /\ writer = v
  \/ pc[w] = "call" /\ InTx(v) /\ pool[v] = pool[w]
  \/ pc[w] \in Statements /\ lock[tx[w].c] = v

\* Nobody waits in a circle, or for what nobody has: who waits does so for
\* somebody who can go on, or at most for one who waits for such a one (for a
\* connection, whose holder waits for a row).
NobodyWaitsInCircles ==
  \A w \in Workers :
    \/ pc[w] = "idle" \/ CanGoOn(w)
    \/ \E v \in Workers :
         /\ Blocks(v, w)
         /\ CanGoOn(v) \/ \E u \in Workers : Blocks(u, v) /\ CanGoOn(u)

\* Whoever starts an operation comes to its end: nobody waits for a connection,
\* a row or the client for ever, with any number of connections.
OperationsEnd == \A w \in Workers : pc[w] # "idle" ~> pc[w] = "idle"
=============================================================================
