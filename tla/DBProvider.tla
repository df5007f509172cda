----------------------------- MODULE DBProvider -----------------------------
(***************************************************************************)
(* The provider of the database client: one pool of connections for the    *)
(* process, opened when it is first asked for, under a read-write mutex    *)
(* that is taken again for writing and checked again.  A goroutine that    *)
(* has the client uses a connection of its pool, for one query or for a    *)
(* transaction; when all are in use it waits.                              *)
(***************************************************************************)
EXTENDS Integers, FiniteSets

CONSTANTS
  Handlers,       \* the goroutines of requests
  Job,            \* the goroutine of the scheduler
  NoOne,          \* no goroutine
  MaxOpenConns,   \* the limit of a pool
  MaxPools        \* bound on the pools opened in a run

Workers == Handlers \cup {Job}

ASSUME ProviderAssumption ==
  /\ NoOne \notin Workers /\ Job \notin Handlers
  /\ IsFiniteSet(Handlers)
  /\ MaxOpenConns \in Nat \ {0}
  /\ MaxPools \in Nat

VARIABLES
  pc,       \* where each goroutine is
  call,     \* what it wants the client for
  pool,     \* the pool of the client it has been given
  writer,   \* who holds consentMutex for writing
  client,   \* the pool of consentClient, or NoPool: db and consentTransactioner go with it
  open,     \* the pools that are open
  opened,   \* how many have been opened
  inUse     \* the connections of each pool that are in use

provider == <<pc, call, pool, writer, client, open, opened, inUse>>

NoPool == 0
Pools == 1..MaxPools
Calls == {"Query", "BeginTx"}

ProviderInit ==
  /\ pc = [w \in Workers |-> "idle"]
  /\ call = [w \in Workers |-> "Query"]
  /\ pool = [w \in Workers |-> NoPool]
  /\ writer = NoOne
  /\ client = NoPool
  /\ open = {}
  /\ opened = 0
  /\ inUse = [p \in Pools |-> 0]

Goto(w, label) == pc' = [pc EXCEPT ![w] = label]

\* w goes on with the client, or gives up with an error.
GotClient(w, p) == Goto(w, "call") /\ pool' = [pool EXCEPT ![w] = p]
GivesUp(w) == Goto(w, "idle") /\ pool' = [pool EXCEPT ![w] = NoPool]

\* The first look, under the read lock.
GetConsentDBClient(w) ==
  /\ pc[w] = "client"
  /\ writer = NoOne
  /\ IF client # NoPool THEN GotClient(w, client) ELSE Goto(w, "lock") /\ UNCHANGED pool
  /\ UNCHANGED <<call, writer, client, open, opened, inUse>>

\* A variant without the second look.
NoDoubleCheck(w) ==
  /\ pc[w] = "lock"
  /\ writer = NoOne
  /\ Goto(w, "open")
  /\ writer' = w
  /\ UNCHANGED <<call, pool, client, open, opened, inUse>>

\* The second look, under the write lock, which is kept to open the database.
DoubleCheck(w) ==
  /\ pc[w] = "lock"
  /\ writer = NoOne
  /\ IF client # NoPool
     THEN GotClient(w, client) /\ UNCHANGED writer
     ELSE Goto(w, "open") /\ writer' = w /\ UNCHANGED pool
  /\ UNCHANGED <<call, client, open, opened, inUse>>

\* A new pool is opened and tested with a ping, and becomes the client's.
OpenPool ==
  /\ opened < MaxPools
  /\ opened' = opened + 1
  /\ open' = open \cup {opened + 1}
  /\ client' = opened + 1

InitializeClient(w) ==
  /\ pc[w] = "open"
  /\ OpenPool
  /\ GotClient(w, opened + 1)
  /\ writer' = NoOne
  /\ UNCHANGED <<call, inUse>>

InitializeClientFails(w) ==
  /\ pc[w] = "open"
  /\ GivesUp(w)
  /\ writer' = NoOne
  /\ UNCHANGED <<call, client, open, opened, inUse>>

\* A connection of the pool of w is free.
Available(w) == pool[w] \in open /\ inUse[pool[w]] < MaxOpenConns

\* The pool of w has been closed: whoever wants or awaits a connection gets an error.
PoolIsClosed(w) ==
  /\ pc[w] = "call"
  /\ pool[w] \notin open
  /\ GivesUp(w)
  /\ UNCHANGED <<call, writer, client, open, opened, inUse>>

\* A read outside a transaction: it takes a connection and gives it back.  The
\* operation ends with it, or goes on to its transaction.
Query(w) ==
  /\ pc[w] = "call" /\ call[w] = "Query"
  /\ Available(w)
  /\ pool' = [pool EXCEPT ![w] = NoPool]
  /\ \/ Goto(w, "idle") /\ UNCHANGED call
     \/ Goto(w, "client") /\ call' = [call EXCEPT ![w] = "BeginTx"]
  /\ UNCHANGED <<writer, client, open, opened, inUse>>

\* Shutdown closes the pool.  Transactions under way keep their connections.  When
\* closing fails the pool is of no more use, and the client stays.
CloseDatabase ==
  /\ writer = NoOne
  /\ open' = open \ {client}
  /\ client' \in {NoPool, client}
  /\ UNCHANGED <<pc, call, pool, writer, opened, inUse>>

\* What the end of the process leaves.
ProcessGone ==
  /\ pc' = [w \in Workers |-> "idle"]
  /\ pool' = [w \in Workers |-> NoPool]
  /\ writer' = NoOne
  /\ client' = NoPool
  /\ open' = {}
  /\ inUse' = [p \in Pools |-> 0]
  /\ UNCHANGED <<call, opened>>

\* A goroutine starts an operation, with a read.
StartOperation(w) ==
  /\ pc[w] = "idle"
  /\ Goto(w, "client")
  /\ call' = [call EXCEPT ![w] = "Query"]
  /\ UNCHANGED <<pool, writer, client, open, opened, inUse>>
=============================================================================
