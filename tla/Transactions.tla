---------------------------- MODULE Transactions ----------------------------
(***************************************************************************)
(* ExecuteTransaction statement by statement, on the example of            *)
(* RevokeConsent: lock the row of the consent and read it, write the       *)
(* snapshot, the status and the audit entry, commit; after an error or a   *)
(* panic, roll back.                                                       *)
(*                                                                         *)
(* The database is external.  A locking engine (MySQL, PostgreSQL) makes   *)
(* SELECT ... FOR UPDATE wait for the row.  SQLite has no such statement   *)
(* and is given a plain SELECT: it lets one transaction write at a time    *)
(* and refuses the writes of one whose reads are out of date.              *)
(***************************************************************************)
EXTENDS DBProvider, Sequences

CONSTANTS
  Consents, Statuses,
  MaxFaults       \* bound on failing calls and crashes in a run

ASSUME FaultsAssumption == MaxFaults \in Nat

VARIABLES
  engine,   \* the kind of database
  tables,   \* what is committed
  lock,     \* who holds the lock of the row of each consent
  tx,       \* the transaction of each goroutine
  faults    \* failures so far

Atomic == INSTANCE AtomicTransactions

database == <<tables, lock, tx>>

\* A transaction on c that sets its status to new: base is the committed state
\* it has read, view that state with its own writes.
Tx == [c : Consents, new : Statuses, base : Atomic!Tables, view : Atomic!Tables]
NoTx == [c |-> NoOne]

TransactionsInit ==
  /\ Atomic!Init
  /\ engine \in {"locking", "sqlite"}
  /\ lock = [c \in Consents |-> NoOne]
  /\ tx = [w \in Workers |-> NoTx]
  /\ faults = 0

\* The statements, in order.
Statements == {"GetByIDForUpdate", "CreateHistory", "UpdateStatus", "CreateStatusAudit"}
InTx(w) == pc[w] \in Statements \cup {"commit"}

Fault == faults < MaxFaults /\ faults' = faults + 1

BeginTx(w) ==
  /\ pc[w] = "call" /\ call[w] = "BeginTx"
  /\ Available(w)
  /\ inUse' = [inUse EXCEPT ![pool[w]] = @ + 1]
  /\ Goto(w, "GetByIDForUpdate")
  /\ \E c \in Consents, s \in Statuses :
       tx' = [tx EXCEPT ![w] = [c |-> c, new |-> s, base |-> tables[c], view |-> tables[c]]]
  /\ UNCHANGED <<call, pool, writer, client, open, opened, engine, tables, lock, faults>>

\* What c is to a transaction that looks at it now.
Reads(w) == tx' = [tx EXCEPT ![w].base = tables[tx[w].c], ![w].view = tables[tx[w].c]]

\* The row is free for w to lock.
LockFree(w) == lock[tx[w].c] \in {NoOne, w}
Locks(w) == lock' = [lock EXCEPT ![tx[w].c] = w]

\* A variant that reads without locking.
GetByID(w) ==
  /\ pc[w] = "GetByIDForUpdate"
  /\ Reads(w)
  /\ Goto(w, "CreateHistory")
  /\ UNCHANGED <<call, pool, writer, client, open, opened, inUse, engine, tables, lock, faults>>

GetByIDForUpdate(w) ==
  /\ pc[w] = "GetByIDForUpdate"
  /\ \/ engine = "locking" /\ LockFree(w) /\ Locks(w)
     \/ engine = "sqlite" /\ UNCHANGED lock
  /\ Reads(w)
  /\ Goto(w, "CreateHistory")
  /\ UNCHANGED <<call, pool, writer, client, open, opened, inUse, engine, tables, faults>>

\* The database lets w write.
Writable(w) ==
  \/ engine = "locking" /\ LockFree(w)
  \/ /\ engine = "sqlite"
     /\ \A c \in Consents : lock[c] \in {NoOne, w}
     /\ tables[tx[w].c] = tx[w].base

\* A statement that writes, and the one after it.
Write(w, statement, next, t) ==
  /\ pc[w] = statement
  /\ Writable(w)
  /\ Locks(w)
  /\ tx' = [tx EXCEPT ![w].view = t]
  /\ Goto(w, next)
  /\ UNCHANGED <<call, pool, writer, client, open, opened, inUse, engine, tables, faults>>

\* A variant whose snapshot is read on a connection of its own, not in the transaction.
SnapshotOutsideTx(w) ==
  LET t == tx[w].view
  IN  /\ pc[w] = "CreateHistory" /\ inUse[pool[w]] < MaxOpenConns
      /\ Write(w, "CreateHistory", "UpdateStatus",
               [t EXCEPT !.history = Append(@, tables[tx[w].c].status)])

CreateHistory(w) ==
  LET t == tx[w].view
  IN  Write(w, "CreateHistory", "UpdateStatus", [t EXCEPT !.history = Append(@, t.status)])

UpdateStatus(w) ==
  Write(w, "UpdateStatus", "CreateStatusAudit", [tx[w].view EXCEPT !.status = tx[w].new])

CreateStatusAudit(w) ==
  Write(w, "CreateStatusAudit", "commit", [tx[w].view EXCEPT !.audit = Append(@, tx[w].new)])

\* The transaction of w is over: its locks are gone and its connection is back.
EndTx(w) ==
  /\ inUse' = [inUse EXCEPT ![pool[w]] = @ - 1]
  /\ lock' = [c \in Consents |-> IF lock[c] = w THEN NoOne ELSE lock[c]]
  /\ tx' = [tx EXCEPT ![w] = NoTx]
  /\ GivesUp(w)
  /\ UNCHANGED <<call, writer, client, open, opened, engine>>

Commit(w) ==
  /\ pc[w] = "commit"
  /\ tables' = [tables EXCEPT ![tx[w].c] = tx[w].view]
  /\ EndTx(w)
  /\ UNCHANGED faults

\* The answer to COMMIT is lost: the database has committed, or has not.
CommitFails(w) ==
  /\ pc[w] = "commit"
  /\ \/ tables' = [tables EXCEPT ![tx[w].c] = tx[w].view]
     \/ UNCHANGED tables
  /\ EndTx(w)
  /\ Fault

\* SQLite refuses a write.
Conflict(w) ==
  /\ engine = "sqlite"
  /\ pc[w] \in Statements \ {"GetByIDForUpdate"}
  /\ ~Writable(w)
  /\ EndTx(w)
  /\ UNCHANGED <<tables, faults>>

\* A statement fails, and the transaction is rolled back.
StatementFails(w) ==
  /\ pc[w] \in Statements
  /\ EndTx(w)
  /\ Fault
  /\ UNCHANGED tables

\* A variant that does not roll back.
PanicWithoutRollback(w) ==
  /\ pc[w] \in Statements
  /\ tx' = [tx EXCEPT ![w] = NoTx]
  /\ GivesUp(w)
  /\ Fault
  /\ UNCHANGED <<call, writer, client, open, opened, inUse, engine, tables, lock>>

\* A statement panics: the transaction is rolled back before the panic goes on
\* to the HTTP server or the job, which end the operation.
StatementPanics(w) ==
  /\ pc[w] \in Statements
  /\ EndTx(w)
  /\ Fault
  /\ UNCHANGED tables

TransactionStep(w) ==
  \/ BeginTx(w)
  \/ GetByIDForUpdate(w) \/ CreateHistory(w) \/ UpdateStatus(w) \/ CreateStatusAudit(w)
  \/ Commit(w)
  \/ Conflict(w)

TransactionFailure(w) == CommitFails(w) \/ StatementFails(w) \/ StatementPanics(w)
=============================================================================
