-------------------------- MODULE CatalogRequests --------------------------
(***************************************************************************)
(* The requests that read and write the catalog.  Each is a sequence of    *)
(* reads outside any transaction, each with its decision, and one          *)
(* transaction at the end, so between any two of its calls other requests  *)
(* may commit.  A request that is refused, that fails or whose transaction *)
(* is rolled back ends and leaves the tables alone.                        *)
(***************************************************************************)
EXTENDS CatalogStore

CONSTANTS
  Clients,     \* the requests the server works on at one time
  MaxRequests  \* bound: requests ever begun

ASSUME RequestAssumption == MaxRequests \in Nat

VARIABLES
  req,     \* what each client's request has read, and what it does next
  issued,  \* requests begun
  commits, \* history: transactions committed
  raced    \* history: a transaction committed while a request was under way
           \* that committed later

requests == <<issued, commits, raced>>

IdleReq == [pc |-> "idle"]

RequestsInit ==
  /\ req = [cl \in Clients |-> IdleReq]
  /\ issued = 0
  /\ commits = 0
  /\ raced = FALSE

-----------------------------------------------------------------------------
\* The request of cl starts and goes on as r, or ends at once.
Begin(cl, r) ==
  /\ req[cl] = IdleReq
  /\ issued < MaxRequests
  /\ issued' = issued + 1
  /\ req' = [req EXCEPT ![cl] = r]
  /\ UNCHANGED <<catalog, commits, raced>>

\* The request of cl reads, and goes on as r.
Read(cl, r) ==
  /\ req' = [req EXCEPT ![cl] = r]
  /\ UNCHANGED <<catalog, requests>>

\* The transaction of the request of cl commits (what it writes is said
\* beside), and the request ends.
Commit(cl) ==
  /\ commits' = commits + 1
  /\ raced' = (raced \/ req[cl].began # commits)
  /\ req' = [req EXCEPT ![cl] = IdleReq]
  /\ UNCHANGED issued

\* The request of cl ends without effect.
End(cl) == Read(cl, IdleReq)

\* A call of the request fails, or the process dies.
RequestFails(cl) ==
  /\ req[cl] # IdleReq
  /\ End(cl)
=============================================================================
