-------------------------- MODULE MCServerLifecycle --------------------------
(* Values for model checking ServerLifecycle. *)
EXTENDS ServerLifecycle

\* As many pools as a run can open.
PoolsNeeded == 2 * MaxStarts
=============================================================================
