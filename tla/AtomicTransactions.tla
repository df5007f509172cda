------------------------- MODULE AtomicTransactions -------------------------
(***************************************************************************)
(* What ExecuteTransaction promises its callers: the statements of a       *)
(* transaction on a consent take effect together or not at all, and what   *)
(* they read is what they overwrite.  The modules of the consent core are  *)
(* written against this promise.                                           *)
(***************************************************************************)
EXTENDS Sequences

CONSTANTS Consents, Statuses

VARIABLE tables   \* what is committed for each consent: its row, history and audit trail

Tables == [status : Statuses, history : Seq(Statuses), audit : Seq(Statuses)]

\* The tables of a consent after its status has been set to s.
Written(t, s) == [status  |-> s,
                  history |-> Append(t.history, t.status),
                  audit   |-> Append(t.audit, s)]

Init == \E s \in Statuses :
          tables = [c \in Consents |-> [status |-> s, history |-> <<>>, audit |-> <<s>>]]

Transact(c, s) == tables' = [tables EXCEPT ![c] = Written(@, s)]

Spec == Init /\ [][\E c \in Consents, s \in Statuses : Transact(c, s)]_tables
=============================================================================
