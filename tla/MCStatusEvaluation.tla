------------------------- MODULE MCStatusEvaluation -------------------------
(***************************************************************************)
(* All lists of up to MaxLength authorizations for TLC.                    *)
(***************************************************************************)
EXTENDS StatusEvaluation

CONSTANT MaxLength

\* One type and one status of every kind the loops tell apart.
Kinds == [type : {"", "agent", "delegate", "delegate_subject"},
          status : {"", "REJECTED", "CUSTOM", "RECORDED", "SYS_REVOKED"}]

ShortLists == UNION {[1 .. n -> Kinds] : n \in 0 .. MaxLength}
=============================================================================
