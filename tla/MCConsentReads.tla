---------------------------- MODULE MCConsentReads ----------------------------
(***************************************************************************)
(* Values of the constants of ConsentReads for TLC.                        *)
(***************************************************************************)
EXTENDS ConsentReads, TLC

CONSTANTS type, frequency, x, y, v1, v2, e1, e2, k1, k2

\* The first version has a mandatory and an optional element, the second shares
\* the mandatory one.
MCElementsOf  == v1 :> {e1, e2} @@ v2 :> {e1}
MCMandatoryOf == v1 :> {e1} @@ v2 :> {e1}

NoTerms == [f \in {} |-> x]

MCNewBody == [terms |-> [f \in Fields |-> x], replace |-> TRUE, auths |-> {"APPROVED"},
              relink |-> TRUE, asks |-> {[v |-> v1, yes |-> {e2}]}]

\* One field; the other and other purposes, approved or not; authorizations.
MCBodies ==
  { [terms |-> type :> y, replace |-> FALSE, auths |-> {}, relink |-> FALSE, asks |-> {}],
    [terms |-> frequency :> y, replace |-> FALSE, auths |-> {}, relink |-> TRUE,
     asks |-> {[v |-> v1, yes |-> {e1}], [v |-> v2, yes |-> {e1}]}],
    [terms |-> NoTerms, replace |-> FALSE, auths |-> {}, relink |-> TRUE,
     asks |-> {[v |-> v2, yes |-> {}]}],
    [terms |-> NoTerms, replace |-> TRUE, auths |-> {"APPROVED"}, relink |-> FALSE, asks |-> {}] }

MCNewAuths == {"REJECTED"}

ClientSymmetry == Permutations(Clients)
=============================================================================
