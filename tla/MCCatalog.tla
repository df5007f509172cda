----------------------------- MODULE MCCatalog -----------------------------
(***************************************************************************)
(* Values of the constants of Catalog for TLC.                             *)
(***************************************************************************)
EXTENDS Catalog, TLC

CONSTANTS e, ns, p, g, c, k1, k2

Ref(num) == [name |-> e, scope |-> ns, num |-> num]

\* The latest version, the first, both (one and the same while there is but
\* one), and a list the service refuses.
SomeRefs == { <<Ref(0)>>, <<Ref(0), Ref(1)>> }

Pur(num) == [name |-> p, num |-> num]

\* The latest version of a purpose, the first, and no purpose.
SomePurposes == { <<Pur(0)>>, <<Pur(1)>>, <<>> }

GroupOfConsents == [x \in Consents |-> g]

ClientSymmetry == Permutations(Clients)
=============================================================================
