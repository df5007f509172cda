-------------------------- MODULE MCConsentServer --------------------------
(***************************************************************************)
(* Values of the constants of ConsentServer for TLC.                       *)
(***************************************************************************)
EXTENDS ConsentServer, ConsentClaims, TLC

CONSTANTS c1, c2, k1, k2

Input(t, s) == [type |-> t, status |-> s]

\* One decided, one open, one delegated, one refused for its types, and none.
SerialLists ==
  { <<>>,
    <<Input("", "")>>,
    <<Input("agent", "CREATED"), Input("primary", "REJECTED")>>,
    <<Input("delegate", "APPROVED"), Input("delegate_subject", "RECORDED")>>,
    <<Input("primary", "APPROVED"), Input("delegate", "APPROVED")>> }

\* Decisions, a passive participant, a custom status, and a body that changes
\* neither type nor status.
SerialAuths ==
  { Input("", ""), Input("", "REJECTED"), Input("agent", "CUSTOM"),
    Input("delegate_subject", "RECORDED") }

SerialTimes == {NoTime, 0, 1, 2}

Body(e, r, l, p) == [exp |-> e, replace |-> r, list |-> l, purposes |-> p]

SerialUpdates ==
  { Body(e, FALSE, <<>>, p) : e \in {NoTime, 0, 1, 3}, p \in {"keep", "unapproved"} }
    \union { Body(NoTime, TRUE, l, "keep") : l \in SerialLists }
    \union { Body(3, TRUE, <<Input("", "CREATED")>>, "approved") }

-----------------------------------------------------------------------------
\* Fewer inputs, for runs with many interleavings.
RaceLists == { <<Input("", ""), Input("primary", "RECORDED")>>,
               <<Input("delegate", "APPROVED"), Input("delegate_subject", "RECORDED")>> }

RaceAuths == { Input("", "REJECTED"), Input("agent", "RECORDED"), Input("", "") }

RaceTimes == {NoTime, 1}

RaceUpdates == { Body(NoTime, FALSE, <<>>, "keep"), Body(3, FALSE, <<>>, "keep"),
                 Body(NoTime, TRUE, <<Input("", "CREATED")>>, "unapproved") }

\* Callers only write authorizations one by one.
NoUpdates == {}

\* Consents that the job reaches, and their renewal.
JobLists   == { <<Input("", "")>> }
JobAuths   == { Input("", "REJECTED") }
JobUpdates == { Body(3, FALSE, <<>>, "keep"), Body(0, FALSE, <<>>, "keep") }

ClientSymmetry == Permutations(Clients)
ConsentSymmetry == Permutations(Consents)
=============================================================================
