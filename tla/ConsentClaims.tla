--------------------------- MODULE ConsentClaims ---------------------------
(***************************************************************************)
(* What the documents, comments and tests of the repository say of the     *)
(* server and the code does not do.  Each is checked by a run of its own   *)
(* that finds a counterexample.                                            *)
(***************************************************************************)
EXTENDS ConsentServer

\* docs/README.md:153: a revoked or rejected consent never becomes EXPIRED.
\* GetConsent, ValidateConsent and UpdateConsent expire a lapsed consent of
\* any status but EXPIRED.
ClosedNeverExpires ==
  [][\A c \in Consents :
       row[c].status \in {"REVOKED", "REJECTED"} => row'[c].status # "EXPIRED"]_vars

\* consent-management-API.yaml:3192: an expiration time of 0 means that the
\* consent does not expire.  The query of the job selects it as long past.
ZeroNeverExpires ==
  [][\A c \in Consents :
       Exists(c) /\ row[c].exp = 0 /\ row[c].status # "EXPIRED"
         => row'[c].status # "EXPIRED"]_vars

\* consent-management-API.yaml:1160: validation checks that the consent has not
\* expired.  When expiring it fails, the request goes on with its local copy.
LapsedIsNotValid ==
  \A cl \in Clients :
    LET r == req[cl] IN
    r.pc = "answered" /\ r.valid => ~IsConsentExpired(row[r.c].exp, r.at)
=============================================================================
