--------------------------- MODULE MCConsentSearch ---------------------------
(* Values for model checking ConsentSearch. *)
EXTENDS ConsentSearch

CONSTANTS u1, u2

Rows == {
  [validityTime |-> NoTime, groupId |-> 1, status |-> "ACTIVE",
   auths |-> {[user |-> u1, type |-> "primary"], [user |-> u1, type |-> "agent"]}],
  [validityTime |-> 1, groupId |-> 2, status |-> "REVOKED",
   auths |-> {[user |-> u2, type |-> "delegate"], [user |-> u1, type |-> "delegate_subject"]}]}

All == [groups |-> {}, statuses |-> {}, users |-> {}, delegation |-> "none", types |-> {},
        subject |-> NoUser]

Walks == {
  [filter |-> All, sort |-> <<>>, limit |-> 0],
  [filter |-> [All EXCEPT !.groups = {1}], sort |-> <<[field |-> "createdTime", asc |-> TRUE]>>,
   limit |-> 3],
  [filter |-> [All EXCEPT !.statuses = {"ACTIVE"}],
   sort |-> <<[field |-> "groupId", asc |-> TRUE], [field |-> "updatedTime", asc |-> FALSE]>>, limit |-> 1],
  [filter |-> [All EXCEPT !.users = {u1}], sort |-> <<[field |-> "validityTime", asc |-> FALSE]>>,
   limit |-> 2],
  [filter |-> [All EXCEPT !.users = {u1}, !.delegation = "true"], sort |-> <<>>, limit |-> 2],
  [filter |-> [All EXCEPT !.delegation = "true", !.subject = u1], sort |-> <<>>, limit |-> 1],
  [filter |-> [All EXCEPT !.types = {"agent"}, !.delegation = "true"], sort |-> <<>>, limit |-> 1]}
=============================================================================
