SPECIFICATION Spec
CONSTANTS
  c1 = c1
  c2 = c2
  k1 = k1
  k2 = k2
  Consents = {c1}
  Clients = {k1, k2}
  HistoryEnabled = TRUE
  SchedulerEnabled = TRUE
  EligibleStatuses = {"ACTIVE", "CREATED"}
  AuthLists <- RaceLists
  AuthInputs <- RaceAuths
  CreateTimes <- RaceTimes
  UpdateInputs <- RaceUpdates
  MaxRequests = 4
  MaxFaults = 1
  MaxTime = 2
SYMMETRY ClientSymmetry
INVARIANTS
  TypeOK
  StatusAgrees
  AuditChain
  DelegationRule
  ParticipationRule
  ExpiredWasDue
  TrailsAgree
PROPERTIES
  ReopenedOnlyByGroup
  HistoryIsPreMutation
  ImplementsLifecycle
