SPECIFICATION FairSpec
CONSTANTS
  c1 = c1
  c2 = c2
  k1 = k1
  k2 = k2
  Consents = {c1, c2}
  Clients = {k1}
  HistoryEnabled = FALSE
  SchedulerEnabled = TRUE
  EligibleStatuses = {"ACTIVE", "CREATED"}
  AuthLists <- JobLists
  AuthInputs <- JobAuths
  CreateTimes <- RaceTimes
  UpdateInputs <- JobUpdates
  MaxRequests = 4
  MaxFaults = 1
  MaxTime = 3
PROPERTIES
  DueConsentIsHandled
