SPECIFICATION Spec
CONSTANTS
  c1 = c1
  c2 = c2
  k1 = k1
  k2 = k2
  Consents = {c1}
  Clients = {k1}
  HistoryEnabled = FALSE
  SchedulerEnabled = FALSE
  EligibleStatuses = {"ACTIVE"}
  AuthLists <- RaceLists
  AuthInputs <- RaceAuths
  CreateTimes <- SerialTimes
  UpdateInputs <- RaceUpdates
  MaxRequests = 4
  MaxFaults = 0
  MaxTime = 3
PROPERTY
  ClosedNeverExpires
