SPECIFICATION FairSpec
CONSTANTS
  Handlers = {h1, h2}
  Job = job
  NoOne = NoOne
  MaxOpenConns = 1
  MaxPools <- PoolsNeeded
  Consents = {c1}
  Statuses = {"ACTIVE", "REVOKED"}
  MaxFaults = 1
  MaxStarts = 2
  MaxOperations = 2
INVARIANTS NoPoolIsLost NoConnectionIsLost ClientsStayGood OnlyJobReopens
           NobodyWaitsInCircles
PROPERTIES TransactionsAreAtomic OperationsEnd
