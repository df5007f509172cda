SPECIFICATION Spec
CONSTANTS
  type = type
  frequency = frequency
  x = x
  y = y
  v1 = v1
  v2 = v2
  e1 = e1
  e2 = e2
  k1 = k1
  k2 = k2
  Fields = {type, frequency}
  Values = {x, y}
  Versions = {v1, v2}
  Elements = {e1, e2}
  ElementsOf <- MCElementsOf
  MandatoryOf <- MCMandatoryOf
  Clients = {k1, k2}
  NewBody <- MCNewBody
  Bodies <- MCBodies
  NewAuths <- MCNewAuths
  MaxTime = 2
  MaxRequests = 3
  MaxFaults = 1
SYMMETRY ClientSymmetry
INVARIANTS
  ReadsTypeOK
  PurposesAreWhole
  ShownStatusIsExplained
  NewestEntryIsStatus
  TimesFollowCommits
  VerdictHasGround
  LastWriteStands
