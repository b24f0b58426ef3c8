SPECIFICATION Spec
CONSTANTS
  Asks <- WithAerials
  MaxRequests = 2
  Rule = {r1}
  Actions = 1
  TTL = 0
  MayFail = TRUE
INVARIANT CleanExit
CHECK_DEADLOCK FALSE
