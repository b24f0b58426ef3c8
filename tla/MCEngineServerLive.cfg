SPECIFICATION FairSpec
CONSTANTS
  Asks <- Mixed
  MaxRequests = 3
  Rule = {r1}
  Actions = 1
  TTL = 0
  MayFail = TRUE
INVARIANT CleanExit
PROPERTIES EveryoneAnswered Leaves
CHECK_DEADLOCK FALSE
