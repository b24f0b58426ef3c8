SPECIFICATION Spec
CONSTANTS
  Asks <- PlanAndRun
  MaxRequests = 5
  Rule = {r1}
  Actions = 1
  TTL = 1
  MayFail = TRUE
INVARIANTS OneRunPerScan
PROPERTIES RunsCurrentPlan TerminalsInOrder
CHECK_DEADLOCK FALSE
