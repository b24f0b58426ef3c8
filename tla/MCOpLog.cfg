CONSTANTS
  clean = clean
  tick = tick
  Proc <- TwoProcs
  MaxAppends = 2
SPECIFICATION FairSpec
INVARIANTS
  RefusesOnlyCuts
PROPERTIES
  ImplementsJournal
  WaiterServed
CHECK_DEADLOCK FALSE
