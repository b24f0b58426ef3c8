SPECIFICATION Spec
CONSTANTS
  p1 = p1
  p2 = p2
  e1 = e1
  e2 = e2
  Proc = {p1, p2}
  Entry = {e1, e2}
  MaxOps = 3
  Hours <- SomeHours
  MinAge = 1
  KeepUnder = 1
  Free <- FreeBlocks
  Targets <- SomeTargets
  Critical = 1
  Limit = 2
  Gap = 1
  Past <- SomePast
SYMMETRY Symmetry
INVARIANTS
  ManualFirst
  OneFlight
  KeepsEnough
PROPERTIES
  RecentSurvives
  OverrideExact
CHECK_DEADLOCK FALSE
