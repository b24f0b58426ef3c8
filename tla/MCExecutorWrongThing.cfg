CONSTANTS
  p = p
  q = q
  run1 = run1
  run2 = run2
  Cache = Cache
  cache = cache
  Path <- TwoPaths
  First <- TwoFirst
  Run <- TwoRuns
  Fold <- Folded
  Obj = {1, 2, 3}
  Copies = 2
  MaxUndos = 1
  Worlds <- LostLine
SPECIFICATION Spec
INVARIANT NeverUndoesWrongThing
CHECK_DEADLOCK FALSE
