SPECIFICATION Spec
CONSTANTS
  Sep <- SlashChar
  Scans <- SmallScans
  Files <- AllFiles
  Locked <- LockedFiles
  Refused <- GuardedPaths
  MaxAtoms = 3
  Options <- Faces
INVARIANTS
  ForestExact
  NeverSurfaceOnly
  EveryPickAnswered
  PlanSaysTrue
  OfferedPlans
  BytesExact
CHECK_DEADLOCK FALSE
