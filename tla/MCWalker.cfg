SPECIFICATION FairSpec
CONSTANTS
  top = top
  sub = sub
  leaf = leaf
  s1 = s1
  s2 = s2
  Dir = {top, sub, leaf}
  Above <- Tree
  Refusing = {sub}
  Vanishing = {leaf}
  Sizing = {s1, s2}
  Cancelable = {s1}
  Scenes <- SomeScenes
  MaxWriteOffs = 1
INVARIANTS
  WholeIsExact
  MarksHaveCalls
PROPERTY WalkEnds
CHECK_DEADLOCK FALSE
