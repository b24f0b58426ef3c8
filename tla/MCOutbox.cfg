SPECIFICATION FairSpec
CONSTANTS
  scan = scan
  loop = loop
  Sender <- TwoSenders
  MaxSends = 2
INVARIANTS
  DrainedMeansWritten
PROPERTIES
  ImplementsStream
  CloseEnds
CHECK_DEADLOCK FALSE
