SPECIFICATION FairSpec
CONSTANTS
  MaxStarts = 4
  Faults = {"crash", "fork", "deaf"}
INVARIANTS
  TypeOK
  OneChildAtATime
  RunningChildIsKnown
PROPERTIES
  NothingOutlivesStop
  StopReturns
  ChildIsReplaced
CHECK_DEADLOCK FALSE
