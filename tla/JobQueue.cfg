SPECIFICATION FairSpec
CONSTANTS
  Jobs = {j1, j2, j3}
  Drainers = {d1, d2}
  Capacity = 2
INVARIANTS
  TypeOK
  NoPanic
  DrainTrueMeansAllFinished
  RunIffAccepted
PROPERTIES
  ImplementsFifo
  CallsReturn
  AcceptedIsFinished
CHECK_DEADLOCK FALSE
