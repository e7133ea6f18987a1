SPECIFICATION FairSpec
CONSTANTS
  Jobs = {j1, j2}
  First = v0
  Capacity = 1
  Faults = {}
  MaxBoots = 1
PROPERTIES
  AcceptedBecomesFinal
  WaitingClientIsAnswered
  SigtermEndsProcess
CHECK_DEADLOCK FALSE
