SPECIFICATION FairSpec
CONSTANTS
  Jobs = {j1, j2}
  First = v0
  Capacity = 1
  Faults = {"crash"}
  MaxBoots = 2
PROPERTIES
  AsyncJobBecomesFinal
CHECK_DEADLOCK FALSE
