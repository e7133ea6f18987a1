SPECIFICATION FairSpec
CONSTANTS
  Lines = 4
  Faults = {"log", "db", "torn", "crash", "reap"}
INVARIANTS
  StreamFollowsFile
  LateReaderSeesAll
PROPERTIES
  StreamEnds
CHECK_DEADLOCK FALSE
