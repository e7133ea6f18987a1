SPECIFICATION Spec
CONSTANTS
  MaxStarts = 6
  Faults = {"crash"}
INVARIANT GivesUpOnCrashLoop
CHECK_DEADLOCK FALSE
