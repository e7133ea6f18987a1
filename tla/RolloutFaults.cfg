SPECIFICATION Spec
CONSTANTS
  Ids = {c1, c2, c3, c4, c5, c6}
  Replicas = 2
  Rounds = 2
  Tags <- TwoRounds
  Faults = {"api", "compose", "cancel", "crash"}
SYMMETRY Symmetry
INVARIANTS
  ZeroDowntime
PROPERTIES
  OldStoppedOnlyByDrain
  ImplementsDeploy
CHECK_DEADLOCK FALSE
