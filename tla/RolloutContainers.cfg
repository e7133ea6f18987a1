SPECIFICATION FairSpec
CONSTANTS
  Ids = {c1, c2, c3, c4}
  Replicas = 2
  Rounds = 1
  Tags <- OneRound
  Faults = {"die", "flap"}
INVARIANTS
  ReplicasArePreserved
  HealthFailureRollsBack
PROPERTIES
  RolloutReturns
CHECK_DEADLOCK FALSE
