SPECIFICATION Spec
CONSTANTS
  Jobs = {j1, j2}
  First = v0
  Capacity = 1
  Faults = {"crash", "db"}
  MaxBoots = 2
SYMMETRY Symmetry
INVARIANTS
  TypeOK
  RunningRowIsInHand
  CleanDrainLeavesNoWork
  RowTellsTheDeploy
  ToldAgreesWithRow
  RefusedIsNeverRun
PROPERTIES
  RowsOnlyAdvance
CHECK_DEADLOCK FALSE
