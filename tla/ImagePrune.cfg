SPECIFICATION Spec
CONSTANTS
  Images = {i1, i2, i3, i4}
  Ages = {1, 2}
  Keep = 1
  Faults = {"race", "api"}
SYMMETRY Symmetry
INVARIANTS
  UsedImagesStay
  OnlySupersededGo
  NothingElseIsLeft
CHECK_DEADLOCK FALSE
