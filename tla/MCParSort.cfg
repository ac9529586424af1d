SPECIFICATION Spec
CONSTANTS
  N = 4
  Values <- TwoValues
  Thresholds = {0, 1}
  Pids <- Processes
  Root = 1
  MaxFaults = 2
CHECK_DEADLOCK FALSE
INVARIANTS
  WorkersDisjoint
  ExitZeroMeansSorted
  ExitIsHonest
  SomebodyGoesOn
PROPERTIES
  RootEnds
