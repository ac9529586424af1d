SPECIFICATION Spec
CONSTANTS
  Users <- SomeUsers
  Said <- SomeSaid
  MaxAsked = 4
  MaxOthers = 1
CHECK_DEADLOCK FALSE
INVARIANTS
  RepliesInStep
  NoMutualWait
  StatusTellsWhy
  ShownAsSaid
PROPERTIES
  ClientsEnd
