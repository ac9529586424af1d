SPECIFICATION Spec
CONSTANTS
  Producers = {p1, p2}
  Consumers = {c1, c2}
  Messages = {m1, m2, m3}
  NoThread = NoThread
  NoMessage = NoMessage
INVARIANTS
  SemaphoreCountsMessages
  FrontIsDefined
PROPERTIES
  ImplementsFifo
  OperationsReturn
