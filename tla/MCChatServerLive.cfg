SPECIFICATION Spec
CONSTANTS
  c1 = c1
  c2 = c2
  c3 = c3
  lobby = lobby
  m1 = m1
  m2 = m2
  Conns = {c1, c2, c3}
  Names = {lobby}
  NoName = NoName
  Nowhere = Nowhere
  Messages = {m1, m2}
  Setups <- LiveSetups
CHECK_DEADLOCK FALSE
PROPERTIES
  ClosedConnectionEnds
  DeliveryEndsGoneReceiver
  QueuedIsDelivered
  ImplementsRoomLog
