SPECIFICATION Spec
CONSTANTS
  Senders = {s1, s2}
  Receivers = {u1, u2}
  Names = {lobby}
  NoName = NoName
  RoomIds = {r1}
  NoRoom = NoRoom
  Messages = {m1, m2}
  NoMessage = NoMessage
  NoThread = NoThread
  Nowhere = Nowhere
  MaxJoins = 2
CHECK_DEADLOCK FALSE
PROPERTIES
  NobodyIsStuck
