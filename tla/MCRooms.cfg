SPECIFICATION SafeSpec
CONSTANTS
  Senders = {s1, s2}
  Receivers = {u1, u2}
  Names = {lobby, den, NoName}
  NoName = NoName
  RoomIds = {r1, r2, r3}
  NoRoom = NoRoom
  Messages = {m1, m2}
  NoMessage = NoMessage
  NoThread = NoThread
  Nowhere = Nowhere
  MaxJoins = 2
CHECK_DEADLOCK FALSE
SYMMETRY Symmetry
INVARIANTS
  UniqueRoom
  IteratorValid
  MembersAreServed
  NothingMissedOrDoubled
PROPERTIES
  GoneGetsNothing
  ImplementsRoomLog
