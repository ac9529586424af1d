SPECIFICATION Spec
CONSTANTS
  t = t
  a = a
  colon = colon
  newline = newline
  Tags = {t}
  Text = {a}
  Colon = colon
  Newline = newline
  Messages <- SomeMessages
  MaxLen = 5
  BufSize = 3
  MaxSends = 2
CHECK_DEADLOCK FALSE
INVARIANTS
  StreamInOrder
  LinesArePieces
PROPERTIES
  StartedLineEnds
