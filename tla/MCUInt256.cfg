SPECIFICATION Spec
CONSTANTS
  Limbs = 3
  Bits = 2
  Base = 4
  Radix = 2
  LimbDigits = 2
  Tails <- SomeTails
CHECK_DEADLOCK FALSE
INVARIANTS
  AddIsExact
  DerivedAreExact
  HexIsExact
