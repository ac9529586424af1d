SPECIFICATION Spec
CONSTANTS
  Configs <- SmallConfigs
  Addresses <- SmallTrace
  Bits = 5
  Word = 8192
  MaxAccesses = 5
CHECK_DEADLOCK FALSE
INVARIANTS
  IndexMatchesBlocks
  VictimIsDefined
PROPERTIES
  ImplementsPolicy
