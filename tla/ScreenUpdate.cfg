SPECIFICATION Spec
CONSTANTS
  Ticks = 12
  Modes <- Sizes
  VblankTicks = 2
  Ahead = 1
  MaxChanges = 2
INVARIANTS
  ShownUpToBeam
  NothingOlder
