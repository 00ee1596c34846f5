SPECIFICATION Spec
CONSTANTS
  MaxBlocks = 5
  MaxTime = 0
  Sizes = {1, 2}
  RandomWrites = TRUE
  ClockGoesBack = FALSE
INVARIANTS
  FindsReplaced
  AnywhereInv
