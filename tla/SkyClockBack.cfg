SPECIFICATION Spec
CONSTANTS
  MaxBlocks = 6
  MaxTime = 1
  Sizes = {1}
  RandomWrites = FALSE
  ClockGoesBack = TRUE
INVARIANT NeverAborts
