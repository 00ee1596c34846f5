SPECIFICATION Spec
CONSTANTS
  MaxBlocks = 6
  MaxTime = 1
  Sizes = {1, 2}
  RandomWrites = FALSE
  ClockGoesBack = FALSE
INVARIANTS
  FindsByEverySpan
  NeverAborts
  LookupsReach
  RequestsBounded
  ShortLookup
  IInv
PROPERTY ImplementsGrowingStream
