SPECIFICATION DownloadSpec
CONSTANTS
  MaxBlocks = 3
  MaxTime = 0
  Sizes = {1, 2}
  RandomWrites = FALSE
  ClockGoesBack = FALSE
  Asked = {"bytes"}
  Starts = {0}
  AddsSize = TRUE
INVARIANT DownloadExact
