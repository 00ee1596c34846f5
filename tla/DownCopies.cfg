SPECIFICATION DownloadSpec
CONSTANTS
  MaxBlocks = 4
  MaxTime = 0
  Sizes = {1, 2}
  RandomWrites = FALSE
  ClockGoesBack = FALSE
  Asked = {"bytes", "index"}
  Starts = {0, 1, 2}
  AddsSize = FALSE
INVARIANTS
  DownloadExact
  DownloadNeverFails
  DownloadInv
PROPERTY CopyEnds
