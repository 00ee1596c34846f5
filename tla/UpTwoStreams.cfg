SPECIFICATION Spec
CHECK_DEADLOCK FALSE
CONSTANTS
  s1 = s1
  s2 = s2
  Bytes <- MCBytes
  Streams <- TwoStreams
  Input <- TwoInput
  Base <- TwoBase
  MaxBlockSize = 1
  CallSizes = {1, 2, 3}
INVARIANTS
  Fifo
  WritesAppend
  NeedyListed
  NonzeroPriorities
  BacklogBounded
  FlushedBeforeExit
  IInv
PROPERTIES
  ImplementsLog
  QueuedIsSaved
  QueueReturns
