SPECIFICATION Spec
CHECK_DEADLOCK FALSE
CONSTANTS
  s1 = s1
  s2 = s2
  Bytes <- MCBytes
  Streams <- OneStream
  Input <- TinyInput
  Base <- TinyBase
  MaxBlockSize = 1
  CallSizes = {1}
PROPERTY ShutdownReturns
