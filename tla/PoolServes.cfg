SPECIFICATION Spec
CHECK_DEADLOCK FALSE
CONSTANTS
  down = down
  up = up
  Threads = {t1, t2, t3}
  Kinds = {down, up}
  Connections <- OneEach
  PollKinds = {down}
  MaxCalls = 2
  NoWorker = NoWorker
  NoKind = NoKind
INVARIANTS
  WorkersKept
  NoSleepBesideFree
  IInv
PROPERTY Served
