SPECIFICATION Spec
CONSTANTS
    Border <- MCBorder
    Path <- MCPath
    Connections = {1, 2}
    Starts = {2}
    Ends = {7}
    Program = Program
    Pumper = Pumper
    NoOne = NoOne
    NoBlock = NoBlock
CHECK_DEADLOCK FALSE
INVARIANT NoWorkerLost
