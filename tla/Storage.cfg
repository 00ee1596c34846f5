SPECIFICATION Spec
CONSTANTS
    a = a
    b = b
    la = la
    lb = lb
    le = le
    Contents = {a, b}
    Empty = Empty
    Algorithms = 3
    Links = {la, lb, le}
    Content <- MCContent
    Portals = 4
    Missing = Missing
INVARIANTS IInv ReturnKeepsPromise SkylinkAgreed
PROPERTY ThrowsForACause
