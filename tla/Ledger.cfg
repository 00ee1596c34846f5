SPECIFICATION Spec
CONSTANTS
    Programs = {p1, p2}
    Paid <- MCPaid
    Fees = {1, 3}
    Modulus = 8
    MaxMade = 3
INVARIANTS IInv SpendsOnce PhantomIsLast FeePaid RefusedByOthers
SYMMETRY MCSymmetry
