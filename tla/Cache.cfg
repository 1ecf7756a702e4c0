SPECIFICATION Spec
CONSTANTS
    Call = {c1, c2, c3}
    Worker = {w1, w2}
    Window = 2
    Lease = 2
    Deadline = 3
    MaxTime = 3
    MaxFence = 2
    OtherVerdict = {"hit", "miss"}
    NoCall = NoCall
SYMMETRY Symmetry
CHECK_DEADLOCK FALSE
INVARIANTS DispatchInWindow HotHoldsLease
PROPERTY AdmittedOnNewest
