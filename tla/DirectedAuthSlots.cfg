SPECIFICATION Spec
CONSTANTS
    a = a
    b = b
    c = c
    Node = {a, b, c}
    Link <- Fork
    Restarts = {}
    Lapses = {b}
    Capacity = 1
    ProofCapacity = 1
    MaxData = 1
    MaxRenewals = 1
    MaxFaults = 2
    MaxSent = 12
INVARIANT FirstFrameAccepted
CHECK_DEADLOCK FALSE
