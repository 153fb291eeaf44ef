SPECIFICATION LiveSpec
CONSTANTS
    a = a
    b = b
    c = c
    Node = {a, b}
    Link <- Pair
    Restarts = {a, b}
    Lapses = {b}
    Capacity = 1
    ProofCapacity = 1
    MaxData = 1
    MaxRenewals = 1
    MaxFaults = 2
    MaxSent = 12
INVARIANTS
    ProvenHasKey
    CreditedOnce
PROPERTIES
    Reopens
CHECK_DEADLOCK FALSE
