SPECIFICATION Spec
CONSTANTS
    Node = {a, b}
    None = None
    CertTtl = 1
    PolicyTtls = {1}
    ApprovalTtls = {3}
    PendingTtl = 1
    MaxHeldCsrs = 1
    MaxTime = 4
INVARIANT StaysRevoked
