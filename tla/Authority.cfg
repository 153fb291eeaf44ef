SPECIFICATION MCSpec
CONSTANTS
    Node = {a, b}
    None = None
    CertTtl = 2
    PolicyTtls = {2}
    ApprovalTtls = {1}
    PendingTtl = 1
    MaxHeldCsrs = 1
    MaxTime = 4
    Name = {x, y, z}
    Key = {k}
    SessionTtl = 2
    InviteTtl = 2
    HandleTtl = 1
    MaxInvites = 1
    MaxAccounts = 2
    MaxSteps = 3
    Conn = {c, d}
    Revalidate = 2
    Deadline = 1
    MaxLag = 1
    MaxRequests = 2
    MaxClock = 3
SYMMETRY Symmetry
INVARIANTS
    StaysRevoked
    
    
    AnswerIsTrue
PROPERTIES
    ReadmittedByApproval
    ServedFresh
