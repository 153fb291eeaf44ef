SPECIFICATION Spec
CONSTANTS
    Seed = {s, t}
    Factory = factory
    None = None
    Legacy = Legacy
    Unreadable = Unreadable
    Provider = {ca, None}
    Posture = {TRUE}
    MaxTime = 5
    IssueTimes = {1, 5}
    MaxCopies = 1
    CheckpointInterval = 2
    Life = 4
INVARIANT PostureSurvives
