SPECIFICATION Spec
CONSTANTS
    None = None
    Drive = {w}
    Disc = {worn}
    Unreadable = {}
    Damaged = {worn}
    Buffer = 8
    MaxMoves = 2
    MaxFlickers = 0
    BluRay = {}
    Encrypted = {}
    TitleCount <- OneTitle
    ScanAttempts = 1
    MaxRipAttempts = 1
    EjectOnSuccess = TRUE
    EjectOnFailure = FALSE
    MaxJobs = 4
    MaxRequests = 0
    MaxRestarts = 0
    MaxJams = 0
INVARIANTS DamagedIsAttempted
