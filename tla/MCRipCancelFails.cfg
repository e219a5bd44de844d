SPECIFICATION Spec
CONSTANTS
    None = None
    Drive = {w}
    Disc = {dvd}
    Unreadable = {}
    Damaged = {}
    Buffer = 8
    MaxMoves = 2
    MaxFlickers = 0
    BluRay = {}
    Encrypted = {}
    TitleCount <- OneTitle
    ScanAttempts = 1
    MaxRipAttempts = 1
    EjectOnSuccess = TRUE
    EjectOnFailure = FALSE
    MaxJobs = 4
    MaxRequests = 1
    MaxRestarts = 0
    MaxJams = 0
INVARIANTS CancelIsNotAFailure
