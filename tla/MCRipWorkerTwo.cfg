SPECIFICATION Spec
CONSTANTS
    None = None
    Drive = {w, v}
    Disc = {dvd}
    Unreadable = {}
    Damaged = {}
    Buffer = 8
    MaxMoves = 2
    MaxFlickers = 1
    BluRay = {}
    Encrypted = {}
    TitleCount <- OneTitle
    ScanAttempts = 1
    MaxRipAttempts = 2
    EjectOnSuccess = TRUE
    EjectOnFailure = FALSE
    MaxJobs = 5
    MaxRequests = 0
    MaxRestarts = 1
    MaxJams = 0
INVARIANTS OneDiscAtATime NoDoubleRip
SYMMETRY Drives
