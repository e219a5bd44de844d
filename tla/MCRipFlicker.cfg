SPECIFICATION FairSpec
CONSTANTS
    None = None
    Drive = {w}
    Disc = {dvd}
    Unreadable = {}
    Damaged = {}
    Buffer = 8
    MaxMoves = 1
    MaxFlickers = 1
    BluRay = {}
    Encrypted = {}
    TitleCount <- OneTitle
    ScanAttempts = 1
    MaxRipAttempts = 1
    EjectOnSuccess = TRUE
    EjectOnFailure = FALSE
    MaxJobs = 4
    MaxRequests = 0
    MaxRestarts = 0
    MaxJams = 0
PROPERTIES DiscIsDealtWith
