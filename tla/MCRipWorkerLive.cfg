SPECIFICATION FairSpec
CONSTANTS
    None = None
    Drive = {w, v}
    Disc = {dvd}
    Unreadable = {}
    Damaged = {}
    Buffer = 8
    MaxMoves = 2
    MaxFlickers = 0
    BluRay = {}
    Encrypted = {}
    TitleCount <- OneTitle
    ScanAttempts = 1
    MaxRipAttempts = 1
    EjectOnSuccess = TRUE
    EjectOnFailure = FALSE
    MaxJobs = 4
    MaxRequests = 0
    MaxRestarts = 1
    MaxJams = 0
PROPERTIES DiscIsDealtWith
