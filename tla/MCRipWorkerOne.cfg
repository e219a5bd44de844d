SPECIFICATION Spec
CONSTANTS
    None = None
    Drive = {w}
    Disc = {css, bd, worn}
    Unreadable = {}
    Damaged = {worn}
    Buffer = 8
    MaxMoves = 3
    MaxFlickers = 0
    BluRay = {bd}
    Encrypted = {css}
    TitleCount <- TwoTitles
    ScanAttempts = 2
    MaxRipAttempts = 1
    EjectOnSuccess = TRUE
    EjectOnFailure = FALSE
    MaxJobs = 4
    MaxRequests = 1
    MaxRestarts = 1
    MaxJams = 0
INVARIANTS RippedIsWhole UnfinishedJobHasAWorker EjectingIsDone SettledIsShown
