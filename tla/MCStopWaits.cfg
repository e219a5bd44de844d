SPECIFICATION FairSpec
CONSTANTS
    Drive = {d1}
    Disabled = {}
    AutoRefreshKey = TRUE
    TooOld = FALSE
    RefreshInterval = 1
    MaxEvents = 2
    None = None
CHECK_DEADLOCK FALSE
PROPERTY StopReturns
