SPECIFICATION FairMonitorSpec
CONSTANTS
    Drive = {w}
    Disc = {worn}
    Unreadable = {}
    Damaged = {worn}
    Buffer = 2
    MaxMoves = 2
    MaxFlickers = 0
    None = None
PROPERTIES UnplugIsReported
