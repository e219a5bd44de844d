SPECIFICATION FairMonitorSpec
CONSTANTS
    Drive = {w}
    Disc = {good, odd, worn}
    Unreadable = {odd}
    Damaged = {worn}
    Buffer = 2
    MaxMoves = 6
    MaxFlickers = 1
    None = None
INVARIANTS EveryEventIsATransition
PROPERTIES SettledIsReported
