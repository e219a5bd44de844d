SPECIFICATION FairSpec
CONSTANTS
    a = a  b = b  dvd = dvd  bd = bd  p = p  q = q
    None = None
    Job <- OneOfEach
    Disc = {dvd, bd}
    DiscOf <- OneOfEachDisc
    IndexOf <- OneOfEachIndex
    BluRay = {b}
    Path = {p, q}
    PathOf <- OneOfEachPath
    MaxAttempts = 2
    MaxRequests = 2
    MaxRestarts = 1
    MaxNow = 1
INVARIANTS NoOrphanedClaim NoLostWakeup AttemptsAreSpent
PROPERTIES NeverClobbers JobSettles CompleteIsFiled
