SPECIFICATION Spec
CONSTANTS
    a = a  b = b  dvd = dvd  bd = bd  p = p  q = q
    None = None
    Job <- TwoTitles
    Disc = {dvd}
    DiscOf <- TwoTitlesDisc
    IndexOf <- TwoTitlesIndex
    BluRay = {}
    Path = {p, q}
    PathOf <- TwoTitlesPath
    MaxAttempts = 2
    MaxRequests = 3
    MaxRestarts = 0
    MaxNow = 0
INVARIANT QueuedIsClaimable
