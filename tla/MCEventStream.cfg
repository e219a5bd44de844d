SPECIFICATION FairSpec
CONSTANTS
    RingSize = 3
    MaxEvents = 6
    SubBuffer = 6
    Wire = 2
    MaxBreaks = 2
    MaxBoots = 0
    None = None
CHECK_DEADLOCK FALSE
INVARIANTS NoSilentGap CompleteIsHonest
PROPERTIES IsAFeed EventArrives
