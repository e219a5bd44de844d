SPECIFICATION Spec
CONSTANTS
    RingSize = 3
    MaxEvents = 3
    SubBuffer = 3
    Wire = 1
    MaxBreaks = 0
    MaxBoots = 1
    None = None
CHECK_DEADLOCK FALSE
INVARIANT NoSilentGap
