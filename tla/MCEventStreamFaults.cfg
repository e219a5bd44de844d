SPECIFICATION Spec
CONSTANTS
    RingSize = 2
    MaxEvents = 4
    SubBuffer = 1
    Wire = 2
    MaxBreaks = 1
    MaxBoots = 1
    None = None
CHECK_DEADLOCK FALSE
INVARIANTS InOrderOnce
