SPECIFICATION FairSpec
CONSTANTS
    Count = 2
    Secs <- TwoSecs
    Steps = 2
    StallTimeout = 1
    MaxAttempts = 2
    MaxCrashes = 1
CHECK_DEADLOCK FALSE
INVARIANTS ReusedIsFinished RecordedIsTheDisc StagedUntilDone
PROPERTIES KeptForRetry TitleEnds CancelEnds
