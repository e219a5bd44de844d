SPECIFICATION Spec
CONSTANTS
    Region = {1, 2}
    Playlist <- MCPlaylist
    RobotLine <- MCRobotLine
    Title <- MCTitle
    Word <- MCWord
    Stream <- MCStream
    PrintedLine <- MCPrintedLine
    Candidate <- MCCandidate
    RoundsDown <- MCRoundsDown
    Output <- MCOutput
    MaxRead <- MCMaxRead
    Secs = {0, 59, 60, 90}
    maxTitles = 3
    ScanAttempts = 2
    MinTitleSeconds = 0
    Language = "en"
CHECK_DEADLOCK FALSE
INVARIANT CauseSurvives
