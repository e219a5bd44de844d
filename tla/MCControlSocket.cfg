SPECIFICATION SocketFairSpec
CONSTANTS
    Cap = 1
    InboxCap = 1
    Jobs = 2
    MaxChanges = 3
CHECK_DEADLOCK FALSE
INVARIANTS NoSendOnClosed ListsShowTheirOwn
PROPERTIES RequestIsAnswered ScreenConverges CloseEnds
