CONSTANTS
    bot = bot
    Publishers <- MCPublishers
    Chats <- MCChats
    Items <- MCItems
    MaxConn = 2
    RingCap = 2
    ReplayMax = 2
    Horizon = 1
    MaxPublish = 3
    MaxUnsaved = 2
    MaxNow = 2
SPECIFICATION Spec
INVARIANTS
    TypeOK
    RingIsNewest
    ReplayFits
    CursorWasAccepted
    CursorCoversAccepted
    ZeroDropsMeansAccepted
CHECK_DEADLOCK FALSE
