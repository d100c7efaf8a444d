CONSTANTS
    bot = bot
    Publishers <- MCPublishers
    Chats <- MCChats
    Items <- MCItems
    MaxConn = 2
    RingCap = 2
    ReplayMax = 2
    Horizon = 0
    MaxPublish = 3
    MaxUnsaved = 0
    MaxNow = 0
    DedupMax = 2
SPECIFICATION DeliverySpec
INVARIANTS
    QuietMeansCaughtUp
PROPERTY OneFate
CHECK_DEADLOCK FALSE
