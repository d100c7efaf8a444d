CONSTANTS
    bot = bot
    Publishers <- MCPublishers
    Chats <- MCChats
    Items <- MCItems
    MaxConn = 1
    RingCap = 2
    ReplayMax = 2
    Horizon = 1
    MaxPublish = 3
    MaxUnsaved = 0
    MaxNow = 0
SPECIFICATION Spec
INVARIANT UndeliveredStaysUnseen
CHECK_DEADLOCK FALSE
