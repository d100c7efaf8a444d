CONSTANTS
    op = op
    friend = friend
    stranger = stranger
    room = room
    Peers <- MCPeers
    Channels <- MCChannels
    Operator = op
    Allowed <- MCAllowed
    GroupAllowed <- MCAllowed
    Pairing = TRUE
    DownloadAll = TRUE
    Events <- MCEvents
    Scenarios <- TurnScenarios
    MaxBacklog = 2
    MaxStrays = 1
    MaxAdapters = 1
SPECIFICATION Spec
INVARIANT EveryChatGetsATurn
CHECK_DEADLOCK FALSE
