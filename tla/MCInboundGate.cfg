CONSTANTS
    op = op
    friend = friend
    stranger = stranger
    room = room
    Peers <- MCPeers
    Channels <- MCChannels
    Operator = op
    Allowed <- MCAllowed
    GroupAllowed <- MCAllowed
    Pairing = TRUE
    DownloadAll = TRUE
    Events <- MCEvents
    Scenarios <- MCScenarios
    MaxBacklog = 2
    MaxStrays = 1
    MaxAdapters = 2
SPECIFICATION Spec
INVARIANTS
    SavedIsKnown
    AttachedOnce
PROPERTIES
    MutedStaysOut
    QueuedFilesReachNextText
    DeletedFileStaysOut
CHECK_DEADLOCK FALSE
