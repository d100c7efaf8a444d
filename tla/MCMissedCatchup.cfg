CONSTANTS
    alice = alice
    bob = bob
    Peers <- MCPeers
    DMs <- MCDMs
    HistoryLimit = 2
    MaxLives = 3
    MaxLapses = 1
    MaxNow = 2
SPECIFICATION FairSpec
INVARIANTS
    TypeOK
    NotedIsNotReacted
PROPERTIES
    MarksNeverRetreat
    MergePassesOnlyMarked
    MissedIsMarked
CHECK_DEADLOCK FALSE
