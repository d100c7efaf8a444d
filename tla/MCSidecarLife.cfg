CONSTANTS
    g1 = g1
    g2 = g2
    Gateways <- MCGateways
    MaxPid = 3
SPECIFICATION FairSpec
INVARIANTS
    TypeOK
    NoStrayChild
    RecordIsCurrent
    OneDriver
PROPERTY DeathIsNoticed
CHECK_DEADLOCK FALSE
