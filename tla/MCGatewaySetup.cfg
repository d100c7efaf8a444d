CONSTANTS
    a = a
    b = b
    c = c
    Identities = {a, b, c}
    MaxWizards = 3
    MaxVersion = 2
SYMMETRY Symmetry
SPECIFICATION SetupSpec
INVARIANTS
    ReportedIsOnDisk
    StampIsBinary
PROPERTIES
    NoSilentNewBot
    IdentityKept
    SeedKept
    RunnableStays
CHECK_DEADLOCK FALSE
