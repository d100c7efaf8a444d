CONSTANTS
    Owned <- MCOwned
    Foreign <- MCForeign
    Channels <- MCChannels
    ChannelsOf <- MCChannelsOf
    MaxLives = 2
SPECIFICATION CommunitiesSpec
INVARIANTS
    KnownWasTold
    NoRepeatOnRestart
    OneHome
CHECK_DEADLOCK FALSE
