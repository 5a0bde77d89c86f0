SPECIFICATION FairSpec
CONSTANTS
    ShortNames = {"lan", "dock"}
    LongHeads = {"office-f"}
    Tails = {"loor1", "loor2"}
    NoTail = NoTail
    Junk = Junk
    Configs <- LifeConfigs
    Requests <- LifeRequests
    PipeCap = 1
    MaxFwd = 3
INVARIANTS
    TypeOK
    NothingLost
    QueueIsArmed
    ExitIsClean
    LossIsSeen
    EofDrains
PROPERTIES
    ImplementsRelay
    KillHitsChild
    ShutdownAfterLoss
    EngineFollows
    ParentFollows
    Delivered
