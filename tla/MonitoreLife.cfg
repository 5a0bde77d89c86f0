SPECIFICATION FairSpec
CONSTANTS
    PipeCap = 2
    MaxSent = 3
INVARIANTS
    TypeOK
    MessagesKept
    ExitIsClean
    LeavesAlone
PROPERTIES
    ShutdownAfterLoss
    ParentFollowsBoth
    EngineFollowsBoth
