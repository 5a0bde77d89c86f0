SPECIFICATION FairSpec
CONSTANTS
    PipeCap = 2
    MaxSent = 1
PROPERTY DeadPipeIsSeen
