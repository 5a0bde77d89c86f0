SPECIFICATION Spec
CONSTANTS
    ShortNames = {"lan", "dock"}
    LongHeads = {"office-f"}
    Tails = {"loor1", "loor2"}
    NoTail = NoTail
    Junk = Junk
    Configs <- UseConfigs
    Requests <- UseRequests
    PipeCap = 2
    MaxFwd = 2
INVARIANTS
    ShortNameHonoured
