SPECIFICATION Spec
CONSTANTS
    ShortNames = {"lan", "dock"}
    LongHeads = {"office-f"}
    Tails = {"loor1", "loor2"}
    NoTail = NoTail
    Junk = Junk
    Configs <- ShortConfigs
    Requests <- ShortRequests
    PipeCap = 1
    MaxFwd = 1
INVARIANT UseOnlyThatNetwork
