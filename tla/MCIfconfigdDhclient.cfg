SPECIFICATION FairSpec
CONSTANTS
    ShortNames = {"lan", "dock"}
    LongHeads = {"office-f"}
    Tails = {"loor1", "loor2"}
    NoTail = NoTail
    Junk = Junk
    Configs <- DhcpConfigs
    Requests <- DhcpRequests
    PipeCap = 1
    MaxFwd = 2
PROPERTY AlwaysControlled
