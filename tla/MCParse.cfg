SPECIFICATION FairSpec
CONSTANTS
    Files = {"main", "sub", "gone", "open"}
    Main = "main"
    Unreadable = {"gone"}
    Exposed = {"open"}
    Texts <- MCTexts
    Macros = {"m"}
    Keys = {"inet", "netmask"}
    Values = {"v1", "v2"}
    NULL = NULL
    MaxOpen = 3
INVARIANTS
    TypeOK
    ErrorsKept
    EthernetOptions
    OwnOptions
    NeverNull
PROPERTY
    Terminates
