SPECIFICATION FairSpec
CONSTANTS
    Interfaces = {"iwn0", "ath0"}
    Nwids = {"home", "work"}
    NoNwid = "none"
    Configs <- MCConfigs
    Stations <- MCStations
INVARIANTS
    TypeOK
    IdleIsDown
    NoneSkipped
PROPERTY
    InRangeConnects
