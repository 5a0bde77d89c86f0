SPECIFICATION FairSpec
CONSTANTS
    Clients = {c1, c2, c3}
    NoClient = NoClient
    Commands = {"uselan"}
    Others <- NoPrograms
    MaxFds = 1
    Backlog = 2
INVARIANT TypeOK
PROPERTIES
    ClosedIsServed
    FdsAreFreed
