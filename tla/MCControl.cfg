SPECIFICATION Spec
CONSTANTS
    Clients = {c1, c2}
    NoClient = NoClient
    Commands = {"uselan", "monitor", "show"}
    Others <- OtherPrograms
    MaxFds = 2
    Backlog = 2
INVARIANTS
    OneConnPerFd
    ForwardedOnce
