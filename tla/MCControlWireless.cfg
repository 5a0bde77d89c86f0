SPECIFICATION FairSpec
CONSTANTS
    Clients = {c1}
    NoClient = NoClient
    Commands = {"uselan", "usewlan"}
    Others <- NoPrograms
    MaxFds = 1
    Backlog = 1
PROPERTY WirelessIsForwarded
