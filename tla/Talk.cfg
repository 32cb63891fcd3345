SPECIFICATION Spec
CONSTANTS
    Users = {"anna", "bert", "carl"}
    Hosts = {"near", "far"}
    HostOf <- Machines
    Clients = {"a1", "b1", "c1"}
    Me <- MeOf
    Peer <- PeerOf
    None = "none"
    MaxId = 9
    MaxIdle = 2
    SetjmpSavesMask = TRUE
    MaxRings = 1
    MaxFaults = 1
INVARIANTS InvitationKept RightParty
CHECK_DEADLOCK FALSE
