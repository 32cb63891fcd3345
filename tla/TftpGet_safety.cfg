SPECIFICATION Spec
CONSTANTS
    Servers = {s1, s2}
    NBlocks = 2
    BlockMod = 8
    RexmtVal = 1
    MaxTimeout = 2
    SetjmpSavesMask = TRUE
    IoErrors = TRUE
    SockMax = 2
    MaxDups = 0
    Transfers = 1
    s1 = s1
    s2 = s2
SYMMETRY Symmetry
INVARIANTS InOrder DoneMeansComplete ServerDoneMeansDelivered
PROPERTIES ImplementsFileTransfer
CHECK_DEADLOCK FALSE
