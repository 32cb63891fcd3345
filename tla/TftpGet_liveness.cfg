SPECIFICATION FairSpec
CONSTANTS
    Servers = {s1}
    NBlocks = 3
    BlockMod = 3
    RexmtVal = 1
    MaxTimeout = 2
    SetjmpSavesMask = TRUE
    IoErrors = FALSE
    SockMax = 2
    MaxDups = 1
    Transfers = 1
    s1 = s1
INVARIANTS TypeOK
PROPERTIES Terminates
CHECK_DEADLOCK FALSE
