SPECIFICATION FairSpec
CONSTANTS
    Servers = {s1}
    NBlocks = 2
    BlockMod = 8
    RexmtVal = 1
    MaxTimeout = 2
    SetjmpSavesMask = TRUE
    IoErrors = TRUE
    SockMax = 2
    MaxDups = 1
    DiskFull = FALSE
    s1 = s1
INVARIANTS PutComplete
PROPERTIES ImplementsFileTransfer Terminates
CHECK_DEADLOCK FALSE
