SPECIFICATION Spec
CONSTANTS
    Servers = {s1, s2}
    NBlocks = 2
    BlockMod = 8
    RexmtVal = 1
    MaxTimeout = 2
    SetjmpSavesMask = TRUE
    IoErrors = FALSE
    SockMax = 1
    MaxDups = 0
    DiskFull = FALSE
    s1 = s1
    s2 = s2
SYMMETRY Symmetry
INVARIANTS DiskOrdered AckedMeansAccepted
CHECK_DEADLOCK FALSE
