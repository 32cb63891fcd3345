SPECIFICATION FairSpec
CONSTANTS
    Cmds = {"RETR", "STOR"}
    FileSize = 2
    PipeSize = 1
    MaxXfers = 2
    MaxNoops = 1
    MaxIntrs = 2
    GapIntr = FALSE
INVARIANTS InStep Complete226 OwnConnection
PROPERTIES TransferEnds
CHECK_DEADLOCK FALSE
