SPECIFICATION FairSpec
CONSTANTS
    Services <- TwoServices
    Internal = {}
    Stream = {"ftp"}
    FileOf <- OneFile
    NFiles = 1
    Confs <- Fixed
    Max <- MaxFtp
    TooMany = 3
    Pids = {2, 3}
    BindFails = {}
    MaxRequests = 2
    MaxSignals = 1
PROPERTIES RequestsTaken SocketRestored
CHECK_DEADLOCK FALSE
