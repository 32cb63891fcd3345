SPECIFICATION FairSpec
CONSTANTS
    Services <- TwoServices
    Internal = {}
    Stream = {"ftp"}
    FileOf <- OneFile
    NFiles = 1
    Confs <- Fixed
    Max <- NoMax
    TooMany = 2
    Pids = {2, 3}
    BindFails = {}
    MaxRequests = 2
    MaxSignals = 0
PROPERTIES Reenabled
CHECK_DEADLOCK FALSE
