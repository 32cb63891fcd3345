SPECIFICATION Spec
CONSTANTS
    Services <- AllServices
    Internal = {"time"}
    Stream = {"ftp", "time"}
    FileOf <- FtpSecond
    NFiles = 2
    Confs <- FtpComesGoes
    Max <- NoMax
    TooMany = 5
    Pids = {2, 3}
    BindFails = {"time"}
    MaxRequests = 3
    MaxSignals = 1
INVARIANTS NsockCounts SocketOwner SingleThreaded 
CHECK_DEADLOCK FALSE
