SPECIFICATION TelnetSpec
CONSTANTS
    Kinds = {"both", "do", "echo"}
    RespMax = 4
    MaxRequests = 2
    MaxAO = 2
    MaxEvents = 4
INVARIANTS NetTypeOK Consensus Settled OnlyOutput AbortedIsGone NotShown
PROPERTIES Reliable ComesToRest
CHECK_DEADLOCK FALSE
