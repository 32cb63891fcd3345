SPECIFICATION Spec
CONSTANTS
    Facs <- MCFacs
    Syslog = "syslog"
    MarkFac = "mark"
    MaxPri = 7
    Confs <- MCConfs
    TestConfs <- MCTestConfs
    Dests = {"log", "loghost", "errors", "console", "users"}
    Msgs <- MCMsgs
    Kernel <- MCKernel
    LongTexts = {"long"}
    Local = "here"
    NoHops = FALSE
    NoForward = FALSE
    ForceSync = TRUE
    MarkInterval = 2
    SuspendTime = 2
    RetryMax = 1
    MaxBatch = 1
    MaxCount = 1
    MaxTroubles = 2
INVARIANTS SelectorRule LogFaithful HeldAtExit RepeatsHeldBriefly HangupHeeded
CHECK_DEADLOCK FALSE
