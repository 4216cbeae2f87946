SPECIFICATION FairSpec
CONSTANTS
    c0 = c0
    c1 = c1
    NoCpu = NoCpu
    BSP = c0
    NENV = 4
    CPU = {c0, c1}
    InitEnvs = 4
    MaxGen = 1
    Policy = "RR"
    HighestPriority = 0
    MinPriority = 0
    MaxWaitTime = 1
    Traps = {"yield", "destroy", "recv", "send", "fault"}
    Misuse = {}
PROPERTIES
    NoStarvation
CHECK_DEADLOCK FALSE
