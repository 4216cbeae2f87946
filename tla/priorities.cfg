SPECIFICATION FairSpec
CONSTANTS
    c0 = c0
    c1 = c1
    NoCpu = NoCpu
    BSP = c0
    NENV = 3
    CPU = {c0}
    InitEnvs = 3
    MaxGen = 1
    Policy = "PRIO"
    HighestPriority = 2
    MinPriority = 0
    MaxWaitTime = 3
    Traps = {"yield", "destroy", "recv", "send", "lower_priority"}
    Misuse = {}
PROPERTIES
    NoStarvation
    PicksNearTopPriority
CHECK_DEADLOCK FALSE
