SPECIFICATION Spec
CONSTANTS
    c0 = c0
    c1 = c1
    NoCpu = NoCpu
    BSP = c0
    NENV = 2
    CPU = {c0, c1}
    InitEnvs = 1
    MaxGen = 1
    Policy = "RR"
    HighestPriority = 0
    MinPriority = 0
    MaxWaitTime = 1
    Traps = {"exofork", "set_status", "destroy"}
    Misuse = {"rekill"}
PROPERTIES
    ZombieReapedByItsCpu
CHECK_DEADLOCK FALSE
