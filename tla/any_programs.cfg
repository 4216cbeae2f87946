SPECIFICATION Spec
CONSTANTS
    c0 = c0
    c1 = c1
    NoCpu = NoCpu
    BSP = c0
    NENV = 2
    CPU = {c0, c1}
    InitEnvs = 1
    MaxGen = 1
    Policy = "RR"
    HighestPriority = 0
    MinPriority <- MinusOne
    MaxWaitTime = 1
    Traps <- AllTraps
    Misuse <- AllMisuse
INVARIANTS
    TypeOK
    LockOwner
    HaltHandshake
    FreeListExact
    PagesOrPanic
CHECK_DEADLOCK FALSE
