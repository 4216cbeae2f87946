CONSTANTS
    N = 20
    Processes <- MCProcesses
    Capacity = 2
SPECIFICATION Spec
PROPERTIES SieveEnds
CHECK_DEADLOCK FALSE
