CONSTANTS
    Envs = {e1, e2, e3}
    First = e1
    VaSeq <- MCVaSeq
    UXSTACK = "xstk"
    TEMP = "temp"
    ReadOnly <- MCReadOnly
    Stack = "data"
    Values = {0, 1}
    MaxPages = 6
SYMMETRY MCOthers
SPECIFICATION Spec
INVARIANTS TypeOK CowIsMended
PROPERTIES ForkCopies
CHECK_DEADLOCK FALSE
