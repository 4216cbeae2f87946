CONSTANTS
    Envs = {e1, e2, e3}
    Values = {v1}
    None = None
    Zero = Zero
    MaxCalls = 4
SPECIFICATION Spec
INVARIANTS TypeOK
PROPERTIES SendersAreHeard Messages
CHECK_DEADLOCK FALSE
