CONSTANTS
    Lines <- MCLines
    Pids = {1, 2, 3, 4, 5, 6}
    MaxLines = 2
SPECIFICATION Spec
INVARIANTS TypeOK StatusIsLast HeapExact
PROPERTIES NothingLingers


CHECK_DEADLOCK FALSE
