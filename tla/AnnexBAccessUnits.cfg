SPECIFICATION Spec
CONSTANTS
    Bytes = {0, 1, 9}
    MaxInput = 13
    MaxMarks = 4
    Maximum = 8
INVARIANTS
    ReadsDoNotMatter
    BoundIsExact
CHECK_DEADLOCK FALSE
