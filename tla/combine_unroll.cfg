SPECIFICATION Spec
CONSTANTS
    VSIZE = 2
    Spare = 1
INVARIANT SameAsCombine1
\* a function returns
CHECK_DEADLOCK FALSE
