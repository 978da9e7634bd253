SPECIFICATION Spec
CONSTANTS
    Length = 6
    RIO_BUFSIZE = 3
    MaxCount = 4
INVARIANTS NothingLost ReturnsNext
\* a program does not go on after an error
CHECK_DEADLOCK FALSE
