SPECIFICATION Spec
CONSTANTS
    c1 = c1
    c2 = c2
    c3 = c3
    c4 = c4
    None = None
    Clients <- OneClient
    Pipelined <- OneClient
    Aborters = {}
    Input <- TwoLines
    FD_SETSIZE = 2
INVARIANT EchoesInOrder
CHECK_DEADLOCK FALSE
