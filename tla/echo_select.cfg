SPECIFICATION FairSpec
CONSTANTS
    c1 = c1
    c2 = c2
    c3 = c3
    c4 = c4
    None = None
    Clients <- FourClients
    Pipelined = {}
    Aborters <- OneAborter
    Input <- SomeInput
    FD_SETSIZE = 4
INVARIANTS PoolConsistent NoReadySkipped EchoesInOrder
PROPERTY EveryClientServed
\* the server waits in select when nobody writes
CHECK_DEADLOCK FALSE
