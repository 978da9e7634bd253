SPECIFICATION FairSpec
CONSTANTS
    c1 = c1
    c2 = c2
    c3 = c3
    w1 = w1
    w2 = w2
    main = main
    None = None
    Clients <- ThreeClients
    Aborters <- OneAborter
    Workers <- TwoWorkers
    Input <- SomeInput
    SBUFSIZE = 1
    MaxFd = 4
INVARIANTS OneHolder OwnEchoes BytesCounted
PROPERTY EveryClientServed
\* the workers of an idle server wait for ever
CHECK_DEADLOCK FALSE
