SPECIFICATION ProgramsSpec
CONSTANTS
    NITEMS = 5
    BUFSIZE = 4
    IntMax = 100
    Readers = {r1, r2, r3}
    Writers = {x1, x2}
    N = 2
    NThreads = 2
    PerThread = 3
    MaxForks = 3
    PidMax = 2
    MAXJOBS = 2
    ShellForks = 2
    PidArgs = {1, 2}
    Clients = {a, b}
    Lines = 1
    NFds = 2
    Browsers = {a, b}
    Impatient = {a}
    VSIZE = 2
    Spare = 1
INVARIANTS
    Exclusion
    ConsumedInOrder NoUseAfterFree
    ResultsRight
    JobsMatchChildren
    NoLostJob OneForeground StopsRecorded
    OwnConnection
    AnswersFit
    CombinersAgree
PROPERTIES
    ProgramsEnd EveryoneGetsIn NothingMissed ZombiesReaped WaitfgReturns Released AnswerArrives
\* the programs end, or wait for input and clients for ever
CHECK_DEADLOCK FALSE
