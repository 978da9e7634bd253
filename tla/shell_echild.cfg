SPECIFICATION Spec
CONSTANTS
    PidMax = 2
    MAXJOBS = 2
    MaxForks = 2
    PidArgs = {}
INVARIANT WaitfgWaits
\* the shell may quit
CHECK_DEADLOCK FALSE
