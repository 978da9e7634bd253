SPECIFICATION Spec
CONSTANTS
    PidMax = 2
    MAXJOBS = 2
    MaxForks = 2
    PidArgs = {1, 2}
INVARIANT BackgroundIgnoresKeys
\* the shell may quit
CHECK_DEADLOCK FALSE
