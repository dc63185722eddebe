\* Three callers, task buffer of one, the context may be cancelled at any point.
CONSTANTS
    r1 = r1  r2 = r2  r3 = r3
    Callers <- MCCallers
    BufSize = 1
    CanCancel = TRUE
    CanPanic = FALSE
SPECIFICATION FairSpec
CHECK_DEADLOCK FALSE
PROPERTY RunTaskReturns
