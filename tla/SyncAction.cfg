\* Three callers, task buffer of one; a task may panic, the context is not
\* cancelled.  Callers blocked for good after serve ended are the end
\* state the property is about.
CONSTANTS
    r1 = r1  r2 = r2  r3 = r3
    Callers <- MCCallers
    BufSize = 1
    CanCancel = FALSE
    CanPanic = TRUE
SPECIFICATION FairSpec
CHECK_DEADLOCK FALSE
PROPERTY WaitReturns
