\* Three callers, task buffer of one, the context may be cancelled at any
\* point.  Once every caller is done (or blocked for good) serve waits in
\* its select forever: a legitimate end state.
CONSTANTS
    r1 = r1  r2 = r2  r3 = r3
    Callers <- MCCallers
    BufSize = 1
    CanCancel = TRUE
    CanPanic = FALSE
SPECIFICATION Spec
CHECK_DEADLOCK FALSE
INVARIANT NoLateExecution
