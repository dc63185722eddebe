\* Two dialers, two connetToSSH calls, two clients, at most two pops
\* per call; the timer may fire and the context may be cancelled.  The
\* manager stops for good when its context is done.
CONSTANTS
    s1 = s1  s2 = s2  p1 = p1
    Conns <- MCConns
    DialRetries = 2
    Dialers <- MCDialers
    MaxRounds = 2
    MaxClients = 2
    MaxPops = 2
    CanTimeout = TRUE
    CanCancel = TRUE
SPECIFICATION SystemSpec
CHECK_DEADLOCK FALSE
INVARIANT NoLeakedClient
