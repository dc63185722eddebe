\* One dialer (popped again after being pushed back), two connetToSSH
\* calls, two clients, at most two pops per call; the timer may fire and
\* the context may be cancelled.  The proxy serves one connection at a time, with two Dial attempts.  The
\* manager stops for good when its context is done.
CONSTANTS
    s1 = s1  s2 = s2  p1 = p1
    Dialers <- MCDialers1
    Conns <- MCConns
    MaxRounds = 2
    MaxClients = 2
    MaxPops = 2
    DialRetries = 2
    CanTimeout = TRUE
    CanCancel = TRUE
SPECIFICATION SystemFairSpec
CHECK_DEADLOCK FALSE
PROPERTY ConnectReturns
PROPERTY DialReturns
