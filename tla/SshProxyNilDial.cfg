\* The manager with the SOCKS5 proxy: can a proxy goroutine call Dial on
\* the nil client StartServe stores after a failed or timed-out connect?
CONSTANTS
    s1 = s1  s2 = s2  p1 = p1
    Dialers <- MCDialers1
    Conns <- MCConns
    MaxRounds = 2
    MaxClients = 2
    MaxPops = 2
    DialRetries = 2
    CanTimeout = TRUE
    CanCancel = FALSE
SPECIFICATION SystemSpec
CHECK_DEADLOCK FALSE
INVARIANT NoNilDial
