\* The manager with the SOCKS5 proxy: does cancelling the manager's
\* context stop the proxy StartProxy started?
CONSTANTS
    s1 = s1  s2 = s2  p1 = p1
    Dialers <- MCDialers1
    Conns <- MCConns
    MaxRounds = 2
    MaxClients = 2
    MaxPops = 2
    DialRetries = 2
    CanTimeout = TRUE
    CanCancel = TRUE
SPECIFICATION SystemFairSpec
CHECK_DEADLOCK FALSE
PROPERTY ProxyStops
