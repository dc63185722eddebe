\* A TCP and a UDP listener, up to three connections each; a bind
\* failure and cancellation may happen at any point.  A loop blocked in
\* Accept with no client is a legitimate end state.
CONSTANTS
    l1 = l1  l2 = l2
    Listeners <- MCListeners
    ListenOrder <- MCListenOrder
    Udp <- MCUdp
    MaxConns = 3
SPECIFICATION FairSpec
CHECK_DEADLOCK FALSE
PROPERTY CancelStopsListeners
