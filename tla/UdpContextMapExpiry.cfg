\* Two peers and two UDP listener loops (two ports) through the tunnel;
\* the 5-minute expiration is TTL = 2 ticks and time runs to 5 ticks, so
\* entries expire, are renewed and are reused.
CONSTANTS
    p1 = p1  p2 = p2  g1 = g1  g2 = g2
    x1 = x1  x2 = x2  x3 = x3  x4 = x4  x5 = x5  nox = nox  nog = nog
    Peers <- MCPeers
    Callers <- MCCallers
    Ctxs <- MCCtxs
    NoCtx = nox
    TTL = 2
    MaxClock = 5
    TaskCap = 1
    NoCaller = nog
SPECIFICATION FairSpec
PROPERTY SessionKeptWhileActive
