\* One UDP peer, two datagrams handled one after the other: after a
\* streamed answer the next answer on the same NetContext.
CONSTANTS
    w1 = w1  w2 = w2  w3 = w3  c1 = c1  c2 = c2  c3 = c3
    k1 = k1  k2 = k2  n1 = n1
    Workers <- MCWorkers2
    Ctxs <- MCCtxsUdp
    CtxOf <- MCCtxOfUdp2
    Requests <- MCRequestsUdp
    Keys = {k1, k2}
    Nonces = {n1}
    SeqBits = 2
    HandlerPlans <- MCPlansUdp
    Overlap = FALSE
SPECIFICATION Spec
INVARIANT FramingConsistent
