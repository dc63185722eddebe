\* One UDP peer: three datagrams share the peer's NetContext, handled one
\* after another (the client waits for each answer, no duplicate overtakes).
CONSTANTS
    w1 = w1  w2 = w2  w3 = w3  c1 = c1  c2 = c2  c3 = c3
    k1 = k1  k2 = k2  n1 = n1
    Workers <- MCWorkers3
    Ctxs <- MCCtxsUdp
    CtxOf <- MCCtxOfUdp
    Requests <- MCRequestsUdp
    Keys = {k1, k2}
    Nonces = {n1}
    SeqBits = 2
    HandlerPlans <- MCPlansUdp
    Overlap = FALSE
SPECIFICATION Spec
INVARIANT ResponseBoundToRequest
INVARIANT NoConsecutiveDuplicate
