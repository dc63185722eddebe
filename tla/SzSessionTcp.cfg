\* Two TCP connections, each with its own NetContext, running at once.
CONSTANTS
    w1 = w1  w2 = w2  w3 = w3  c1 = c1  c2 = c2  c3 = c3
    k1 = k1  k2 = k2  n1 = n1
    Workers <- MCWorkers2
    Ctxs <- MCCtxsTcp
    CtxOf <- MCCtxOfTcp
    Requests <- MCRequestsTcp
    Keys = {k1, k2}
    Nonces = {n1}
    SeqBits = 3
    HandlerPlans <- MCPlans
    Overlap = TRUE
SPECIFICATION Spec
INVARIANT TypeOK
INVARIANT SeqUnique
INVARIANT ResponseBoundToRequest
INVARIANT FramingConsistent
