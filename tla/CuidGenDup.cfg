\* Counter field of 2 bits (counterMax 3), device field of 1 bit, device
\* id 1; up to 8 ids, the clock runs to its limit of 8 seconds.
CONSTANTS
    CounterBits = 2
    DevBits = 1
    TimeMax = 8
    DevIds = {1}
    MaxIds = 8
SPECIFICATION Spec
CHECK_DEADLOCK FALSE
INVARIANT CuidUnique
