SPECIFICATION Spec
CONSTANTS
    t1 = t1  t2 = t2  t3 = t3
    Thread = {t1, t2, t3}
    None = None
    Quantum = {1, 2}
    Priority <- MCPriority
    Memory <- MCMemory
    LastArrival = 1
    MaxUsed = 3
    MaxIo = 2
    MaxClock = 16
INVARIANT NeverAgain
CHECK_DEADLOCK FALSE
