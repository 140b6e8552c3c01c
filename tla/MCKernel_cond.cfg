SPECIFICATION Spec
CONSTANTS
    s1 = s1  irq = irq  tidLock = tidLock  l1 = l1  c1 = c1  nil = nil
    main = main  idle = idle  t1 = t1  t2 = t2
    Thread = {main, idle, t1, t2}
    Main = main
    Idle = idle
    PriMin = 0
    PriMax = 1
    PriDefault = 1
    TimeSlice = 1
    Sem = {}
    IrqSem = {}
    Lock = {tidLock, l1}
    TidLock = tidLock
    Cond = {c1}
    LockOf <- MCLockOf
    Semas <- MCSemas
    Nil = nil
    Garbage <- MCGarbage
    MaxValue = 2
SYMMETRY Symmetry
INVARIANTS
    MutualExclusion NoLostSignal
PROPERTIES MonitorRefined SignalsHighestAsleep
CHECK_DEADLOCK FALSE
