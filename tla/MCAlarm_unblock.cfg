SPECIFICATION Spec
CONSTANTS
    main = main  idle = idle  t1 = t1  t2 = t2  s1 = s1  s2 = s2  NULL = NULL
    Thread = {main, idle, t1}
    Elem = {main, idle, t1}
    Main = main
    Idle = idle
    Fresh = {}
    Sema = {s1}
    Signal = {}
    ListName <- MCListName
    SleepTicks <- MCSleepTicks
    TIME_SLICE = 2
    Nothing = Nothing
INVARIANT UnblocksBlocked
CHECK_DEADLOCK FALSE
