SPECIFICATION FairSpec
CONSTANTS
    Runs = 2
INVARIANTS TypeOK LoadedFirst WaitsForExit
PROPERTIES BootEnds
CHECK_DEADLOCK FALSE
