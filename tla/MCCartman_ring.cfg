SPECIFICATION FairSpec
CONSTANTS
    c1 = c1  c2 = c2  c3 = c3  c4 = c4  c5 = c5  c6 = c6  None = None
    Cart = {c1, c2, c3, c4, c5, c6}
    NumJunctions = 5
    entry <- MCEntry
PROPERTIES EveryCartCrosses
CHECK_DEADLOCK FALSE
