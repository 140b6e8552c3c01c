SPECIFICATION FairSpec
CONSTANT NumParagraphs = 4
INVARIANT InOrder
PROPERTY PageShown
CHECK_DEADLOCK FALSE
