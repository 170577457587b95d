SPECIFICATION FairSpec
CONSTANTS
    Chunks = 1
    Changes = 2
    Saves = 1
    Faults = 1
    Splices = {"add", "drop"}
INVARIANTS SameNameSameBytes
PROPERTIES SavesChangeNothing NothingRunsTwice HalvesMeet
CHECK_DEADLOCK FALSE
