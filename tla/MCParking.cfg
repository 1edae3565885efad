SPECIFICATION FairSpec
CONSTANTS
    Calls = {"c1", "c2"}
    Direct = {"c1"}
    Retrievers = {"r1"}
    MaxRange = 2
INVARIANTS
    TypeOK
    HeldOnce
    Reachable
PROPERTIES
    ThreadKeepsOff
    Served
CHECK_DEADLOCK FALSE
