SPECIFICATION FairSpec
CONSTANTS
    a1 = a1
    r1 = r1
    g1 = g1
    Null = Null
    Adds = {a1}
    Removes = {r1}
    Globals = {g1}
    MaxCallers = 3
    MaxWrites = 1
    MaxFaults = 2
    MaxCrashes = 1
CHECK_DEADLOCK FALSE
INVARIANTS
    ResolvedMeansWritten
    NoLostUpdate
PROPERTIES
    EventuallyWritten
