SPECIFICATION FairSpec
CONSTANTS
    a = a
    b = b
    t1 = t1
    t2 = t2
    Clients <- MCOneClient
    Specs <- MCSpecsOne
    Tasks <- MCTasks
    MaxRetries = 1
    StepErrors = {"error", "notFound"}
    MaxEdits = 1
    MaxTouches = 1
    MaxDeletes = 0
    MaxStepFaults = 2
    MaxApiFaults = 1
    MaxCrashes = 1
    MaxRelists = 1
CHECK_DEADLOCK FALSE
INVARIANTS
    TypeOK
    ReadyIsTrue
PROPERTIES
    GenerationsInOrder EventuallySettled
