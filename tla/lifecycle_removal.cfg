SPECIFICATION FairSpec
CONSTANTS
    a = a
    b = b
    t1 = t1
    t2 = t2
    Clients <- MCTwoClients
    Specs <- MCSpecsTwo
    Tasks <- MCTasks
    MaxRetries = 1
    StepErrors = {"error"}
    MaxEdits = 0
    MaxTouches = 0
    MaxDeletes = 1
    MaxStepFaults = 1
    MaxApiFaults = 0
    MaxCrashes = 1
    MaxRelists = 0
CHECK_DEADLOCK FALSE
INVARIANTS
    NoCleanupBeforeFirstOutcome
    RecordedResourcesRemoved
PROPERTIES
    EventuallySettled
