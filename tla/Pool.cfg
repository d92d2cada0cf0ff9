SPECIFICATION FairSpec
CONSTANTS
    max_workers = 2
    MaxJobs = 5
    MaxData = 2
    None = None
    Faults = {"start", "send", "crash"}
INVARIANTS
    InOnePlace
    TrackerCounts
    CommonDataReaches
PROPERTY
    CallerGetsOn
CHECK_DEADLOCK FALSE
