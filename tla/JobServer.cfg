CONSTANTS
    pool_size = 2
    MaxJobs = 3
    Greedy = {2}
    worker_max_time = TRUE
    Faults = {"launch"}
    None = None
SPECIFICATION FairSpec
INVARIANTS HonestVerdicts
PROPERTIES ImplementsJobQueue EveryJobTold
CHECK_DEADLOCK FALSE
