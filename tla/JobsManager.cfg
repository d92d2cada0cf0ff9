CONSTANTS
    max_jobs = 1
    max_job_time = 1
    ForkTimeout = 1
    Retention = 0
    None = None
    MaxStarted = 3
    Faults = {"spawn"}
SPECIFICATION FairSpec
INVARIANTS Accounts
PROPERTIES ImplementsJobQueue EveryJobFinishes ShutdownCompletes
CHECK_DEADLOCK FALSE
