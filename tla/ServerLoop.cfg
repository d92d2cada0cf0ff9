CONSTANTS
    Fds = {1, 2}
    Threads = {w1}
    w1 = w1
    QueueSize = 1
    None = None
    MaxConns = 2
    MaxRequests = 2
    Faults = {"timeout", "sockets"}
SPECIFICATION FairSpec
INVARIANTS WaitersHaveJobs ResultsAnnounced AnswersGoHome
PROPERTIES WaitersServed StopEnds
CHECK_DEADLOCK FALSE
