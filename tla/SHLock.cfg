CONSTANTS
    t1 = t1
    t2 = t2
    t3 = t3
    Threads = {t1, t2, t3}
    NoThread = NoThread
    MaxHold = 2
SPECIFICATION FairSpec
INVARIANTS MutualExclusion BooksBalance NoLostWakeup WaitersArePrivate
PROPERTIES NoBarging NoStarvation ImplementsReadersWriters
