CONSTANTS
    b1 = b1
    b2 = b2
    w1 = w1
    Books = {b1, b2}
    Workers = {w1}
    None = None
    MaxVersion <- Changes
    Faults = {"mark", "fetch", "convert", "write", "clear", "crash"}
SPECIFICATION FairSpec
INVARIANTS StaleIsMarked MarksPersist JobIsCurrent
PROPERTIES EventuallyBackedUp
