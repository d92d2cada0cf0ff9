CONSTANTS
    NBooks = 2
    MaxItem = 3
    Names <- TwoWords
    MaxValues = 2
    MaxRenames = 1
    Kinds = {TRUE, FALSE}
    Ascii = TRUE
    Failing = {FALSE}
    Faults = {"crash"}
    None = None
SPECIFICATION Spec
INVARIANTS MemoryIsDatabase StatementsAccepted MapsAgree ValuesAsAsked ChangesMarked AllOrNothing
