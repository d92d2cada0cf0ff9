CONSTANTS
    NBooks = 2
    MaxItem = 3
    Names <- TwoWords
    MaxValues = 1
    MaxRenames = 1
    Kinds = {TRUE}
    Ascii = FALSE
    Failing = {}
    Faults = {"duplicates"}
    None = None
SPECIFICATION Spec
INVARIANTS OnlyUnusedRemoved
