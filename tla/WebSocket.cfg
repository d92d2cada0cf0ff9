CONSTANTS
    Parts = 2
    MaxMessages = 2
    MaxPings = 1
    None = None
SPECIFICATION FairSpec
INVARIANTS MessagesInOrder
PROPERTIES EveryMessageSent CloseCompletes
CHECK_DEADLOCK FALSE
