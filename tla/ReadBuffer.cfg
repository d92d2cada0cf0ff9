CONSTANTS
    Size = 3
    MaxBytes = 7
SPECIFICATION BufferSpec
INVARIANTS StreamKept
PROPERTIES ImplementsByteQueue
CHECK_DEADLOCK FALSE
