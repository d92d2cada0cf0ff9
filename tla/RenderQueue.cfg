CONSTANTS
    max_jobs = 1
    max_job_time = 1
    ForkTimeout = 1
    Retention = 0
    None = None
    MaxStarted = 2
    Faults = {}
    b1 = b1
    b2 = b2
    h1 = h1
    h2 = h2
    Books = {b1, b2}
    Handlers = {h1, h2}
SPECIFICATION RSpec
SYMMETRY RenderSymmetry
INVARIANTS OneJobPerBook QueuedIsOpen
CHECK_DEADLOCK FALSE
