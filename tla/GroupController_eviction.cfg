\* One machine, one cancel: is a handle with an unknown member ever evicted?
CONSTANTS
    N = 1
    Concurrency = 1
    MaxFailures = 1
    MaxCancels = 1
SPECIFICATION GroupSpec
PROPERTIES
    OnlyFinishedEvicted
CHECK_DEADLOCK FALSE
