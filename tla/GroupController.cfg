\* Three machines, two slots, one lost reply and one cancel at any point.  Nothing is
\* left to do once the handle is evicted, so a behaviour may end.
CONSTANTS
    N = 3
    Concurrency = 2
    MaxFailures = 1
    MaxCancels = 1
SPECIFICATION GroupFairSpec
INVARIANTS
    StartsBounded
    ReportsAreTrue
PROPERTIES
    GroupSettles
CHECK_DEADLOCK FALSE
