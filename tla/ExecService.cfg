\* Two requests over two sessions that may use the same request ID, one reload, and the
\* shutdown at any point.
CONSTANTS
    Exec = {1, 2}
    Sessions = {s1, s2}
    RequestIds = {1}
    NoExec = NoExec
    MaxActive = 2
    MaxGeneration = 1
SPECIFICATION FairSpec
INVARIANTS
    GivenBack
    ResultIsAudited
    RunsAreSupported
PROPERTIES
    EverythingEnds
