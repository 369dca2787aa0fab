\* Three tasks that write output compete for two retained slots; ended ones expire after
\* one tick.
CONSTANTS
    MaxRetained = 2
    MaxConcurrent = 2
    Ttl = 1
    MaxStarts = 3
    MaxNow = 1
    MaxChunks = 1
SPECIFICATION FairSpec
INVARIANTS
    AcceptedCancelWins
    WithinLimits
PROPERTIES
    TerminalAnswerFinal
    ShutdownDrains
    ImplementsLifecycle
