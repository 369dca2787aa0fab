\* Two runs with one output frame each, aborts, timers and close() at any point, and two
\* things that go wrong outside.  Once all runs are answered nothing need happen.
CONSTANTS
    Runs = {r1, r2}
    NoRun = NoRun
    MaxTroubles = 2
    MaxOutput = 1
SPECIFICATION FairSpec
INVARIANTS
    OneProcess
    RunsAreApart

    
CHECK_DEADLOCK FALSE
