\* Two sinks and quota for hardly more than one; a limit that changes over a restart, one failing
\* file operation and one crash anywhere.
CONSTANTS
    Refs = {"r1", "r2"}
    Streams = {"stdout"}
    Inline = 1
    MaxStored = 2
    ByteLimits = {2, 4}
    MaxEntries = 2
    Chunks = {2}
    MaxAppends = 1
    MaxFailures = 1
    MaxCrashes = 1
SPECIFICATION FairSpec
INVARIANTS
    RetentionBounded
    OutputKept
PROPERTIES
    EvictsOnlyWhatMustGo
    Reclaimed
