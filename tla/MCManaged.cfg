\* Two machines, four revisions, a failure, a crash and a damaged revision anywhere; three keys of
\* two materials, two failures and a crash; three processes after one lease, of which one dies.
\* The identifiers run out and every process ends, so a behaviour may stop.
CONSTANTS
    Targets = {t1, t2}
    Metas = {m1, m2}
    MaxId = 4
    MaxFailures = 1
    MaxCrashes = 1
    MaxDamage = 1
    MaxKeys = 3
    Materials = {"a", "b"}
    Labels = {1, 2, 3}
    KeyFailures = 2
    KeyCrashes = 1
    Procs = {"p", "q", "r"}
    MaxAttempts = 4
    MaxDeaths = 1
SYMMETRY Symmetry
SPECIFICATION AllSpec
INVARIANTS
    
    VaultKept
    

    
CHECK_DEADLOCK FALSE
