\* Two uploads of one content, nothing that fails: is the destination always whole?
CONSTANTS
    Uploads = {u1, u2}
    Contents = {a}
    Size = 2
    Isolated = FALSE
    MaxFaults = 0
SPECIFICATION Spec
INVARIANTS
    PublishedIntact
CHECK_DEADLOCK FALSE
