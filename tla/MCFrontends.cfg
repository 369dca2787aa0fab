\* Two requests of a page handled at a time, one preparation and one PuTTY process with a failure and a crash
\* anywhere; two connections and two requests on the pipe.  A closed pipe comes to rest.
CONSTANTS
    Slots = {"s1", "s2"}
    Kinds = {"check", "save", "prepare", "status", "cancel"}
    MaxPreps = 1
    MaxPutty = 1
    MaxFailures = 1
    MaxCrashes = 1
    Conns = {1, 2}
    Requests = {1, 2}
    MaxInflight = 2
    MaxConnections = 2
SPECIFICATION AllSpec
INVARIANTS
    OperationsExclude
    SettingNotLost
    StopsOnlyItsOwn
PROPERTIES
    SettingPutBack
    FlagsReleased
    NothingKeptInVain
CHECK_DEADLOCK FALSE
