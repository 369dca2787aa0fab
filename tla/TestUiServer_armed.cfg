\* One preparation, one PuTTY process and two requests: is a session that is reported as armed
\* or detected one that is being prepared?
CONSTANTS
  Slots = {"s1", "s2"}
  Kinds = {"check", "save", "prepare", "status", "cancel"}
  MaxPreps = 1
  MaxPutty = 1
  MaxFailures = 1
  MaxCrashes = 1
SPECIFICATION Spec
INVARIANTS
  ArmedMeansActive
CHECK_DEADLOCK FALSE
