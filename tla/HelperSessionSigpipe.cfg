CONSTANTS
  Paths = {"graft"}
  MaxSessions = 1
SPECIFICATION Spec
INVARIANTS
  HostSurvives
CHECK_DEADLOCK FALSE
