CONSTANTS
  Paths = {"unset", "missing", "graft", "foreign"}
  MaxSessions = 2
SPECIFICATION FairSpec
INVARIANTS
  TypeOK
  PassIsEarned
  FailHasCause
  NothingLeftBehind
  KillHitsOwnChild
  Lockstep
PROPERTIES
  VerdictReached
  OrphanLeaves
  ImplementsVerdict
CHECK_DEADLOCK FALSE
