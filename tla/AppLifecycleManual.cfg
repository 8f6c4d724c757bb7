CONSTANTS
  MaxVisits = 1
  MaxLaunches = 1
SPECIFICATION Spec
INVARIANTS
  ManualRerunAnswers
CHECK_DEADLOCK FALSE
