CONSTANTS
  Platforms = {"ios"}
  Readers = {r1, r2}
  Calls = 1
SPECIFICATION Spec
INVARIANT NobodyFaults
CHECK_DEADLOCK FALSE
