CONSTANTS
  Platforms = {"ios", "mac", "intelmac", "linux", "x86"}
  Readers = {r1, r2}
  Calls = 2
SPECIFICATION Spec
INVARIANTS
  TypeOK
  MainNeverFaults
  NoCallDuringWrite
  NothingLeft
  PassMeansRan
  CheckAgrees
CHECK_DEADLOCK FALSE
