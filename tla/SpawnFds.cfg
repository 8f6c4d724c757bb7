CONSTANTS
  LastFd = 5
  HostLimit = 3
  HelperLimit = 5
  TableSizes = {5, 8}
SPECIFICATION Spec
INVARIANTS
  TypeOK
  ChildSeesItsFiles
  HelperTakesNumbers
CHECK_DEADLOCK FALSE
