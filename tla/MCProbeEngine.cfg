CONSTANTS
  RegionPages = 4
  HostPages = {1, 2, 4}
  Hosts <- MCHosts
SPECIFICATION Spec
INVARIANTS
  TypeOK
  FaultsAreCaught
  PassMeansRecovered
  SignalStateGivenBack
  PageModelTruth
  NothingHeldBetweenProbes
  ErrorIsOwn
  FailureIsNamed
PROPERTIES
  RunAllCompletes
CHECK_DEADLOCK FALSE
