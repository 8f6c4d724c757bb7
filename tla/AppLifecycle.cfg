CONSTANTS
  MaxVisits = 3
  MaxLaunches = 2
SPECIFICATION Spec
INVARIANTS
  TypeOK
  CacheTruth
  NoStaleSkip
  OneRowEach
PROPERTIES
  PassSpansBackground
