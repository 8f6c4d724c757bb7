CONSTANTS
  Commits = {"c1"}
  MaxEdits = 0
SPECIFICATION Spec
INVARIANTS
  FetchedTreesWhole
