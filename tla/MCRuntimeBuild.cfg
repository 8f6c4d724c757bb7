CONSTANTS
  c1 = c1
  c2 = c2
  Commits = {c1, c2}
  Patches = {"none", "p"}
  Inputs <- MCInputs
  MaxEdits = 2
  Reverts = FALSE
  Nothing = Nothing
  Partial = Partial
SPECIFICATION Spec
INVARIANTS
  TypeOK
  CompletedIsCurrent
  TestsRanOnThisRoot
  VerifiedPatches
  FailedRetryLeavesNoPass
