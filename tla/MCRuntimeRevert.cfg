CONSTANTS
  c1 = c1
  c2 = c2
  Commits = {c1, c2}
  Patches = {"none", "p"}
  Inputs <- MCInputs
  MaxEdits = 2
  Reverts = TRUE
  Nothing = Nothing
  Partial = Partial
SPECIFICATION Spec
INVARIANT CompletedIsCurrent
