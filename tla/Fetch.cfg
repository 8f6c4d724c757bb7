CONSTANTS
  Commits = {"c1", "c2"}
  MaxEdits = 2
SPECIFICATION Spec
INVARIANTS
  TypeOK
  RowsVouch
  PreparedIsLocked
