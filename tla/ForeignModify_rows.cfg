SPECIFICATION Spec
CONSTANTS
  NAtts = 3
  RowId = {r1, r2}
  Value = {v1, v2}
  NULL = NULL
  Absent = Absent
  Nothing = Nothing
  BeforeRowTriggers = FALSE
INVARIANTS TypeOK BoundInOrder
PROPERTIES ImplementsRowModify
