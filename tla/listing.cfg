SPECIFICATION Spec
CONSTANTS
  Ids = {i1, i2, i3}
  i1 = i1
  i2 = i2
  i3 = i3
  Status <- SomeStatus
  Rank <- Priority
  Requests <- SomeRequests
  Stamps = {1, 2, 3}
SYMMETRY Interchangeable
INVARIANTS PagesMissNothing QuietWalkExact
CHECK_DEADLOCK FALSE
