SPECIFICATION Spec
CONSTANTS
  Ids = {i1}
  Callers = {c1, c2, c3}
  MaxOps = 6
  NoRow = NoRow
  GoTime = GoTime
SYMMETRY Interchangeable
INVARIANTS NoLostUpdate EventsFollowIncident NoFalseConflict
CHECK_DEADLOCK FALSE
