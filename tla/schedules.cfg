SPECIFICATION Spec
CONSTANTS
  s1 = s1
  team = team
  p1 = p1
  p2 = p2
  p3 = p3
  e1 = e1
  e2 = e2
  People = {p1, p2, p3}
  Nobody = Nobody
  Day = 2
  MaxDuration = 31
  Ids = {s1}
  Names = {s1, team}
  Second = 2
  Omitted = Omitted
  Editors = {e1, e2}
  Drafts <- SomeDrafts
  Instants <- Times
  MaxNow = 2
  MaxCalls = 3
  NoSchedule = NoSchedule
SYMMETRY Interchangeable
INVARIANTS HandOffKept EveryoneTakesTurns ActiveMeansOnCall RoundTrip
PROPERTY UpdatedNeverGoesBack
CHECK_DEADLOCK FALSE
