SPECIFICATION Spec
CONSTANTS
  Clients = {c1}
  c1 = c1
  c2 = c2
  Ids = {i1, i2}
  i1 = i1
  i2 = i2
  Kinds <- AllKinds
  MaxOps = 5
  MaxYear = 2
  NoIncident = NoIncident
  NoRequest = NoRequest
  NoResponder = NoResponder
  Responders = {r1}
  r1 = r1
  FirstYear = 1
SYMMETRY Interchangeable
INVARIANT HumanIDsUnique
PROPERTY ImplementsLedger
CHECK_DEADLOCK FALSE
