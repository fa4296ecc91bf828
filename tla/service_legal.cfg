SPECIFICATION Spec
CONSTANTS
  Clients = {c1, c2}
  c1 = c1
  c2 = c2
  Ids = {i1}
  i1 = i1
  i2 = i2
  Kinds <- StatusAndEvent
  MaxOps = 4
  MaxYear = 1
  NoIncident = NoIncident
  NoRequest = NoRequest
  NoResponder = NoResponder
  Responders = {r1}
  r1 = r1
  FirstYear = 1
PROPERTY LegalTransitions
CHECK_DEADLOCK FALSE
