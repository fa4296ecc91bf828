SPECIFICATION Spec
CONSTANTS
  Kinds <- MCKinds
  Rules <- MCRules
  TimeWindow = 2
  MaxGroupSize = 2
  GroupTTL = 3
  EnableDeduplication = TRUE
  MaxDelay = 1
  MaxSignals = 4
  MaxTime = 6
INVARIANTS IndexSound Accounting DuplicatesFiltered GroupLimits
PROPERTY NotForgottenEarly
CHECK_DEADLOCK FALSE
