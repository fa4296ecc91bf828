SPECIFICATION DetectorSpec
CONSTANTS
  Processors = {p1}
  RuleTypes <- MCRuleTypesWithRate
  Items <- MCItems
  MaxRulesPerSignal = 1
  Cooldown = 2
  AutoCreateIncidents = TRUE
PROPERTY ProcessReturns
CHECK_DEADLOCK FALSE
