SPECIFICATION DetectorSpec
CONSTANTS
  Processors = {p1, p2}
  RuleTypes <- MCRuleTypes
  Items <- MCItems
  MaxRulesPerSignal = 1
  Cooldown = 2
  AutoCreateIncidents = TRUE
INVARIANT BurstBounded
PROPERTIES ProcessReturns StopReturns
