SPECIFICATION PlanningSpec
CONSTANTS
  s1 = s1
  s2 = s2
  d1 = d1
  d2 = d2
  d3 = d3
  l1 = l1
  l2 = l2
  a1 = a1
  a2 = a2
  None = None
  Shipments = {s1, s2}
  Deliveries = {d1, d2}
  Legs = {l1}
  Allocs = {a1, a2}
  Revisions = {1, 2}
  Stock <- PlanningStock
  Dangerous <- PlanningDangerous
  Plans <- MCPlans
  Placed <- MCPlans
  Assigned <- MCComplete
  Manual <- MCManual
  Cleared <- MCCleared
  Fresh = {d1, d2}
  Box <- NoBox
  Equipment <- NoEquipment
  Before = {}
  Unscheduled <- MCUnscheduled
  Payloads <- PlanningPayloads
  Lines = {}
  MaxQuantity = 2
  MaxEvents = 0
INVARIANTS
  SourceIntact
  NoOverallocation
  ReleaseReviewed
  UnitsTakeTurns
  BoxPassedOnEmpty
PROPERTIES
  ImplementsLedger
SYMMETRY Everyone
CONSTRAINT FewEvents
