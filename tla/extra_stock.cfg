SPECIFICATION Spec
CONSTANTS
  s1 = s1
  s2 = s2
  d1 = d1
  d2 = d2
  d3 = d3
  l1 = l1
  l2 = l2
  a1 = a1
  a2 = a2
  None = None
  Shipments = {s1}
  Deliveries = {d1, d2}
  Legs = {l1}
  Allocs = {a1}
  Revisions = {1}
  Stock <- ExecutionStock
  Dangerous = {}
  Plans = {"road", "sketch"}
  Placed = {"road", "sketch"}
  Assigned = {"road"}
  Manual = {}
  Cleared = {"road", "sketch"}
  Fresh = {d1}
  Box <- NoBox
  Equipment <- NoEquipment
  Before = {}
  Unscheduled <- MCUnscheduled
  Payloads <- ExecutionPayloads
  Lines <- FollowupLines
  MaxQuantity = 2
  MaxEvents = 4
INVARIANTS
  NoExtraStock
