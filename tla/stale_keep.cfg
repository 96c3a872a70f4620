SPECIFICATION KeepingSpec
CONSTANTS
  s1 = s1
  d1 = d1
  l1 = l1
  a1 = a1
  w1 = w1
  w2 = w2
  None = None
  Shipments = {s1}
  Deliveries = {d1}
  Legs = {l1}
  Allocs = {a1}
  Revisions = {1, 2}
  Stock <- KeepingStock
  Dangerous = {}
  Plans = {"road"}
  Placed = {"road"}
  Assigned = {"road"}
  Manual = {}
  Cleared = {"road"}
  Fresh = {d1}
  Box <- KeepingBox
  Equipment <- KeepingEquipment
  Before = {}
  Unscheduled <- KeepingPlans
  Payloads <- KeepingPayloads
  Lines = {}
  MaxQuantity = 2
  MaxEvents = 0
  Writers = {w1}
INVARIANTS
  ReservedStayValid
