SPECIFICATION Spec
CONSTANTS
  Containers = {c1, c2, c3}
  Original = c1
  Helpers = {h1, h2}
  None = None
  Faults = {"lost"}
  MaxFaults = 1
INVARIANTS
  FailureLeavesWorking
CHECK_DEADLOCK FALSE
