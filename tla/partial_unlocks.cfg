SPECIFICATION RuntimeSpec
CONSTANTS
  Turns = {r1}
  Installs = {i1, i2}
  Absent = Absent
  Chunks = 2
  MaxServers = 2
INVARIANTS
  PartialNeverUnlocks
CHECK_DEADLOCK FALSE
