SPECIFICATION ReopeningSpec
CONSTANTS
  Sessions = {s1, s2}
  Contents = {c1, c2}
  Routed = {c1, c2}
  Missing = Missing
  MaxReviews = 2
  MaxRows = 1
INVARIANTS
  ReusesItsOwn
CHECK_DEADLOCK FALSE
