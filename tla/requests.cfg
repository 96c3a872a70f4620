SPECIFICATION OfficeSpec
CONSTANTS
  Pages = {p1, p2}
  Notes = {n1, n2}
  Ordered = 2
  Typed = {1}
  MaxRequests = 2
  MaxVersion = 3
  Sessions = {p1, p2}
  Contents = {n1, n2, unrouted}
  Routed = {n1, n2}
  Missing = Missing
  MaxReviews = 2
  MaxRows = 2
  drums = drums
  rockets = rockets
  flammable = flammable
  explosive = explosive
  None = None
  Rejected = Rejected
  Articles = {drums, rockets}
  Candidates <- MCCandidates
  Vague = {drums}
  Explosive = {explosive}
  Profiles = {"ADR", "IATA_DGR"}
  MaxId = 2
  MaxBack = 1
  MaxCalls = 2
SYMMETRY Alike
CONSTRAINT FewUnderWay
CONSTRAINT FewReviews
CONSTRAINT FewGoods
INVARIANTS
  RecordedOnce
  AnswersAreTrue
  KeptAsReleased
  AnswersBelong
  ReadyIsComplete
PROPERTIES
  DecisionFinal
  KeptOnce
  LateAnswersDropped
CHECK_DEADLOCK FALSE
