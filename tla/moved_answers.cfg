SPECIFICATION InterviewSpec
CONSTANTS
  drums = drums
  rockets = rockets
  flammable = flammable
  explosive = explosive
  None = None
  Rejected = Rejected
  Articles = {drums, rockets}
  Candidates <- MCCandidates
  Vague = {drums}
  Explosive = {explosive}
  Profiles = {"IATA_DGR"}
  MaxId = 2
  MaxBack = 1
  MaxCalls = 2
CONSTRAINT FewGoods
INVARIANT FactsStayWithGoods
CHECK_DEADLOCK FALSE
