SPECIFICATION InterviewSpec
CONSTANTS
  drums = drums
  rockets = rockets
  flammable = flammable
  explosive = explosive
  None = None
  Rejected = Rejected
  Articles = {drums, rockets}
  Candidates <- MCCandidates
  Vague = {drums}
  Explosive = {explosive}
  Profiles = {"ADR", "IATA_DGR", "IMDG"}
  MaxId = 2
  MaxBack = 1
  MaxCalls = 2
CONSTRAINT FewGoods
INVARIANT RequiredAsked
CHECK_DEADLOCK FALSE
