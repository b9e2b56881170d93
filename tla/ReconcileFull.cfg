CONSTANTS
  A = A
  B = B
  C = C
  u1 = u1
  u2 = u2
  u3 = u3
  u4 = u4
  u5 = u5
  u6 = u6
  u7 = u7
  u8 = u8
  Nobody = nobody
  Batches <- AllBatches
  ExtraCharges = {500, 4000}
  Lags = {1, 3}
  Invented = {invented}
  AgentTypes = {"NO_CANDIDATE_FOUND"}
SPECIFICATION FairSpec
CHECK_DEADLOCK FALSE
INVARIANTS DisjointClaims Accounted NoRivalExplanation UnreviewedIsExact AgentMatchesArePlausible ScoreIsSound
PROPERTIES DemoSample ImplementsAllocation Terminates
