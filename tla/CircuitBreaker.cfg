CONSTANTS
  Callers = {c1, c2, c3}
  CIRCUIT_FAILURE_THRESHOLD = 3
  CIRCUIT_HALF_OPEN_AFTER = 5
SPECIFICATION FairSpec
INVARIANT OpenIffFailedInARow
PROPERTIES LoneProbesAreSpaced RouteFollowsHealth
