CONSTANTS
  Callers = {t1, t2}
  MAX_TOKENS = 6
  MIN_VIABLE_TOKENS = 2
  MARGIN = 1
  MAX_RETRIES = 1
  MAX_CREDIT_SHORTFALL_RETRIES = 2
SPECIFICATION FairSpec
INVARIANT TypeOK
PROPERTIES CapLearns EveryCallEnds
