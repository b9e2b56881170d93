CONSTANTS
  u1 = u1
  Runs = {u1, u2, u3}
  MAX_RETRIES = 2
  MaxCalls <- MCMaxCalls
  MaxTokens = 1
SPECIFICATION Spec
CHECK_DEADLOCK FALSE
INVARIANT UsageIsAttributed
PROPERTIES EveryChatEnds
