CONSTANTS
  Merchants = {m1, m2}
  Windows = {2, 7}
  Thresholds = {50, 100}
  DATE_WINDOW_DAYS = 7
  HIGH_VALUE_THRESHOLD = 100
  Unregistered = Unregistered
  Requests <- AllRequests
  MaxWrites = 2
SYMMETRY Symmetry
SPECIFICATION Spec
CHECK_DEADLOCK FALSE
INVARIANTS KnownIsNoFallback SavedWhereLoaded
PROPERTIES UneditedFieldsSurvive
