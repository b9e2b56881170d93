CONSTANTS
  r1 = r1
  r2 = r2
  Runs = {r1, r2}
  Watched = {r1}
  Length <- MCLength
  MaxPolls = 2
  MaxCount = 2
  MaxVisits = 3
  Keys = {k1, k2}
  Slots = {s1, s2}
  MaxLoads = 2
SPECIFICATION Spec
CHECK_DEADLOCK FALSE
INVARIANTS NotifiedRunsRan InOrderNotifiesOnce PageShowsItsRun StatusMatchesKey StoredKeysAreGood
PROPERTIES EndsAreNotified PageSettles
