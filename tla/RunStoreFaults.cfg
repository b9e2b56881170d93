CONSTANTS
  r1 = r1
  r2 = r2
  Runs = {r1, r2}
  Readers = {c1}
  Det <- MCDet
  Agent <- MCAgent
  MaxFaults = 1
  MaxCrashes = 1
SPECIFICATION FairSpec
INVARIANTS AuditedBeforePublished ProgressFollowsEvents CrashesTearNothing
PROPERTIES HistoryIsDurable ImplementsBothViews Settles
