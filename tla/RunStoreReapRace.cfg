CONSTANTS
  r1 = r1
  r2 = r2
  Runs = {r1}
  Readers = {c1}
  Det <- MCDet
  Agent <- MCAgent
  MaxFaults = 0
  MaxCrashes = 0
SPECIFICATION Spec
PROPERTY CompletedIsFinal
