CONSTANTS
  Runs = {r1}
  Readers = {loop, c1}
  Loop = loop
  Nobody = nobody
  Streams = {s1, s2}
  Det <- MCDet
  Agent <- MCAgent
  MaxFaults = 1
  MaxCrashes = 1
SPECIFICATION FairStreamSpec
INVARIANTS InOrderExactlyOnce CompletedMeansAll
PROPERTY StreamEnds
