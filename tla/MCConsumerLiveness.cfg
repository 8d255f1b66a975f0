SPECIFICATION FairSpec
CONSTANTS
  j1 = j1  j2 = j2
  m1 = m1  m2 = m2  m3 = m3  m4 = m4
  NoJob = NoJob  NoMsg = NoMsg
  Jobs = {j1, j2}
  Msgs = {m1, m3, m4}
  Handlers = {h1, h2}
  JobOf <- Mixed
  Missing = {}
  Valid = {j1}
  Concurrency = 1
  BatchSize = 2
  MaxFaults = 1
  MaxStops = 1
INVARIANT SemaphoreCounts
PROPERTY EveryJobSettles
CHECK_DEADLOCK FALSE
