SPECIFICATION Spec
CONSTANTS
  j1 = j1  j2 = j2
  m1 = m1  m2 = m2  m3 = m3  m4 = m4
  NoJob = NoJob  NoMsg = NoMsg
  Jobs = {j1, j2}
  Msgs = {m1, m2, m3}
  Handlers = {h1, h2}
  JobOf <- TwoJobs
  Missing = {j2}
  Valid = {j1}
  Concurrency = 2
  BatchSize = 2
  MaxFaults = 2
  MaxStops = 2
SYMMETRY HandlerSymmetry
INVARIANTS TypeOK ClaimExclusive AnnouncedOnce StatusAgrees UnclaimedKeepsMessage ClaimedNotForgotten StoppedIsQuiet
PROPERTY LifecycleSpec
CHECK_DEADLOCK FALSE
CONSTRAINT TwoTroubles
