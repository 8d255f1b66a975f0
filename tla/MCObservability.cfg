SPECIFICATION Spec
CONSTANTS
  h1 = h1  h2 = h2
  Handlers = {h1, h2}
  NoLine = NoLine
  Types = {"normal"}
  MaxFile = 2
  MaxTotal = 4
  MaxLine = 3
  MaxMessages = 2
  MaxAge = 0
  MaxDay = 1
  MaxFailures = 2
  MaxCrashes = 1
INVARIANTS InFlightCounts FailureCostIsBounded SpaceBounded
PROPERTY LogSpec
SYMMETRY HandlerSymmetry
CONSTRAINT FewTroubles
CHECK_DEADLOCK FALSE
