SPECIFICATION Spec
CONSTANTS
  scan = scan  p1 = p1  p2 = p2  mine = mine  yours = yours
  None = None
  Jobs = {scan, p1, p2}
  FullScans = {scan}
  Merges = {p1}
  Clones = {mine, yours}
  PushOf <- Pushes
  Layouts <- OneOrTwo
  MaxCommit = 4
  MaxErrors = 2
INVARIANTS ReportsInv KBSound
CHECK_DEADLOCK FALSE
