SPECIFICATION PageSpec
CONSTANTS
  r1 = r1  r2 = r2  r3 = r3  w0 = w0  w1 = w1  t1 = t1  p1 = p1  p2 = p2
  Requests = {r1, r2}
  Ranges = {w0}
  Terms = {NoTerm}
  NoTerm = NoTerm
  LastDay = 0
  DefaultRange <- OneRange
  MaxVersion = 1
  DoubleMount = TRUE
  None = None
  Posts = {p1, p2}
SYMMETRY Symmetry
INVARIANTS
  PageTypeOK
  SyncedListsAreFresh
  OneSyncPerPage
