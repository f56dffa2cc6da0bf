SPECIFICATION Spec
CONSTANTS
  r1 = r1  r2 = r2  r3 = r3  w0 = w0  w1 = w1  t1 = t1
  Requests = {r1, r2}
  Ranges = {w0, w1}
  Terms = {NoTerm}
  NoTerm = NoTerm
  LastDay = 1
  DefaultRange <- MovingRange
  MaxVersion = 1
  DoubleMount = FALSE
  None = None
SYMMETRY Symmetry
INVARIANTS
  ShownListMatchesCriteria
  SnapshotsHoldTheirOwnList
  LoadingAwaitsAnAnswer
PROPERTIES
  ListsNeverGetOlder
  ImplementsListViewer
