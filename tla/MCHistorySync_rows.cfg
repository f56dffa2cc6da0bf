SPECIFICATION Spec
CONSTANTS
  r1 = r1  r2 = r2  r3 = r3
  i1 = i1  i2 = i2  d1 = d1
  Requests = {r1, r2}
  Sources = {1, 2}
  LegacySources = {2}
  SessionIds = {i1, i2}
  OwnId <- OneIdEach
  DeclaredId <- SameId
  Cwds = {d1}
  NoCwd = NoCwd
  Sizes = {1}
  Healths = {"complete", "events_missing", "events_damaged", "metadata_damaged"}
  TicksPerSecond = 2
  MaxTime = 4
  UpgradedIds = {i1}
  Failures = {}
SYMMETRY Symmetry
INVARIANTS
  CountsAccountForEverySource
PROPERTIES
  SyncedRowsAreProjected
  StaleRowsAreExplained
\* Every request has been answered and the clock has run out: the model stops.
CHECK_DEADLOCK FALSE
