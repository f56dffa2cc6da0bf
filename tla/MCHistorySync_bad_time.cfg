SPECIFICATION Spec
CONSTANTS
  r1 = r1  r2 = r2  r3 = r3
  i1 = i1  i2 = i2  d1 = d1
  Requests = {r1}
  Sources = {1}
  LegacySources = {}
  SessionIds = {i1}
  OwnId <- OneId
  DeclaredId <- OneId
  Cwds = {}
  NoCwd = NoCwd
  Sizes = {1}
  Healths = {"complete", "bad_time"}
  TicksPerSecond = 1
  MaxTime = 1
  UpgradedIds = {}
  Failures = {}
INVARIANTS
  EndedRunsAreRecorded
\* Every request has been answered and the clock has run out: the model stops.
CHECK_DEADLOCK FALSE
