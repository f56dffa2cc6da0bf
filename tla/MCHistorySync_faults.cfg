SPECIFICATION FairSpec
CONSTANTS
  r1 = r1  r2 = r2  r3 = r3
  i1 = i1  i2 = i2  d1 = d1
  Requests = {r1, r2}
  Sources = {1}
  LegacySources = {}
  SessionIds = {i1}
  OwnId <- OneId
  DeclaredId <- OneId
  Cwds = {}
  NoCwd = NoCwd
  Sizes = {1}
  Healths = {"complete", "events_damaged", "bad_time"}
  TicksPerSecond = 1
  MaxTime = 2
  UpgradedIds = {}
  Failures = {"root", "lookup", "create", "persist", "update", "reload", "crash"}
INVARIANTS
  TypeOK
  SyncsAreExclusive
  QuietResyncSkipsEverything
PROPERTIES
  OutcomesAreFinal
  ImplementsAtomicSync
  CallsAreAnswered
  LockIsReleased
\* Every request has been answered and the clock has run out: the model stops.
CHECK_DEADLOCK FALSE
