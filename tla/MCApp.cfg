SPECIFICATION FairAppSpec
CONSTANTS
  r1 = r1  r2 = r2  r3 = r3  i1 = i1  i2 = i2  a = a  b = b  x = x
  Requests = {r1, r2}
  SessionIds = {i1, i2}
  RawIncluded = {FALSE, TRUE}
  DoubleMount = TRUE
  None = None
  NoText = NoText
  Entries <- TwoSessions
  WithIssues = {i1}
  WithActivity = {i1, i2}
  Segments = {a, b, x}
  Root = Root
  Lists <- SomeLists
  Listings <- SomeListings
  Sayings <- SmallEntries
  NoTab = NoTab
  NoCwd = NoCwd
INVARIANTS
  AppTypeOK
  DetailIsOfItsSession
  LoadingIsAwaited
  TabsTellDirectoriesApart
  EverythingSaidIsInReach
PROPERTIES
  TheChosenTabStays
  OnlyTheReaderOpens
  DetailIsShown
  RawLoadingEnds
