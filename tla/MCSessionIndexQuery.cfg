SPECIFICATION Spec
CONSTANTS
  SessionIds = {1, 2}
  Contents <- SomeContents
  Terms <- OneTerm
  Now = 17
  Window = 13
  DayLength = 2
  Params <- SomeParams
  MaxCommits = 1
  Nil = Nil
  Malformed = Malformed
  Drafts <- SomeDrafts
  SearchMaxLength = 3
  Texts <- AllTexts
INVARIANTS
  PageListsAreExact
  ListedSessionsMatched
  SteadySessionsKeepTheirPlaces
