SPECIFICATION Spec
CONSTANTS
  m1 = m1  m2 = m2
  Lines <- SomeLines
  MaxLines = 3
  Models = {m1, m2}
  Nil = Nil
INVARIANTS
  TypeOK
  CompleteSessionsLostNothing
  EveryLineIsReported
  SelectedModelIsTheLatestBest
  NoUtteranceIsLost
  IssuesHaveOnePlace
  EmptyReasonIsHonest
  SearchFindsSaidAndLost
\* A session that was read stays as it is: the model stops.
CHECK_DEADLOCK FALSE
