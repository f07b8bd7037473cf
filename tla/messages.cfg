SPECIFICATION FairSpec
CONSTANTS
  b1 = b1
  b2 = b2
  todo = todo
  doing = doing
  t1 = t1
  t2 = t2
  e1 = e1
  x1 = x1
  x2 = x2
  Board <- TwoBoards
  Column <- MCColumn
  Trigger <- TwoTriggers
  Event <- OneEvent
  Editor <- OneEditor
  Rule <- RulesOfTwoBoards
  Configured = {TRUE, FALSE}
  MaxStops = 1
  Nowhere = Nowhere
  AnyColumn = AnyColumn
  NoBoard = NoBoard
  NoTrigger = NoTrigger
INVARIANT NothingSentUnrecorded
INVARIANT SentOnceAndTruly
INVARIANT MoveNamesItsColumn
PROPERTY MatchesAreAnswered
CHECK_DEADLOCK FALSE
