SPECIFICATION Spec
CONSTANTS
  b1 = b1
  b2 = b2
  todo = todo
  blocked = blocked
  done = done
  other = other
  p1 = p1
  p2 = p2
  Board <- MCOneBoard
  Column <- MCTwoColumns
  Ops <- MCAllOps
  Request = {r1, r2, r3}
  MaxInFlight = 2
  Fallible = {r2}
  BoardOf <- MCBoardOf
  Classified <- MCClassified
  Arrivals <- MCDefault
  Principal = {p1, p2}
  Unset = Unset
  NoColumn = NoColumn
  CardWide = CardWide
  Nobody = Nobody
  Skipped = Skipped
INVARIANT TypeOK
INVARIANT ClockFollowsTheActions
INVARIANT HoldIsTold
INVARIANT OneAutomaticOwner
INVARIANT LogCountsPeople
PROPERTY AssigningMovesNoClock
PROPERTY DefaultFillsBlank
