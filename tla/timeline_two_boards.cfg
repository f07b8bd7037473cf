SPECIFICATION Spec
CONSTANTS
  b1 = b1
  b2 = b2
  todo = todo
  blocked = blocked
  done = done
  other = other
  p1 = p1
  p2 = p2
  Board <- MCBoard
  Column <- MCColumn
  Ops <- MCAllOps
  Request = {r1, r2, r3}
  MaxInFlight = 1
  Fallible = {}
  BoardOf <- MCBoardOf
  Classified <- MCClassified
  Arrivals <- MCArrivals
  Principal = {p1, p2}
  Unset = Unset
  NoColumn = NoColumn
  CardWide = CardWide
  Nobody = Nobody
  Skipped = Skipped
PROPERTY AssigningMovesNoClock
