SPECIFICATION Spec
CONSTANTS
  b1 = b1
  b2 = b2
  todo = todo
  done = done
  inbox = inbox
  r1 = r1
  r2 = r2
  r3 = r3
  r4 = r4
  Card = {k1, k2, k3}
  Board <- MCBoard
  Column <- MCColumn
  BoardOf <- MCBoardOf
  WipLimit <- MCWipLimit
  AutoStatus <- MCAutoStatus
  Request <- MCRequest
  MaxInFlight = 2
  Fallible <- MCFallible
  Unlimited = Unlimited
  NoStatus = NoStatus
  NoColumn = NoColumn
  NoBoard = NoBoard
  NoCard = NoCard
INVARIANT NoOrphanItems
INVARIANT WipOvershootBounded
INVARIANT LogReplaysPlacement
INVARIANT StatusFollowsArrivals
