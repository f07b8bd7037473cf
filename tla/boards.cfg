\* Boards, columns, grants and the rows of a card: three requests, two open at once, one of
\* which may fail.
SPECIFICATION Spec
CONSTANTS
  c1 = c1
  c2 = c2
  k1 = k1
  p1 = p1
  r1 = r1
  r2 = r2
  r3 = r3
  Board <- MCBoard
  Column = {c1, c2}
  Card = {k1}
  Principal = {p1}
  State <- MCStates
  MaxPosition = 4
  MaxClock = 2
  Start <- MCStart
  ColumnPatch <- MCPatch
  Order <- MCOrder
  Op <- MCOp
  Request = {r1, r2, r3}
  MaxOpen = 2
  Fallible = {r2}
  Service = Service
  Keep = Keep
  None = None
INVARIANT CreationIsWhole
INVARIANT NothingOutlivesItsBoard
INVARIANT SavedFieldsStay
INVARIANT SharedStateIsTheLastMove
INVARIANT CardLevelIsTheRule
