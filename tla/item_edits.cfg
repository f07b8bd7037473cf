SPECIFICATION Spec
CONSTANTS
  k1 = k1
  k2 = k2
  b1 = b1
  b2 = b2
  t1 = t1
  t2 = t2
  high = high
  low = low
  Card = {k1, k2}
  Board = {b1, b2}
  Tag = {t1, t2}
  Rank <- MCRank
  Ladder <- MCLadder
  Amount = {1, 2, 3}
  Before <- MCBefore
  Ask <- MCAsk
  Bulk <- MCBulk
  TagChange <- MCTagChange
  Request = {r1, r2, r3}
  MaxOpen = 2
  CanFail = TRUE
  Unranked = Unranked
  None = None
  Keep = Keep
  NoCard = NoCard
  NoBoard = NoBoard
PROPERTY CeilingsFollowTheRule
PROPERTY HandSetSurvives
PROPERTY TagsOfOthersSurvive
