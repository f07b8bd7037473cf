SPECIFICATION Spec
CONSTANTS
  b1 = b1
  b2 = b2
  todo = todo
  doing = doing
  t1 = t1
  t2 = t2
  e1 = e1
  x1 = x1
  x2 = x2
  Board <- OneBoard
  Column <- MCColumn
  Trigger <- OneTrigger
  Event <- OneEvent
  Editor <- TwoEditors
  Rule <- OneWideRule
  Configured = {TRUE}
  MaxStops = 0
  Nowhere = Nowhere
  AnyColumn = AnyColumn
  NoBoard = NoBoard
  NoTrigger = NoTrigger
PROPERTY OffStaysOff
CHECK_DEADLOCK FALSE
