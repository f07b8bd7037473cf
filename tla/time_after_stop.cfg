SPECIFICATION Spec
CONSTANTS
  b1 = b1
  b2 = b2
  r1 = r1
  r2 = r2
  r3 = r3
  Board <- MCBoard
  ReportBoard <- MCReportBoard
  CardWide = CardWide
  Request <- MCRequest
  Seconds <- MCSeconds
  Unmoved = "paused"
  MaxInstant = 3
  MaxEvents = 3
  MaxReports = 1
  Midnight <- MCMidnight
  WorkingDates <- MCWorkingDates
  Start = 0
  End = 1
CHECK_DEADLOCK FALSE
INVARIANT ElapsedEndsAtTheStop
