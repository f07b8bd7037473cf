SPECIFICATION Spec
CONSTANTS
  b1 = b1
  b2 = b2
  r1 = r1
  r2 = r2
  r3 = r3
  Board <- MCBoard
  ReportBoard <- MCReportBoard
  CardWide = CardWide
  Request <- MCRequest
  Seconds <- MCSeconds
  Unmoved = "paused"
  MaxInstant = 3
  MaxEvents = 3
  MaxReports = 2
  Midnight <- MCMidnight
  WorkingDates <- MCWorkingDates
  Start = 0
  End = 1
INVARIANT HistoriesAreLines
INVARIANT BoardsAgreeWithTheCard
INVARIANT ClockReadsTheLog
INVARIANT BusinessTimeIsTimeAtWork
CHECK_DEADLOCK FALSE
