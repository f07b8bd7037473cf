--------------------------- MODULE MCTimeEntries ---------------------------
(* Two boards and the card as a whole, three entries of which each may correct *)
(* another, two reported events, and days of which the second is short.       *)
EXTENDS TimeEntries

CONSTANTS b1, b2, r1, r2, r3

MCBoard == {b1, b2}
MCReportBoard == {b1}
MCRequest == {r1, r2, r3}
MCSeconds == {0, 1}
MCMidnight == [d \in 0 .. 2 |-> <<0, 2, 3>>[d + 1]]
MCWorkingDates == {0, 2}
=============================================================================
