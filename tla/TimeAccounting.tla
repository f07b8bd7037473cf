--------------------------- MODULE TimeAccounting ---------------------------
(***************************************************************************)
(* What a card's events say about its time (internal/timeaccounting).      *)
(*                                                                         *)
(* Nothing is stored: Compute walks the events of one timeline and adds up *)
(* the stretches between them, once by the wall clock and once inside the  *)
(* working hours of the board.  An event is a record of a log, and a       *)
(* timeline is a set of places in it, in the order the log was recorded.   *)
(*                                                                         *)
(* Instants are natural numbers.  A calendar says at which instant each    *)
(* date begins in the board's zone; a day on which the clocks change is    *)
(* shorter or longer than the others.  Notes and the rung of the priority  *)
(* ladder are carried through unchanged and are left out.                  *)
(***************************************************************************)
EXTENDS Integers, FiniteSetsExt

CONSTANTS
  Midnight,      \* the instant at which each date begins
  WorkingDates,  \* the dates of the working week that are no holidays
  Start, End     \* the working hours, after midnight

ASSUME CalendarAssumption ==
  /\ Start \in Nat /\ End \in Nat /\ Start < End
  /\ Midnight \in [DOMAIN Midnight -> Nat] /\ WorkingDates \subseteq DOMAIN Midnight
  /\ IsFiniteSet(WorkingDates)

NoTime == [elapsed |-> 0, budget |-> 0, waiting |-> 0, business |-> 0, businessBudget |-> 0]

-----------------------------------------------------------------------------
(* The walk *)

\* By the time an event happened, then by the time it was heard of.
Before(log, i, j) == log[i].at < log[j].at \/ (log[i].at = log[j].at /\ i < j)

Later(log, T, i) == {j \in T : Before(log, i, j)}

\* The last of a timeline.
Latest(log, T) == CHOOSE i \in T : Later(log, T, i) = {}

MutSegmentEnd(log, T, i, now) ==
  IF Later(log, T, i) # {} THEN Min({log[j].at : j \in Later(log, T, i)})
  ELSE Max({now, log[i].at})

\* A segment ends where the next one begins.  After the last event it is still
\* running, unless that event stopped the card.
SegmentEnd(log, T, i, now) ==
  IF Later(log, T, i) # {} THEN Min({log[j].at : j \in Later(log, T, i)})
  ELSE IF log[i].state = "stopped" THEN log[i].at
  ELSE Max({now, log[i].at})

MutWindow(from, to, date) ==
  Max({0, Min({to, Midnight[date] + End}) - Max({from - 1, Midnight[date] + Start})})

\* What of from .. to falls inside the working hours of a date, which are
\* counted from its midnight.
Window(from, to, date) ==
  Max({0, Min({to, Midnight[date] + End}) - Max({from, Midnight[date] + Start})})

\* The working dates that are walked: from the one on which from falls.
Walked(from) ==
  {date \in WorkingDates :
     \A d \in DOMAIN Midnight : Midnight[d] <= from => Midnight[d] <= Midnight[date]}

BusinessSecondsBetween(from, to) ==
  MapThenSumSet(LAMBDA date : Window(from, to, date), Walked(from))

Compute(log, T, now) ==
  LET seconds(i) == SegmentEnd(log, T, i, now) - log[i].at
      business(i) == BusinessSecondsBetween(log[i].at, SegmentEnd(log, T, i, now))
      in(state) == {i \in T : log[i].state = state}
  IN  IF T = {} THEN NoTime
      ELSE [elapsed        |-> MapThenSumSet(seconds, T),
            budget         |-> MapThenSumSet(seconds, in("running")),
            waiting        |-> MapThenSumSet(seconds, in("paused")),
            business       |-> MapThenSumSet(business, T),
            businessBudget |-> MapThenSumSet(business, in("running"))]

-----------------------------------------------------------------------------
(* Time logged by hand *)

\* SupersededByEventID: what the events of a timeline have replaced.
Superseded(log, T) == {log[i].supersedes : i \in T}

\* The entries that count: nothing on the timeline replaced them.
ActiveEntries(log, T) == {i \in T : log[i].kind = "time_logged"} \ Superseded(log, T)

LoggedSeconds(log, T) == MapThenSumSet(LAMBDA i : log[i].seconds, ActiveEntries(log, T))
=============================================================================
