---------------------------- MODULE TimeEntries ----------------------------
(***************************************************************************)
(* The time people log on a card, on the timeline it is read from          *)
(* (internal/api/time_entries.go, internal/model/time_entry.go, the log of *)
(* internal/db/activity.go), with the figures of TimeAccounting.           *)
(*                                                                         *)
(* The log is append-only.  A correction is an entry that names the one it *)
(* replaces, and what counts is worked out on every read, on the card and  *)
(* on each of its boards.  Beside the entries, callers report events that  *)
(* change the clock, which may have happened earlier or lie in the future: *)
(* occurred_at is not checked.                                             *)
(*                                                                         *)
(* The card stays where it is.  Which worker an entry names, and the       *)
(* checks with principal-store, are refusals like any other.  An event's   *)
(* place in the log is its id, and no two are recorded at one instant.     *)
(***************************************************************************)
EXTENDS TimeAccounting, Sequences

CONSTANTS
  Board, CardWide,
  ReportBoard,        \* the boards callers report events on
  Request,            \* requests to log time
  Seconds,            \* how much time
  Unmoved,            \* the clock state the card's column gives it without a history
  MaxInstant, MaxReports, MaxEvents \* bounds: of the clock, on reported events, on all

ClockState == {"running", "paused", "stopped"}

ASSUME EntriesAssumption ==
  /\ CardWide \notin Board /\ ReportBoard \subseteq Board /\ Seconds \subseteq Nat
  /\ Unmoved \in ClockState /\ MaxInstant \in Nat
  /\ MaxReports \in Nat /\ MaxEvents \in Nat

VARIABLES
  log,  \* card_events of the card
  now,
  req   \* createTimeEntry, for each request

vars == <<log, now, req>>

Place == Board \cup {CardWide}

Event == [kind : {"reported", "time_logged"}, board : Place, state : ClockState, at : Nat,
          seconds : Nat, supersedes : Nat]

Blank(stage) ==
  [stage |-> stage, board |-> CardWide, seconds |-> 0, supersedes |-> 0, state |-> Unmoved]

Init ==
  /\ log = <<>>
  /\ now = 0
  /\ req = [r \in Request |-> Blank("new")]

\* ListCardEvents: with no board named, everything.
Timeline(b) == {i \in DOMAIN log : b = CardWide \/ log[i].board \in {b, CardWide}}

Tick == now < MaxInstant /\ now' = now + 1 /\ UNCHANGED <<log, req>>

Reported == {i \in DOMAIN log : log[i].kind = "reported"}
Begun == {r \in Request : req[r].stage # "new"}
RoomForOne == Cardinality(Reported) + Cardinality(Begun) < MaxEvents

\* POST /api/cards/{id}/events: the state is the caller's, and one statement writes it.
RecordCardEvent(b, state, at) ==
  /\ RoomForOne /\ Cardinality(Reported) < MaxReports
  /\ log' = Append(log, [kind |-> "reported", board |-> b, state |-> state, at |-> at,
                         seconds |-> 0, supersedes |-> 0])
  /\ UNCHANGED <<now, req>>

-----------------------------------------------------------------------------
(* POST /api/cards/{id}/time-entries *)

\* A correction takes the board of the entry it replaces.
BoardOfEntry(b, i) == IF i = 0 THEN b ELSE log[i].board

\* Zero seconds only take an entry back.
Valid(seconds, i) == seconds > 0 \/ i # 0

MutCorrectAnywhere(r, b, seconds, i) ==
  /\ req[r].stage = "new" /\ r = CHOOSE q \in Request : req[q].stage = "new"
  /\ RoomForOne /\ Valid(seconds, i)
  /\ i # 0 => i \in DOMAIN log /\ log[i].kind = "time_logged"
  /\ req' = [req EXCEPT ![r] = [stage |-> "accepted",
                                board |-> IF b # CardWide THEN b ELSE BoardOfEntry(b, i),
                                seconds |-> seconds, supersedes |-> i, state |-> Unmoved]]
  /\ UNCHANGED <<log, now>>

\* A new entry, or one that replaces an entry of this card; a board that is sent
\* with it has to be that entry's.  What is looked up never changes.
\* Requests are alike: the next is any one of them.
BeginEntry(r, b, seconds, i) ==
  /\ req[r].stage = "new" /\ r = CHOOSE q \in Request : req[q].stage = "new"
  /\ RoomForOne /\ Valid(seconds, i)
  /\ i # 0 => /\ i \in DOMAIN log /\ log[i].kind = "time_logged"
              /\ b \in {CardWide, log[i].board}
  /\ req' = [req EXCEPT ![r] = [stage |-> "accepted", board |-> BoardOfEntry(b, i),
                                seconds |-> seconds, supersedes |-> i, state |-> Unmoved]]
  /\ UNCHANGED <<log, now>>

\* clockStateCarriedForward: the last event on any board, or the column.
CarryForward(r) ==
  /\ req[r].stage = "accepted"
  /\ req' = [req EXCEPT ![r].stage = "carried",
                        ![r].state = IF log = <<>> THEN Unmoved
                                     ELSE log[Latest(log, DOMAIN log)].state]
  /\ UNCHANGED <<log, now>>

MutTaken(i) == FALSE

\* The unique index on supersedes_event_id.
Taken(i) == i # 0 /\ \E j \in DOMAIN log : log[j].supersedes = i

RecordEntry(r) ==
  /\ req[r].stage = "carried" /\ ~Taken(req[r].supersedes)
  /\ log' = Append(log, [kind |-> "time_logged", board |-> req[r].board,
                         state |-> req[r].state, at |-> now, seconds |-> req[r].seconds,
                         supersedes |-> req[r].supersedes])
  /\ req' = [req EXCEPT ![r] = Blank("logged")]
  /\ UNCHANGED now

\* 409: somebody corrected that entry first.
AlreadyReplaced(r) ==
  /\ req[r].stage = "carried" /\ Taken(req[r].supersedes)
  /\ req' = [req EXCEPT ![r] = Blank("refused")]
  /\ UNCHANGED <<log, now>>

\* A check or a statement fails, and nothing is written.
Fail(r) ==
  /\ req[r].stage \in {"accepted", "carried"}
  /\ req' = [req EXCEPT ![r] = Blank("refused")]
  /\ UNCHANGED <<log, now>>

Next ==
  \/ Tick
  \/ \E b \in ReportBoard \cup {CardWide}, state \in ClockState, at \in 0 .. MaxInstant :
       RecordCardEvent(b, state, at)
  \/ \E r \in Request :
       \/ \E b \in Place, seconds \in Seconds, i \in 0 .. Len(log) : BeginEntry(r, b, seconds, i)
       \/ CarryForward(r) \/ RecordEntry(r) \/ AlreadyReplaced(r) \/ Fail(r)

Spec == Init /\ [][Next]_vars

-----------------------------------------------------------------------------
(* Properties *)

\* Every event and every request is of its shape, and only a time entry replaces
\* anything: another time entry, logged before it.
TypeOK ==
  /\ log \in Seq(Event)
  /\ now \in Nat
  /\ req \in [Request -> [stage : {"new", "accepted", "carried", "logged", "refused"},
                          board : Place, seconds : Nat, supersedes : Nat, state : ClockState]]
  /\ \A i \in DOMAIN log : log[i].supersedes # 0 =>
       /\ log[i].supersedes < i
       /\ log[i].kind = "time_logged" /\ log[log[i].supersedes].kind = "time_logged"

\* However many correct one entry at once, its history is a line: one entry
\* replaced it at most, and of each entry somebody logged exactly one version
\* counts, on the card and on every board (db/activity.go:67-73, README.md:373-377).
HistoriesAreLines ==
  /\ \A i, j \in DOMAIN log :
       log[i].supersedes = log[j].supersedes /\ log[i].supersedes # 0 => i = j
  /\ \A b \in Place :
       Cardinality(ActiveEntries(log, Timeline(b))) =
       Cardinality({i \in Timeline(b) : log[i].kind = "time_logged" /\ log[i].supersedes = 0})

\* A board's timeline knows only the corrections it can see, and still counts
\* the entries the card counts, and no other (time_entries.go:163-169).
BoardsAgreeWithTheCard ==
  \A b \in Board :
    ActiveEntries(log, Timeline(b)) = ActiveEntries(log, Timeline(CardWide)) \cap Timeline(b)

\* A timeline that has events, the state the card was in at an instant, and the
\* instants from its first event to the stop it ends with, or to now.
Told == {b \in Place : Timeline(b) # {}}
StateAt(T, t) == log[Latest(log, {i \in T : log[i].at <= t})].state
Begins(T) == Min({log[i].at : i \in T})
LastAt(T) == Max({log[i].at : i \in T})
Ends(T) == IF StateAt(T, LastAt(T)) = "stopped" THEN LastAt(T) ELSE Max({now, LastAt(T)})
Lived(T) == Begins(T) .. (Ends(T) - 1)

\* The sums over segments are the instants at which the card was in that state,
\* whatever was reported late, early or twice at one instant (timeaccounting.go:30-31).
ClockReadsTheLog ==
  \A b \in Told :
    LET T == Timeline(b)
        figures == Compute(log, T, now)
        spent(state) == {t \in Lived(T) : StateAt(T, t) = state}
    IN  /\ figures.elapsed = Cardinality(Lived(T))
        /\ figures.budget = Cardinality(spent("running"))
        /\ figures.waiting = Cardinality(spent("paused"))

\* The working hours of the board: from Start to End after a working date began.
AtWork == UNION {Midnight[date] + Start .. Midnight[date] + End - 1 : date \in WorkingDates}

\* The working hours of a date are over when the next date begins.
HoursFitTheirDays ==
  \A date \in WorkingDates : \A d \in DOMAIN Midnight \ {date} :
    Midnight[d] < Midnight[date] \/ Midnight[date] + End <= Midnight[d]

\* The figures of the working week are the instants at work, and neither a
\* segment across several days nor one inside the night counts more or less
\* (timeaccounting.go:177-231).
BusinessTimeIsTimeAtWork ==
  \A b \in Told :
    LET T == Timeline(b)
        figures == Compute(log, T, now)
        worked == Lived(T) \cap AtWork
    IN  /\ figures.business = Cardinality(worked)
        /\ figures.businessBudget = Cardinality({t \in worked : StateAt(T, t) = "running"})

\* Elapsed time is "wall clock from the first action to now, or to the action
\* that stopped the card" (model/timesummary.go:50-51).
ElapsedEndsAtTheStop ==
  \A b \in Told :
    LET T == Timeline(b)
        stops == {i \in T : \A j \in T : ~Before(log, j, i) => log[j].state = "stopped"}
    IN  stops # {} => Compute(log, T, now).elapsed = Min({log[i].at : i \in stops}) - Begins(T)
=============================================================================
