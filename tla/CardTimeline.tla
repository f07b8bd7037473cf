---------------------------- MODULE CardTimeline ----------------------------
(***************************************************************************)
(* One card's timeline: the events recorded about it, the state of its     *)
(* budget clock that they carry, and who is on it (internal/api/           *)
(* activity.go, assignments.go, board_settings.go, internal/db/            *)
(* assignment_version.go).                                                 *)
(*                                                                         *)
(* The clock is stored nowhere: it is the state of the last event of a     *)
(* board's timeline, and every handler works out the state of its own      *)
(* event from the events it finds.  Each handler is a request with a stage *)
(* and each statement or call it sends is an action; any of them may fail, *)
(* and what was written before stays.  The limits of columns and the       *)
(* noteboard status are in CardPlacement.                                  *)
(***************************************************************************)
EXTENDS Naturals, FiniteSets, Sequences

CONSTANTS
  Board, Column, BoardOf,
  Classified,   \* columns.budget_clock_state, or Unset when it is null
  Principal,
  Arrivals,     \* what assigneeOnArrival may answer for each board
  Ops,          \* the operations clients use
  Request, MaxInFlight,
  Fallible,     \* the requests whose statements and calls may fail
  Unset, NoColumn, CardWide, Nobody, Skipped

ClockState == {"running", "paused", "stopped"}

ASSUME TimelineAssumption ==
  /\ BoardOf \in [Column -> Board]
  /\ Classified \in [Column -> ClockState \cup {Unset}] /\ Unset \notin ClockState
  /\ Arrivals \in [Board -> SUBSET (Principal \cup {Nobody, Skipped})]
  /\ \A b \in Board : Arrivals[b] # {}
  /\ Nobody \notin Principal /\ Skipped \notin Principal /\ Nobody # Skipped
  /\ NoColumn \notin Column /\ CardWide \notin Board
  /\ Ops \subseteq {"attach", "move", "detach", "hold", "unhold", "complete",
                    "assign", "claim", "unassign"}
  /\ MaxInFlight \in Nat \ {0} /\ Fallible \subseteq Request

VARIABLES
  place,   \* placements: the card's column on each board, or NoColumn
  people,  \* card_assignments: who put each principal on the card, and when
  held,    \* noteboard: whether the item is on hold
  log,     \* card_events, in the order they were inserted
  tick,    \* the clock time stamps are taken from
  req,
  holder,  \* history: the request that wrote the item's hold last
  crossed  \* history: the pairs of requests about one thing that were open at once

vars == <<place, people, held, log, tick, req, holder, crossed>>

\* A row of card_assignments; `w` is a history: the request that wrote it.
Off == [by |-> "none", at |-> 0, w |-> {}]
On(p) == people[p] # Off

\* `sound` is a history: whether the state was worked out from what the database
\* held, with nothing inserted between the reading and the event.
Event ==
  [board : Board \cup {CardWide},
   kind : {"card_attached", "card_moved", "card_detached", "card_held", "card_unheld",
           "card_completed", "assigned", "unassigned", "assignment_skipped"},
   col : Column \cup {NoColumn}, state : ClockState, who : Principal \cup {Nobody},
   at : Nat, sound : BOOLEAN]

-----------------------------------------------------------------------------
(* Reading a timeline *)

\* ListCardEvents: a board's own events and the card-wide ones.
OnTimeline(b) == {i \in DOMAIN log : log[i].board \in {b, CardWide}}

\* ORDER BY occurred_at, recorded_at.
Latest(S) ==
  CHOOSE i \in S : \A j \in S : log[j].at < log[i].at \/ (log[j].at = log[i].at /\ j <= i)

\* lastRecordedClockState, and running for a board without history.
LastClock(b) ==
  IF OnTimeline(b) # {} THEN log[Latest(OnTimeline(b))].state ELSE "running"

MutClockForColumn(b, col) ==
  IF OnTimeline(b) # {} THEN LastClock(b)
  ELSE IF Classified[col] # Unset THEN Classified[col]
  ELSE "running"

\* clockStateForColumn: a classified column decides, else the board's last event.
ClockForColumn(b, col) ==
  IF Classified[col] # Unset THEN Classified[col] ELSE LastClock(b)

\* Its two reads answer no error: a column that could not be read counts as
\* unclassified, and events that could not be listed as none.
ClocksOnFailure(b) == {LastClock(b), "running"}

Placed == {b \in Board : place[b] # NoColumn}

\* The second half of clockStateCarriedForward, for a card with no history.
ClockOfPlacement ==
  IF \E b \in Placed : Placed = {b} /\ Classified[place[b]] # Unset
  THEN Classified[place[CHOOSE b \in Placed : TRUE]]
  ELSE "running"

-----------------------------------------------------------------------------
\* A request at a stage: the operation and its arguments, the state and time of the
\* event it is to record, what it read of the people or placements, and two
\* histories, how much of the log it worked the state out from and whether a failed
\* read gave it another.
Sent(op, stage, b, col, who) ==
  [op |-> op, stage |-> stage, board |-> b, col |-> col, who |-> who,
   state |-> "running", at |-> 0, seen |-> <<>>, base |-> 0, misread |-> FALSE]

Fresh == Sent("none", "new", CardWide, NoColumn, Nobody)
Blank == Sent("none", "done", CardWide, NoColumn, Nobody)

\* The log begins after the cards: a card may be placed and have no history.
Init ==
  /\ place \in {f \in [Board -> Column \cup {NoColumn}] :
                  \A b \in Board : f[b] # NoColumn => BoardOf[f[b]] = b}
  /\ people = [p \in Principal |-> Off]
  /\ held = FALSE
  /\ log = <<>>
  /\ tick = 0
  /\ req = [r \in Request |-> Fresh]
  /\ holder = {} /\ crossed = {}

Active == {r \in Request : req[r].stage \notin {"new", "done", "failed"}}

At(r, stage) == req[r].stage = stage
Goto(r, stage) == req' = [req EXCEPT ![r].stage = stage]
Close(r) == req' = [req EXCEPT ![r] = Blank]

\* Requests are alike: the next one sent is any one of them.
NextToSend(r) == r = CHOOSE q \in Request : req[q].stage = "new"

Holding == {"hold", "unhold"}
Choosing == {"attach", "assign", "claim"}
Alike(op, other) == {op, other} \subseteq Holding \/ {op, other} \subseteq Choosing

Open(r, op) ==
  /\ op \in Ops
  /\ req[r].stage = "new" /\ NextToSend(r)
  /\ Cardinality(Active) < MaxInFlight
  /\ crossed' = crossed \cup {{q, r} : q \in {q \in Active : Alike(op, req[q].op)}}
  /\ UNCHANGED <<place, people, held, log, tick, holder>>

Begin(r, op, stage, b, col, who) ==
  Open(r, op) /\ req' = [req EXCEPT ![r] = Sent(op, stage, b, col, who)]

\* assigneeOnArrival has chosen before the placement is written.
BeginAttach(r) ==
  \E col \in Column : \E who \in Arrivals[BoardOf[col]] :
    Begin(r, "attach", "place", BoardOf[col], col, who)

BeginMove(r) ==
  \E col \in Column : Begin(r, "move", "place", BoardOf[col], col, Nobody)

BeginDetach(r) ==
  \E b \in Board : Begin(r, "detach", "place", b, NoColumn, Nobody)

BeginHold(r) ==
  \E op \in {"hold", "unhold", "complete"} : Begin(r, op, "item", CardWide, NoColumn, Nobody)

BeginAssign(r) ==
  \E p \in Principal :
    \/ Begin(r, "assign", "date", CardWide, NoColumn, p)
    \/ Begin(r, "unassign", "people", CardWide, NoColumn, p)

\* An automatic owner that read the card's assignments, found nobody, and sends
\* the snapshot's ETag as If-Match.
BeginClaim(r) ==
  \E p \in Principal :
    /\ \A q \in Principal : ~On(q)
    /\ Open(r, "claim")
    /\ req' = [req EXCEPT ![r] =
                 [Sent("claim", "people", CardWide, NoColumn, p) EXCEPT !.seen = people]]

-----------------------------------------------------------------------------
(* Placement: AttachCard, MoveCard with its re-read, DetachCard *)

WritePlacement(r) ==
  LET b == req[r].board IN
  /\ At(r, "place")
  /\ IF req[r].op \in {"move", "detach"} /\ place[b] = NoColumn
     THEN Close(r) /\ UNCHANGED place
     ELSE /\ place' = [place EXCEPT ![b] = req[r].col]
          /\ IF req[r].op = "detach"
             THEN req' = [req EXCEPT ![r].stage = "log", ![r].state = "stopped"]
             ELSE Goto(r, IF req[r].op = "move" THEN "reread" ELSE "column")
  /\ UNCHANGED <<people, held, log, tick, holder, crossed>>

RereadPlacement(r) ==
  /\ At(r, "reread")
  /\ IF place[req[r].board] = NoColumn THEN Close(r) ELSE Goto(r, "column")
  /\ UNCHANGED <<place, people, held, log, tick, holder, crossed>>

ReadClockForColumn(r) ==
  LET b == req[r].board
      clock == ClockForColumn(b, req[r].col)
  IN
  /\ At(r, "column")
  /\ \E s \in {clock} \cup (IF r \in Fallible THEN ClocksOnFailure(b) ELSE {}) :
       req' = [req EXCEPT ![r].state = s, ![r].base = Len(log), ![r].misread = (s # clock),
                          ![r].stage = "log"]
  /\ UNCHANGED <<place, people, held, log, tick, holder, crossed>>

\* Hold, release and completion say themselves what they mean for the clock.
ItemClock(op) ==
  CASE op = "hold" -> "paused" [] op = "unhold" -> "running" [] op = "complete" -> "stopped"

\* A hold that changes nothing is not recorded.
MutWriteItem(r) ==
  LET op == req[r].op IN
  /\ At(r, "item")
  /\ held' = CASE op = "hold" -> TRUE [] op = "unhold" -> FALSE [] OTHER -> held
  /\ holder' = IF op \in Holding THEN {r} ELSE holder
  /\ IF op \in Holding /\ held' = held THEN Close(r)
     ELSE req' = [req EXCEPT ![r].state = ItemClock(op), ![r].stage = "log"]
  /\ UNCHANGED <<place, people, log, tick, crossed>>

\* noteboard holds or releases the item, or is given status done.
WriteItem(r) ==
  LET op == req[r].op IN
  /\ At(r, "item")
  /\ held' = CASE op = "hold" -> TRUE [] op = "unhold" -> FALSE [] OTHER -> held
  /\ holder' = IF op \in Holding THEN {r} ELSE holder
  /\ req' = [req EXCEPT ![r].state = ItemClock(op), ![r].stage = "log"]
  /\ UNCHANGED <<place, people, log, tick, crossed>>

-----------------------------------------------------------------------------
(* People: who is on the card *)

\* AssignPrincipalToCard takes the time of its row before it inserts it.
DateRow(r) ==
  /\ At(r, "date")
  /\ tick' = tick + 1
  /\ req' = [req EXCEPT ![r].at = tick + 1,
                        ![r].stage = IF req[r].op = "attach" THEN "fill" ELSE "people"]
  /\ UNCHANGED <<place, people, held, log, holder, crossed>>

\* The time of the row is not handed on to the event.
MutInsertPerson(r, by, at) ==
  LET p == req[r].who IN
  IF On(p) THEN Close(r) /\ UNCHANGED people
  ELSE /\ people' = [people EXCEPT ![p] = [by |-> by, at |-> at, w |-> {r}]]
       /\ req' = [req EXCEPT ![r].stage = "carry", ![r].at = 0]

\* ON CONFLICT DO NOTHING, so a repeat is no action.
InsertPerson(r, by, at) ==
  LET p == req[r].who IN
  IF On(p) THEN Close(r) /\ UNCHANGED people
  ELSE /\ people' = [people EXCEPT ![p] = [by |-> by, at |-> at, w |-> {r}]]
       /\ req' = [req EXCEPT ![r].stage = "carry", ![r].at = at]

Assign(r) ==
  /\ At(r, "people") /\ req[r].op = "assign"
  /\ InsertPerson(r, "person", req[r].at)
  /\ UNCHANGED <<place, held, log, tick, holder, crossed>>

MutClaim(r) ==
  /\ At(r, "people") /\ req[r].op = "claim"
  /\ tick' = tick + 1 /\ InsertPerson(r, "owner", tick + 1)
  /\ UNCHANGED <<place, held, log, holder, crossed>>

\* AssignPrincipalToCardIfVersion: the snapshot is compared, the row dated and
\* inserted under SQLite's writer lock; 412 when the rows differ.
Claim(r) ==
  /\ At(r, "people") /\ req[r].op = "claim"
  /\ IF people # req[r].seen THEN Close(r) /\ UNCHANGED <<people, tick>>
     ELSE tick' = tick + 1 /\ InsertPerson(r, "owner", tick + 1)
  /\ UNCHANGED <<place, held, log, holder, crossed>>

MutUnassign(r) ==
  /\ At(r, "people") /\ req[r].op = "unassign"
  /\ people' = [people EXCEPT ![req[r].who] = Off]
  /\ Goto(r, "carry")
  /\ UNCHANGED <<place, held, log, tick, holder, crossed>>

Unassign(r) ==
  /\ At(r, "people") /\ req[r].op = "unassign"
  /\ IF ~On(req[r].who) THEN Close(r) /\ UNCHANGED people
     ELSE people' = [people EXCEPT ![req[r].who] = Off] /\ Goto(r, "carry")
  /\ UNCHANGED <<place, held, log, tick, holder, crossed>>

\* A default is applied whoever is there.
MutListPeople(r) ==
  /\ At(r, "list")
  /\ IF req[r].who = Nobody THEN Close(r)
     ELSE Goto(r, IF req[r].who = Skipped THEN "carry" ELSE "date")
  /\ UNCHANGED <<place, people, held, log, tick, holder, crossed>>

\* applyAssigneeOnArrival: somebody already there, or nobody chosen, ends it.
ListPeople(r) ==
  /\ At(r, "list")
  /\ IF req[r].who = Nobody \/ \E p \in Principal : On(p) THEN Close(r)
     ELSE Goto(r, IF req[r].who = Skipped THEN "carry" ELSE "date")
  /\ UNCHANGED <<place, people, held, log, tick, holder, crossed>>

FillBlank(r) ==
  /\ At(r, "fill")
  /\ InsertPerson(r, "arrival", req[r].at)
  /\ UNCHANGED <<place, held, log, tick, holder, crossed>>

\* What the event about a principal is: a skip, a removal, or an assignment.
PeopleKind(r) ==
  IF req[r].who = Skipped THEN "assignment_skipped"
  ELSE IF req[r].op = "unassign" THEN "unassigned" ELSE "assigned"

\* An assignment occurred when its row was dated; the rest is stamped later.
Undated(r) == IF PeopleKind(r) = "assigned" THEN "tell" ELSE "stamp"

\* clockStateCarriedForward: the last event on any board.
CarryHistory(r) ==
  /\ At(r, "carry")
  /\ req' = IF log = <<>> THEN [req EXCEPT ![r].base = 0, ![r].stage = "standing"]
            ELSE [req EXCEPT ![r].state = log[Latest(DOMAIN log)].state,
                             ![r].base = Len(log), ![r].stage = Undated(r)]
  /\ UNCHANGED <<place, people, held, log, tick, holder, crossed>>

MutCarryPlacement(r) ==
  /\ At(r, "standing")
  /\ req' = [req EXCEPT ![r].seen = place, ![r].stage = Undated(r)]
  /\ UNCHANGED <<place, people, held, log, tick, holder, crossed>>

CarryPlacement(r) ==
  /\ At(r, "standing")
  /\ req' = [req EXCEPT ![r].state = ClockOfPlacement, ![r].seen = place,
                        ![r].stage = Undated(r)]
  /\ UNCHANGED <<place, people, held, log, tick, holder, crossed>>

-----------------------------------------------------------------------------
(* RecordCardEvent: the time is taken, and then the row is inserted *)

Stamp(r) ==
  /\ req[r].stage \in {"log", "stamp"}
  /\ tick' = tick + 1
  /\ req' = [req EXCEPT ![r].at = tick + 1,
                        ![r].stage = IF req[r].stage = "log" THEN "insert" ELSE "tell"]
  /\ UNCHANGED <<place, people, held, log, holder, crossed>>

EventKind(op) ==
  CASE op = "attach" -> "card_attached" [] op = "move" -> "card_moved"
    [] op = "detach" -> "card_detached" [] op = "hold" -> "card_held"
    [] op = "unhold" -> "card_unheld" [] op = "complete" -> "card_completed"

\* The event of the request itself.
Record(r) ==
  /\ At(r, "insert")
  /\ log' = Append(log,
       [board |-> req[r].board, kind |-> EventKind(req[r].op), col |-> req[r].col,
        state |-> req[r].state, who |-> Nobody, at |-> req[r].at,
        sound |-> /\ ~req[r].misread
                  /\ req[r].op \in {"attach", "move"} /\ Classified[req[r].col] = Unset =>
                       req[r].base = Len(log)])
  /\ req' = [req EXCEPT ![r] =
               IF req[r].op = "attach"
               THEN Sent("attach", "list", req[r].board, req[r].col, req[r].who) ELSE Blank]
  /\ UNCHANGED <<place, people, held, tick, holder, crossed>>

\* The event about a principal: a skip is of the board the card arrived on, the
\* rest is card-wide.
RecordPeople(r) ==
  /\ At(r, "tell")
  /\ log' = Append(log,
       [board |-> IF req[r].who = Skipped THEN req[r].board ELSE CardWide,
        kind |-> PeopleKind(r), col |-> NoColumn, state |-> req[r].state,
        who |-> IF req[r].who = Skipped THEN Nobody ELSE req[r].who, at |-> req[r].at,
        sound |-> req[r].base = Len(log) /\ (log = <<>> => req[r].seen = place)])
  /\ Close(r)
  /\ UNCHANGED <<place, people, held, tick, holder, crossed>>

\* A row about a principal is written or gone, and the timeline does not say so yet.
Untold(r) ==
  req[r].stage \in {"carry", "standing", "stamp", "tell"} /\ req[r].who \in Principal

\* A statement or a call fails, its answer is lost, or the process stops: the client
\* is not told that it was done, and what was written stays as it is.
Abandon(r) ==
  /\ r \in Fallible /\ r \in Active
  /\ req' = [req EXCEPT ![r] =
               IF Untold(r) THEN Sent(req[r].op, "failed", CardWide, NoColumn, req[r].who)
               ELSE Sent("none", "failed", CardWide, NoColumn, Nobody)]
  /\ UNCHANGED <<place, people, held, log, tick, holder, crossed>>

-----------------------------------------------------------------------------
\* The clients need not send any more.
Idle == Active = {} /\ UNCHANGED vars

Next ==
  \/ \E r \in Request :
       \/ BeginAttach(r) \/ BeginMove(r) \/ BeginDetach(r)
       \/ BeginHold(r) \/ BeginAssign(r) \/ BeginClaim(r)
       \/ WritePlacement(r) \/ RereadPlacement(r) \/ ReadClockForColumn(r) \/ WriteItem(r)
       \/ DateRow(r) \/ Assign(r) \/ Claim(r) \/ Unassign(r) \/ ListPeople(r) \/ FillBlank(r)
       \/ CarryHistory(r) \/ CarryPlacement(r)
       \/ Stamp(r) \/ Record(r) \/ RecordPeople(r) \/ Abandon(r)
  \/ Idle

Spec == Init /\ [][Next]_vars

-----------------------------------------------------------------------------
(* Properties *)

TypeOK ==
  /\ place \in [Board -> Column \cup {NoColumn}]
  /\ \A p \in Principal : people[p].by \in {"none", "person", "owner", "arrival"}
  /\ held \in BOOLEAN
  /\ log \in Seq(Event) /\ \A i \in DOMAIN log : log[i].at \in 1..tick
  /\ \A r \in Request : req[r].who = Nobody => req[r].op \notin {"assign", "claim", "unassign"}

\* The clock of board b: its last event, or what a card without history stands in.
Clock(b) ==
  IF OnTimeline(b) = {} THEN ClockOfPlacement ELSE log[Latest(OnTimeline(b))].state

Recorded(kinds) == Len(log') = Len(log) + 1 /\ log'[Len(log')].kind \in kinds

\* "An assignment neither starts nor stops the budget clock": recording that someone
\* was put on the card, taken off it or not found leaves the clock alone on every
\* board where the card has a history, and what it stands in when it has none at all,
\* unless something else was recorded since the state was read, or the card moved.
AssigningMovesNoClock ==
  [][Recorded({"assigned", "unassigned", "assignment_skipped"}) /\ log'[Len(log')].sound =>
       \A b \in Board : OnTimeline(b) # {} \/ log = <<>> => Clock(b)' = Clock(b)]_vars

\* The events that say themselves what they mean for the clock, and what they mean.
Decides(e) ==
  \/ e.kind \in {"card_held", "card_unheld", "card_completed", "card_detached"}
  \/ e.kind \in {"card_attached", "card_moved"} /\ Classified[e.col] # Unset

Means(e) ==
  CASE e.kind = "card_held" -> "paused" [] e.kind = "card_unheld" -> "running"
    [] e.kind \in {"card_completed", "card_detached"} -> "stopped"
    [] OTHER -> Classified[e.col]

\* The events that may change the clock of b: those that decide it, and those whose
\* state was not worked out from the log they were put in.
Turns(b) == {i \in OnTimeline(b) : Decides(log[i]) \/ ~log[i].sound}

\* It was put in after an event that occurred later.
Late(i) == \E j \in 1..(i - 1) : log[j].at > log[i].at

\* "Pressing stop parks the work wherever it sits", "a column that has been
\* classified decides", one that has not "says nothing about the clock": the clock is
\* what the last event that decides means, however many arrivals in unclassified
\* columns, assignments and skips came between.  Not so after an arrival or an
\* assignment whose state was a failed read's or was overtaken, nor after an event
\* that was put in late.
ClockFollowsTheActions ==
  \A b \in Board :
    Turns(b) # {} =>
      LET e == log[Latest(Turns(b))] IN
        e.sound /\ ~Late(Latest(Turns(b))) => Clock(b) = Means(e)

\* The events about the hold.
HoldsIn == {i \in DOMAIN log : log[i].kind \in {"card_held", "card_unheld"}}

\* The hold is noteboard's and the timeline's word on it another service's: when the
\* request that wrote it last was carried through, and no other hold or release was
\* open beside it, the last event about the hold says what noteboard says, whatever
\* holds before it were written and not recorded.
HoldIsTold ==
  \A w \in holder :
    req[w].stage = "done" /\ (\A pair \in crossed : w \notin pair) =>
      HoldsIn # {} /\ (held <=> log[Latest(HoldsIn)].kind = "card_held")

\* "A default fills a blank and never overrides a person's choice": when an arrival
\* puts its default on the card, whoever is there already came by a request that was
\* open beside the arrival.
DefaultFillsBlank ==
  [][\A p \in Principal :
       ~On(p) /\ people'[p].by = "arrival" =>
         \A q \in Principal : On(q) => people[q].w \cup people'[p].w \in crossed]_vars

\* Automatic owners that found the card free and send the ETag of what they read
\* never end up on it together, however they race with each other and with people.
OneAutomaticOwner ==
  Cardinality({p \in Principal : people[p].by = "owner"}) <= 1

Events(kind, p) == {i \in DOMAIN log : log[i].kind = kind /\ log[i].who = p}

\* The requests that wrote or deleted p's row and whose event is not there: still
\* open, or broken off.
Owing(ops, p) ==
  {r \in Request : (Untold(r) \/ At(r, "failed")) /\ req[r].op \in ops /\ req[r].who = p}

\* "Only the 201 path of a PUT logs one": the log holds one assigned for each time a
\* principal was put on the card and one unassigned for each time they were taken
\* off, in whatever order the two were recorded, but for the requests that are still
\* to record theirs or broke off before it: a repeat of those finds the row as they
\* left it and records nothing either.
LogCountsPeople ==
  \A p \in Principal :
    Cardinality(Events("assigned", p)) + Cardinality(Owing({"assign", "claim", "attach"}, p)) =
      Cardinality(Events("unassigned", p)) + Cardinality(Owing({"unassign"}, p))
        + (IF On(p) THEN 1 ELSE 0)
=============================================================================
