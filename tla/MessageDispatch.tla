--------------------------- MODULE MessageDispatch ---------------------------
(***************************************************************************)
(* Message triggers: what a recorded card event sets off                   *)
(* (internal/messaging/dispatcher.go, internal/db/messaging.go,            *)
(* internal/api/message_triggers.go).                                      *)
(*                                                                         *)
(* Every recorded event starts one goroutine.  It finds the boards the     *)
(* event concerns, and on each the enabled triggers that match; it loads   *)
(* what a message says, writes a delivery row, sends, and writes down what *)
(* multichat answered.  All of it runs beside the moves of the card, the   *)
(* edits of the triggers and the dispatches of other events, any statement *)
(* may fail, and the process may stop anywhere: nothing is taken up again. *)
(*                                                                         *)
(* One card.  Its placements and its log are CardPlacement's subject: here *)
(* its placements change at any time, a move writes one and records its    *)
(* event later, and the events of the card itself are recorded any time.   *)
(***************************************************************************)
EXTENDS Naturals, FiniteSets

CONSTANTS
  Board, Column, Trigger, Event, Editor,
  Rule,          \* each trigger's board, event kind, column filter, and whether it filters by priority
  Configured,    \* whether MULTICHAT_URL is set: the answers, it is read at each start
  Nowhere, AnyColumn, NoBoard, NoTrigger,
  MaxStops       \* how many times the process stops

Kind == {"card_moved", "card_wide"}

ASSUME DispatchAssumption ==
  /\ Rule \in [Trigger -> [board : Board, kind : Kind, to : Column \cup {AnyColumn},
                           ranked : BOOLEAN]]
  /\ Configured \subseteq BOOLEAN /\ Configured # {}
  /\ Nowhere \notin Column /\ AnyColumn \notin Column \cup {Nowhere}
  /\ NoBoard \notin Board /\ NoTrigger \notin Trigger
  /\ MaxStops \in Nat

VARIABLES
  placement,  \* placements: the card's column on each board, or Nowhere
  move,       \* the move each event is to tell of: where the request put the card
  trigger,    \* message_triggers: on, off, deleted or not yet there
  edit,       \* the PATCHes of triggers on their way
  event,      \* card_events: each event's kind, board and column
  dispatch,   \* the goroutine of each event
  delivery,   \* message_deliveries: what is recorded of each trigger and event
  received,   \* how many messages multichat accepted for each trigger and event
  stops

vars == <<placement, move, trigger, edit, event, dispatch, delivery, received, stops>>

Exists(t) == trigger[t] \in {"on", "off"}

NoRow == [status |-> "none", column |-> Nowhere]

Idle == [stage |-> "idle", boards |-> {}, board |-> NoBoard, candidates |-> {},
         column |-> Nowhere, trigger |-> NoTrigger, outcome |-> "none", cutShort |-> FALSE]

\* A goroutine that is gone; cutShort remembers that it left something out.
Ended(cutShort) == [Idle EXCEPT !.stage = "done", !.cutShort = cutShort]

Answered == [stage |-> "done", trigger |-> NoTrigger, asks |-> "none", read |-> "none"]

NoMove == [board |-> NoBoard, to |-> Nowhere]

Init ==
  /\ placement \in [Board -> Column \cup {Nowhere}]
  /\ move = [e \in Event |-> NoMove]
  /\ trigger \in [Trigger -> {"unborn", "on", "off"}]
  /\ edit = [x \in Editor |-> [stage |-> "new", trigger |-> NoTrigger, asks |-> "none",
                               read |-> "none"]]
  /\ event = [e \in Event |-> [kind |-> "none", board |-> NoBoard, to |-> Nowhere]]
  /\ dispatch = [e \in Event |-> Idle]
  /\ delivery = [p \in Trigger \X Event |-> NoRow]
  /\ received = [p \in Trigger \X Event |-> 0]
  /\ stops = 0

-----------------------------------------------------------------------------
(* The card, its log, and the triggers *)

\* The card is attached, detached, or moved by a request whose event nobody follows.
Relocate(b, c) ==
  /\ placement[b] # c
  /\ placement' = [placement EXCEPT ![b] = c]
  /\ UNCHANGED <<move, trigger, edit, event, dispatch, delivery, received, stops>>

\* recordEventAndFireMessageTriggers: the row is stored, and its goroutine starts.
Record(e, kind, b, c) ==
  /\ event[e].kind = "none"
  /\ event' = [event EXCEPT ![e] = [kind |-> kind, board |-> b, to |-> c]]
  /\ dispatch' = [dispatch EXCEPT ![e] = [Idle EXCEPT !.stage = "boards"]]
  /\ UNCHANGED <<placement, move, trigger, edit, delivery, received, stops>>

\* store.MoveCard: the placement is written, and the request goes on to record it.
WriteMove(e, b, c) ==
  /\ event[e].kind = "none" /\ move[e] = NoMove
  /\ placement[b] # Nowhere
  /\ placement' = [placement EXCEPT ![b] = c]
  /\ move' = [move EXCEPT ![e] = [board |-> b, to |-> c]]
  /\ UNCHANGED <<trigger, edit, event, dispatch, delivery, received, stops>>

\* The event made of where the card is when it is recorded.
MutRecordMoved(e) ==
  /\ move[e] # NoMove
  /\ Record(e, "card_moved", move[e].board, placement[move[e].board])

\* The event tells of what the request wrote, wherever the card has gone since.
RecordMoved(e) ==
  /\ move[e] # NoMove
  /\ Record(e, "card_moved", move[e].board, move[e].to)

\* The insert fails: the card stays where it was put, and nothing tells of it.
FailToRecord(e) ==
  /\ event[e].kind = "none" /\ move[e] # NoMove
  /\ move' = [move EXCEPT ![e] = NoMove]
  /\ UNCHANGED <<placement, trigger, edit, event, dispatch, delivery, received, stops>>

\* card_completed, assigned, card_held: no board, no column.
RecordCardWide(e) == move[e] = NoMove /\ Record(e, "card_wide", NoBoard, Nowhere)

CreateTrigger(t, state) ==
  /\ trigger[t] = "unborn"
  /\ trigger' = [trigger EXCEPT ![t] = state]
  /\ UNCHANGED <<placement, move, edit, event, dispatch, delivery, received, stops>>

\* Its deliveries go with it, ON DELETE CASCADE.
DeleteTrigger(t) ==
  /\ Exists(t)
  /\ trigger' = [trigger EXCEPT ![t] = "deleted"]
  /\ delivery' = [p \in Trigger \X Event |-> IF p[1] = t THEN NoRow ELSE delivery[p]]
  /\ UNCHANGED <<placement, move, edit, event, dispatch, received, stops>>

\* A PATCH reads the trigger; asks is the enabled it sends, if it sends one.
BeginEdit(x, t, asks) ==
  /\ edit[x].stage = "new" /\ Exists(t)
  /\ edit' = [edit EXCEPT ![x] = [stage |-> "write", trigger |-> t, asks |-> asks,
                                  read |-> trigger[t]]]
  /\ UNCHANGED <<placement, move, trigger, event, dispatch, delivery, received, stops>>

\* UpdateMessageTrigger writes every column back, by id alone.
FinishEdit(x) ==
  LET t == edit[x].trigger IN
  /\ edit[x].stage = "write"
  /\ edit' = [edit EXCEPT ![x] = Answered]
  /\ trigger' = [trigger EXCEPT ![t] = IF ~Exists(t) THEN @
                                       ELSE IF edit[x].asks = "none" THEN edit[x].read
                                       ELSE edit[x].asks]
  /\ UNCHANGED <<placement, move, event, dispatch, delivery, received, stops>>

\* Its checks refuse it, or it fails.
RefuseEdit(x) ==
  /\ edit[x].stage = "write"
  /\ edit' = [edit EXCEPT ![x] = Answered]
  /\ UNCHANGED <<placement, move, trigger, event, dispatch, delivery, received, stops>>

-----------------------------------------------------------------------------
(* One event's goroutine: FireTriggersFor and deliver *)

Unmoved == UNCHANGED <<placement, move, trigger, edit, event, stops>>

\* boardsOf: the event's board, or every board the card is on by now.
FindBoards(e) ==
  /\ dispatch[e].stage = "boards"
  /\ LET boards == IF event[e].board # NoBoard THEN {event[e].board}
                   ELSE {b \in Board : placement[b] # Nowhere}
     IN \/ dispatch' = [dispatch EXCEPT ![e].stage = "list", ![e].boards = boards]
        \/ dispatch' = [dispatch EXCEPT ![e] = Ended(TRUE)]
  /\ Unmoved /\ UNCHANGED <<delivery, received>>

Matches(t, e) ==
  /\ Rule[t].kind = event[e].kind
  /\ Rule[t].to \in {AnyColumn, event[e].to}

\* ListMessageTriggers, or its failure, which leaves the board out.
ListTriggers(e, b) ==
  /\ dispatch[e].stage = "list" /\ b \in dispatch[e].boards
  /\ LET left == dispatch[e].boards \ {b}
         found == {t \in Trigger : Rule[t].board = b /\ trigger[t] = "on" /\ Matches(t, e)}
     IN \/ dispatch' = [dispatch EXCEPT ![e].boards = left, ![e].board = b,
                                        ![e].candidates = found,
                                        ![e].stage = IF found = {} THEN "list" ELSE "load"]
        \/ dispatch' = [dispatch EXCEPT ![e].boards = left, ![e].cutShort = TRUE]
  /\ Unmoved /\ UNCHANGED <<delivery, received>>

\* loadCard and loadBoard: a message names the column the event moved the card to, or
\* else the one it is in by now.  Nowhere: the context could not be loaded.
LoadContext(e) ==
  LET b == dispatch[e].board
      column == IF event[e].to # Nowhere THEN event[e].to ELSE placement[b]
  IN
  /\ dispatch[e].stage = "load"
  /\ \E read \in {column, Nowhere} :
       dispatch' = [dispatch EXCEPT ![e].stage = "deliver", ![e].column = read]
  /\ Unmoved /\ UNCHANGED <<delivery, received>>

\* The trigger's priority filter says no.
PassOver(e, t) ==
  /\ dispatch[e].stage = "deliver" /\ t \in dispatch[e].candidates
  /\ dispatch[e].column # Nowhere /\ Rule[t].ranked
  /\ dispatch' = [dispatch EXCEPT ![e].candidates = @ \ {t}]
  /\ Unmoved /\ UNCHANGED <<delivery, received>>

\* What the first row about a trigger and an event says: nothing can be rendered when
\* the context is missing, and a template may fail on it.
FirstStatus(e) ==
  {"failed"} \cup
    IF dispatch[e].column = Nowhere THEN {}
    ELSE {IF set THEN "pending" ELSE "not_configured" : set \in Configured}

Free(t, e) == Exists(t) /\ delivery[<<t, e>>].status = "none"

MutClaim(e, t, status) ==
  /\ dispatch[e].stage = "deliver" /\ t \in dispatch[e].candidates
  /\ status \in FirstStatus(e) /\ Free(t, e)
  /\ delivery' = [delivery EXCEPT ![<<t, e>>] = IF status = "not_configured" THEN @
                                           ELSE [status |-> status, column |-> dispatch[e].column]]
  /\ dispatch' = [dispatch EXCEPT ![e].candidates = @ \ {t}, ![e].trigger = t,
                                  ![e].stage = IF status = "pending" THEN "send" ELSE @]
  /\ Unmoved /\ UNCHANGED received

\* INSERT OR IGNORE: the row is the claim.
Claim(e, t, status) ==
  /\ dispatch[e].stage = "deliver" /\ t \in dispatch[e].candidates
  /\ status \in FirstStatus(e) /\ Free(t, e)
  /\ delivery' = [delivery EXCEPT ![<<t, e>>] = [status |-> status, column |-> dispatch[e].column]]
  /\ dispatch' = [dispatch EXCEPT ![e].candidates = @ \ {t}, ![e].trigger = t,
                                  ![e].stage = IF status = "pending" THEN "send" ELSE @]
  /\ Unmoved /\ UNCHANGED received

MutClaimFails(e, t) ==
  /\ dispatch[e].stage = "deliver" /\ t \in dispatch[e].candidates
  /\ dispatch' = [dispatch EXCEPT ![e].candidates = @ \ {t}, ![e].trigger = t,
                                  ![e].stage = "send"]
  /\ Unmoved /\ UNCHANGED <<delivery, received>>

\* The row could not be written, or it was there, or its trigger is not: nothing is sent.
ClaimFails(e, t) ==
  /\ dispatch[e].stage = "deliver" /\ t \in dispatch[e].candidates
  /\ dispatch' = [dispatch EXCEPT ![e].candidates = @ \ {t}, ![e].cutShort = TRUE]
  /\ Unmoved /\ UNCHANGED <<delivery, received>>

\* multichat accepts the message or not; its yes may be lost, or come after the timeout.
Send(e, accepted, answered) ==
  /\ dispatch[e].stage = "send"
  /\ received' = [received EXCEPT ![<<dispatch[e].trigger, e>>] = IF accepted THEN @ + 1 ELSE @]
  /\ dispatch' = [dispatch EXCEPT ![e].stage = "finish",
                                  ![e].outcome = IF accepted /\ answered THEN "sent" ELSE "failed"]
  /\ Unmoved /\ UNCHANGED delivery

MutFinish(e) ==
  LET p == <<dispatch[e].trigger, e>> IN
  /\ dispatch[e].stage = "finish"
  /\ dispatch' = [dispatch EXCEPT ![e].stage = IF dispatch[e].outcome = "failed" THEN "send"
                                               ELSE "deliver"]
  /\ delivery' = [delivery EXCEPT ![p].status = IF @ = "none" THEN @ ELSE dispatch[e].outcome]
  /\ Unmoved /\ UNCHANGED received

\* FinishMessageDelivery: the row may have gone with its trigger.
Finish(e) ==
  LET p == <<dispatch[e].trigger, e>> IN
  /\ dispatch[e].stage = "finish"
  /\ dispatch' = [dispatch EXCEPT ![e].stage = "deliver"]
  /\ delivery' = [delivery EXCEPT ![p].status = IF @ = "none" THEN @ ELSE dispatch[e].outcome]
  /\ Unmoved /\ UNCHANGED received

\* The UPDATE fails, and is only logged.
FinishFails(e) ==
  /\ dispatch[e].stage = "finish"
  /\ dispatch' = [dispatch EXCEPT ![e].stage = "deliver", ![e].cutShort = TRUE]
  /\ Unmoved /\ UNCHANGED <<delivery, received>>

\* The loops of FireTriggersFor: the next board, or the end.
GoOn(e) ==
  /\ \/ /\ dispatch[e].stage = "deliver" /\ dispatch[e].candidates = {}
        /\ dispatch' = [dispatch EXCEPT ![e].stage = "list"]
     \/ /\ dispatch[e].stage = "list" /\ dispatch[e].boards = {}
        /\ dispatch' = [dispatch EXCEPT ![e] = Ended(dispatch[e].cutShort)]
  /\ Unmoved /\ UNCHANGED <<delivery, received>>

\* The process stops and starts again: main waits for no dispatch.
Running(e) == dispatch[e].stage \notin {"idle", "done"}

Stop ==
  /\ stops < MaxStops
  /\ stops' = stops + 1
  /\ dispatch' = [e \in Event |-> IF Running(e)
                                  THEN Ended(TRUE)
                                  ELSE dispatch[e]]
  /\ edit' = [x \in Editor |-> IF edit[x].stage = "write"
                               THEN Answered ELSE edit[x]]
  /\ move' = [e \in Event |-> IF event[e].kind = "none" THEN NoMove ELSE move[e]]
  /\ UNCHANGED <<placement, trigger, event, delivery, received>>

-----------------------------------------------------------------------------

DispatchStep(e) ==
  \/ FindBoards(e) \/ LoadContext(e) \/ Finish(e) \/ FinishFails(e) \/ GoOn(e)
  \/ \E b \in Board : ListTriggers(e, b)
  \/ \E t \in Trigger : \/ PassOver(e, t) \/ ClaimFails(e, t)
                        \/ \E status \in {"pending", "failed", "not_configured"} :
                             Claim(e, t, status)
  \/ \E accepted, answered \in BOOLEAN : Send(e, accepted, answered)

Next ==
  \/ \E b \in Board, c \in Column \cup {Nowhere} : Relocate(b, c)
  \/ \E e \in Event : \/ RecordCardWide(e) \/ RecordMoved(e) \/ FailToRecord(e)
                      \/ \E b \in Board, c \in Column : WriteMove(e, b, c)
  \/ \E t \in Trigger : DeleteTrigger(t) \/ \E state \in {"on", "off"} : CreateTrigger(t, state)
  \/ \E x \in Editor : \/ FinishEdit(x) \/ RefuseEdit(x)
                       \/ \E t \in Trigger, asks \in {"none", "on", "off"} : BeginEdit(x, t, asks)
  \/ \E e \in Event : DispatchStep(e)
  \/ Stop

Spec == Init /\ [][Next]_vars

\* The goroutine of an event is scheduled again and again: each of its calls returns,
\* the send after at most sendTimeout.
FairSpec == Spec /\ \A e \in Event : WF_vars(DispatchStep(e))

-----------------------------------------------------------------------------
(* Properties *)

Status == {"none", "pending", "sent", "failed", "not_configured"}

EditRecord ==
  [stage : {"new", "write", "done"}, trigger : Trigger \cup {NoTrigger},
   asks : {"none", "on", "off"}, read : {"none", "on", "off"}]

EventRecord ==
  [kind : Kind \cup {"none"}, board : Board \cup {NoBoard}, to : Column \cup {Nowhere}]

Target == [board : Board \cup {NoBoard}, to : Column \cup {Nowhere}]

Goroutine ==
  [stage : {"idle", "boards", "list", "load", "deliver", "send", "finish", "done"},
   boards : SUBSET Board, board : Board \cup {NoBoard}, candidates : SUBSET Trigger,
   column : Column \cup {Nowhere}, trigger : Trigger \cup {NoTrigger},
   outcome : {"none", "sent", "failed"}, cutShort : BOOLEAN]

Row == [status : Status, column : Column \cup {Nowhere}]

\* The tables and the goroutines hold values of their kinds; an edit that is about to
\* write has read a trigger, and a goroutine names the board whose context it loads and
\* the trigger it sends for.
TypeOK ==
  /\ placement \in [Board -> Column \cup {Nowhere}]
  /\ move \in [Event -> Target]
  /\ trigger \in [Trigger -> {"unborn", "on", "off", "deleted"}]
  /\ edit \in [Editor -> EditRecord]
  /\ event \in [Event -> EventRecord]
  /\ dispatch \in [Event -> Goroutine]
  /\ delivery \in [Trigger \X Event -> Row]
  /\ received \in [Trigger \X Event -> Nat]
  /\ stops \in 0 .. MaxStops
  /\ \A x \in Editor : edit[x].stage = "write" => /\ edit[x].trigger # NoTrigger
                                                 /\ edit[x].read # "none"
  /\ \A e \in Event :
       /\ dispatch[e].stage = "load" => dispatch[e].board # NoBoard
       /\ dispatch[e].stage \in {"send", "finish"} => dispatch[e].trigger # NoTrigger

\* "A send with no row is a message nobody can find out about": whatever multichat has
\* accepted has a delivery row that says it was at least handed over, unless the trigger
\* was deleted and its rows with it - across stops, lost answers and failed statements.
NothingSentUnrecorded ==
  \A t \in Trigger, e \in Event :
    received[<<t, e>>] > 0 => delivery[<<t, e>>].status \in {"pending", "sent", "failed"}
                          \/ trigger[t] = "deleted"

\* "An event is delivered at most once per trigger", and "sent: multichat accepted it".
SentOnceAndTruly ==
  \A t \in Trigger, e \in Event :
    /\ received[<<t, e>>] <= 1
    /\ delivery[<<t, e>>].status = "sent" => received[<<t, e>>] = 1

\* "FireTriggersFor returns when each [matching trigger] has a delivery row": an event of
\* a board that matches an enabled trigger without a priority filter is answered by a
\* row that says what became of it, and does not stay pending, unless the trigger is
\* changed, the process stops or a statement fails.
MatchesAreAnswered ==
  \A t \in Trigger, e \in Event :
    (/\ dispatch[e].stage = "boards" /\ event[e].board = Rule[t].board
     /\ Matches(t, e) /\ trigger[t] = "on" /\ ~Rule[t].ranked)
      ~> (delivery[<<t, e>>].status \notin {"none", "pending"} \/ trigger[t] # "on" \/ dispatch[e].cutShort)

\* "ColumnName: the column the card is in after the action": a message about a move
\* names the column that its request put the card in, and is sent by a trigger on that
\* column of that board, wherever other requests have put the card before the event is
\* recorded and before the message is rendered.
MoveNamesItsColumn ==
  \A t \in Trigger, e \in Event :
    delivery[<<t, e>>].status = "sent" /\ event[e].kind = "card_moved" =>
      /\ delivery[<<t, e>>].column = move[e].to
      /\ Rule[t].board = move[e].board /\ Rule[t].to \in {AnyColumn, move[e].to}

\* "PATCH merges what is sent, {enabled: false} is the off switch": only a request that
\* says enabled turns a trigger on again.  Refuted: an edit that began before the switch
\* was thrown writes back the enabled it had read.
OffStaysOff ==
  [][\A t \in Trigger :
       trigger[t] = "off" /\ trigger'[t] = "on" =>
         \E x \in Editor : /\ edit[x].stage = "write" /\ edit'[x].stage = "done"
                           /\ edit[x].asks = "on"]_vars
=============================================================================
