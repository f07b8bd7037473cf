---------------------------- MODULE CardPlacement ----------------------------
(***************************************************************************)
(* Where cards sit on boards, and the four requests that change it: create *)
(* a card on a board, attach an existing item, move a card, detach it      *)
(* (internal/api/api.go, internal/db/db.go).                               *)
(*                                                                         *)
(* Every request runs in a goroutine of its own, and every statement it    *)
(* sends to SQLite or to noteboard is a transaction of its own: nothing    *)
(* spans the check of a column's WIP limit and the write that follows it,  *)
(* nor the write and the event that reports it.  A request is therefore a  *)
(* record with a stage, and there is one action per statement that reads   *)
(* or writes shared state.                                                 *)
(*                                                                         *)
(* Boards and columns, with their settings, do not change here.            *)
(***************************************************************************)
EXTENDS Naturals, FiniteSets, Sequences

CONSTANTS
  Card,         \* noteboard item ids, those not minted yet included
  Board,
  Column,
  BoardOf,      \* the board of each column
  WipLimit,     \* columns.wip_limit, or Unlimited when it is null
  AutoStatus,   \* columns.auto_status, or NoStatus when it is null
  Request,      \* every request clients ever send
  MaxInFlight,  \* how many of them clients have open at once
  Fallible,     \* those of them during which a statement may fail or the server stop
  Unlimited, NoStatus, NoColumn, NoBoard, NoCard

Limited == {col \in Column : WipLimit[col] # Unlimited}

ASSUME ColumnAssumption ==
  /\ BoardOf \in [Column -> Board]
  /\ WipLimit \in [Column -> Nat \cup {Unlimited}]
  /\ AutoStatus \in [Column -> {"open", "done", "archived", NoStatus}]
  /\ Unlimited \notin Nat
  /\ NoColumn \notin Column
  /\ NoBoard \notin Board

ASSUME RequestAssumption ==
  /\ IsFiniteSet(Request)
  /\ MaxInFlight \in Nat \ {0}
  /\ Fallible \subseteq Request

ASSUME CardAssumption == IsFiniteSet(Card) /\ NoCard \notin Card

VARIABLES
  item,    \* noteboard: the status of each item, "absent" before it is created
  place,   \* placements: the column of each card on each board, or NoColumn
  log,     \* card_events, in the order they were recorded
  req,     \* what each request has done so far
  disturbed  \* history: the cards on which requests overlapped, or failed half way

vars == <<item, place, log, req, disturbed>>

Ops == {"none", "create", "attach", "move", "detach"}

\* Where a handler stands: the statement it sends next.
Stages == {"new", "read", "check", "item", "write", "reread", "log", "patch", "done", "failed"}

Event ==
  [card : Card, board : Board,
   kind : {"card_created", "card_attached", "card_moved", "card_detached"},
   from : Column \cup {NoColumn}, to : Column \cup {NoColumn}]

-----------------------------------------------------------------------------
(* What the handlers read *)

InColumn(col) == {c \in Card : place[c][BoardOf[col]] = col}

MutWipReached(col) ==
  /\ WipLimit[col] # Unlimited
  /\ Cardinality(InColumn(col)) > WipLimit[col]

\* db.CountColumnCards against columns.wip_limit, as checkWIP compares them.
WipReached(col) ==
  /\ WipLimit[col] # Unlimited
  /\ Cardinality(InColumn(col)) >= WipLimit[col]

Active == {r \in Request : req[r].stage \notin {"new", "done", "failed"}}

At(r, op, stage) == req[r].op = op /\ req[r].stage = stage

-----------------------------------------------------------------------------
Init ==
  /\ item = [c \in Card |-> "absent"]
  /\ place = [c \in Card |-> [b \in Board |-> NoColumn]]
  /\ log = <<>>
  /\ req = [r \in Request |->
              [stage |-> "new", op |-> "none", card |-> NoCard, board |-> NoBoard,
               col |-> NoColumn, from |-> NoColumn]]
  /\ disturbed = {}

\* Request r goes on to its next statement.
Goto(r, stage) == req' = [req EXCEPT ![r].stage = stage]

\* Request r is answered: nothing of it is left but what it wrote.
Close(r) ==
  req' = [req EXCEPT ![r] = [stage |-> "done", op |-> "none", card |-> NoCard,
                             board |-> NoBoard, col |-> NoColumn, from |-> NoColumn]]

\* Requests are alike: the next one sent is any one of them.
NextToSend(r) == r = CHOOSE q \in Request : req[q].stage = "new"

Begin(r, op, stage, c, b, col) ==
  /\ req[r].stage = "new" /\ NextToSend(r)
  /\ Cardinality(Active) < MaxInFlight
  /\ req' = [req EXCEPT ![r] = [stage |-> stage, op |-> op, card |-> c, board |-> b,
                                col |-> col, from |-> NoColumn]]
  /\ disturbed' = IF \E q \in Active : req[q].card = c THEN disturbed \cup {c} ELSE disturbed
  /\ UNCHANGED <<item, place, log>>

\* Ids noteboard is about to mint for a creation under way: no one else has them.
Reserved == {req[q].card : q \in {p \in Active : req[p].op = "create"}}

NextToMint(c) == c = CHOOSE d \in Card : item[d] = "absent" /\ d \notin Reserved

\* A request whose column is of another board is answered 400 before any write.
BeginCreate(r) ==
  \E c \in Card, col \in Column :
    /\ item[c] = "absent"
    /\ c \notin Reserved /\ NextToMint(c)
    /\ Begin(r, "create", "check", c, BoardOf[col], col)

\* PUT /boards/{id}/cards/{card} asks noteboard for the item first (404 if absent).
BeginAttach(r) ==
  \E c \in Card, col \in Column :
    /\ item[c] # "absent"
    /\ Begin(r, "attach", "check", c, BoardOf[col], col)

BeginMove(r) ==
  \E c \in Card, col \in Column :
    /\ item[c] # "absent"
    /\ Begin(r, "move", "read", c, BoardOf[col], col)

BeginDetach(r) ==
  \E c \in Card, b \in Board :
    /\ item[c] # "absent"
    /\ Begin(r, "detach", "write", c, b, NoColumn)

-----------------------------------------------------------------------------
(* The statements of the four handlers *)

\* moveCard reads the placement it starts from: only a crossing is checked.
MoveReadCurrent(r) ==
  LET current == place[req[r].card][req[r].board] IN
  /\ At(r, "move", "read")
  /\ req' = [req EXCEPT ![r].from = current,
                        ![r].stage = IF current = req[r].col THEN "write" ELSE "check"]
  /\ UNCHANGED <<item, place, log, disturbed>>

\* checkWIP: 409 ends the request; attach checks even the column the card is in.
CheckWip(r) ==
  /\ req[r].stage = "check"
  /\ IF WipReached(req[r].col) THEN Close(r)
     ELSE Goto(r, IF req[r].op = "create" THEN "item" ELSE "write")
  /\ UNCHANGED <<item, place, log, disturbed>>

CreateItem(r) ==
  /\ At(r, "create", "item")
  /\ item' = [item EXCEPT ![req[r].card] = "open"]
  /\ Goto(r, "write")
  /\ UNCHANGED <<place, log, disturbed>>

Put(r) == place' = [place EXCEPT ![req[r].card][req[r].board] = req[r].col]

\* A limit enforced again inside AttachCard, after the item was created.
MutAttachRow(r) ==
  /\ req[r].op \in {"create", "attach"} /\ req[r].stage = "write"
  /\ IF WipReached(req[r].col)
     THEN Close(r) /\ UNCHANGED place
     ELSE Put(r) /\ Goto(r, IF req[r].op = "create" THEN "patch" ELSE "log")
  /\ UNCHANGED <<item, log, disturbed>>

\* store.AttachCard: an INSERT that turns into an UPDATE when the card is there.
AttachRow(r) ==
  /\ req[r].op \in {"create", "attach"} /\ req[r].stage = "write"
  /\ Put(r)
  /\ Goto(r, IF req[r].op = "create" THEN "patch" ELSE "log")
  /\ UNCHANGED <<item, log, disturbed>>

\* store.MoveCard's UPDATE; no row is 404.
MoveRow(r) ==
  /\ At(r, "move", "write")
  /\ IF place[req[r].card][req[r].board] = NoColumn
     THEN Close(r) /\ UNCHANGED place
     ELSE Goto(r, "reread") /\ Put(r)
  /\ UNCHANGED <<item, log, disturbed>>

\* store.MoveCard reads the row back: gone again is 404, with the move unlogged.
MoveReread(r) ==
  /\ At(r, "move", "reread")
  /\ IF place[req[r].card][req[r].board] = NoColumn THEN Close(r) ELSE Goto(r, "log")
  /\ UNCHANGED <<item, place, log, disturbed>>

DetachRow(r) ==
  /\ At(r, "detach", "write")
  /\ IF place[req[r].card][req[r].board] = NoColumn
     THEN Close(r) /\ UNCHANGED place
     ELSE Goto(r, "log") /\ Put(r)
  /\ UNCHANGED <<item, log, disturbed>>

EventKind ==
  [create |-> "card_created", attach |-> "card_attached",
   move |-> "card_moved", detach |-> "card_detached"]

MutEventFrom(r) == place[req[r].card][req[r].board]

\* The column a move is said to come from is the one read before the write.
EventFrom(r) == req[r].from

\* recordEventAndFireMessageTriggers, after the write it describes.
Record(r) ==
  /\ req[r].stage = "log"
  /\ log' = Append(log, [card |-> req[r].card, board |-> req[r].board,
                         kind |-> EventKind[req[r].op],
                         from |-> EventFrom(r), to |-> req[r].col])
  /\ IF req[r].op = "move" THEN Goto(r, "patch") ELSE Close(r)
  /\ UNCHANGED <<item, place, disturbed>>

\* A status patched on every column, "open" where the column names none.
MutPatchStatus(r) ==
  /\ req[r].stage = "patch"
  /\ item' = [item EXCEPT ![req[r].card] =
                 IF AutoStatus[req[r].col] = NoStatus THEN "open" ELSE AutoStatus[req[r].col]]
  /\ IF req[r].op = "create" THEN Goto(r, "log") ELSE Close(r)
  /\ UNCHANGED <<place, log, disturbed>>

\* auto_status: a creation patches before it records its event, a move after.
PatchStatus(r) ==
  /\ req[r].stage = "patch"
  /\ item' = IF AutoStatus[req[r].col] = NoStatus THEN item
             ELSE [item EXCEPT ![req[r].card] = AutoStatus[req[r].col]]
  /\ IF req[r].op = "create" THEN Goto(r, "log") ELSE Close(r)
  /\ UNCHANGED <<place, log, disturbed>>

-----------------------------------------------------------------------------
(* Failures *)

\* A refused PATCH is reported in the answer and the handler goes on.
PatchRefused(r) ==
  /\ r \in Fallible
  /\ req[r].stage = "patch"
  /\ IF req[r].op = "create" THEN Goto(r, "log") ELSE Close(r)
  /\ UNCHANGED <<item, place, log>>
  /\ disturbed' = disturbed \cup {req[r].card}

\* A creation whose AttachCard failed still patches the item, then answers 500:
\* noteboard keeps an item no board holds.
CreateAttachFails(r) ==
  /\ r \in Fallible
  /\ At(r, "create", "write")
  /\ item' = IF AutoStatus[req[r].col] = NoStatus THEN item
             ELSE [item EXCEPT ![req[r].card] = AutoStatus[req[r].col]]
  /\ Goto(r, "failed")
  /\ UNCHANGED <<place, log>>
  /\ disturbed' = disturbed \cup {req[r].card}

HasWritten(r) == req[r].stage \in {"reread", "log", "patch"} \/ At(r, "create", "write")

\* A statement fails and the handler answers 4xx/5xx, or the server stops:
\* what was written stays and nothing undoes it.
Abandon(r) ==
  /\ r \in Fallible
  /\ r \in Active
  /\ IF HasWritten(r)
     THEN Goto(r, "failed") /\ disturbed' = disturbed \cup {req[r].card}
     ELSE Close(r) /\ UNCHANGED disturbed
  /\ UNCHANGED <<item, place, log>>

-----------------------------------------------------------------------------
Handle(r) ==
  \/ MoveReadCurrent(r) \/ CheckWip(r) \/ CreateItem(r)
  \/ AttachRow(r) \/ MoveRow(r) \/ MoveReread(r) \/ DetachRow(r)
  \/ Record(r) \/ PatchStatus(r)

\* Every request was sent and answered: the server waits.
Idle == (\A r \in Request : req[r].stage \in {"done", "failed"}) /\ UNCHANGED vars

Next ==
  \/ \E r \in Request :
       \/ BeginCreate(r) \/ BeginAttach(r) \/ BeginMove(r) \/ BeginDetach(r)
       \/ Handle(r)
       \/ PatchRefused(r) \/ CreateAttachFails(r) \/ Abandon(r)
  \/ Idle

Spec == Init /\ [][Next]_vars

-----------------------------------------------------------------------------
(* Properties *)

ReqRecord ==
  [stage : Stages, op : Ops, card : Card \cup {NoCard}, board : Board \cup {NoBoard},
   col : Column \cup {NoColumn}, from : Column \cup {NoColumn}]

\* The state is well formed, a card stands on a board only in a column of that
\* board, and every request that began names a card.
TypeOK ==
  /\ item \in [Card -> {"absent", "open", "done", "archived"}]
  /\ place \in [Card -> [Board -> Column \cup {NoColumn}]]
  /\ \A c \in Card, b \in Board : place[c][b] # NoColumn => BoardOf[place[c][b]] = b
  /\ log \in Seq(Event)
  /\ req \in [Request -> ReqRecord]
  /\ \A r \in Active : /\ req[r].card \in Card /\ req[r].board \in Board /\ req[r].op # "none"
                       /\ req[r].op = "detach" <=> req[r].col = NoColumn
                       /\ req[r].col # NoColumn => BoardOf[req[r].col] = req[r].board
                       /\ req[r].stage = "patch" => req[r].op \in {"create", "move"}

\* "wip_limit is enforced on create, attach and any move that crosses into the
\* column": no column ever holds more cards than its limit.
WipRespected ==
  \A col \in Limited : Cardinality(InColumn(col)) <= WipLimit[col]

\* What the check does guarantee, whatever the interleaving: each request open at
\* the same time as another may slip one card past the limit, and no more.
WipOvershootBounded ==
  \A col \in Limited : Cardinality(InColumn(col)) <= WipLimit[col] + (MaxInFlight - 1)

\* Requests let past the check that have not written yet: they, or a move inside
\* the column that another request overtook, will put their card into col.
Entering(col) == {r \in Active : req[r].stage \in {"item", "write"} /\ req[r].col = col}

Claimed(col) == InColumn(col) \cup {req[r].card : r \in Entering(col)}

\* Why the overshoot is bounded: the cards in a column and those on their way into
\* it together claim at most a slot for each open request beyond the limit less one.
WipClaimsBounded ==
  /\ Cardinality(Active) <= MaxInFlight
  /\ \A col \in Limited : Cardinality(Claimed(col)) <= WipLimit[col] + (MaxInFlight - 1)

\* The requests on card c that may leave it on no board: its creation and its detaching.
Emptying(c) == {r \in Request : req[r].card = c /\ req[r].op \in {"create", "detach"}}

\* No board holds a card noteboard does not have, and an item is on no board only
\* while its creation is under way, after its creation failed, or after it was
\* detached: a creation that was answered (201, or 409 for the limit) never leaves
\* an item behind that no board shows, whatever other requests do and fail to do.
NoOrphanItems ==
  \A c \in Card :
    /\ item[c] = "absent" => \A b \in Board : place[c][b] = NoColumn
    /\ item[c] # "absent" =>
         \/ \E b \in Board : place[c][b] # NoColumn
         \/ Emptying(c) # {}
         \/ \E i \in DOMAIN log : log[i].card = c /\ log[i].kind = "card_detached"

\* No request on card c is open.
Quiet(c) == \A r \in Active : req[r].card # c

EventsOf(c, b, n) == {i \in 1..n : log[i].card = c /\ log[i].board = b}

Latest(S) == CHOOSE i \in S : \A j \in S : j <= i

\* Where the first n events say card c is on board b.
ColumnTold(c, b, n) ==
  IF EventsOf(c, b, n) = {} THEN NoColumn ELSE log[Latest(EventsOf(c, b, n))].to

\* "Every action on a card is one row in an append-only log": for a card whose
\* requests never overlapped nor failed half way, whatever happens to other cards
\* meanwhile, the log tells between its requests where it is on every board, and each
\* card_moved leaves from the column the log had last put the card in.
LogReplaysPlacement ==
  \A c \in Card \ disturbed :
    /\ Quiet(c) => \A b \in Board : place[c][b] = ColumnTold(c, b, Len(log))
    /\ \A i \in DOMAIN log :
         log[i].card = c /\ log[i].kind = "card_moved" =>
           log[i].from = ColumnTold(c, log[i].board, i - 1)

\* Arrivals that apply auto_status: the events of creations and moves into a column
\* that has one.
StatusArrivals(c) ==
  {i \in DOMAIN log : /\ log[i].card = c
                      /\ log[i].kind \in {"card_created", "card_moved"}
                      /\ AutoStatus[log[i].to] # NoStatus}

\* auto_status "patches the noteboard item's status whenever a card is created in or
\* moved into that column": between the requests on a card that never overlapped nor
\* failed half way, the item reads what the last such arrival asked for, and attaching
\* to or leaving a column never changes it.
StatusFollowsArrivals ==
  \A c \in Card \ disturbed :
    Quiet(c) /\ item[c] # "absent" =>
      item[c] = IF StatusArrivals(c) = {} THEN "open"
                ELSE AutoStatus[log[Latest(StatusArrivals(c))].to]
=============================================================================
