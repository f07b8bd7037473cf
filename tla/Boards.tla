-------------------------------- MODULE Boards --------------------------------
(***************************************************************************)
(* Boards, their columns and the rows of cards in them, as they come and   *)
(* go: a board and the grant of its creator, the edits of columns, and the *)
(* placements from which a card's one shared work state is read            *)
(* (internal/api/api.go, internal/api/principal_access.go,                 *)
(* internal/db/db.go, internal/model/work_state_selection.go).             *)
(*                                                                         *)
(* Every statement and every call of grant-store is a step of its own.  A  *)
(* handler that looked for a board or a column may find it gone when it    *)
(* writes: foreign keys are on, so the write is refused, and what a board  *)
(* or a column holds goes when it goes.  An edit of a column reads the     *)
(* row, merges what was sent and writes all of it back, naming no version. *)
(*                                                                         *)
(* WIP limits, events and arrivals are CardPlacement's and CardTimeline's  *)
(* subjects; the settings of a board are those of BoardSettings, whose     *)
(* names are disjoint from these: BoardsProofs extends both.               *)
(***************************************************************************)
EXTENDS Naturals, FiniteSets, SequencesExt

CONSTANTS
  Board,         \* numbers, for ids that are compared
  Column, Card,
  Principal,     \* people: each request is one's, or the service token's
  State,         \* work states
  MaxPosition, MaxClock,
  Start,         \* what the store and grant-store may hold at the start
  ColumnPatch,   \* what a PATCH of a column may name
  Order,         \* what a reorder may ask: columns with a position each
  Op,            \* the operations clients use
  Request,       \* every request that is ever sent
  MaxOpen,       \* how many are open at once
  Fallible,      \* the requests during which calls may fail or the server stop
  Service,       \* the caller with the service token, whom no rule binds
  Keep,          \* the patch does not name the field
  None           \* no column, no board, no state

\* BoardAccessLevel, in its order.
Level == 0..3
View == 1
Change == 2
Administer == 3

ColumnField == {"position", "state"}
Position == 0..MaxPosition
Row == [board : Board, position : Position, state : State \cup {None}]
Place == [column : Column, moved : 0..MaxClock]

\* At the start the foreign keys hold, and no row has moved at an instant to come.
Consistent(s) ==
  /\ \A c \in Column : s.column[c] # None => s.board[s.column[c].board] = "there"
  /\ \A k \in Card, b \in Board : s.place[k][b] # None =>
       LET there == s.place[k][b].column
       IN s.column[there] # None /\ s.column[there].board = b /\ s.place[k][b].moved <= 1

ASSUME BoardAssumption ==
  /\ Board \subseteq Nat /\ IsFiniteSet(Board) /\ MaxClock \in Nat \ {0} /\ MaxPosition \in Nat
  /\ None \notin Board \cup Row \cup Place
  /\ Service \notin Principal
  /\ ColumnPatch \subseteq [position : Position \cup {Keep}, state : State \cup {None, Keep}]
  /\ Order \subseteq Seq([column : Column, position : Position]) \ {<<>>}
  /\ \A s \in Start : /\ s.board \in [Board -> {"unborn", "there"}]
                      /\ s.column \in [Column -> Row \cup {None}]
                      /\ s.place \in [Card -> [Board -> Place \cup {None}]]
                      /\ s.grant \in [Principal -> [Board -> Level]]
                      /\ Consistent(s)
  /\ Fallible \subseteq Request

VARIABLES
  board,      \* boards: each not yet there, there, or gone
  column,     \* columns: the row of each, or None
  minted,     \* the columns that were ever created: no id is used twice
  place,      \* placements: where each card is on each board, or None
  grant,      \* grant-store: what each principal may do on each board
  clock,
  req,        \* what each request has done so far
  creation,   \* history: who created each board, and what they were told
  saved,      \* history: for each field of a column, the value last saved, and
              \* whether a request that had read the row before was still to write it
  turn,       \* history: the boards each card was put on, in that order
  tangled     \* history: the cards that two requests were placing at once

store == <<board, column, minted, place>>
history == <<creation, saved, turn, tangled>>
vars == <<store, grant, clock, req, history>>

NoPatch == [position |-> Keep, state |-> Keep]

Closed(stage) ==
  [stage |-> stage, op |-> "none", by |-> Service, levels |-> [b \in Board |-> 0],
   board |-> None, column |-> None, card |-> None, patch |-> NoPatch, rest |-> <<>>,
   copy |-> None, moved |-> 0]

Open == {r \in Request : req[r].stage \notin {"new", "done"}}

Boards(k) == {b \in Board : place[k][b] # None}

Init ==
  /\ \E s \in Start : board = s.board /\ column = s.column /\ place = s.place /\ grant = s.grant
  /\ minted = {c \in Column : column[c] # None}
  /\ clock = 1
  /\ req = [r \in Request |-> Closed("new")]
  /\ creation = [b \in Board |-> [by |-> Service, told |-> "nothing"]]
  /\ saved = [c \in Column |-> [f \in ColumnField |-> [value |-> Keep, threatened |-> TRUE]]]
  /\ turn \in [Card -> UNION {SetToSeqs(Boards(k)) : k \in Card}]
  /\ \A k \in Card : /\ turn[k] \in SetToSeqs(Boards(k))
                     /\ \A i, j \in DOMAIN turn[k] : i <= j =>
                          place[k][turn[k][i]].moved <= place[k][turn[k][j]].moved
  /\ tangled = {}

-----------------------------------------------------------------------------
(* Who may do what *)

\* A board the principal cannot see is passed over.
MutLevelOnCard(levels, boards) ==
  LET Lowest(low, b) == IF levels[b] >= View /\ levels[b] < low THEN levels[b] ELSE low
  IN IF \A i \in DOMAIN boards : levels[boards[i]] < View THEN 0
     ELSE FoldLeft(Lowest, Administer, boards)

\* levelOnCard, over the card's boards in the order they were listed.
LevelOnCard(levels, boards) ==
  LET Step(acc, b) == [seen |-> acc.seen \/ levels[b] >= View,
                       lowest |-> IF levels[b] < acc.lowest THEN levels[b] ELSE acc.lowest]
      acc == FoldLeft(Step, [seen |-> FALSE, lowest |-> Administer], boards)
  IN IF ~acc.seen THEN 0 ELSE IF acc.lowest < View THEN View ELSE acc.lowest

\* authorizeRequest: a board's own routes go by its level, a column's by that of its
\* board, and those of a card by the level on the card.
Allowed(q) ==
  CASE q.op = "create_board" -> TRUE
    [] q.op \in {"edit_column", "delete_column"} ->
         column[q.column] # None /\ q.levels[column[q.column].board] >= Administer
    [] q.op = "move" -> LevelOnCard(q.levels, SetToSeq(Boards(q.card))) >= Change
    [] q.op = "attach" -> /\ q.levels[q.board] >= Change
                          /\ LevelOnCard(q.levels, SetToSeq(Boards(q.card))) >= View
    [] q.op = "detach" -> q.levels[q.board] >= Change
    [] OTHER -> q.levels[q.board] >= Administer

-----------------------------------------------------------------------------
(* Requests *)

Goto(r, stage) == req' = [req EXCEPT ![r].stage = stage]
Close(r) == req' = [req EXCEPT ![r] = Closed("done")]

\* The first statement of each handler.
First ==
  [op \in {"create_board", "create_column", "edit_column", "reorder", "attach", "move",
           "delete_board", "delete_column", "detach"} |->
     CASE op = "create_board" -> "insert"
       [] op = "create_column" -> "board"
       [] op \in {"edit_column", "reorder"} -> "read"
       [] op \in {"attach", "move"} -> "look"
       [] OTHER -> "delete"]

\* Requests are alike: the next one sent is any one of them.
NextToSend(r) == req[r].stage = "new" /\ r = CHOOSE q \in Request : req[q].stage = "new"

Placing(q) == q.op \in {"attach", "move"}

\* The service token passes the gate, a principal's grants are read.
Begin(r, op, fields) ==
  /\ op \in Op /\ NextToSend(r) /\ Cardinality(Open) < MaxOpen
  /\ \E by \in Principal \cup {Service} :
       req' = [req EXCEPT ![r] = [fields EXCEPT !.op = op, !.by = by,
                                  !.stage = IF by = Service THEN First[op] ELSE "gate"]]
  /\ tangled' = IF op \in {"attach", "move"}
                   /\ \E q \in Open : Placing(req[q]) /\ req[q].card = fields.card
                THEN tangled \cup {fields.card} ELSE tangled
  /\ UNCHANGED <<store, grant, clock, creation, saved, turn>>

BeginBoard(r) ==
  LET blank == Closed("new") IN
  \/ \E b \in Board : /\ board[b] = "unborn" /\ \A q \in Open : req[q].board # b
                      /\ Begin(r, "create_board", [blank EXCEPT !.board = b])
  \/ \E b \in Board : /\ board[b] # "unborn"
                      /\ Begin(r, "delete_board", [blank EXCEPT !.board = b])

BeginColumn(r) ==
  LET blank == Closed("new") IN
  \/ \E b \in Board, c \in Column \ minted, state \in State \cup {None} :
       /\ board[b] # "unborn" /\ \A q \in Open : req[q].op = "create_column" => req[q].column # c
       /\ Begin(r, "create_column", [blank EXCEPT !.board = b, !.column = c, !.patch.state = state])
  \/ \E c \in minted, patch \in ColumnPatch :
       Begin(r, "edit_column", [blank EXCEPT !.column = c, !.patch = patch])
  \/ \E c \in minted : Begin(r, "delete_column", [blank EXCEPT !.column = c])
  \/ \E b \in Board, order \in Order :
       /\ \A i \in DOMAIN order : order[i].column \in minted
       /\ Begin(r, "reorder", [blank EXCEPT !.board = b, !.column = Head(order).column,
                                            !.patch.position = Head(order).position,
                                            !.rest = Tail(order)])

BeginCard(r) ==
  \E k \in Card, b \in Board :
    \/ \E c \in minted, op \in {"attach", "move"} :
         Begin(r, op, [Closed("new") EXCEPT !.card = k, !.board = b, !.column = c])
    \/ Begin(r, "detach", [Closed("new") EXCEPT !.card = k, !.board = b])

\* boardAccessOfPrincipal asks grant-store, on every request.
Gate(r) ==
  /\ req[r].stage = "gate"
  /\ req' = [req EXCEPT ![r].levels = grant[req[r].by], ![r].stage = "rule"]
  /\ UNCHANGED <<store, grant, clock, history>>

Rule(r) ==
  /\ req[r].stage = "rule"
  /\ IF Allowed(req[r]) THEN Goto(r, First[req[r].op]) ELSE Close(r)
  /\ UNCHANGED <<store, grant, clock, history>>

-----------------------------------------------------------------------------
(* A board and the grant of its creator *)

Tell(b, told) == creation' = [creation EXCEPT ![b].told = told]

CreateBoard(r) ==
  LET q == req[r] IN
  /\ q.stage = "insert" /\ q.op = "create_board"
  /\ board' = [board EXCEPT ![q.board] = "there"]
  /\ creation' = [creation EXCEPT ![q.board] =
                    [by |-> q.by, told |-> IF q.by = Service THEN "created" ELSE "nothing"]]
  /\ IF q.by = Service THEN Close(r) ELSE Goto(r, "grant")
  /\ UNCHANGED <<column, minted, place, grant, clock, saved, turn, tangled>>

MutGrantBoardAdministration(r) ==
  LET q == req[r] IN
  /\ q.stage = "grant"
  /\ \/ Close(r) /\ Tell(q.board, "created") /\ grant' = [grant EXCEPT ![q.by][q.board] = Administer]
     \/ /\ r \in Fallible
        /\ Close(r) /\ Tell(q.board, "not_created") /\ UNCHANGED grant
  /\ UNCHANGED <<store, clock, saved, turn, tangled>>

\* grant-store grants, refuses, or grants and its answer is lost.
GrantBoardAdministration(r) ==
  LET q == req[r]
      granted == [grant EXCEPT ![q.by][q.board] = Administer]
  IN
  /\ q.stage = "grant"
  /\ \/ Close(r) /\ Tell(q.board, "created") /\ grant' = granted
     \/ /\ r \in Fallible
        /\ Goto(r, "undo") /\ UNCHANGED creation /\ grant' \in {grant, granted}
  /\ UNCHANGED <<store, clock, saved, turn, tangled>>

\* What goes with these columns: ON DELETE CASCADE.
Drop(columns) ==
  /\ column' = [c \in Column |-> IF c \in columns THEN None ELSE column[c]]
  /\ place' = [k \in Card |-> [b \in Board |->
                 IF place[k][b] # None /\ place[k][b].column \in columns THEN None ELSE place[k][b]]]

RemoveBoard(b) ==
  /\ board' = [board EXCEPT ![b] = "gone"]
  /\ Drop({c \in Column : column[c] # None /\ column[c].board = b})
  /\ UNCHANGED minted

\* "a failed grant undoes the board rather than leaving it orphaned": 502, or 500 when
\* there is no board to delete any more.
UndoCreate(r) ==
  LET b == req[r].board IN
  /\ req[r].stage = "undo" /\ Close(r)
  /\ IF board[b] = "there"
     THEN RemoveBoard(b) /\ Tell(b, "not_created")
     ELSE Tell(b, "error") /\ UNCHANGED store
  /\ UNCHANGED <<grant, clock, saved, turn, tangled>>

DeleteBoard(r) ==
  LET b == req[r].board IN
  /\ req[r].stage = "delete" /\ req[r].op = "delete_board" /\ Close(r)
  /\ IF board[b] = "there" THEN RemoveBoard(b) ELSE UNCHANGED store
  /\ UNCHANGED <<grant, clock, history>>

-----------------------------------------------------------------------------
(* Columns *)

\* GetBoard, then MAX(position) + 1, or 0 on a board with no columns and, as its error
\* goes unread, when the query fails.
PlanColumn(r) ==
  LET q == req[r]
      taken == {column[c].position : c \in {d \in Column : column[d] # None /\ column[d].board = q.board}}
      next == IF taken = {} THEN 0 ELSE 1 + Max(taken)
  IN
  /\ q.op = "create_column"
  /\ \/ q.stage = "board" /\ IF board[q.board] = "there" THEN Goto(r, "max") ELSE Close(r)
     \/ \E position \in {next} \cup (IF r \in Fallible THEN {0} ELSE {}) :
          /\ q.stage = "max" /\ position \in Position
          /\ req' = [req EXCEPT ![r].patch.position = position, ![r].stage = "insert"]
  /\ UNCHANGED <<store, grant, clock, history>>

\* The foreign key refuses a column of a board that is gone.
InsertColumn(r) ==
  LET q == req[r] IN
  /\ q.stage = "insert" /\ q.op = "create_column" /\ Close(r)
  /\ IF board[q.board] = "there"
     THEN /\ column' = [column EXCEPT ![q.column] =
                          [board |-> q.board, position |-> q.patch.position, state |-> q.patch.state]]
          /\ minted' = minted \cup {q.column}
          /\ saved' = [saved EXCEPT ![q.column] =
                         [f \in ColumnField |-> [value |-> q.patch[f], threatened |-> FALSE]]]
     ELSE UNCHANGED <<column, minted, saved>>
  /\ UNCHANGED <<board, place, grant, clock, creation, turn, tangled>>

\* The first half of UpdateColumn. A reorder stops at a column that is gone.
ReadColumn(r) ==
  LET q == req[r] IN
  /\ q.stage = "read"
  /\ IF column[q.column] = None THEN Close(r)
     ELSE req' = [req EXCEPT ![r].copy = column[q.column], ![r].stage = "write"]
  /\ UNCHANGED <<store, grant, clock, history>>

\* A field that was not named is cleared.
MutMerged(row, patch) ==
  [row EXCEPT !.position = IF patch.position = Keep THEN row.position ELSE patch.position,
              !.state = IF patch.state = Keep THEN None ELSE patch.state]

Merged(row, patch) ==
  [row EXCEPT !.position = IF patch.position = Keep THEN @ ELSE patch.position,
              !.state = IF patch.state = Keep THEN @ ELSE patch.state]

Editing(q) == q.op \in {"edit_column", "reorder"}

\* The requests that will write back the value of this field that they have read.
Holding(r, c, f) ==
  {p \in Request \ {r} : /\ req[p].stage = "write" /\ Editing(req[p])
                         /\ req[p].column = c /\ req[p].patch[f] = Keep}

\* The second half: no row count is looked at, so a column that went is answered 200.
WriteColumn(r) ==
  LET q == req[r]
      c == q.column
  IN
  /\ q.stage = "write" /\ Editing(q)
  /\ IF column[c] = None THEN UNCHANGED <<column, saved>>
     ELSE /\ column' = [column EXCEPT ![c] = Merged(q.copy, q.patch)]
          /\ saved' = [saved EXCEPT ![c] = [f \in ColumnField |->
                         IF q.patch[f] = Keep THEN @[f]
                         ELSE [value |-> q.patch[f], threatened |-> Holding(r, c, f) # {}]]]
  /\ IF q.rest = <<>> THEN Close(r)
     ELSE req' = [req EXCEPT ![r].stage = "read", ![r].copy = None,
                             ![r].column = Head(q.rest).column,
                             ![r].patch.position = Head(q.rest).position,
                             ![r].rest = Tail(q.rest)]
  /\ UNCHANGED <<board, minted, place, grant, clock, creation, turn, tangled>>

DeleteColumn(r) ==
  /\ req[r].stage = "delete" /\ req[r].op = "delete_column" /\ Close(r)
  /\ Drop({req[r].column})
  /\ UNCHANGED <<board, minted, grant, clock, history>>

-----------------------------------------------------------------------------
(* The rows of cards *)

\* GetColumn, and the time of the move.
LookForColumn(r) ==
  LET q == req[r] IN
  /\ q.stage = "look"
  /\ IF column[q.column] # None /\ column[q.column].board = q.board
     THEN req' = [req EXCEPT ![r].moved = clock, ![r].stage = "write"]
     ELSE Close(r)
  /\ UNCHANGED <<store, grant, clock, history>>

Put(r) ==
  LET q == req[r] IN
  /\ place' = [place EXCEPT ![q.card][q.board] = [column |-> q.column, moved |-> q.moved]]
  /\ turn' = [turn EXCEPT ![q.card] = Append(@, q.board)]

\* The placement does not reference its column.
MutPutRow(r) ==
  LET q == req[r] IN
  /\ q.stage = "write" /\ Placing(q) /\ Close(r)
  /\ IF \/ board[q.board] # "there"
        \/ q.op = "move" /\ place[q.card][q.board] = None
     THEN UNCHANGED <<place, turn>>
     ELSE Put(r)
  /\ UNCHANGED <<board, column, minted, grant, clock, creation, saved, tangled>>

\* The upsert of AttachCard and the UPDATE of MoveCard, which writes to a row there is.
PutRow(r) ==
  LET q == req[r] IN
  /\ q.stage = "write" /\ Placing(q) /\ Close(r)
  /\ IF \/ column[q.column] = None
        \/ q.op = "move" /\ place[q.card][q.board] = None
     THEN UNCHANGED <<place, turn>>
     ELSE Put(r)
  /\ UNCHANGED <<board, column, minted, grant, clock, creation, saved, tangled>>

DetachRow(r) ==
  LET q == req[r] IN
  /\ q.stage = "delete" /\ q.op = "detach" /\ Close(r)
  /\ place' = [place EXCEPT ![q.card][q.board] = None]
  /\ UNCHANGED <<board, column, minted, grant, clock, history>>

-----------------------------------------------------------------------------
(* What is around *)

Tick ==
  /\ clock < MaxClock /\ \E r \in Open : Placing(req[r])
  /\ clock' = clock + 1
  /\ UNCHANGED <<store, grant, req, history>>

\* Somebody with grant-store's own routes gives or takes a level on a board.
Regrant(r) ==
  /\ "regrant" \in Op /\ NextToSend(r) /\ Close(r)
  /\ \E p \in Principal, b \in Board, level \in Level :
       /\ board[b] # "unborn"
       /\ grant' = [grant EXCEPT ![p][b] = level]
       /\ IF creation[b].told = "created" /\ creation[b].by = p
          THEN Tell(b, "handed_on") ELSE UNCHANGED creation
  /\ UNCHANGED <<store, clock, saved, turn, tangled>>

\* Answered 500 or 502, or not at all, with what was written left as it is.
CutShort(requests) ==
  /\ req' = [r \in Request |-> IF r \in requests THEN Closed("done") ELSE req[r]]
  /\ creation' = [b \in Board |->
       IF \E r \in requests : req[r].stage \in {"grant", "undo"} /\ req[r].board = b
       THEN [creation[b] EXCEPT !.told = "error"] ELSE creation[b]]
  /\ UNCHANGED <<store, grant, clock, saved, turn, tangled>>

Fail(r) == r \in Open \cap Fallible /\ req[r].stage # "grant" /\ CutShort({r})

Stop == Open \cap Fallible # {} /\ CutShort(Open)

Idle == (\A r \in Request : req[r].stage = "done") /\ UNCHANGED vars

Next ==
  \/ \E r \in Request :
       \/ BeginBoard(r) \/ BeginColumn(r) \/ BeginCard(r) \/ Gate(r) \/ Rule(r)
       \/ CreateBoard(r) \/ GrantBoardAdministration(r) \/ UndoCreate(r) \/ DeleteBoard(r)
       \/ PlanColumn(r) \/ InsertColumn(r) \/ ReadColumn(r) \/ WriteColumn(r) \/ DeleteColumn(r)
       \/ LookForColumn(r) \/ PutRow(r) \/ DetachRow(r)
       \/ Regrant(r) \/ Fail(r)
  \/ Tick \/ Stop \/ Idle

Spec == Init /\ [][Next]_vars

-----------------------------------------------------------------------------
(* The one work state of a card, as any of its readers finds it *)

\* The tie goes to the row that was read first.
MutBetter(k, b, a) == place[k][b].moved > place[k][a].moved

Better(k, b, a) ==
  \/ place[k][b].moved > place[k][a].moved
  \/ place[k][b].moved = place[k][a].moved /\ b < a

\* SharedWorkState, over the rows in the order they were read: the board that decides.
Shared(k, boards) ==
  LET Latest(latest, b) == IF latest = None \/ Better(k, b, latest) THEN b ELSE latest
  IN FoldLeft(Latest, None, boards)

-----------------------------------------------------------------------------
(* Properties *)

TypeOK ==
  /\ board \in [Board -> {"unborn", "there", "gone"}]
  /\ column \in [Column -> Row \cup {None}]
  /\ minted \subseteq Column
  /\ place \in [Card -> [Board -> Place \cup {None}]]
  /\ grant \in [Principal -> [Board -> Level]]
  /\ clock \in 1..MaxClock
  /\ DOMAIN req = Request
  /\ tangled \subseteq Card

\* "A failed grant undoes the board rather than leaving it orphaned" (api.go:220): who was
\* told their board was not created has left nothing behind, whoever used the board while
\* it was there; and who was told that it was created administers it, until grant-store
\* is told otherwise.
CreationIsWhole ==
  \A b \in Board :
    /\ creation[b].told = "not_created" =>
         /\ board[b] = "gone"
         /\ \A c \in Column : column[c] # None => column[c].board # b
         /\ \A k \in Card : place[k][b] = None
    /\ creation[b].told = "created" /\ creation[b].by # Service =>
         grant[creation[b].by][b] = Administer

\* Whatever is deleted between the look and the write of another request, no column is
\* left on a board that is gone, and no card in a column that is gone or on another board
\* (the foreign keys of db.go:80-105).
NothingOutlivesItsBoard ==
  /\ \A c \in Column : column[c] # None => board[column[c].board] = "there"
  /\ \A k \in Card, b \in Board : place[k][b] # None =>
       LET c == place[k][b].column IN column[c] # None /\ column[c].board = b

\* UpdateColumn and reorderColumns change the fields they were given and no other: what
\* was saved of a column stays, unless a request had read the row before the save and
\* wrote it back after.
SavedFieldsStay ==
  \A c \in Column, f \in ColumnField :
    ~saved[c][f].threatened /\ column[c] # None => column[c][f] = saved[c][f].value

\* "The placement moved most recently wins ... the same on every read"
\* (work_state_selection.go:24): the order of the rows does not tell, and on a card whose
\* placing requests came one after another the last of them decides, instants apart.
SharedStateIsTheLastMove ==
  \A k \in Card :
    LET last == turn[k][Max({i \in DOMAIN turn[k] : place[k][turn[k][i]] # None})]
    IN Boards(k) # {} =>
         \E b \in Boards(k) :
           /\ \A boards \in SetToSeqs(Boards(k)) : Shared(k, boards) = b
           /\ k \notin tangled =>
                (b = last \/ (place[k][b].moved = place[k][last].moved /\ b < last))

\* "Viewing needs view on any board the card sits on, and anything more needs it on every
\* one of them" (principal_access.go:146), whatever the order of the boards.
CardLevelIsTheRule ==
  \A p \in Principal, k \in Card : \A boards \in SetToSeqs(Boards(k)) :
    LET level == LevelOnCard(grant[p], boards) IN
    /\ level >= View <=> \E b \in Boards(k) : grant[p][b] >= View
    /\ \A needed \in {Change, Administer} :
         level >= needed <=> Boards(k) # {} /\ \A b \in Boards(k) : grant[p][b] >= needed
=============================================================================
