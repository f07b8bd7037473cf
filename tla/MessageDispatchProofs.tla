------------------------ MODULE MessageDispatchProofs ------------------------
(***************************************************************************)
(* What the delivery rows of MessageDispatch can be believed for, whatever *)
(* the triggers, events, stops and failed statements.  The argument        *)
(* follows one trigger and one event from claim to outcome: while the      *)
(* goroutine of the event holds the claim its row is pending or has gone   *)
(* with the trigger, multichat accepts nothing before the claim, and the   *)
(* outcome is "sent" only of an accepted message.                          *)
(*                                                                         *)
(* ColumnInv follows the column of a move from its event to the message:   *)
(* it is what is rendered, or it is gone and no row promises a message.    *)
(* ChoiceInv follows the move from the request that wrote it to the event, *)
(* and the event to the triggers that take it up.                          *)
(***************************************************************************)
EXTENDS MessageDispatch, TLAPS

\* The row and the messages of one trigger and one event.
RowHonest(t, e) ==
  /\ received[<<t, e>>] \in {0, 1}
  /\ received[<<t, e>>] = 1 => delivery[<<t, e>>].status \in {"pending", "sent", "failed"}
                           \/ trigger[t] = "deleted"
  /\ delivery[<<t, e>>].status = "sent" => received[<<t, e>>] = 1

\* The claim a goroutine holds while it sends and writes the outcome down.
HoldsClaim(e) ==
  LET t == dispatch[e].trigger IN
  /\ dispatch[e].stage \in {"send", "finish"} =>
       delivery[<<t, e>>].status = "pending" \/ trigger[t] = "deleted"
  /\ dispatch[e].stage = "send" => received[<<t, e>>] = 0
  /\ dispatch[e].stage = "finish" =>
       dispatch[e].outcome \in {"sent", "failed"}
       /\ (dispatch[e].outcome = "sent" => received[<<t, e>>] = 1)

RowsHonest == \A t \in Trigger, e \in Event : RowHonest(t, e)
ClaimsHeld == \A e \in Event : HoldsClaim(e)

IInv == TypeOK /\ RowsHonest /\ ClaimsHeld

LEMMA NoMoveType == NoMove \in Target /\ NoMove.board = NoBoard /\ NoMove.to = Nowhere
BY DEF NoMove, Target

LEMMA InitIInv == Init => IInv
<1> SUFFICES ASSUME Init PROVE IInv
  OBVIOUS
<1> USE DispatchAssumption
<1>1. Idle \in Goroutine /\ Idle.stage = "idle"
  BY DEF Idle, Goroutine
<1>2. NoRow \in Row /\ NoRow.status = "none"
  BY DEF NoRow, Row, Status
<1>3. /\ \A e \in Event : dispatch[e] = Idle
      /\ \A t \in Trigger, e \in Event : delivery[<<t, e>>] = NoRow /\ received[<<t, e>>] = 0
  BY DEF Init
<1>4. TypeOK
  <2>1. dispatch \in [Event -> Goroutine] /\ delivery \in [Trigger \X Event -> Row]
        /\ received \in [Trigger \X Event -> Nat]
    BY <1>1, <1>2 DEF Init
  <2>2. event \in [Event -> EventRecord] /\ edit \in [Editor -> EditRecord]
    BY DEF Init, EventRecord, EditRecord
  <2>4. move \in [Event -> Target]
    BY NoMoveType DEF Init
  <2>3. /\ placement \in [Board -> Column \cup {Nowhere}]
        /\ trigger \in [Trigger -> {"unborn", "on", "off", "deleted"}]
        /\ stops \in 0 .. MaxStops
        /\ \A x \in Editor : edit[x].stage # "write"
    BY DEF Init
  <2>. QED BY <1>1, <1>3, <2>1, <2>2, <2>3, <2>4 DEF TypeOK
<1>5. RowsHonest /\ ClaimsHeld
  BY <1>1, <1>2, <1>3 DEF RowsHonest, RowHonest, ClaimsHeld, HoldsClaim
<1>. QED BY <1>4, <1>5 DEF IInv

\* An edit that ended has no trigger to write, a goroutine that ended nothing to send.
LEMMA AnsweredType == Answered \in EditRecord /\ Answered.stage = "done"
  BY DEF Answered, EditRecord

\* An ended goroutine is a goroutine.
LEMMA EndedType ==
  \A cutShort \in BOOLEAN : Ended(cutShort) \in Goroutine /\ Ended(cutShort).stage = "done"
  BY DEF Ended, Idle, Goroutine

\* Steps that leave the goroutines, the rows and multichat alone, and delete no trigger.
LEMMA OutsideSteps ==
  ASSUME IInv, TypeOK', UNCHANGED <<dispatch, delivery, received>>,
         \A t \in Trigger : trigger[t] = "deleted" => trigger'[t] = "deleted"
  PROVE  IInv'
<1>1. \A e \in Event : dispatch[e].stage \in {"send", "finish"} => dispatch[e].trigger \in Trigger
  BY DEF IInv, TypeOK, Goroutine
<1>2. RowsHonest'
  BY DEF IInv, RowsHonest, RowHonest
<1>3. ClaimsHeld'
  BY <1>1 DEF IInv, ClaimsHeld, HoldsClaim
<1>. QED BY <1>2, <1>3 DEF IInv

LEMMA TableSteps ==
  ASSUME IInv
  PROVE  /\ \A b \in Board, c \in Column \cup {Nowhere} : Relocate(b, c) => IInv'
         /\ \A t \in Trigger, state \in {"on", "off"} : CreateTrigger(t, state) => IInv'
         /\ \A x \in Editor, t \in Trigger, asks \in {"none", "on", "off"} :
              BeginEdit(x, t, asks) => IInv'
         /\ \A x \in Editor : FinishEdit(x) \/ RefuseEdit(x) => IInv'
         /\ \A e \in Event, b \in Board, c \in Column : WriteMove(e, b, c) => IInv'
         /\ \A e \in Event : FailToRecord(e) => IInv'
<1>0. /\ placement \in [Board -> Column \cup {Nowhere}] /\ move \in [Event -> Target]
      /\ trigger \in [Trigger -> {"unborn", "on", "off", "deleted"}]
      /\ edit \in [Editor -> EditRecord]
      /\ \A x \in Editor : edit[x].stage = "write" => edit[x].trigger # NoTrigger
                                                      /\ edit[x].read # "none"
  BY DEF IInv, TypeOK
<1>1. ASSUME NEW b \in Board, NEW c \in Column \cup {Nowhere}, Relocate(b, c) PROVE IInv'
  <2>1. TypeOK'
    BY <1>1 DEF IInv, TypeOK, Relocate
  <2>. QED BY <1>1, <2>1, OutsideSteps DEF Relocate
<1>2. ASSUME NEW t \in Trigger, NEW state \in {"on", "off"}, CreateTrigger(t, state) PROVE IInv'
  <2>1. TypeOK'
    BY <1>2 DEF IInv, TypeOK, CreateTrigger
  <2>2. \A u \in Trigger : trigger[u] = "deleted" => trigger'[u] = "deleted"
    BY <1>0, <1>2 DEF CreateTrigger
  <2>. QED BY <1>2, <2>1, <2>2, OutsideSteps DEF CreateTrigger
<1>3. ASSUME NEW x \in Editor, NEW t \in Trigger, NEW asks \in {"none", "on", "off"},
             BeginEdit(x, t, asks)
      PROVE  IInv'
  <2> DEFINE to == [stage |-> "write", trigger |-> t, asks |-> asks, read |-> trigger[t]]
  <2>1. to \in EditRecord /\ to.trigger # NoTrigger /\ to.read # "none"
    BY <1>3, DispatchAssumption DEF EditRecord, BeginEdit, Exists
  <2>2. edit' = [edit EXCEPT ![x] = to]
    BY <1>3 DEF BeginEdit
  <2> HIDE DEF to
  <2>3. /\ edit' \in [Editor -> EditRecord]
        /\ \A y \in Editor : edit'[y].stage = "write" => edit'[y].trigger # NoTrigger
                                                         /\ edit'[y].read # "none"
    BY <1>0, <2>1, <2>2
  <2>4. TypeOK'
    BY <1>3, <2>3 DEF IInv, TypeOK, BeginEdit
  <2>. QED BY <1>3, <2>4, OutsideSteps DEF BeginEdit
<1>4. ASSUME NEW x \in Editor, edit[x].stage = "write",
             edit' = [edit EXCEPT ![x] = Answered]
      PROVE  /\ edit' \in [Editor -> EditRecord]
             /\ \A y \in Editor : edit'[y].stage = "write" => edit'[y].trigger # NoTrigger
                                                              /\ edit'[y].read # "none"
  BY <1>0, <1>4, AnsweredType
<1>5. ASSUME NEW x \in Editor, FinishEdit(x) PROVE IInv'
  <2>0. /\ edit[x].stage = "write" /\ edit' = [edit EXCEPT ![x] = Answered]
        /\ edit[x].trigger \in Trigger
        /\ edit[x].asks \in {"none", "on", "off"} /\ edit[x].read \in {"on", "off"}
    BY <1>0, <1>5 DEF FinishEdit, EditRecord
  <2>1. \E state \in {"on", "off"} :
          trigger' = [trigger EXCEPT ![edit[x].trigger] = IF Exists(edit[x].trigger) THEN state ELSE @]
    <3>1. CASE edit[x].asks = "none"
      BY <1>5, <2>0, <3>1 DEF FinishEdit
    <3>2. CASE edit[x].asks # "none"
      BY <1>5, <2>0, <3>2 DEF FinishEdit
    <3>. QED BY <3>1, <3>2
  <2>2. /\ trigger' \in [Trigger -> {"unborn", "on", "off", "deleted"}]
        /\ \A u \in Trigger : trigger[u] = "deleted" => trigger'[u] = "deleted"
    BY <1>0, <2>0, <2>1 DEF Exists
  <2>3. TypeOK'
    BY <1>4, <1>5, <2>0, <2>2 DEF IInv, TypeOK, FinishEdit
  <2>. QED BY <1>5, <2>2, <2>3, OutsideSteps DEF FinishEdit
<1>6. ASSUME NEW x \in Editor, RefuseEdit(x) PROVE IInv'
  <2>1. TypeOK'
    BY <1>4, <1>6 DEF IInv, TypeOK, RefuseEdit
  <2>. QED BY <1>6, <2>1, OutsideSteps DEF RefuseEdit
<1>7. ASSUME NEW e \in Event, NEW b \in Board, NEW c \in Column, WriteMove(e, b, c) PROVE IInv'
  <2> DEFINE target == [board |-> b, to |-> c]
  <2>1. target \in Target
    BY DEF Target
  <2>2. /\ move' = [move EXCEPT ![e] = target] /\ placement' = [placement EXCEPT ![b] = c]
        /\ UNCHANGED <<trigger, edit, event, dispatch, delivery, received, stops>>
    BY <1>7 DEF WriteMove
  <2> HIDE DEF target
  <2>3. move' \in [Event -> Target] /\ placement' \in [Board -> Column \cup {Nowhere}]
    BY <1>0, <2>1, <2>2
  <2>4. TypeOK'
    BY <2>2, <2>3 DEF IInv, TypeOK
  <2>. QED BY <2>2, <2>4, OutsideSteps
<1>8. ASSUME NEW e \in Event, FailToRecord(e) PROVE IInv'
  <2>1. move' \in [Event -> Target]
    BY <1>0, <1>8, NoMoveType DEF FailToRecord
  <2>2. TypeOK'
    BY <1>8, <2>1 DEF IInv, TypeOK, FailToRecord
  <2>. QED BY <1>8, <2>2, OutsideSteps DEF FailToRecord
<1>. QED BY <1>1, <1>2, <1>3, <1>5, <1>6, <1>7, <1>8

\* A deleted trigger takes its rows with it, and keeps its messages unexplained only then.
LEMMA DeleteStep ==
  ASSUME IInv, NEW t \in Trigger, DeleteTrigger(t) PROVE IInv'
<1>0. NoRow \in Row /\ NoRow.status = "none"
  BY DispatchAssumption DEF NoRow, Row, Status
<1>1. /\ trigger \in [Trigger -> {"unborn", "on", "off", "deleted"}]
      /\ delivery \in [Trigger \X Event -> Row]
  BY DEF IInv, TypeOK
<1>2. /\ trigger' \in [Trigger -> {"unborn", "on", "off", "deleted"}]
      /\ delivery' \in [Trigger \X Event -> Row]
  BY <1>0, <1>1 DEF DeleteTrigger
<1>3. TypeOK'
  BY <1>2 DEF IInv, TypeOK, DeleteTrigger
<1>4. \A u \in Trigger, e \in Event :
        /\ u = t => trigger'[u] = "deleted" /\ delivery'[<<u, e>>].status = "none"
        /\ u # t => trigger'[u] = trigger[u] /\ delivery'[<<u, e>>] = delivery[<<u, e>>]
  BY <1>0, <1>1 DEF DeleteTrigger
<1>5. received' = received /\ dispatch' = dispatch
  BY DEF DeleteTrigger
<1>6. \A e \in Event : dispatch[e].stage \in {"send", "finish"} => dispatch[e].trigger \in Trigger
  BY DEF IInv, TypeOK, Goroutine
<1>7. RowsHonest'
  <2> SUFFICES ASSUME NEW u \in Trigger, NEW e \in Event PROVE RowHonest(u, e)'
    BY DEF RowsHonest
  <2>0. RowHonest(u, e)
    BY DEF IInv, RowsHonest
  <2>1. received'[<<u, e>>] = received[<<u, e>>]
    BY <1>5
  <2>2. CASE u = t
    BY <1>4, <2>0, <2>1, <2>2 DEF RowHonest
  <2>3. CASE u # t
    BY <1>4, <2>0, <2>1, <2>3 DEF RowHonest
  <2>. QED BY <2>2, <2>3
<1>8. ClaimsHeld'
  BY <1>4, <1>5, <1>6 DEF IInv, ClaimsHeld, HoldsClaim
<1>. QED BY <1>3, <1>7, <1>8 DEF IInv

\* A goroutine's step that touches no row and sends nothing, and does not end in a claim.
LEMMA QuietStep ==
  ASSUME IInv, NEW e \in Event, NEW to \in Goroutine, to.stage \notin {"send", "finish"},
         to.stage = "load" => to.board # NoBoard,
         dispatch' = [dispatch EXCEPT ![e] = to],
         UNCHANGED <<placement, move, trigger, edit, stops, delivery, received>>,
         event' \in [Event -> EventRecord]
  PROVE  IInv'
<1>0. dispatch \in [Event -> Goroutine]
  BY DEF IInv, TypeOK
<1>1. \A q \in Event : dispatch'[q] = IF q = e THEN to ELSE dispatch[q]
  BY <1>0
<1>2. dispatch' \in [Event -> Goroutine]
  BY <1>0
<1>3. TypeOK'
  BY <1>1, <1>2 DEF IInv, TypeOK
<1>4. RowsHonest'
  BY DEF IInv, RowsHonest, RowHonest
<1>5. ClaimsHeld'
  BY <1>1 DEF IInv, ClaimsHeld, HoldsClaim
<1>. QED BY <1>3, <1>4, <1>5 DEF IInv

LEMMA RecordStep ==
  ASSUME IInv, NEW e \in Event, NEW kind \in Kind, NEW b \in Board \cup {NoBoard},
         NEW c \in Column \cup {Nowhere}, Record(e, kind, b, c)
  PROVE  IInv'
<1> DEFINE to == [Idle EXCEPT !.stage = "boards"]
<1> DEFINE row == [kind |-> kind, board |-> b, to |-> c]
<1>1. to \in Goroutine /\ to.stage = "boards"
  BY DispatchAssumption DEF Idle, Goroutine
<1>2. row \in EventRecord
  BY DEF EventRecord, IInv, TypeOK
<1>3. dispatch' = [dispatch EXCEPT ![e] = to] /\ event' = [event EXCEPT ![e] = row]
  BY DEF Record
<1> HIDE DEF to, row
<1>4. event' \in [Event -> EventRecord]
  BY <1>2, <1>3 DEF IInv, TypeOK
<1>. QED BY <1>1, <1>3, <1>4, QuietStep DEF Record

LEMMA QuietSteps ==
  ASSUME IInv, NEW e \in Event
  PROVE  /\ FindBoards(e) \/ LoadContext(e) \/ GoOn(e) \/ FinishFails(e) => IInv'
         /\ \A b \in Board : ListTriggers(e, b) => IInv'
         /\ \A t \in Trigger : PassOver(e, t) \/ ClaimFails(e, t) => IInv'
<1>0. /\ dispatch[e] \in Goroutine /\ event[e] \in EventRecord /\ event \in [Event -> EventRecord]
      /\ placement \in [Board -> Column \cup {Nowhere}]
  BY DEF IInv, TypeOK
<1> DEFINE Move(to) == to \in Goroutine /\ to.stage \notin {"send", "finish"}
                       /\ (to.stage = "load" => to.board # NoBoard)
                       /\ dispatch' = [dispatch EXCEPT ![e] = to]
<1>q. ASSUME NEW to, Move(to), Unmoved, UNCHANGED <<delivery, received>> PROVE IInv'
  BY <1>0, <1>q, QuietStep DEF Unmoved
<1>1. ASSUME FindBoards(e) PROVE IInv'
  <2> DEFINE found == IF event[e].board # NoBoard THEN {event[e].board}
                      ELSE {b \in Board : placement[b] # Nowhere}
  <2>1. found \in SUBSET Board
    BY <1>0 DEF EventRecord
  <2> HIDE DEF found
  <2> DEFINE one == [dispatch[e] EXCEPT !.stage = "list", !.boards = found]
             two == Ended(TRUE)
  <2>2. one \in Goroutine /\ one.stage = "list" /\ two \in Goroutine /\ two.stage = "done"
    BY <1>0, <2>1, EndedType DEF Goroutine
  <2>3. \/ dispatch' = [dispatch EXCEPT ![e] = one]
        \/ dispatch' = [dispatch EXCEPT ![e] = two]
    BY <1>1 DEF FindBoards, found
  <2>4. Unmoved /\ UNCHANGED <<delivery, received>>
    BY <1>1 DEF FindBoards
  <2>5. Move(one) \/ Move(two)
    BY <2>2, <2>3
  <2> HIDE DEF one, two, Move
  <2>. QED BY <1>q, <2>4, <2>5
<1>2. ASSUME LoadContext(e) PROVE IInv'
  <2> DEFINE column == IF event[e].to # Nowhere THEN event[e].to
                       ELSE placement[dispatch[e].board]
  <2>0. column \in Column \cup {Nowhere}
    <3>1. dispatch[e].board \in Board
      BY <1>0, <1>2 DEF LoadContext, IInv, TypeOK, Goroutine
    <3>. QED BY <1>0, <3>1 DEF EventRecord
  <2>1. PICK read \in {column, Nowhere} :
          dispatch' = [dispatch EXCEPT ![e].stage = "deliver", ![e].column = read]
    BY <1>2 DEF LoadContext
  <2>r. read \in Column \cup {Nowhere}
    BY <2>0, <2>1
  <2> HIDE DEF column
  <2> DEFINE to == [dispatch[e] EXCEPT !.stage = "deliver", !.column = read]
  <2>2. Move(to)
    BY <1>0, <2>1, <2>r DEF Goroutine
  <2>3. Unmoved /\ UNCHANGED <<delivery, received>>
    BY <1>2 DEF LoadContext
  <2> HIDE DEF to, Move
  <2>. QED BY <1>q, <2>2, <2>3
<1>3. ASSUME GoOn(e) PROVE IInv'
  <2> DEFINE one == [dispatch[e] EXCEPT !.stage = "list"]
             two == Ended(dispatch[e].cutShort)
  <2>0. two \in Goroutine /\ two.stage = "done"
    BY <1>0, EndedType DEF Goroutine
  <2> HIDE DEF two
  <2>1. Move(one) \/ Move(two)
    BY <1>0, <1>3, <2>0 DEF GoOn, Goroutine, two
  <2>2. Unmoved /\ UNCHANGED <<delivery, received>>
    BY <1>3 DEF GoOn
  <2> HIDE DEF one, two, Move
  <2>. QED BY <1>q, <2>1, <2>2
<1>4. ASSUME FinishFails(e) PROVE IInv'
  <2> DEFINE to == [dispatch[e] EXCEPT !.stage = "deliver", !.cutShort = TRUE]
  <2>1. Move(to)
    BY <1>0, <1>4 DEF FinishFails, Goroutine
  <2>2. Unmoved /\ UNCHANGED <<delivery, received>>
    BY <1>4 DEF FinishFails
  <2> HIDE DEF to, Move
  <2>. QED BY <1>q, <2>1, <2>2
<1>5. ASSUME NEW b \in Board, ListTriggers(e, b) PROVE IInv'
  <2> DEFINE found == {t \in Trigger : Rule[t].board = b /\ trigger[t] = "on" /\ Matches(t, e)}
             after == IF found = {} THEN "list" ELSE "load"
             left == dispatch[e].boards \ {b}
  <2>1. found \in SUBSET Trigger /\ after \in {"list", "load"} /\ left \in SUBSET Board
    BY <1>0 DEF Goroutine
  <2>2. \/ dispatch' = [dispatch EXCEPT ![e].boards = left, ![e].board = b,
                                        ![e].candidates = found, ![e].stage = after]
        \/ dispatch' = [dispatch EXCEPT ![e].boards = left, ![e].cutShort = TRUE]
    BY <1>5 DEF ListTriggers
  <2>3. dispatch[e].stage = "list" /\ Unmoved /\ UNCHANGED <<delivery, received>>
    BY <1>5 DEF ListTriggers
  <2> HIDE DEF found, after, left
  <2> DEFINE one == [dispatch[e] EXCEPT !.boards = left, !.board = b, !.candidates = found,
                                        !.stage = after]
             two == [dispatch[e] EXCEPT !.boards = left, !.cutShort = TRUE]
  <2>4. one \in Goroutine /\ one.stage \in {"list", "load"} /\ one.board # NoBoard
    BY <1>0, <2>1, DispatchAssumption DEF Goroutine
  <2>5. two \in Goroutine /\ two.stage = "list"
    BY <1>0, <2>1, <2>3 DEF Goroutine
  <2>6. Move(one) \/ Move(two)
    BY <2>2, <2>4, <2>5
  <2> HIDE DEF one, two, Move
  <2>. QED BY <1>q, <2>3, <2>6
<1>6. ASSUME NEW t \in Trigger, PassOver(e, t) PROVE IInv'
  <2> DEFINE to == [dispatch[e] EXCEPT !.candidates = dispatch[e].candidates \ {t}]
  <2>1. Move(to)
    BY <1>0, <1>6 DEF PassOver, Goroutine
  <2>2. Unmoved /\ UNCHANGED <<delivery, received>>
    BY <1>6 DEF PassOver
  <2> HIDE DEF to, Move
  <2>. QED BY <1>q, <2>1, <2>2
<1>7. ASSUME NEW t \in Trigger, ClaimFails(e, t) PROVE IInv'
  <2> DEFINE to == [dispatch[e] EXCEPT !.candidates = dispatch[e].candidates \ {t},
                                       !.cutShort = TRUE]
  <2>1. Move(to)
    BY <1>0, <1>7 DEF ClaimFails, Goroutine
  <2>2. Unmoved /\ UNCHANGED <<delivery, received>>
    BY <1>7 DEF ClaimFails
  <2> HIDE DEF to, Move
  <2>. QED BY <1>q, <2>1, <2>2
<1>. QED BY <1>1, <1>2, <1>3, <1>4, <1>5, <1>6, <1>7

\* A goroutine's step on the row and the messages of one trigger.
LEMMA RowStep ==
  ASSUME IInv, NEW e \in Event, NEW t \in Trigger, NEW to \in Goroutine, to.trigger = t,
         to.stage # "load", dispatch' = [dispatch EXCEPT ![e] = to],
         NEW line \in Row, delivery' = [delivery EXCEPT ![<<t, e>>] = line],
         NEW count \in {0, 1}, received' = [received EXCEPT ![<<t, e>>] = count],
         UNCHANGED <<placement, move, trigger, edit, event, stops>>,
         count = 1 => line.status \in {"pending", "sent", "failed"} \/ trigger[t] = "deleted",
         line.status = "sent" => count = 1,
         to.stage \in {"send", "finish"} => line.status = "pending" \/ trigger[t] = "deleted",
         to.stage = "send" => count = 0,
         to.stage = "finish" => to.outcome \in {"sent", "failed"}
                                /\ (to.outcome = "sent" => count = 1)
  PROVE  IInv'
<1>0. /\ dispatch \in [Event -> Goroutine] /\ delivery \in [Trigger \X Event -> Row]
      /\ received \in [Trigger \X Event -> Nat]
  BY DEF IInv, TypeOK
<1>1. \A q \in Event : dispatch'[q] = IF q = e THEN to ELSE dispatch[q]
  BY <1>0
<1>2. \A u \in Trigger, q \in Event :
        /\ delivery'[<<u, q>>] = IF u = t /\ q = e THEN line ELSE delivery[<<u, q>>]
        /\ received'[<<u, q>>] = IF u = t /\ q = e THEN count ELSE received[<<u, q>>]
  BY <1>0
<1>3. /\ dispatch' \in [Event -> Goroutine] /\ delivery' \in [Trigger \X Event -> Row]
      /\ received' \in [Trigger \X Event -> Nat]
  BY <1>0
<1>4. TypeOK'
  <2>1. \A q \in Event :
          /\ dispatch'[q].stage = "load" => dispatch'[q].board # NoBoard
          /\ dispatch'[q].stage \in {"send", "finish"} => dispatch'[q].trigger # NoTrigger
    BY <1>1, DispatchAssumption DEF IInv, TypeOK
  <2>. QED BY <1>3, <2>1 DEF IInv, TypeOK
<1>5. RowsHonest'
  <2> SUFFICES ASSUME NEW u \in Trigger, NEW q \in Event PROVE RowHonest(u, q)'
    BY DEF RowsHonest
  <2>0. RowHonest(u, q)
    BY DEF IInv, RowsHonest
  <2>1. CASE u = t /\ q = e
    BY <1>2, <2>1 DEF RowHonest
  <2>2. CASE ~(u = t /\ q = e)
    BY <1>2, <2>0, <2>2 DEF RowHonest
  <2>. QED BY <2>1, <2>2
<1>6. \A q \in Event : dispatch[q].stage \in {"send", "finish"} => dispatch[q].trigger \in Trigger
  BY <1>0 DEF IInv, TypeOK, Goroutine
<1>7. ClaimsHeld'
  <2> SUFFICES ASSUME NEW q \in Event PROVE HoldsClaim(q)'
    BY DEF ClaimsHeld
  <2>1. CASE q = e
    BY <1>1, <1>2, <2>1 DEF HoldsClaim
  <2>2. CASE q # e
    BY <1>1, <1>2, <1>6, <2>2 DEF IInv, ClaimsHeld, HoldsClaim
  <2>. QED BY <2>1, <2>2
<1>. QED BY <1>4, <1>5, <1>7 DEF IInv

LEMMA ClaimStep ==
  ASSUME IInv, NEW e \in Event, NEW t \in Trigger, NEW status \in {"pending", "failed", "not_configured"},
         Claim(e, t, status)
  PROVE  IInv'
<1>0. /\ dispatch[e] \in Goroutine /\ delivery \in [Trigger \X Event -> Row]
      /\ received \in [Trigger \X Event -> Nat] /\ RowHonest(t, e)
      /\ trigger \in [Trigger -> {"unborn", "on", "off", "deleted"}]
  BY DEF IInv, TypeOK, RowsHonest
<1> DEFINE after == IF status = "pending" THEN "send" ELSE dispatch[e].stage
           to == [dispatch[e] EXCEPT !.candidates = dispatch[e].candidates \ {t},
                                     !.trigger = t, !.stage = after]
           line == [status |-> status, column |-> dispatch[e].column]
<1>1. /\ after \in {"send", "deliver"}
      /\ after = "send" => status = "pending"
  BY DEF Claim
<1>2. received[<<t, e>>] = 0
  BY <1>0 DEF Claim, Free, Exists, RowHonest
<1> DEFINE count == 0
<1>3. received' = [received EXCEPT ![<<t, e>>] = count] /\ count \in {0, 1} /\ count = 0
  BY <1>0, <1>2 DEF Claim
<1>4. delivery' = [delivery EXCEPT ![<<t, e>>] = line]
  BY DEF Claim
<1>5. dispatch' = [dispatch EXCEPT ![e] = to]
  BY DEF Claim
<1>6. UNCHANGED <<placement, move, trigger, edit, event, stops>>
  BY DEF Claim, Unmoved
<1>7. line \in Row /\ line.status = status
  BY <1>0 DEF Row, Goroutine, Status
<1> HIDE DEF after
<1>8. to \in Goroutine /\ to.trigger = t /\ to.stage = after
  BY <1>0, <1>1 DEF Goroutine
<1> HIDE DEF to, line, count
<1>9. /\ count # 1 /\ line.status # "sent" /\ to.stage \notin {"load", "finish"}
      /\ to.stage = "send" => line.status = "pending"
  BY <1>1, <1>3, <1>7, <1>8
<1>. QED BY <1>3, <1>4, <1>5, <1>6, <1>7, <1>8, <1>9, RowStep

LEMMA SendStep ==
  ASSUME IInv, NEW e \in Event, NEW accepted \in BOOLEAN, NEW answered \in BOOLEAN,
         Send(e, accepted, answered)
  PROVE  IInv'
<1> DEFINE t == dispatch[e].trigger
           result == IF accepted /\ answered THEN "sent" ELSE "failed"
           count == IF accepted THEN 1 ELSE 0
           line == delivery[<<t, e>>]
           to == [dispatch[e] EXCEPT !.stage = "finish", !.outcome = result]
<1>0. /\ dispatch[e] \in Goroutine /\ delivery \in [Trigger \X Event -> Row]
      /\ received \in [Trigger \X Event -> Nat] /\ dispatch[e].stage = "send"
      /\ t \in Trigger /\ HoldsClaim(e)
  BY DEF Send, IInv, TypeOK, Goroutine, ClaimsHeld
<1>1. /\ received[<<t, e>>] = 0
      /\ delivery[<<t, e>>].status = "pending" \/ trigger[t] = "deleted"
      /\ delivery[<<t, e>>].status # "sent"
  BY <1>0 DEF HoldsClaim, IInv, RowsHonest, RowHonest
<1>2. /\ count \in {0, 1} /\ result \in {"sent", "failed"}
      /\ result = "sent" => count = 1
  OBVIOUS
<1>3. received' = [received EXCEPT ![<<t, e>>] = count]
  BY <1>0, <1>1 DEF Send
<1>4. delivery' = [delivery EXCEPT ![<<t, e>>] = line]
  BY <1>0 DEF Send
<1>5. dispatch' = [dispatch EXCEPT ![e] = to]
  BY DEF Send
<1>6. UNCHANGED <<placement, move, trigger, edit, event, stops>>
  BY DEF Send, Unmoved
<1>7. /\ line \in Row /\ line.status # "sent"
      /\ line.status = "pending" \/ trigger[t] = "deleted"
  BY <1>0, <1>1
<1> HIDE DEF result, count
<1>8. to \in Goroutine /\ to.trigger = t /\ to.stage = "finish" /\ to.outcome = result
  BY <1>0, <1>2 DEF Goroutine
<1> HIDE DEF to, t, line
<1>. QED BY <1>0, <1>2, <1>3, <1>4, <1>5, <1>6, <1>7, <1>8, RowStep

LEMMA FinishStep ==
  ASSUME IInv, NEW e \in Event, Finish(e) PROVE IInv'
<1> DEFINE t == dispatch[e].trigger
           said == IF delivery[<<t, e>>].status = "none" THEN "none" ELSE dispatch[e].outcome
           line == [delivery[<<t, e>>] EXCEPT !.status = said]
           to == [dispatch[e] EXCEPT !.stage = "deliver"]
<1>0. /\ dispatch[e] \in Goroutine /\ delivery \in [Trigger \X Event -> Row]
      /\ received \in [Trigger \X Event -> Nat] /\ dispatch[e].stage = "finish"
      /\ t \in Trigger /\ HoldsClaim(e) /\ RowHonest(t, e)
      /\ dispatch[e].outcome \in {"none", "sent", "failed"}
  BY DEF Finish, IInv, TypeOK, Goroutine, ClaimsHeld, RowsHonest
<1>1. received[<<t, e>>] \in {0, 1} /\ received' = [received EXCEPT ![<<t, e>>] = received[<<t, e>>]]
  BY <1>0 DEF RowHonest, Finish
<1>2. line \in Row /\ line.status = said
  BY <1>0 DEF Row, Status
<1>3. delivery' = [delivery EXCEPT ![<<t, e>>] = line]
  BY <1>0 DEF Finish
<1>4. dispatch' = [dispatch EXCEPT ![e] = to]
  BY DEF Finish
<1>5. UNCHANGED <<placement, move, trigger, edit, event, stops>>
  BY DEF Finish, Unmoved
<1>6. to \in Goroutine /\ to.trigger = t /\ to.stage = "deliver"
  BY <1>0 DEF Goroutine
<1>7. said = "sent" => received[<<t, e>>] = 1
  BY <1>0 DEF HoldsClaim
<1>8. received[<<t, e>>] = 1 => said \in {"pending", "sent", "failed"} \/ trigger[t] = "deleted"
  BY <1>0 DEF HoldsClaim
<1> HIDE DEF line, to, said, t
<1>. QED BY <1>0, <1>1, <1>2, <1>3, <1>4, <1>5, <1>6, <1>7, <1>8, RowStep

LEMMA StopStep == ASSUME IInv, Stop PROVE IInv'
<1>0. dispatch \in [Event -> Goroutine] /\ edit \in [Editor -> EditRecord]
  BY DEF IInv, TypeOK
<1>1. Ended(TRUE) \in Goroutine /\ Ended(TRUE).stage = "done"
  BY EndedType
<1>2. \A e \in Event : dispatch'[e].stage \notin {"load", "send", "finish"}
  BY <1>0, <1>1 DEF Stop, Running, Goroutine
<1>3. dispatch' \in [Event -> Goroutine]
  BY <1>0, <1>1 DEF Stop
<1>5. edit' \in [Editor -> EditRecord] /\ \A x \in Editor : edit'[x].stage # "write"
  BY <1>0, AnsweredType DEF Stop, EditRecord
<1>6. stops' \in 0 .. MaxStops
  <2>1. stops \in 0 .. MaxStops /\ stops < MaxStops /\ stops' = stops + 1
    BY DEF Stop, IInv, TypeOK
  <2>. QED BY <2>1, DispatchAssumption
<1>4. move' \in [Event -> Target]
  BY NoMoveType DEF Stop, IInv, TypeOK
<1>7. TypeOK'
  BY <1>2, <1>3, <1>4, <1>5, <1>6 DEF IInv, TypeOK, Stop
<1>8. RowsHonest' /\ ClaimsHeld'
  BY <1>2 DEF Stop, IInv, RowsHonest, RowHonest, ClaimsHeld, HoldsClaim
<1>. QED BY <1>7, <1>8 DEF IInv

LEMMA NextIInv == IInv /\ [Next]_vars => IInv'
<1> SUFFICES ASSUME IInv, [Next]_vars PROVE IInv'
  OBVIOUS
<1>1. ASSUME NEW e \in Event, DispatchStep(e) PROVE IInv'
  <2>1. CASE \E b \in Board : ListTriggers(e, b)
    BY <2>1, QuietSteps
  <2>2. CASE \E t \in Trigger : PassOver(e, t) \/ ClaimFails(e, t)
    BY <2>2, QuietSteps
  <2>3. CASE \E t \in Trigger, status \in {"pending", "failed", "not_configured"} :
               Claim(e, t, status)
    BY <2>3, ClaimStep
  <2>4. CASE \E accepted, answered \in BOOLEAN : Send(e, accepted, answered)
    BY <2>4, SendStep
  <2>5. CASE FindBoards(e) \/ LoadContext(e) \/ GoOn(e) \/ FinishFails(e)
    BY <2>5, QuietSteps
  <2>6. CASE Finish(e)
    BY <2>6, FinishStep
  <2>. QED BY <1>1, <2>1, <2>2, <2>3, <2>4, <2>5, <2>6 DEF DispatchStep
<1>2. ASSUME NEW e \in Event, RecordCardWide(e) \/ RecordMoved(e)
      PROVE  IInv'
  <2>1. move[e].board \in Board \cup {NoBoard} /\ move[e].to \in Column \cup {Nowhere}
    BY DEF IInv, TypeOK, Target
  <2>. QED BY <1>2, <2>1, RecordStep DEF RecordCardWide, RecordMoved, Kind
<1>3. CASE UNCHANGED vars
  BY <1>3 DEF vars, IInv, TypeOK, RowsHonest, RowHonest, ClaimsHeld, HoldsClaim
<1>. QED BY <1>1, <1>2, <1>3, TableSteps, DeleteStep, StopStep DEF Next

LEMMA Invariance == Spec => []IInv
BY InitIInv, NextIInv, PTL DEF Spec

\* The tables, the goroutines and the edits hold values of their kinds.
THEOREM TypeCorrect == Spec => []TypeOK
<1>1. IInv => TypeOK
  BY DEF IInv
<1>. QED BY Invariance, <1>1, PTL

\* No message goes out that the delivery rows do not know of, unless they were deleted
\* with their trigger.
THEOREM EverySendRecorded == Spec => []NothingSentUnrecorded
<1>1. IInv => NothingSentUnrecorded
  BY DEF IInv, RowsHonest, RowHonest, NothingSentUnrecorded
<1>. QED BY Invariance, <1>1, PTL

\* No event is delivered twice for a trigger, and a row that says sent tells the truth.
THEOREM AtMostOnce == Spec => []SentOnceAndTruly
<1>1. ASSUME IInv, NEW t \in Trigger, NEW e \in Event
      PROVE  /\ received[<<t, e>>] <= 1
             /\ delivery[<<t, e>>].status = "sent" => received[<<t, e>>] = 1
  <2>1. RowHonest(t, e)
    BY <1>1 DEF IInv, RowsHonest
  <2>2. received[<<t, e>>] \in {0, 1}
    BY <2>1 DEF RowHonest
  <2>. QED BY <2>1, <2>2 DEF RowHonest
<1>2. IInv => SentOnceAndTruly
  BY <1>1 DEF SentOnceAndTruly
<1>. QED BY Invariance, <1>2, PTL

-----------------------------------------------------------------------------
(* A message about a move names the column the card moved into *)

Rendering(e) == dispatch[e].stage \in {"deliver", "send", "finish"}

\* What is rendered for an event, and what its rows that promise a message say.
ColumnKept(e) ==
  /\ event[e].kind = "none" =>
       dispatch[e].stage = "idle" /\ \A t \in Trigger : delivery[<<t, e>>].status = "none"
  /\ event[e].kind = "card_moved" =>
       /\ event[e].to # Nowhere
       /\ Rendering(e) => dispatch[e].column \in {event[e].to, Nowhere}
       /\ \A t \in Trigger :
            delivery[<<t, e>>].status \in {"pending", "sent"} =>
              delivery[<<t, e>>].column = event[e].to

\* A deleted trigger leaves no row, and gets none again.
DeletedGone ==
  \A t \in Trigger, e \in Event : trigger[t] = "deleted" => delivery[<<t, e>>].status = "none"

ColumnInv == DeletedGone /\ \A e \in Event : ColumnKept(e)

LEMMA InitColumn == Init => ColumnInv
<1> SUFFICES ASSUME Init PROVE ColumnInv
  OBVIOUS
<1>1. \A t \in Trigger, e \in Event : delivery[<<t, e>>].status = "none"
  BY DEF Init, NoRow
<1>2. \A e \in Event : event[e].kind = "none" /\ dispatch[e].stage = "idle"
  BY DEF Init, Idle
<1>3. QED
  BY <1>1, <1>2 DEF ColumnInv, DeletedGone, ColumnKept

\* Steps that touch neither goroutines nor events, and rows only by deleting a trigger's.
LEMMA OutsideColumn ==
  ASSUME TypeOK, ColumnInv, UNCHANGED <<dispatch, event>>,
         \A t \in Trigger, e \in Event : \/ delivery'[<<t, e>>].status = "none"
                                         \/ /\ delivery'[<<t, e>>] = delivery[<<t, e>>]
                                            /\ trigger'[t] = "deleted" => trigger[t] = "deleted"
  PROVE  ColumnInv'
<1>1. DeletedGone'
  BY DEF ColumnInv, DeletedGone
<1>2. ASSUME NEW e \in Event PROVE ColumnKept(e)'
  BY DEF ColumnInv, ColumnKept, Rendering
<1>3. QED
  BY <1>1, <1>2 DEF ColumnInv

LEMMA TableColumn ==
  ASSUME TypeOK, ColumnInv
  PROVE  /\ \A b \in Board, c \in Column \cup {Nowhere} : Relocate(b, c) => ColumnInv'
         /\ \A t \in Trigger, state \in {"on", "off"} : CreateTrigger(t, state) => ColumnInv'
         /\ \A x \in Editor, t \in Trigger, asks \in {"none", "on", "off"} :
              BeginEdit(x, t, asks) => ColumnInv'
         /\ \A x \in Editor : FinishEdit(x) \/ RefuseEdit(x) => ColumnInv'
         /\ \A t \in Trigger : DeleteTrigger(t) => ColumnInv'
         /\ \A e \in Event, b \in Board, c \in Column : WriteMove(e, b, c) => ColumnInv'
         /\ \A e \in Event : FailToRecord(e) => ColumnInv'
<1>0. trigger \in [Trigger -> {"unborn", "on", "off", "deleted"}]
  BY DEF TypeOK
<1>1. ASSUME NEW b \in Board, NEW c \in Column \cup {Nowhere}, Relocate(b, c) PROVE ColumnInv'
  BY <1>1, OutsideColumn DEF Relocate
<1>2. ASSUME NEW t \in Trigger, NEW state \in {"on", "off"}, CreateTrigger(t, state)
      PROVE  ColumnInv'
  <2>1. \A u \in Trigger : trigger'[u] = "deleted" => trigger[u] = "deleted"
    BY <1>0, <1>2 DEF CreateTrigger
  <2>2. QED
    BY <1>2, <2>1, OutsideColumn DEF CreateTrigger
<1>3. ASSUME NEW x \in Editor, NEW t \in Trigger, NEW asks \in {"none", "on", "off"},
             BeginEdit(x, t, asks)
      PROVE  ColumnInv'
  BY <1>3, OutsideColumn DEF BeginEdit
<1>4. ASSUME NEW x \in Editor, FinishEdit(x) PROVE ColumnInv'
  <2>1. \A u \in Trigger : trigger'[u] = "deleted" => trigger[u] = "deleted"
    <3>1. edit[x] \in EditRecord /\ edit[x].stage = "write" /\ edit[x].read # "none"
          /\ edit[x].trigger # NoTrigger
      BY <1>4 DEF FinishEdit, TypeOK
    <3>2. edit[x].trigger \in Trigger /\ edit[x].asks \in {"none", "on", "off"}
          /\ edit[x].read \in {"on", "off"}
      BY <3>1 DEF EditRecord
    <3>3. QED
      BY <1>0, <1>4, <3>2 DEF FinishEdit
  <2>2. QED
    BY <1>4, <2>1, OutsideColumn DEF FinishEdit
<1>5. ASSUME NEW x \in Editor, RefuseEdit(x) PROVE ColumnInv'
  BY <1>5, OutsideColumn DEF RefuseEdit
<1>6. ASSUME NEW t \in Trigger, DeleteTrigger(t) PROVE ColumnInv'
  <2>1. ASSUME NEW u \in Trigger, NEW e \in Event
        PROVE  \/ delivery'[<<u, e>>].status = "none"
               \/ /\ delivery'[<<u, e>>] = delivery[<<u, e>>]
                  /\ trigger'[u] = "deleted" => trigger[u] = "deleted"
    <3>1. delivery'[<<u, e>>] = IF u = t THEN NoRow ELSE delivery[<<u, e>>]
      BY <1>6 DEF DeleteTrigger
    <3>2. u # t => trigger'[u] = trigger[u]
      BY <1>0, <1>6 DEF DeleteTrigger
    <3>3. QED
      BY <3>1, <3>2 DEF NoRow
  <2>2. QED
    BY <1>6, <2>1, OutsideColumn DEF DeleteTrigger
<1>7. ASSUME NEW e \in Event, NEW b \in Board, NEW c \in Column, WriteMove(e, b, c) PROVE ColumnInv'
  BY <1>7, OutsideColumn DEF WriteMove
<1>8. ASSUME NEW e \in Event, FailToRecord(e) PROVE ColumnInv'
  BY <1>8, OutsideColumn DEF FailToRecord
<1>9. QED
  BY <1>1, <1>2, <1>3, <1>4, <1>5, <1>6, <1>7, <1>8

\* An event is recorded with the column it moved into, and nothing is rendered of it yet.
LEMMA RecordColumn ==
  ASSUME TypeOK, ColumnInv, NEW e \in Event, NEW kind \in Kind, NEW b, NEW c,
         Record(e, kind, b, c), kind = "card_moved" => c # Nowhere
  PROVE  ColumnInv'
<1>1. /\ event' = [event EXCEPT ![e] = [kind |-> kind, board |-> b, to |-> c]]
      /\ dispatch' = [dispatch EXCEPT ![e] = [Idle EXCEPT !.stage = "boards"]]
      /\ UNCHANGED <<trigger, delivery>> /\ event[e].kind = "none"
  BY DEF Record
<1>2. /\ event'[e].kind = kind /\ event'[e].to = c /\ dispatch'[e].stage = "boards"
      /\ \A q \in Event \ {e} : event'[q] = event[q] /\ dispatch'[q] = dispatch[q]
  BY <1>1 DEF TypeOK, Idle
<1>3. \A t \in Trigger : delivery[<<t, e>>].status = "none"
  BY <1>1 DEF ColumnInv, ColumnKept
<1>4. kind # "none"
  BY DEF Kind
<1>5. ASSUME NEW q \in Event PROVE ColumnKept(q)'
  <2>1. CASE q = e
    BY <1>1, <1>2, <1>3, <1>4, <2>1 DEF ColumnKept, Rendering
  <2>2. CASE q # e
    BY <1>1, <1>2, <2>2 DEF ColumnInv, ColumnKept, Rendering
  <2>3. QED
    BY <2>1, <2>2
<1>6. QED
  BY <1>1, <1>5 DEF ColumnInv, DeletedGone

\* A goroutine's step: the column rendered is the one loaded, and a row it writes says so.
LEMMA GoroutineColumn ==
  ASSUME TypeOK, ColumnInv, NEW e \in Event, dispatch[e].stage # "idle",
         UNCHANGED <<event, trigger>>, \A q \in Event \ {e} : dispatch'[q] = dispatch[q],
         event[e].kind = "card_moved" /\ Rendering(e)' => dispatch'[e].column \in {event[e].to, Nowhere},
         \A t \in Trigger, q \in Event :
           \/ delivery'[<<t, q>>] = delivery[<<t, q>>]
           \/ /\ q = e /\ trigger[t] # "deleted"
              /\ event[e].kind = "card_moved" /\ delivery'[<<t, e>>].status \in {"pending", "sent"} =>
                   delivery'[<<t, e>>].column = event[e].to
  PROVE  ColumnInv'
<1>1. DeletedGone'
  BY DEF ColumnInv, DeletedGone
<1>2. ColumnKept(e)'
  BY DEF ColumnInv, ColumnKept
<1>3. ASSUME NEW q \in Event, q # e PROVE ColumnKept(q)'
  <2>1. \A t \in Trigger : delivery'[<<t, q>>] = delivery[<<t, q>>]
    BY <1>3
  <2>2. dispatch'[q] = dispatch[q] /\ event' = event /\ ColumnKept(q)
    BY <1>3 DEF ColumnInv
  <2>3. QED
    BY <2>1, <2>2 DEF ColumnKept, Rendering
<1>4. QED
  BY <1>1, <1>2, <1>3 DEF ColumnInv

\* A goroutine stays with the column it loaded until it takes the next board.
LEMMA StepColumn ==
  ASSUME TypeOK, NEW e \in Event, NEW to,
         dispatch' = [dispatch EXCEPT ![e] = to], dispatch[e].stage # "idle",
         Rendering(e), to.column = dispatch[e].column, ColumnInv, Unmoved, UNCHANGED delivery
  PROVE  ColumnInv'
<1>1. /\ dispatch'[e] = to /\ \A q \in Event \ {e} : dispatch'[q] = dispatch[q]
      /\ UNCHANGED <<event, trigger>>
  BY DEF TypeOK, Unmoved
<1>2. event[e].kind = "card_moved" => dispatch'[e].column \in {event[e].to, Nowhere}
  BY <1>1 DEF ColumnInv, ColumnKept
<1>3. QED
  BY <1>1, <1>2, GoroutineColumn

\* A step that ends without anything to render.
LEMMA BareColumn ==
  ASSUME TypeOK, NEW e \in Event, NEW to,
         dispatch' = [dispatch EXCEPT ![e] = to], dispatch[e].stage # "idle",
         to.stage \notin {"deliver", "send", "finish"}, ColumnInv, Unmoved, UNCHANGED delivery
  PROVE  ColumnInv'
<1>1. /\ dispatch'[e] = to /\ \A q \in Event \ {e} : dispatch'[q] = dispatch[q]
      /\ UNCHANGED <<event, trigger>>
  BY DEF TypeOK, Unmoved
<1>2. ~Rendering(e)'
  BY <1>1 DEF Rendering
<1>3. QED
  BY <1>1, <1>2, GoroutineColumn

LEMMA DispatchColumn ==
  ASSUME IInv, ColumnInv, NEW e \in Event, DispatchStep(e)
  PROVE  ColumnInv'
<1>0. TypeOK /\ dispatch[e] \in Goroutine /\ dispatch \in [Event -> Goroutine]
  BY DEF IInv, TypeOK
<1>1. CASE FindBoards(e)
  <2> DEFINE found == IF event[e].board # NoBoard THEN {event[e].board}
                      ELSE {b \in Board : placement[b] # Nowhere}
             one == [dispatch[e] EXCEPT !.stage = "list", !.boards = found]
  <2>1. /\ dispatch' = [dispatch EXCEPT ![e] = one] \/ dispatch' = [dispatch EXCEPT ![e] = Ended(TRUE)]
        /\ dispatch[e].stage = "boards" /\ Unmoved /\ UNCHANGED delivery
    BY <1>1 DEF FindBoards
  <2> HIDE DEF found
  <2>2. one.stage = "list" /\ Ended(TRUE).stage = "done"
    BY <1>0 DEF Goroutine, Ended, Idle
  <2> HIDE DEF one
  <2>3. QED
    BY <1>0, <2>1, <2>2, BareColumn
<1>2. ASSUME NEW b \in Board, ListTriggers(e, b) PROVE ColumnInv'
  <2> DEFINE found == {t \in Trigger : Rule[t].board = b /\ trigger[t] = "on" /\ Matches(t, e)}
             after == IF found = {} THEN "list" ELSE "load"
             left == dispatch[e].boards \ {b}
             one == [dispatch[e] EXCEPT !.boards = left, !.board = b, !.candidates = found,
                                        !.stage = after]
             two == [dispatch[e] EXCEPT !.boards = left, !.cutShort = TRUE]
  <2>1. /\ dispatch' = [dispatch EXCEPT ![e] = one] \/ dispatch' = [dispatch EXCEPT ![e] = two]
        /\ dispatch[e].stage = "list" /\ Unmoved /\ UNCHANGED delivery
    BY <1>2 DEF ListTriggers
  <2>2. after \in {"list", "load"}
    OBVIOUS
  <2> HIDE DEF found, after, left
  <2>3. one.stage = after /\ two.stage = "list"
    BY <1>0, <2>1 DEF Goroutine
  <2> HIDE DEF one, two
  <2>4. QED
    BY <1>0, <2>1, <2>2, <2>3, BareColumn
<1>3. CASE LoadContext(e)
  <2> DEFINE column == IF event[e].to # Nowhere THEN event[e].to
                       ELSE placement[dispatch[e].board]
  <2>1. PICK read \in {column, Nowhere} :
          dispatch' = [dispatch EXCEPT ![e].stage = "deliver", ![e].column = read]
    BY <1>3 DEF LoadContext
  <2>2. dispatch[e].stage = "load" /\ UNCHANGED <<event, trigger, delivery>>
    BY <1>3 DEF LoadContext, Unmoved
  <2>3. event[e].kind = "card_moved" => read \in {event[e].to, Nowhere}
    BY <2>1 DEF ColumnInv, ColumnKept
  <2> HIDE DEF column
  <2>4. dispatch'[e].column = read /\ \A q \in Event \ {e} : dispatch'[q] = dispatch[q]
    BY <1>0, <2>1 DEF Goroutine
  <2>5. QED
    BY <1>0, <2>2, <2>3, <2>4, GoroutineColumn
<1>4. ASSUME NEW t \in Trigger, PassOver(e, t) \/ ClaimFails(e, t) PROVE ColumnInv'
  <2> DEFINE left == dispatch[e].candidates \ {t}
             one == [dispatch[e] EXCEPT !.candidates = left]
             two == [dispatch[e] EXCEPT !.candidates = left, !.cutShort = TRUE]
  <2>1. /\ dispatch' = [dispatch EXCEPT ![e] = one] \/ dispatch' = [dispatch EXCEPT ![e] = two]
        /\ dispatch[e].stage = "deliver" /\ Unmoved /\ UNCHANGED delivery
    BY <1>4 DEF PassOver, ClaimFails
  <2> HIDE DEF left
  <2>2. one.column = dispatch[e].column /\ two.column = dispatch[e].column
    BY <1>0 DEF Goroutine
  <2> HIDE DEF one, two
  <2>3. QED
    BY <1>0, <2>1, <2>2, StepColumn DEF Rendering
<1>5. ASSUME NEW t \in Trigger, NEW status \in {"pending", "failed", "not_configured"},
             Claim(e, t, status)
      PROVE  ColumnInv'
  <2> DEFINE left == dispatch[e].candidates \ {t}
             after == IF status = "pending" THEN "send" ELSE dispatch[e].stage
             to == [dispatch[e] EXCEPT !.candidates = left, !.trigger = t, !.stage = after]
             line == [status |-> status, column |-> dispatch[e].column]
  <2>1. /\ dispatch' = [dispatch EXCEPT ![e] = to]
        /\ delivery' = [delivery EXCEPT ![<<t, e>>] = line]
        /\ dispatch[e].stage = "deliver" /\ UNCHANGED <<event, trigger>> /\ status \in FirstStatus(e)
        /\ Exists(t)
    BY <1>5 DEF Claim, Unmoved, Free
  <2> HIDE DEF left, after
  <2>2. to.column = dispatch[e].column /\ line.status = status /\ line.column = dispatch[e].column
    BY <1>0 DEF Goroutine
  <2> HIDE DEF to, line
  <2>3. dispatch'[e].column = dispatch[e].column /\ \A q \in Event \ {e} : dispatch'[q] = dispatch[q]
    BY <1>0, <2>1, <2>2
  <2>4. event[e].kind = "card_moved" => dispatch[e].column \in {event[e].to, Nowhere}
    BY <2>1 DEF ColumnInv, ColumnKept, Rendering
  <2>5. status = "pending" => dispatch[e].column # Nowhere
    BY <2>1 DEF FirstStatus
  <2>6. \A u \in Trigger, q \in Event :
          delivery'[<<u, q>>] = IF u = t /\ q = e THEN line ELSE delivery[<<u, q>>]
    BY <1>0, <2>1 DEF TypeOK
  <2>7. trigger[t] # "deleted"
    BY <2>1 DEF Exists
  <2>8. QED
    BY <1>0, <2>1, <2>2, <2>3, <2>4, <2>5, <2>6, <2>7, GoroutineColumn
<1>6. ASSUME NEW accepted \in BOOLEAN, NEW answered \in BOOLEAN, Send(e, accepted, answered)
      PROVE  ColumnInv'
  <2> DEFINE result == IF accepted /\ answered THEN "sent" ELSE "failed"
             to == [dispatch[e] EXCEPT !.stage = "finish", !.outcome = result]
  <2>1. /\ dispatch' = [dispatch EXCEPT ![e] = to]
        /\ dispatch[e].stage = "send" /\ Unmoved /\ UNCHANGED delivery
    BY <1>6 DEF Send
  <2> HIDE DEF result
  <2>2. to.column = dispatch[e].column
    BY <1>0 DEF Goroutine
  <2> HIDE DEF to
  <2>3. QED
    BY <1>0, <2>1, <2>2, StepColumn DEF Rendering
<1>7. CASE Finish(e)
  <2> DEFINE t == dispatch[e].trigger
             said == IF delivery[<<t, e>>].status = "none" THEN "none" ELSE dispatch[e].outcome
             line == [delivery[<<t, e>>] EXCEPT !.status = said]
             to == [dispatch[e] EXCEPT !.stage = "deliver"]
  <2>1. /\ dispatch' = [dispatch EXCEPT ![e] = to]
        /\ dispatch[e].stage = "finish" /\ UNCHANGED <<event, trigger>>
    BY <1>7 DEF Finish, Unmoved
  <2>2. /\ t \in Trigger /\ delivery[<<t, e>>] \in Row /\ delivery \in [Trigger \X Event -> Row]
        /\ delivery[<<t, e>>].status = "pending" \/ trigger[t] = "deleted"
    BY <1>0, <2>1 DEF IInv, TypeOK, Goroutine, ClaimsHeld, HoldsClaim
  <2>3. delivery' = [delivery EXCEPT ![<<t, e>>] = line]
    BY <1>7, <2>2 DEF Finish
  <2> HIDE DEF said
  <2>4. line.column = delivery[<<t, e>>].column /\ line.status = said /\ line \in [status : {said}, column : Column \cup {Nowhere}]
    BY <2>2 DEF Row
  <2>5. trigger[t] = "deleted" => line = delivery[<<t, e>>]
    <3>1. trigger[t] = "deleted" => delivery[<<t, e>>].status = said
      BY <2>2 DEF ColumnInv, DeletedGone, said
    <3>2. QED
      BY <2>2, <3>1 DEF Row
  <2>6. to.column = dispatch[e].column
    BY <1>0 DEF Goroutine
  <2> HIDE DEF line, to
  <2>7. dispatch'[e].column = dispatch[e].column /\ \A q \in Event \ {e} : dispatch'[q] = dispatch[q]
    BY <1>0, <2>1, <2>6
  <2>8. event[e].kind = "card_moved" => dispatch[e].column \in {event[e].to, Nowhere}
    BY <2>1 DEF ColumnInv, ColumnKept, Rendering
  <2>9. \A u \in Trigger, q \in Event :
          delivery'[<<u, q>>] = IF u = t /\ q = e THEN line ELSE delivery[<<u, q>>]
    BY <2>2, <2>3
  <2>10. event[e].kind = "card_moved" /\ trigger[t] # "deleted" => line.column = event[e].to
    BY <2>2, <2>4 DEF ColumnInv, ColumnKept
  <2> HIDE DEF t
  <2>11. ASSUME NEW u \in Trigger, NEW q \in Event
         PROVE  \/ delivery'[<<u, q>>] = delivery[<<u, q>>]
                \/ /\ q = e /\ trigger[u] # "deleted"
                   /\ event[e].kind = "card_moved" => delivery'[<<u, e>>].column = event[e].to
    BY <2>5, <2>9, <2>10
  <2>12. QED
    BY <1>0, <2>1, <2>7, <2>8, <2>11, GoroutineColumn
<1>8. CASE FinishFails(e)
  <2> DEFINE to == [dispatch[e] EXCEPT !.stage = "deliver", !.cutShort = TRUE]
  <2>1. /\ dispatch' = [dispatch EXCEPT ![e] = to]
        /\ dispatch[e].stage = "finish" /\ Unmoved /\ UNCHANGED delivery
    BY <1>8 DEF FinishFails
  <2>2. to.column = dispatch[e].column
    BY <1>0 DEF Goroutine
  <2> HIDE DEF to
  <2>3. QED
    BY <1>0, <2>1, <2>2, StepColumn DEF Rendering
<1>9. CASE GoOn(e)
  <2> DEFINE one == [dispatch[e] EXCEPT !.stage = "list"]
             two == Ended(dispatch[e].cutShort)
  <2>1. /\ dispatch' = [dispatch EXCEPT ![e] = one] \/ dispatch' = [dispatch EXCEPT ![e] = two]
        /\ dispatch[e].stage \in {"deliver", "list"} /\ Unmoved /\ UNCHANGED delivery
    BY <1>9 DEF GoOn
  <2>2. one.stage = "list" /\ two.stage = "done"
    BY <1>0 DEF Goroutine, Ended, Idle
  <2> HIDE DEF one, two
  <2>3. QED
    BY <1>0, <2>1, <2>2, BareColumn
<1>10. QED
  BY <1>1, <1>2, <1>3, <1>4, <1>5, <1>6, <1>7, <1>8, <1>9 DEF DispatchStep

LEMMA StopColumn == ASSUME TypeOK, ColumnInv, Stop PROVE ColumnInv'
<1>1. \A e \in Event : dispatch'[e] = dispatch[e] \/ (dispatch[e].stage # "idle" /\ ~Rendering(e)')
  BY DEF Stop, TypeOK, Running, Rendering, Ended, Idle
<1>2. UNCHANGED <<trigger, event, delivery>>
  BY DEF Stop
<1>3. ASSUME NEW e \in Event PROVE ColumnKept(e)'
  BY <1>1, <1>2 DEF ColumnInv, ColumnKept, Rendering
<1>4. QED
  BY <1>2, <1>3 DEF ColumnInv, DeletedGone

-----------------------------------------------------------------------------
(* Whose message it is: the move that was written, and a trigger that asks *)
(* for it                                                                  *)

\* Trigger t asks for events like e.
Asks(t, e) == Matches(t, e) /\ (event[e].board # NoBoard => Rule[t].board = event[e].board)

\* A goroutine visits its event's board alone, and what it takes up or has claimed asks
\* for its event.
ChoiceKept(e) ==
  /\ event[e].board # NoBoard => dispatch[e].boards \subseteq {event[e].board}
  /\ \A t \in dispatch[e].candidates : Asks(t, e)
  /\ \A t \in Trigger : delivery[<<t, e>>].status # "none" => Asks(t, e)

\* The event of a move tells of what its request wrote.
MoveKept(e) ==
  /\ move[e] # NoMove => move[e].board \in Board /\ move[e].to \in Column
  /\ event[e].kind = "card_moved" =>
       move[e] # NoMove /\ event[e].board = move[e].board /\ event[e].to = move[e].to

ChoiceInv == \A e \in Event : ChoiceKept(e) /\ MoveKept(e)

LEMMA InitChoice == Init => ChoiceInv
<1> SUFFICES ASSUME Init, NEW e \in Event PROVE ChoiceKept(e) /\ MoveKept(e)
  BY DEF ChoiceInv
<1>1. /\ dispatch[e].boards = {} /\ dispatch[e].candidates = {} /\ event[e].kind = "none"
      /\ move[e] = NoMove /\ \A t \in Trigger : delivery[<<t, e>>].status = "none"
  BY DEF Init, Idle, NoRow
<1>2. QED
  BY <1>1 DEF ChoiceKept, MoveKept

\* No event is recorded, a goroutine at most drops boards and candidates, and a row that
\* was not there is of a candidate.
LEMMA Dropping ==
  ASSUME ChoiceInv, UNCHANGED <<event, move>>,
         \A e \in Event :
           /\ dispatch'[e].boards \subseteq dispatch[e].boards
           /\ dispatch'[e].candidates \subseteq dispatch[e].candidates
           /\ \A t \in Trigger : delivery'[<<t, e>>].status # "none" =>
                delivery[<<t, e>>].status # "none" \/ t \in dispatch[e].candidates
  PROVE  ChoiceInv'
<1> SUFFICES ASSUME NEW e \in Event PROVE (ChoiceKept(e) /\ MoveKept(e))'
  BY DEF ChoiceInv
<1>1. ChoiceKept(e) /\ MoveKept(e) /\ \A t : Asks(t, e)' <=> Asks(t, e)
  BY DEF ChoiceInv, Asks, Matches
<1>2. MoveKept(e)'
  BY <1>1 DEF MoveKept
<1>3. ChoiceKept(e)'
  BY <1>1 DEF ChoiceKept
<1>4. QED
  BY <1>2, <1>3

\* A request writes a move and has not recorded it, or gives up recording it.
LEMMA MoveChoice ==
  ASSUME TypeOK, ChoiceInv, NEW e \in Event, NEW to, event[e].kind = "none",
         to = NoMove \/ (to.board \in Board /\ to.to \in Column),
         move' = [move EXCEPT ![e] = to], UNCHANGED <<event, dispatch, delivery>>
  PROVE  ChoiceInv'
<1>1. move'[e] = to /\ \A q \in Event \ {e} : move'[q] = move[q]
  BY DEF TypeOK
<1>2. ASSUME NEW q \in Event PROVE MoveKept(q)'
  <2>1. CASE q = e
    BY <1>1, <2>1 DEF MoveKept
  <2>2. CASE q # e
    BY <1>1, <2>2 DEF ChoiceInv, MoveKept
  <2>3. QED
    BY <2>1, <2>2
<1>3. ASSUME NEW q \in Event PROVE ChoiceKept(q)'
  <2>1. ChoiceKept(q) /\ \A t : Asks(t, q)' <=> Asks(t, q)
    BY DEF ChoiceInv, Asks, Matches
  <2>2. QED
    BY <2>1 DEF ChoiceKept
<1>4. QED
  BY <1>2, <1>3 DEF ChoiceInv

LEMMA RecordChoice ==
  ASSUME TypeOK, ColumnInv, ChoiceInv, NEW e \in Event, NEW kind \in Kind, NEW b, NEW c,
         Record(e, kind, b, c),
         kind = "card_moved" => move[e] # NoMove /\ b = move[e].board /\ c = move[e].to
  PROVE  ChoiceInv'
<1>1. /\ event' = [event EXCEPT ![e] = [kind |-> kind, board |-> b, to |-> c]]
      /\ dispatch' = [dispatch EXCEPT ![e] = [Idle EXCEPT !.stage = "boards"]]
      /\ UNCHANGED <<move, delivery>> /\ event[e].kind = "none"
  BY DEF Record
<1>2. /\ event'[e].kind = kind /\ event'[e].board = b /\ event'[e].to = c
      /\ dispatch'[e].boards = {} /\ dispatch'[e].candidates = {}
      /\ \A q \in Event \ {e} : event'[q] = event[q] /\ dispatch'[q] = dispatch[q]
  BY <1>1 DEF TypeOK, Idle
<1>3. \A t \in Trigger : delivery[<<t, e>>].status = "none"
  BY <1>1 DEF ColumnInv, ColumnKept
<1>4. ASSUME NEW q \in Event PROVE MoveKept(q)'
  <2>1. CASE q = e
    BY <1>1, <1>2, <2>1 DEF ChoiceInv, MoveKept
  <2>2. CASE q # e
    BY <1>1, <1>2, <2>2 DEF ChoiceInv, MoveKept
  <2>3. QED
    BY <2>1, <2>2
<1>5. ASSUME NEW q \in Event PROVE ChoiceKept(q)'
  <2>1. CASE q = e
    BY <1>1, <1>2, <1>3, <2>1 DEF ChoiceKept
  <2>2. CASE q # e
    <3>1. ChoiceKept(q) /\ \A t : Asks(t, q)' <=> Asks(t, q)
      BY <1>2, <2>2 DEF ChoiceInv, Asks, Matches
    <3>2. dispatch'[q] = dispatch[q] /\ event'[q] = event[q] /\ delivery' = delivery
      BY <1>1, <1>2, <2>2
    <3>3. QED
      BY <3>1, <3>2 DEF ChoiceKept
  <2>3. QED
    BY <2>1, <2>2
<1>6. QED
  BY <1>4, <1>5 DEF ChoiceInv

\* The boards of a goroutine are its event's.
LEMMA BoardsChoice ==
  ASSUME TypeOK, ChoiceInv, NEW e \in Event, FindBoards(e) PROVE ChoiceInv'
<1> DEFINE found == IF event[e].board # NoBoard THEN {event[e].board}
                    ELSE {b \in Board : placement[b] # Nowhere}
           one == [dispatch[e] EXCEPT !.stage = "list", !.boards = found]
<1>1. /\ dispatch' = [dispatch EXCEPT ![e] = one] \/ dispatch' = [dispatch EXCEPT ![e] = Ended(TRUE)]
      /\ UNCHANGED <<event, move, delivery>>
  BY DEF FindBoards, Unmoved
<1>2. event[e].board # NoBoard => found \subseteq {event[e].board}
  OBVIOUS
<1> HIDE DEF found
<1>3. one.boards = found /\ one.candidates = dispatch[e].candidates
  BY DEF TypeOK, Goroutine
<1>4. Ended(TRUE).boards = {} /\ Ended(TRUE).candidates = {}
  BY DEF Ended, Idle
<1> HIDE DEF one
<1>5. /\ event[e].board # NoBoard => dispatch'[e].boards \subseteq {event[e].board}
      /\ dispatch'[e].candidates \subseteq dispatch[e].candidates
      /\ \A q \in Event \ {e} : dispatch'[q] = dispatch[q]
  BY <1>1, <1>2, <1>3, <1>4 DEF TypeOK
<1>6. ASSUME NEW q \in Event PROVE (ChoiceKept(q) /\ MoveKept(q))'
  <2>1. ChoiceKept(q) /\ MoveKept(q) /\ \A t : Asks(t, q)' <=> Asks(t, q)
    BY <1>1 DEF ChoiceInv, Asks, Matches
  <2>2. MoveKept(q)'
    BY <1>1, <2>1 DEF MoveKept
  <2>3. ChoiceKept(q)'
    BY <1>1, <1>5, <2>1 DEF ChoiceKept
  <2>4. QED
    BY <2>2, <2>3
<1>7. QED
  BY <1>6 DEF ChoiceInv

\* The triggers it takes up are of the board it visits, and match.
LEMMA ListChoice ==
  ASSUME TypeOK, ChoiceInv, NEW e \in Event, NEW b \in Board, ListTriggers(e, b) PROVE ChoiceInv'
<1> DEFINE found == {t \in Trigger : Rule[t].board = b /\ trigger[t] = "on" /\ Matches(t, e)}
           after == IF found = {} THEN "list" ELSE "load"
           left == dispatch[e].boards \ {b}
           one == [dispatch[e] EXCEPT !.boards = left, !.board = b, !.candidates = found,
                                      !.stage = after]
           two == [dispatch[e] EXCEPT !.boards = left, !.cutShort = TRUE]
<1>1. /\ dispatch' = [dispatch EXCEPT ![e] = one] \/ dispatch' = [dispatch EXCEPT ![e] = two]
      /\ b \in dispatch[e].boards /\ UNCHANGED <<event, move, delivery>>
  BY DEF ListTriggers, Unmoved
<1>2. \A t \in found : Asks(t, e)
  BY <1>1 DEF ChoiceInv, ChoiceKept, Asks
<1>3. left \subseteq dispatch[e].boards
  OBVIOUS
<1> HIDE DEF found, after, left
<1>4. /\ one.boards = left /\ one.candidates = found
      /\ two.boards = left /\ two.candidates = dispatch[e].candidates
  BY DEF TypeOK, Goroutine
<1> HIDE DEF one, two
<1>5. /\ dispatch'[e].boards \subseteq dispatch[e].boards
      /\ \A t \in dispatch'[e].candidates : t \in dispatch[e].candidates \/ Asks(t, e)
      /\ \A q \in Event \ {e} : dispatch'[q] = dispatch[q]
  BY <1>1, <1>2, <1>3, <1>4 DEF TypeOK
<1>6. ASSUME NEW q \in Event PROVE (ChoiceKept(q) /\ MoveKept(q))'
  <2>1. ChoiceKept(q) /\ MoveKept(q) /\ \A t : Asks(t, q)' <=> Asks(t, q)
    BY <1>1 DEF ChoiceInv, Asks, Matches
  <2>2. MoveKept(q)'
    BY <1>1, <2>1 DEF MoveKept
  <2>3. ChoiceKept(q)'
    BY <1>1, <1>5, <2>1 DEF ChoiceKept
  <2>4. QED
    BY <2>2, <2>3
<1>7. QED
  BY <1>6 DEF ChoiceInv

\* Every other step of a goroutine drops boards and candidates at most.
LEMMA GoroutineChoice ==
  ASSUME TypeOK, ChoiceInv, NEW e \in Event, DispatchStep(e) PROVE ChoiceInv'
<1>0. dispatch[e] \in Goroutine /\ dispatch \in [Event -> Goroutine]
  BY DEF TypeOK
<1>1. ASSUME NEW to, to.boards \subseteq dispatch[e].boards,
             to.candidates \subseteq dispatch[e].candidates,
             dispatch' = [dispatch EXCEPT ![e] = to], UNCHANGED <<event, move>>,
             \A t \in Trigger, q \in Event : delivery'[<<t, q>>].status # "none" =>
               delivery[<<t, q>>].status # "none" \/ (q = e /\ t \in dispatch[e].candidates)
      PROVE  ChoiceInv'
  <2>1. dispatch'[e] = to /\ \A q \in Event \ {e} : dispatch'[q] = dispatch[q]
    BY <1>0, <1>1
  <2>2. QED
    BY <1>1, <2>1, Dropping
<1>2. CASE LoadContext(e)
  <2>1. PICK read : dispatch' = [dispatch EXCEPT ![e].stage = "deliver", ![e].column = read]
    BY <1>2 DEF LoadContext
  <2> DEFINE to == [dispatch[e] EXCEPT !.stage = "deliver", !.column = read]
  <2>2. to.boards = dispatch[e].boards /\ to.candidates = dispatch[e].candidates
    BY <1>0 DEF Goroutine
  <2>3. dispatch' = [dispatch EXCEPT ![e] = to] /\ UNCHANGED <<event, move, delivery>>
    BY <1>2, <2>1 DEF LoadContext, Unmoved
  <2> HIDE DEF to
  <2>4. QED
    BY <1>1, <2>2, <2>3
<1>3. ASSUME NEW t \in Trigger, PassOver(e, t) \/ ClaimFails(e, t) PROVE ChoiceInv'
  <2> DEFINE left == dispatch[e].candidates \ {t}
             one == [dispatch[e] EXCEPT !.candidates = left]
             two == [dispatch[e] EXCEPT !.candidates = left, !.cutShort = TRUE]
  <2>1. /\ dispatch' = [dispatch EXCEPT ![e] = one] \/ dispatch' = [dispatch EXCEPT ![e] = two]
        /\ UNCHANGED <<event, move, delivery>>
    BY <1>3 DEF PassOver, ClaimFails, Unmoved
  <2>2. left \subseteq dispatch[e].candidates
    OBVIOUS
  <2> HIDE DEF left
  <2>3. /\ one.boards = dispatch[e].boards /\ one.candidates = left
        /\ two.boards = dispatch[e].boards /\ two.candidates = left
    BY <1>0 DEF Goroutine
  <2> HIDE DEF one, two
  <2>4. QED
    BY <1>1, <2>1, <2>2, <2>3
<1>4. ASSUME NEW t \in Trigger, NEW status \in {"pending", "failed", "not_configured"},
             Claim(e, t, status)
      PROVE  ChoiceInv'
  <2> DEFINE left == dispatch[e].candidates \ {t}
             after == IF status = "pending" THEN "send" ELSE dispatch[e].stage
             to == [dispatch[e] EXCEPT !.candidates = left, !.trigger = t, !.stage = after]
             line == [status |-> status, column |-> dispatch[e].column]
  <2>1. /\ dispatch' = [dispatch EXCEPT ![e] = to]
        /\ delivery' = [delivery EXCEPT ![<<t, e>>] = line]
        /\ UNCHANGED <<event, move>> /\ t \in dispatch[e].candidates
    BY <1>4 DEF Claim, Unmoved
  <2>2. left \subseteq dispatch[e].candidates
    OBVIOUS
  <2> HIDE DEF left, after, line
  <2>3. to.boards = dispatch[e].boards /\ to.candidates = left
    BY <1>0 DEF Goroutine
  <2> HIDE DEF to
  <2>4. \A u \in Trigger, q \in Event :
          delivery'[<<u, q>>] = IF u = t /\ q = e THEN line ELSE delivery[<<u, q>>]
    BY <2>1 DEF TypeOK
  <2>5. \A u \in Trigger, q \in Event :
          delivery'[<<u, q>>].status # "none" =>
            delivery[<<u, q>>].status # "none" \/ (q = e /\ u \in dispatch[e].candidates)
    BY <2>1, <2>4
  <2>6. QED
    BY <1>1, <2>1, <2>2, <2>3, <2>5
<1>5. ASSUME NEW accepted \in BOOLEAN, NEW answered \in BOOLEAN, Send(e, accepted, answered)
      PROVE  ChoiceInv'
  <2> DEFINE result == IF accepted /\ answered THEN "sent" ELSE "failed"
             to == [dispatch[e] EXCEPT !.stage = "finish", !.outcome = result]
  <2>1. dispatch' = [dispatch EXCEPT ![e] = to] /\ UNCHANGED <<event, move, delivery>>
    BY <1>5 DEF Send, Unmoved
  <2> HIDE DEF result
  <2>2. to.boards = dispatch[e].boards /\ to.candidates = dispatch[e].candidates
    BY <1>0 DEF Goroutine
  <2> HIDE DEF to
  <2>3. QED
    BY <1>1, <2>1, <2>2
<1>6. CASE Finish(e) \/ FinishFails(e)
  <2> DEFINE p == <<dispatch[e].trigger, e>>
             one == [dispatch[e] EXCEPT !.stage = "deliver"]
             two == [dispatch[e] EXCEPT !.stage = "deliver", !.cutShort = TRUE]
  <2>1. /\ dispatch' = [dispatch EXCEPT ![e] = one] \/ dispatch' = [dispatch EXCEPT ![e] = two]
        /\ UNCHANGED <<event, move>>
    BY <1>6 DEF Finish, FinishFails, Unmoved
  <2>2. \/ UNCHANGED delivery
        \/ delivery' = [delivery EXCEPT ![p].status = IF @ = "none" THEN @ ELSE dispatch[e].outcome]
    BY <1>6 DEF Finish, FinishFails
  <2>3. ASSUME NEW t \in Trigger, NEW q \in Event, delivery'[<<t, q>>].status # "none"
        PROVE  delivery[<<t, q>>].status # "none"
    <3>1. delivery \in [Trigger \X Event -> Row] /\ <<t, q>> \in Trigger \X Event
      BY DEF TypeOK
    <3> DEFINE k == <<t, q>>
    <3> HIDE DEF p, k
    <3>2. k \in DOMAIN delivery /\ delivery[k] \in Row /\ delivery'[k].status # "none"
      BY <2>3, <3>1 DEF k
    <3>3. delivery[k].status # "none"
      BY <2>2, <3>2 DEF Row
    <3>4. QED
      BY <3>3 DEF k
  <2>4. /\ one.boards = dispatch[e].boards /\ one.candidates = dispatch[e].candidates
        /\ two.boards = dispatch[e].boards /\ two.candidates = dispatch[e].candidates
    BY <1>0 DEF Goroutine
  <2> HIDE DEF one, two, p
  <2>5. QED
    BY <1>1, <2>1, <2>3, <2>4
<1>7. CASE GoOn(e)
  <2> DEFINE one == [dispatch[e] EXCEPT !.stage = "list"]
             two == Ended(dispatch[e].cutShort)
  <2>1. /\ dispatch' = [dispatch EXCEPT ![e] = one] \/ dispatch' = [dispatch EXCEPT ![e] = two]
        /\ UNCHANGED <<event, move, delivery>>
    BY <1>7 DEF GoOn, Unmoved
  <2>2. /\ one.boards = dispatch[e].boards /\ one.candidates = dispatch[e].candidates
        /\ two.boards = {} /\ two.candidates = {}
    BY <1>0 DEF Goroutine, Ended, Idle
  <2> HIDE DEF one, two
  <2>3. QED
    BY <1>1, <2>1, <2>2
<1>8. QED
  BY <1>2, <1>3, <1>4, <1>5, <1>6, <1>7, BoardsChoice, ListChoice DEF DispatchStep

LEMMA StopChoice == ASSUME TypeOK, ChoiceInv, Stop PROVE ChoiceInv'
<1>1. \A e \in Event :
        dispatch'[e] = dispatch[e] \/ (dispatch'[e].boards = {} /\ dispatch'[e].candidates = {})
  BY DEF Stop, Ended, Idle
<1>2. UNCHANGED <<event, delivery>>
  BY DEF Stop
<1>3. \A e \in Event : move'[e] = IF event[e].kind = "none" THEN NoMove ELSE move[e]
  BY DEF Stop
<1>4. ASSUME NEW e \in Event PROVE (ChoiceKept(e) /\ MoveKept(e))'
  <2>1. ChoiceKept(e) /\ MoveKept(e) /\ \A t : Asks(t, e)' <=> Asks(t, e)
    BY <1>2 DEF ChoiceInv, Asks, Matches
  <2>2. MoveKept(e)'
    BY <1>2, <1>3, <2>1 DEF MoveKept
  <2>3. ChoiceKept(e)'
    BY <1>1, <1>2, <2>1 DEF ChoiceKept
  <2>4. QED
    BY <2>2, <2>3
<1>5. QED
  BY <1>4 DEF ChoiceInv

LEMMA TableChoice ==
  ASSUME TypeOK, ChoiceInv
  PROVE  /\ \A b \in Board, c \in Column \cup {Nowhere} : Relocate(b, c) => ChoiceInv'
         /\ \A t \in Trigger, state \in {"on", "off"} : CreateTrigger(t, state) => ChoiceInv'
         /\ \A x \in Editor, t \in Trigger, asks \in {"none", "on", "off"} :
              BeginEdit(x, t, asks) => ChoiceInv'
         /\ \A x \in Editor : FinishEdit(x) \/ RefuseEdit(x) => ChoiceInv'
         /\ \A t \in Trigger : DeleteTrigger(t) => ChoiceInv'
         /\ \A e \in Event, b \in Board, c \in Column : WriteMove(e, b, c) => ChoiceInv'
         /\ \A e \in Event : FailToRecord(e) => ChoiceInv'
<1>1. ASSUME UNCHANGED <<event, move, dispatch, delivery>> PROVE ChoiceInv'
  BY <1>1, Dropping
<1>2. ASSUME NEW t \in Trigger, DeleteTrigger(t) PROVE ChoiceInv'
  <2>1. \A u \in Trigger, e \in Event :
          delivery'[<<u, e>>] = IF u = t THEN NoRow ELSE delivery[<<u, e>>]
    BY <1>2 DEF DeleteTrigger
  <2>2. NoRow.status = "none" /\ UNCHANGED <<event, move, dispatch>>
    BY <1>2 DEF NoRow, DeleteTrigger
  <2>3. \A u \in Trigger, e \in Event :
          delivery'[<<u, e>>].status # "none" => delivery[<<u, e>>].status # "none"
    BY <2>1, <2>2
  <2>4. QED
    BY <2>2, <2>3, Dropping
<1>3. ASSUME NEW e \in Event, NEW b \in Board, NEW c \in Column, WriteMove(e, b, c)
      PROVE  ChoiceInv'
  <2> DEFINE to == [board |-> b, to |-> c]
  <2>1. to.board \in Board /\ to.to \in Column
    OBVIOUS
  <2>2. /\ move' = [move EXCEPT ![e] = to] /\ event[e].kind = "none"
        /\ UNCHANGED <<event, dispatch, delivery>>
    BY <1>3 DEF WriteMove
  <2> HIDE DEF to
  <2>3. QED
    BY <2>1, <2>2, MoveChoice
<1>4. ASSUME NEW e \in Event, FailToRecord(e) PROVE ChoiceInv'
  BY <1>4, MoveChoice DEF FailToRecord
<1>5. QED
  BY <1>1, <1>2, <1>3, <1>4 DEF Relocate, CreateTrigger, BeginEdit, FinishEdit, RefuseEdit

MessageInv == IInv /\ ColumnInv /\ ChoiceInv

LEMMA NextMessage == MessageInv /\ [Next]_vars => MessageInv'
<1> SUFFICES ASSUME IInv, ColumnInv, ChoiceInv, [Next]_vars PROVE ColumnInv' /\ ChoiceInv'
  BY NextIInv DEF MessageInv
<1>1. TypeOK
  BY DEF IInv
<1>2. ASSUME NEW e \in Event, RecordCardWide(e) \/ RecordMoved(e)
      PROVE  ColumnInv' /\ ChoiceInv'
  <2>1. Nowhere \notin Column /\ MoveKept(e)
    BY DispatchAssumption DEF ChoiceInv
  <2>2. CASE RecordMoved(e)
    <3>1. /\ Record(e, "card_moved", move[e].board, move[e].to) /\ "card_moved" \in Kind
          /\ move[e] # NoMove /\ move[e].to # Nowhere
      BY <2>1, <2>2 DEF RecordMoved, Kind, MoveKept
    <3>2. QED
      BY <1>1, <3>1, RecordColumn, RecordChoice
  <2>3. CASE RecordCardWide(e)
    BY <1>1, <2>3, RecordColumn, RecordChoice DEF RecordCardWide, Kind
  <2>4. QED
    BY <1>2, <2>2, <2>3
<1>3. CASE UNCHANGED vars
  BY <1>1, <1>3, OutsideColumn, Dropping DEF vars
<1>4. QED
  BY <1>1, <1>2, <1>3, TableColumn, DispatchColumn, StopColumn, TableChoice, GoroutineChoice,
     StopChoice DEF Next

\* A message about a move that was sent names the column its request put the card in, and
\* was asked for by a trigger on that column of that board, however often the card is moved
\* before the event is recorded and after it, for any boards, triggers and events.
THEOREM MovesAreNamed == Spec => []MoveNamesItsColumn
<1>1. ASSUME ColumnInv, ChoiceInv, NEW t \in Trigger, NEW e \in Event,
             delivery[<<t, e>>].status = "sent", event[e].kind = "card_moved"
      PROVE  /\ delivery[<<t, e>>].column = move[e].to
             /\ Rule[t].board = move[e].board /\ Rule[t].to \in {AnyColumn, move[e].to}
  <2>1. ColumnKept(e) /\ ChoiceKept(e) /\ MoveKept(e)
    BY <1>1 DEF ColumnInv, ChoiceInv
  <2>2. /\ delivery[<<t, e>>].column = event[e].to /\ Asks(t, e)
        /\ event[e].board = move[e].board /\ event[e].to = move[e].to /\ move[e].board \in Board
    BY <1>1, <2>1 DEF ColumnKept, ChoiceKept, MoveKept
  <2>3. event[e].board # NoBoard
    BY <2>2, DispatchAssumption
  <2>4. QED
    BY <2>2, <2>3 DEF Asks, Matches
<1>2. MessageInv => MoveNamesItsColumn
  BY <1>1 DEF MessageInv, MoveNamesItsColumn
<1>3. Init => MessageInv
  BY InitIInv, InitColumn, InitChoice DEF MessageInv
<1>4. QED
  BY <1>2, <1>3, NextMessage, PTL DEF Spec
=============================================================================
