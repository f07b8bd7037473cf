------------------------- MODULE CardPlacementProofs -------------------------
(***************************************************************************)
(* Proofs about CardPlacement for every set of cards, boards and columns,  *)
(* every limit and every number of requests.                               *)
(*                                                                         *)
(* WipOvershootBounded is not inductive: a request between its check and   *)
(* its write already owns a slot.  WipClaimsBounded counts those slots.    *)
(* Every step but a passed check only keeps or shrinks the set of cards    *)
(* that claim a slot; a passed check found fewer cards than the limit, and *)
(* no more than MaxInFlight requests, itself included, are under way.      *)
(*                                                                         *)
(* NoOrphanItems needs to know where the creation of a card stands         *)
(* (ItemInv): its item exists from the statement that writes it, and from  *)
(* the answer on a board holds the card or a detach took it off.           *)
(*                                                                         *)
(* What the log tells agrees with the rows only between requests.  TaleInv *)
(* says, of a card whose requests never overlapped nor failed half way, by *)
(* the stage of its only open request how far the rows are ahead of the    *)
(* log.  That a bounded set of events has a latest one comes from < being  *)
(* well founded on the natural numbers.                                    *)
(***************************************************************************)
EXTENDS CardPlacement, FiniteSetTheorems, FunctionTheorems, WellFoundedInduction, TLAPS

Inv == TypeOK /\ WipClaimsBounded

-----------------------------------------------------------------------------
(* Type correctness *)

LEMMA InitType == Init => TypeOK
  BY ColumnAssumption, RequestAssumption, CardAssumption
  DEF Init, TypeOK, ReqRecord, Stages, Ops, Event, Active

\* A request that begins, goes on or closes leaves the others as they were.
LEMMA BeginType ==
  ASSUME TypeOK, NEW r \in Request, NEW op \in Ops \ {"none"}, NEW stage \in Stages \ {"patch"},
         NEW c \in Card, NEW b \in Board, NEW col \in Column \cup {NoColumn},
         op = "detach" <=> col = NoColumn,
         col # NoColumn => BoardOf[col] = b,
         Begin(r, op, stage, c, b, col)
  PROVE  TypeOK'
<1>1. req' \in [Request -> ReqRecord]
  BY DEF Begin, TypeOK, ReqRecord
<1>2. \A q \in Request \ {r} : req'[q] = req[q]
  BY DEF Begin, TypeOK
<1>3. req'[r] = [stage |-> stage, op |-> op, card |-> c, board |-> b, col |-> col,
                 from |-> NoColumn]
  BY DEF Begin, TypeOK
<1>4. QED
  BY <1>1, <1>2, <1>3 DEF Begin, TypeOK, Active

LEMMA CloseType ==
  ASSUME TypeOK, NEW r \in Request, Close(r)
  PROVE  /\ req' \in [Request -> ReqRecord]
         /\ r \notin Active'
         /\ \A q \in Request \ {r} : req'[q] = req[q]
  BY DEF Close, TypeOK, ReqRecord, Stages, Ops, Active

LEMMA GotoType ==
  ASSUME TypeOK, NEW r \in Active, NEW stage \in Stages, Goto(r, stage)
  PROVE  /\ req' \in [Request -> ReqRecord]
         /\ req'[r] = [req[r] EXCEPT !.stage = stage]
         /\ \A q \in Request \ {r} : req'[q] = req[q]
<1>1. r \in Request /\ req \in [Request -> ReqRecord]
  BY DEF Active, TypeOK
<1>2. req' = [req EXCEPT ![r] = [req[r] EXCEPT !.stage = stage]]
  BY DEF Goto
<1>3. req[r] \in ReqRecord
  BY <1>1
<1>4. [req[r] EXCEPT !.stage = stage] \in ReqRecord
  BY <1>3 DEF ReqRecord
<1>5. QED
  BY <1>1, <1>2, <1>4

\* What TypeOK says of the open requests, kept when one of them goes on or closes.
LEMMA ReqStep ==
  ASSUME TypeOK, NEW r \in Active, NEW stage \in Stages,
         stage = "patch" => req[r].op \in {"create", "move"},
         Goto(r, stage) \/ Close(r)
  PROVE  /\ req' \in [Request -> ReqRecord]
         /\ \A q \in Active' :
              /\ req'[q].card \in Card /\ req'[q].board \in Board /\ req'[q].op # "none"
              /\ req'[q].op = "detach" <=> req'[q].col = NoColumn
              /\ req'[q].col # NoColumn => BoardOf[req'[q].col] = req'[q].board
              /\ req'[q].stage = "patch" => req'[q].op \in {"create", "move"}
<1>0. r \in Request
  BY DEF Active
<1>1. CASE Goto(r, stage)
  <2>1. /\ req'[r].card = req[r].card /\ req'[r].board = req[r].board
        /\ req'[r].op = req[r].op /\ req'[r].col = req[r].col /\ req'[r].stage = stage
    <3>1. req[r] \in ReqRecord
      BY <1>0 DEF TypeOK
    <3>2. req'[r] = [req[r] EXCEPT !.stage = stage]
      BY <1>1, GotoType
    <3>3. QED
      BY <3>1, <3>2 DEF ReqRecord
  <2>2. req' \in [Request -> ReqRecord] /\ \A q \in Request \ {r} : req'[q] = req[q]
    BY <1>1, GotoType
  <2>3. \A q \in Active' \ {r} : q \in Active /\ req'[q] = req[q]
    BY <2>2 DEF Active
  <2>4. QED
    BY <2>1, <2>2, <2>3 DEF TypeOK
<1>2. CASE Close(r)
  BY <1>0, <1>2, CloseType DEF TypeOK, Active
<1>3. QED
  BY <1>1, <1>2

LEMMA PutType ==
  ASSUME TypeOK, NEW r \in Active, Put(r)
  PROVE  /\ place' \in [Card -> [Board -> Column \cup {NoColumn}]]
         /\ \A c \in Card, b \in Board : place'[c][b] # NoColumn => BoardOf[place'[c][b]] = b
  BY DEF Put, TypeOK, Active, ReqRecord

\* The state stays well formed through every step, for every choice of the constants.
LEMMA NextType == TypeOK /\ [Next]_vars => TypeOK'
<1> SUFFICES ASSUME TypeOK, [Next]_vars PROVE TypeOK'
  OBVIOUS
<1> USE ColumnAssumption
<1>1. CASE \E r \in Request : BeginCreate(r) \/ BeginAttach(r) \/ BeginMove(r)
  <2>1. PICK r \in Request : BeginCreate(r) \/ BeginAttach(r) \/ BeginMove(r)
    BY <1>1
  <2>2. PICK c \in Card, col \in Column, op \in Ops \ {"none", "detach"},
             stage \in {"check", "read"} : Begin(r, op, stage, c, BoardOf[col], col)
    BY <2>1 DEF BeginCreate, BeginAttach, BeginMove, Ops
  <2>3. QED
    BY <2>2, BeginType DEF Stages
<1>2. CASE \E r \in Request : BeginDetach(r)
  BY <1>2, BeginType DEF BeginDetach, Ops, Stages
<1>3. ASSUME NEW r \in Request, Handle(r) \/ PatchRefused(r) \/ CreateAttachFails(r) \/ Abandon(r)
      PROVE  TypeOK'
  <2>0. r \in Active
    BY <1>3 DEF Handle, MoveReadCurrent, CheckWip, CreateItem, AttachRow, MoveRow, MoveReread,
                DetachRow, Record, PatchStatus, PatchRefused, CreateAttachFails, Abandon, At, Active
  <2> USE <2>0
  <2>1. CASE MoveReadCurrent(r)
    <3> DEFINE current == place[req[r].card][req[r].board]
               stage == IF current = req[r].col THEN "write" ELSE "check"
    <3>1. req[r] \in ReqRecord /\ current \in Column \cup {NoColumn} /\ stage \in Stages
      BY DEF TypeOK, Stages, Active
    <3>2. req' = [req EXCEPT ![r] = [req[r] EXCEPT !.from = current, !.stage = stage]]
      BY <2>1 DEF MoveReadCurrent
    <3> HIDE DEF current, stage
    <3>3. [req[r] EXCEPT !.from = current, !.stage = stage] \in ReqRecord
      BY <3>1 DEF ReqRecord
    <3>4. req' \in [Request -> ReqRecord] /\ \A q \in Request \ {r} : req'[q] = req[q]
      BY <1>3, <3>2, <3>3 DEF TypeOK
    <3>5. /\ req'[r].card = req[r].card /\ req'[r].board = req[r].board
          /\ req'[r].op = req[r].op /\ req'[r].col = req[r].col
          /\ req'[r].stage \in {"write", "check"}
      BY <1>3, <3>1, <3>2 DEF TypeOK, ReqRecord, stage
    <3>6. \A q \in Active' \ {r} : q \in Active /\ req'[q] = req[q]
      BY <3>4 DEF Active
    <3>7. /\ item' = item /\ place' = place /\ log' = log
      BY <2>1 DEF MoveReadCurrent
    <3>8. QED
      BY <3>4, <3>5, <3>6, <3>7 DEF TypeOK
  <2>2. CASE CheckWip(r)
    <3>1. \E stage \in {"item", "write"} : Goto(r, stage) \/ Close(r)
      BY <2>2 DEF CheckWip
    <3>2. QED
      BY <2>2, <3>1, ReqStep DEF CheckWip, TypeOK, Stages
  <2>3. CASE CreateItem(r)
    BY <2>3, ReqStep DEF CreateItem, TypeOK, Stages, Active
  <2>4. CASE AttachRow(r)
    <3>1. \E stage \in Stages : /\ stage = "patch" => req[r].op = "create"
                                /\ Goto(r, stage)
      BY <2>4 DEF AttachRow, Stages
    <3>2. QED
      BY <2>4, <3>1, ReqStep, PutType DEF AttachRow, TypeOK
  <2>5. CASE MoveRow(r) \/ DetachRow(r)
    <3>1. \E stage \in {"reread", "log"} : Goto(r, stage) \/ Close(r)
      BY <2>5 DEF MoveRow, DetachRow
    <3>2. QED
      BY <2>5, <3>1, ReqStep, PutType DEF MoveRow, DetachRow, TypeOK, Stages
  <2>6. CASE MoveReread(r)
    <3>1. Goto(r, "log") \/ Close(r)
      BY <2>6 DEF MoveReread
    <3>2. QED
      BY <2>6, <3>1, ReqStep DEF MoveReread, TypeOK, Stages
  <2>7. CASE Record(r)
    <3>1. \E stage \in Stages : /\ stage = "patch" => req[r].op = "move"
                                /\ Goto(r, stage) \/ Close(r)
      BY <2>7 DEF Record, Stages
    <3>2. log' \in Seq(Event)
      BY <2>7 DEF Record, TypeOK, Event, EventKind, EventFrom, ReqRecord, Ops, Active
    <3>3. QED
      BY <2>7, <3>1, <3>2, ReqStep DEF Record, TypeOK
  <2>8. CASE PatchStatus(r) \/ CreateAttachFails(r)
    <3>1. \E stage \in {"log", "failed"} : Goto(r, stage) \/ Close(r)
      BY <2>8 DEF PatchStatus, CreateAttachFails
    <3>2. req[r].col \in Column
      BY <2>8 DEF PatchStatus, CreateAttachFails, At, TypeOK, ReqRecord, Active
    <3>3. item' \in [Card -> {"absent", "open", "done", "archived"}]
      BY <2>8, <3>2 DEF PatchStatus, CreateAttachFails, TypeOK, Active
    <3>4. QED
      BY <2>8, <3>1, <3>3, ReqStep DEF PatchStatus, CreateAttachFails, TypeOK, Stages
  <2>9. CASE PatchRefused(r) \/ Abandon(r)
    <3>1. \E stage \in {"log", "failed"} : Goto(r, stage) \/ Close(r)
      BY <2>9 DEF PatchRefused, Abandon
    <3>2. QED
      BY <2>9, <3>1, ReqStep DEF PatchRefused, Abandon, TypeOK, Stages
  <2>10. QED
    BY <1>3, <2>1, <2>2, <2>3, <2>4, <2>5, <2>6, <2>7, <2>8, <2>9 DEF Handle
<1>4. CASE Idle \/ UNCHANGED vars
  BY <1>4 DEF Idle, vars, TypeOK, Active
<1>5. QED
  BY <1>1, <1>2, <1>3, <1>4 DEF Next

\* TypeOK is an invariant: api.go never leaves a placement in a column of another
\* board, nor an open request without the card and board it is about.
THEOREM TypeCorrect == Spec => []TypeOK
<1>1. QED
  BY InitType, NextType, PTL DEF Spec
-----------------------------------------------------------------------------
(* The limit is overshot by at most one card per extra open request *)

(* The facts about a step speak of the state after it, hence the primes. *)

LEMMA ActiveFinite ==
  /\ IsFiniteSet(Active) /\ Cardinality(Active) \in Nat
  /\ IsFiniteSet(Active') /\ Cardinality(Active') \in Nat
<1>1. Active \in SUBSET Request /\ Active' \in SUBSET Request
  BY DEF Active
<1>2. QED
  BY <1>1, RequestAssumption, FS_Subset, FS_CardinalityType

LEMMA InColumnFinite ==
  ASSUME NEW col
  PROVE  /\ IsFiniteSet(InColumn(col)) /\ Cardinality(InColumn(col)) \in Nat
         /\ IsFiniteSet(InColumn(col)') /\ Cardinality(InColumn(col)') \in Nat
<1>1. InColumn(col) \in SUBSET Card /\ InColumn(col)' \in SUBSET Card
  BY DEF InColumn
<1>2. QED
  BY <1>1, CardAssumption, FS_Subset, FS_CardinalityType

LEMMA ClaimedFinite ==
  ASSUME TypeOK, NEW col
  PROVE  IsFiniteSet(Claimed(col)) /\ Cardinality(Claimed(col)) \in Nat
<1>1. Claimed(col) \in SUBSET Card
  BY DEF Claimed, InColumn, Entering, TypeOK
<1>2. QED
  BY <1>1, CardAssumption, FS_Subset, FS_CardinalityType

\* No more cards are on their way into a column than requests are open.
LEMMA EnteringCards ==
  ASSUME TypeOK', NEW col
  PROVE  LET cards == {req'[r].card : r \in Entering(col)'}
         IN  IsFiniteSet(cards) /\ Cardinality(cards) <= Cardinality(Active')
<1> DEFINE cards == {req'[r].card : r \in Entering(col)'}
           f == [r \in Entering(col)' |-> req'[r].card]
<1>1. Entering(col)' \in SUBSET Active'
  BY DEF Entering
<1>2. IsFiniteSet(Entering(col)') /\ Cardinality(Entering(col)') <= Cardinality(Active')
  BY <1>1, ActiveFinite, FS_Subset
<1>3. f \in Surjection(Entering(col)', cards)
  BY DEF Surjection
<1>4. IsFiniteSet(cards) /\ Cardinality(cards) <= Cardinality(Entering(col)')
  BY <1>2, <1>3, FS_Surjection
<1>5. Cardinality(cards) \in Nat /\ Cardinality(Entering(col)') \in Nat
  BY <1>2, <1>4, FS_CardinalityType
<1>6. QED
  BY <1>2, <1>4, <1>5, ActiveFinite

\* A column below its limit has a slot left for every open request.
LEMMA FreeSlot ==
  ASSUME TypeOK', NEW col \in Limited,
         Cardinality(Active') <= MaxInFlight,
         Cardinality(InColumn(col)') < WipLimit[col]
  PROVE  Cardinality(Claimed(col)') <= WipLimit[col] + (MaxInFlight - 1)
<1> DEFINE cards == {req'[r].card : r \in Entering(col)'}
           both == InColumn(col)' \cap cards
<1>1. IsFiniteSet(cards) /\ Cardinality(cards) <= Cardinality(Active')
  BY EnteringCards
<1>2. IsFiniteSet(InColumn(col)') /\ Cardinality(InColumn(col)') \in Nat
  BY InColumnFinite
<1>3. both \in SUBSET cards
  OBVIOUS
<1>4. IsFiniteSet(both)
  BY <1>1, <1>3, FS_Subset
<1>5. Cardinality(cards) \in Nat /\ Cardinality(both) \in Nat
  BY <1>1, <1>4, FS_CardinalityType
<1>6. Cardinality(Claimed(col)') =
        Cardinality(InColumn(col)') + Cardinality(cards) - Cardinality(both)
  BY <1>1, <1>2, FS_Union DEF Claimed
<1>7. WipLimit[col] \in Nat
  BY ColumnAssumption DEF Limited
<1> HIDE DEF cards, both
<1>8. QED
  BY <1>1, <1>2, <1>5, <1>6, <1>7, ActiveFinite, RequestAssumption

\* A set of claims that does not grow stays within its bound.
LEMMA ClaimsShrink ==
  ASSUME TypeOK, NEW col, NEW n \in Int, Cardinality(Claimed(col)) <= n,
         Claimed(col)' \subseteq Claimed(col)
  PROVE  Cardinality(Claimed(col)') <= n
<1>1. Claimed(col)' \in SUBSET Claimed(col)
  OBVIOUS
<1>2. IsFiniteSet(Claimed(col)) /\ Cardinality(Claimed(col)) \in Nat
  BY ClaimedFinite
<1>3. Cardinality(Claimed(col)') <= Cardinality(Claimed(col)) /\ IsFiniteSet(Claimed(col)')
  BY <1>1, <1>2, FS_Subset
<1>4. Cardinality(Claimed(col)') \in Nat
  BY <1>3, FS_CardinalityType
<1>5. QED
  BY <1>2, <1>3, <1>4

\* A step of an open request keeps the others, and the set of open requests or less.
LEMMA HandleKeeps ==
  ASSUME TypeOK, NEW r \in Request,
         Handle(r) \/ PatchRefused(r) \/ CreateAttachFails(r) \/ Abandon(r)
  PROVE  r \in Active /\ Active' \subseteq Active /\ \A q \in Request \ {r} : req'[q] = req[q]
<1>1. r \in Active
  BY DEF Handle, MoveReadCurrent, CheckWip, CreateItem, AttachRow, MoveRow, MoveReread, DetachRow,
         Record, PatchStatus, PatchRefused, CreateAttachFails, Abandon, At, Active
<1>2. \A q \in Request \ {r} : req'[q] = req[q]
  BY DEF Handle, MoveReadCurrent, CheckWip, CreateItem, AttachRow, MoveRow, MoveReread, DetachRow,
         Record, PatchStatus, PatchRefused, CreateAttachFails, Abandon, Goto, Close, TypeOK
<1>3. QED
  BY <1>1, <1>2 DEF Active

\* What an open request still is about after one of its steps.
LEMMA ReqAfter ==
  ASSUME TypeOK, NEW r \in Active, NEW stage \in Stages, Goto(r, stage) \/ Close(r), r \in Active'
  PROVE  req'[r].card = req[r].card /\ req'[r].col = req[r].col /\ req'[r].stage = stage
<1>1. Goto(r, stage)
  BY CloseType DEF Active
<1>2. req[r] \in ReqRecord /\ req'[r] = [req[r] EXCEPT !.stage = stage]
  BY <1>1, GotoType DEF TypeOK, Active
<1>3. QED
  BY <1>2 DEF ReqRecord

LEMMA MoveReadAfter ==
  ASSUME TypeOK, NEW r \in Active, MoveReadCurrent(r)
  PROVE  /\ req'[r].card = req[r].card /\ req'[r].col = req[r].col
         /\ req'[r].stage \in {"write", "check"}
         /\ req'[r].stage = "write" => place[req[r].card][req[r].board] = req[r].col
<1> DEFINE current == place[req[r].card][req[r].board]
           stage == IF current = req[r].col THEN "write" ELSE "check"
<1>1. r \in Request /\ req \in [Request -> ReqRecord] /\ req[r] \in ReqRecord
  BY DEF Active, TypeOK
<1>2. req' = [req EXCEPT ![r] = [req[r] EXCEPT !.from = current, !.stage = stage]]
  BY DEF MoveReadCurrent
<1> HIDE DEF current
<1>3. req'[r].card = req[r].card /\ req'[r].col = req[r].col /\ req'[r].stage = stage
  BY <1>1, <1>2 DEF ReqRecord
<1>4. QED
  BY <1>3 DEF current

LEMMA BeginKeeps ==
  ASSUME TypeOK, NEW r \in Request,
         BeginCreate(r) \/ BeginAttach(r) \/ BeginMove(r) \/ BeginDetach(r)
  PROVE  /\ Cardinality(Active) < MaxInFlight /\ Active' = Active \cup {r}
         /\ place' = place
         /\ req'[r].stage \in {"check", "read"} \/ req'[r].col = NoColumn
         /\ \A q \in Request \ {r} : req'[q] = req[q]
<1>1. \E op, c, b, col : \E stage \in {"check", "read", "write"} :
        Begin(r, op, stage, c, b, col) /\ (stage = "write" => col = NoColumn)
  <2>1. CASE BeginCreate(r)
    BY <2>1 DEF BeginCreate
  <2>2. CASE BeginAttach(r)
    BY <2>2 DEF BeginAttach
  <2>3. CASE BeginMove(r)
    BY <2>3 DEF BeginMove
  <2>4. CASE BeginDetach(r)
    BY <2>4 DEF BeginDetach
  <2>5. QED
    BY <2>1, <2>2, <2>3, <2>4
<1>2. PICK op, c, b, col : \E stage \in {"check", "read", "write"} :
        Begin(r, op, stage, c, b, col) /\ (stage = "write" => col = NoColumn)
  BY <1>1
<1>3. PICK stage \in {"check", "read", "write"} :
        Begin(r, op, stage, c, b, col) /\ (stage = "write" => col = NoColumn)
  BY <1>2
<1>4. req'[r].stage = stage /\ req'[r].col = col /\ \A q \in Request \ {r} : req'[q] = req[q]
  BY <1>3 DEF Begin, TypeOK
<1>5. Active' = Active \cup {r}
  BY <1>3, <1>4 DEF Active
<1>6. QED
  BY <1>3, <1>4, <1>5 DEF Begin

\* Never more requests open than clients open at once.
LEMMA NextInFlight ==
  ASSUME TypeOK, [Next]_vars, Cardinality(Active) <= MaxInFlight
  PROVE  Cardinality(Active') <= MaxInFlight
<1> USE RequestAssumption
<1>1. CASE \E r \in Request :
             BeginCreate(r) \/ BeginAttach(r) \/ BeginMove(r) \/ BeginDetach(r)
  <2>1. PICK r \in Request : Cardinality(Active) < MaxInFlight /\ Active' = Active \cup {r}
    BY <1>1, BeginKeeps
  <2>2. Cardinality(Active') <= Cardinality(Active) + 1
    BY <2>1, ActiveFinite, FS_AddElement
  <2>3. QED
    BY <2>1, <2>2, ActiveFinite
<1>2. CASE \E r \in Request :
             Handle(r) \/ PatchRefused(r) \/ CreateAttachFails(r) \/ Abandon(r)
  <2>1. Active' \in SUBSET Active
    BY <1>2, HandleKeeps
  <2>2. Cardinality(Active') <= Cardinality(Active)
    BY <2>1, ActiveFinite, FS_Subset
  <2>3. QED
    BY <2>2, ActiveFinite
<1>3. CASE Idle \/ UNCHANGED vars
  BY <1>3 DEF Idle, vars, Active
<1>4. QED
  BY <1>1, <1>2, <1>3 DEF Next

\* The claims on a column after a step: what they were, less perhaps, or, after a
\* check that let a request past, within a slot for each open request.
LEMMA NextClaims ==
  ASSUME TypeOK, TypeOK', [Next]_vars, NEW col \in Limited
  PROVE  \/ Claimed(col)' \subseteq Claimed(col)
         \/ Cardinality(InColumn(col)') < WipLimit[col]
<1> USE ColumnAssumption
<1>0. col \in Column
  BY DEF Limited
<1>1. CASE \E r \in Request :
             BeginCreate(r) \/ BeginAttach(r) \/ BeginMove(r) \/ BeginDetach(r)
  <2>1. PICK r \in Request :
          /\ Active' = Active \cup {r} /\ place' = place
          /\ req'[r].stage \in {"check", "read"} \/ req'[r].col = NoColumn
          /\ \A q \in Request \ {r} : req'[q] = req[q]
    BY <1>1, BeginKeeps
  <2>2. InColumn(col)' = InColumn(col)
    BY <2>1 DEF InColumn
  <2>3. r \notin Entering(col)'
    BY <1>0, <2>1 DEF Entering
  <2>4. \A q \in Entering(col)' : q \in Entering(col) /\ req'[q].card = req[q].card
    BY <2>1, <2>3 DEF Entering, Active
  <2>5. QED
    BY <2>2, <2>4 DEF Claimed
<1>2. ASSUME NEW r \in Request,
             Handle(r) \/ PatchRefused(r) \/ CreateAttachFails(r) \/ Abandon(r)
      PROVE  \/ Claimed(col)' \subseteq Claimed(col)
             \/ Cardinality(InColumn(col)') < WipLimit[col]
  <2>1. r \in Active /\ \A q \in Request \ {r} : req'[q] = req[q]
    BY <1>2, HandleKeeps
  <2>2. \A q \in Entering(col)' \ {r} : q \in Entering(col) /\ req'[q].card = req[q].card
    BY <2>1 DEF Entering, Active
  <2>3. r \in Entering(col)' => req'[r].card = req[r].card
    <3>1. MoveReadCurrent(r) \/ \E stage \in Stages : Goto(r, stage) \/ Close(r)
      BY <1>2
      DEF Handle, CheckWip, CreateItem, AttachRow, MoveRow, MoveReread, DetachRow,
          Record, PatchStatus, PatchRefused, CreateAttachFails, Abandon, Stages
    <3>2. QED
      BY <2>1, <3>1, ReqAfter, MoveReadAfter DEF Entering
  <2>4. CASE CheckWip(r)
    <3>1. InColumn(col)' = InColumn(col)
      BY <2>4 DEF CheckWip, InColumn
    <3>2. CASE r \in Entering(col)'
      <4>1. req[r].col = col /\ ~WipReached(col)
        <5>1. r \in Active' /\ req'[r].col = col
          BY <3>2 DEF Entering
        <5>2. ~Close(r)
          BY <2>1, <5>1, CloseType DEF Active
        <5>3. ~WipReached(req[r].col) /\ \E stage \in Stages : Goto(r, stage)
          BY <2>4, <5>2 DEF CheckWip, Stages
        <5>4. QED
          BY <2>1, <5>1, <5>3, ReqAfter
      <4>2. WipLimit[col] \in Nat /\ Cardinality(InColumn(col)) \in Nat
        BY <1>0, InColumnFinite DEF Limited
      <4>3. QED
        BY <3>1, <4>1, <4>2 DEF WipReached, Limited
    <3>3. CASE r \notin Entering(col)'
      BY <2>2, <3>1, <3>3 DEF Claimed
    <3>4. QED
      BY <3>2, <3>3
  <2>5. CASE MoveReadCurrent(r)
    <3>1. InColumn(col)' = InColumn(col)
      BY <2>5 DEF MoveReadCurrent, InColumn
    <3>2. r \in Entering(col)' => req[r].card \in InColumn(col)
      <4>1. SUFFICES ASSUME r \in Entering(col)' PROVE req[r].card \in InColumn(col)
        OBVIOUS
      <4>2. req'[r].stage = "write" /\ req[r].col = col
        <5>1. req'[r].stage \in {"item", "write"} /\ req'[r].col = col
          BY <4>1 DEF Entering
        <5>2. req'[r].stage # "item"
          BY <2>1, <2>5, MoveReadAfter
        <5>3. QED
          BY <2>1, <2>5, <5>1, <5>2, MoveReadAfter
      <4>3. place[req[r].card][req[r].board] = col /\ BoardOf[col] = req[r].board
        BY <1>0, <2>1, <2>5, <4>2, MoveReadAfter DEF TypeOK
      <4>4. QED
        BY <2>1, <4>3 DEF InColumn, TypeOK
    <3>3. QED
      BY <2>2, <2>3, <3>1, <3>2 DEF Claimed
  <2>6. CASE CreateItem(r)
    <3>1. InColumn(col)' = InColumn(col)
      BY <2>6 DEF CreateItem, InColumn
    <3>2. r \in Entering(col)' => r \in Entering(col)
      BY <2>1, <2>6 DEF CreateItem, At, Goto, Entering, Active, TypeOK
    <3>3. QED
      BY <2>2, <2>3, <3>1, <3>2 DEF Claimed
  <2>7. CASE AttachRow(r) \/ MoveRow(r) \/ DetachRow(r)
    <3>1. r \notin Entering(col)'
      <4>1. \E stage \in {"patch", "log", "reread"} : Goto(r, stage) \/ Close(r)
        BY <2>7 DEF AttachRow, MoveRow, DetachRow
      <4>2. QED
        BY <2>1, <4>1, ReqAfter DEF Entering, Stages
    <3>2. CASE Put(r)
      <4>1. \A c \in Card \ {req[r].card} : place'[c] = place[c]
        BY <3>2 DEF Put, TypeOK
      <4>2. req[r].card \in InColumn(col)' =>
              req[r].card \in InColumn(col) \/ r \in Entering(col)
        BY <1>0, <2>1, <2>7, <3>2
        DEF Put, AttachRow, MoveRow, DetachRow, At, InColumn, Entering, Active, TypeOK
      <4>3. InColumn(col)' \subseteq Claimed(col)
        BY <4>1, <4>2 DEF InColumn, Claimed
      <4>4. QED
        BY <2>2, <3>1, <4>3 DEF Claimed
    <3>3. CASE UNCHANGED place
      BY <2>2, <3>1, <3>3 DEF Claimed, InColumn
    <3>4. QED
      BY <2>7, <3>2, <3>3 DEF AttachRow, MoveRow, DetachRow
  <2>8. CASE MoveReread(r) \/ Record(r) \/ PatchStatus(r) \/ PatchRefused(r)
             \/ CreateAttachFails(r) \/ Abandon(r)
    <3>1. InColumn(col)' = InColumn(col)
      BY <2>8 DEF MoveReread, Record, PatchStatus, PatchRefused, CreateAttachFails, Abandon, InColumn
    <3>2. r \notin Entering(col)'
      <4>1. \E stage \in {"patch", "log", "failed"} : Goto(r, stage) \/ Close(r)
        BY <2>8
        DEF MoveReread, Record, PatchStatus, PatchRefused, CreateAttachFails, Abandon
      <4>2. QED
        BY <2>1, <4>1, ReqAfter DEF Entering, Stages
    <3>3. QED
      BY <2>2, <3>1, <3>2 DEF Claimed
  <2>9. QED
    BY <1>2, <2>4, <2>5, <2>6, <2>7, <2>8 DEF Handle
<1>3. CASE Idle \/ UNCHANGED vars
  BY <1>3 DEF Idle, vars, Claimed, InColumn, Entering, Active
<1>4. QED
  BY <1>1, <1>2, <1>3 DEF Next

LEMMA NextInv == Inv /\ [Next]_vars => Inv'
<1> SUFFICES ASSUME Inv, [Next]_vars PROVE Inv'
  OBVIOUS
<1>1. TypeOK /\ TypeOK'
  BY NextType DEF Inv
<1>2. Cardinality(Active') <= MaxInFlight
  BY <1>1, NextInFlight DEF Inv, WipClaimsBounded
<1>3. ASSUME NEW col \in Limited
      PROVE  Cardinality(Claimed(col)') <= WipLimit[col] + (MaxInFlight - 1)
  <2>1. WipLimit[col] + (MaxInFlight - 1) \in Int
    BY ColumnAssumption, RequestAssumption DEF Limited
  <2>2. Cardinality(Claimed(col)) <= WipLimit[col] + (MaxInFlight - 1)
    BY DEF Inv, WipClaimsBounded
  <2>3. QED
    BY <1>1, <1>2, <2>1, <2>2, NextClaims, FreeSlot, ClaimsShrink
<1>4. QED
  BY <1>1, <1>2, <1>3 DEF Inv, WipClaimsBounded

LEMMA InitInv == Init => Inv
<1> SUFFICES ASSUME Init PROVE Inv
  OBVIOUS
<1>1. Active = {}
  BY DEF Init, Active
<1>2. \A col \in Limited : Claimed(col) = {}
  BY <1>1, ColumnAssumption DEF Init, Claimed, InColumn, Entering, Limited
<1>3. Cardinality({}) = 0
  BY FS_EmptySet
<1>4. \A col \in Limited : WipLimit[col] \in Nat
  BY ColumnAssumption DEF Limited
<1>5. MaxInFlight \in Nat \ {0}
  BY RequestAssumption
<1>6. WipClaimsBounded
  <2>1. Cardinality(Active) <= MaxInFlight
    BY <1>1, <1>3, <1>5
  <2>2. ASSUME NEW col \in Limited
        PROVE  Cardinality(Claimed(col)) <= WipLimit[col] + (MaxInFlight - 1)
    <3>1. Cardinality(Claimed(col)) = 0
      BY <1>2, <1>3
    <3>2. QED
      BY <3>1, <1>4, <1>5
  <2>3. QED
    BY <2>1, <2>2 DEF WipClaimsBounded
<1>7. QED
  BY <1>6, InitType DEF Inv

\* The claims on a column's slots stay bounded: the inductive invariant.
THEOREM ClaimsBounded == Spec => []WipClaimsBounded
<1>1. Inv => WipClaimsBounded
  BY DEF Inv
<1>2. QED
  BY <1>1, InitInv, NextInv, PTL DEF Spec

LEMMA OvershootFromClaims == Inv => WipOvershootBounded
<1> SUFFICES ASSUME Inv, NEW col \in Limited
             PROVE  Cardinality(InColumn(col)) <= WipLimit[col] + (MaxInFlight - 1)
  BY DEF WipOvershootBounded
<1>1. InColumn(col) \in SUBSET Claimed(col)
  BY DEF Claimed
<1>2. Cardinality(InColumn(col)) <= Cardinality(Claimed(col))
  BY <1>1, ClaimedFinite, FS_Subset DEF Inv
<1>3. QED
  BY <1>2, ClaimedFinite, InColumnFinite, ColumnAssumption, RequestAssumption
  DEF Inv, WipClaimsBounded, Limited

\* However requests interleave, fail or stop half way, a column holds at most one
\* card over its limit for each request open besides the first.
THEOREM OvershootBounded == Spec => []WipOvershootBounded
<1>1. QED
  BY InitInv, NextInv, OvershootFromClaims, PTL DEF Spec

\* Clients that wait for each answer before the next request never see a column over
\* its limit: checkWIP is exact when nothing runs between it and the write.
THEOREM SerialLimitRespected == MaxInFlight = 1 => (Spec => []WipRespected)
<1> SUFFICES ASSUME MaxInFlight = 1 PROVE Spec => []WipRespected
  OBVIOUS
<1>1. WipOvershootBounded => WipRespected
  BY InColumnFinite, ColumnAssumption DEF WipOvershootBounded, WipRespected, Limited
<1>2. QED
  BY <1>1, OvershootBounded, PTL

-----------------------------------------------------------------------------
(* Every item is on a board, or a request that emptied its boards says why *)

\* Card c is on some board, or was taken off one by a detach that wrote the row.
Held(c) ==
  \/ \E b \in Board : place[c][b] # NoColumn
  \/ \E r \in Request : /\ req[r].card = c /\ req[r].op = "detach"
                        /\ req[r].stage \in {"log", "failed"}
  \/ \E i \in DOMAIN log : log[i].card = c /\ log[i].kind = "card_detached"

\* A creation that has not created its item yet.
Minting(r) == req[r].op = "create" /\ req[r].stage \in {"check", "item"}

\* The creation of c stands between its item and its placement, or ended there.
Unplaced(c) ==
  \E r \in Request : /\ req[r].card = c /\ req[r].op = "create"
                     /\ req[r].stage \in {"write", "failed"}

ItemInv ==
  /\ \A c \in Card : item[c] = "absent" => \A b \in Board : place[c][b] = NoColumn
  /\ \A r \in Active : item[req[r].card] = "absent" <=> Minting(r)
  /\ \A r, q \in Active :
       req[r].op = "create" /\ req[q].op = "create" /\ req[r].card = req[q].card => r = q
  /\ \A c \in Card : item[c] = "absent" \/ Held(c) \/ Unplaced(c)
  /\ \A c \in Card, r \in Request :
       (At(r, "create", "patch") \/ At(r, "create", "log")) /\ req[r].card = c => Held(c)

LEMMA ItemInvSuffices == TypeOK /\ ItemInv => NoOrphanItems
<1> SUFFICES ASSUME TypeOK, ItemInv, NEW c \in Card
             PROVE  /\ item[c] = "absent" => \A b \in Board : place[c][b] = NoColumn
                    /\ item[c] # "absent" =>
                         \/ \E b \in Board : place[c][b] # NoColumn
                         \/ Emptying(c) # {}
                         \/ \E i \in DOMAIN log : log[i].card = c /\ log[i].kind = "card_detached"
  BY DEF NoOrphanItems
<1>1. Unplaced(c) => Emptying(c) # {}
  BY DEF Unplaced, Emptying
<1>2. Held(c) => \/ \E b \in Board : place[c][b] # NoColumn
                 \/ Emptying(c) # {}
                 \/ \E i \in DOMAIN log : log[i].card = c /\ log[i].kind = "card_detached"
  BY DEF Held, Emptying
<1>3. QED
  BY <1>1, <1>2 DEF ItemInv

LEMMA InitItem == Init => ItemInv
BY DEF Init, ItemInv, Active, Held, At

\* What a step of an open request r may touch: its record, its card, and the end of the log.
Touches(r) ==
  LET c == req[r].card IN
  /\ r \in Active
  /\ \A q \in Request \ {r} : req'[q] = req[q]
  /\ \A d \in Card \ {c} : place'[d] = place[d] /\ item'[d] = item[d]
  /\ \A b \in Board \ {req[r].board} : place'[c][b] = place[c][b]
  /\ disturbed \subseteq disturbed' /\ disturbed' \subseteq disturbed \cup {c}
  /\ \/ log' = log
     \/ \E e \in Event : e.card = c /\ log' = Append(log, e)

\* What is left of r itself: closed, or the same request at another stage.
Same(r) ==
  /\ req'[r].card = req[r].card /\ req'[r].board = req[r].board
  /\ req'[r].op = req[r].op /\ req'[r].col = req[r].col

LEMMA EventTyped ==
  ASSUME TypeOK, NEW r \in Active
  PROVE  [card |-> req[r].card, board |-> req[r].board, kind |-> EventKind[req[r].op],
          from |-> EventFrom(r), to |-> req[r].col] \in Event
BY DEF TypeOK, Event, EventKind, EventFrom, ReqRecord, Ops, Active

LEMMA StepTouches ==
  ASSUME TypeOK, NEW r \in Request,
         Handle(r) \/ PatchRefused(r) \/ CreateAttachFails(r) \/ Abandon(r)
  PROVE  Touches(r)
<1>1. r \in Active /\ \A q \in Request \ {r} : req'[q] = req[q]
  BY HandleKeeps
<1>2. \A d \in Card \ {req[r].card} : place'[d] = place[d] /\ item'[d] = item[d]
  BY DEF TypeOK, Handle, MoveReadCurrent, CheckWip, CreateItem, AttachRow, MoveRow, MoveReread,
         DetachRow, Record, PatchStatus, PatchRefused, CreateAttachFails, Abandon, Put
<1>3. \A b \in Board \ {req[r].board} : place'[req[r].card][b] = place[req[r].card][b]
  BY <1>1 DEF TypeOK, Handle, MoveReadCurrent, CheckWip, CreateItem, AttachRow, MoveRow, MoveReread,
         DetachRow, Record, PatchStatus, PatchRefused, CreateAttachFails, Abandon, Put
<1>4. disturbed \subseteq disturbed' /\ disturbed' \subseteq disturbed \cup {req[r].card}
  BY DEF Handle, MoveReadCurrent, CheckWip, CreateItem, AttachRow, MoveRow, MoveReread,
         DetachRow, Record, PatchStatus, PatchRefused, CreateAttachFails, Abandon
<1>5. log' = log \/ \E e \in Event : e.card = req[r].card /\ log' = Append(log, e)
  <2>1. CASE Record(r)
    BY <1>1, <2>1, EventTyped DEF Record
  <2>2. CASE ~Record(r)
    BY <2>2 DEF Handle, MoveReadCurrent, CheckWip, CreateItem, AttachRow, MoveRow, MoveReread,
         DetachRow, PatchStatus, PatchRefused, CreateAttachFails, Abandon
  <2>3. QED
    BY <2>1, <2>2
<1>6. QED
  BY <1>1, <1>2, <1>3, <1>4, <1>5 DEF Touches

\* What becomes of r's own record in any of its steps.
LEMMA StepSame ==
  ASSUME TypeOK, NEW r \in Request,
         Handle(r) \/ PatchRefused(r) \/ CreateAttachFails(r) \/ Abandon(r)
  PROVE  Close(r) \/ Same(r)
<1>1. r \in Active
  BY HandleKeeps
<1>2. MoveReadCurrent(r) \/ Close(r) \/ \E stage \in Stages : Goto(r, stage)
  BY DEF Handle, CheckWip, CreateItem, AttachRow, MoveRow, MoveReread, DetachRow, Record,
         PatchStatus, PatchRefused, CreateAttachFails, Abandon, Stages
<1>3. CASE MoveReadCurrent(r)
  <2> DEFINE current == place[req[r].card][req[r].board]
             stage == IF current = req[r].col THEN "write" ELSE "check"
  <2>1. req' = [req EXCEPT ![r] = [req[r] EXCEPT !.from = current, !.stage = stage]]
    BY <1>3 DEF MoveReadCurrent
  <2> HIDE DEF current, stage
  <2>2. req[r] \in ReqRecord /\ req \in [Request -> ReqRecord]
    BY DEF TypeOK
  <2>3. req'[r] = [req[r] EXCEPT !.from = current, !.stage = stage]
    BY <2>1, <2>2
  <2>4. QED
    BY <2>2, <2>3 DEF Same, ReqRecord
<1>4. CASE \E stage \in Stages : Goto(r, stage)
  <2>1. PICK stage \in Stages : Goto(r, stage)
    BY <1>4
  <2>2. req'[r] = [req[r] EXCEPT !.stage = stage] /\ req[r] \in ReqRecord
    BY <1>1, <2>1, GotoType DEF TypeOK
  <2>3. QED
    BY <2>2 DEF Same, ReqRecord
<1>5. QED
  BY <1>2, <1>3, <1>4

-----------------------------------------------------------------------------
(* The latest event *)

\* A set of natural numbers has a smallest member: it is where a least counterexample is.
LEMMA Smallest ==
  ASSUME NEW S \in SUBSET Nat, S # {}
  PROVE  \E m \in S : \A n \in S : m <= n
<1> DEFINE less == {p \in Nat \X Nat : p[1] < p[2]}
<1>1. IsWellFoundedOn(less, Nat)
  BY NatLessThanWellFounded DEF OpToRel
<1>2. PICK m \in S : \A n \in S : <<n, m>> \notin less
  BY <1>1, WFMin
<1>3. ASSUME NEW n \in S PROVE m <= n
  <2>1. n \in Nat /\ m \in Nat /\ <<n, m>> \in Nat \X Nat
    OBVIOUS
  <2>2. <<n, m>>[1] = n /\ <<n, m>>[2] = m
    OBVIOUS
  <2>3. ~(n < m)
    BY <1>2, <2>1, <2>2, Zenon
  <2>4. QED
    BY <2>1, <2>3
<1>4. QED
  BY <1>3, Zenon
\* So has a bounded one a largest.
LEMMA Largest ==
  ASSUME NEW n \in Nat, NEW S \in SUBSET (1..n), S # {}
  PROVE  \E m \in S : \A i \in S : i <= m
<1> DEFINE T == {k \in Nat : \E i \in S : k = n - i}
<1>1. T \in SUBSET Nat /\ T # {}
  <2>1. PICK i \in S : TRUE
    OBVIOUS
  <2>2. n - i \in T
    OBVIOUS
  <2>3. QED
    BY <2>2
<1>2. PICK k \in T : \A j \in T : k <= j
  BY <1>1, Smallest
<1>3. PICK m \in S : k = n - m
  BY <1>2
<1>4. ASSUME NEW i \in S PROVE i <= m
  <2>1. n - i \in T
    OBVIOUS
  <2>2. n - m <= n - i
    BY <1>2, <1>3, <2>1
  <2>3. QED
    BY <2>2
<1>5. QED
  BY <1>4

LEMMA LatestIs ==
  ASSUME NEW n \in Nat, NEW S \in SUBSET (1..n), NEW m \in S, \A i \in S : i <= m
  PROVE  Latest(S) = m
<1>1. \A k \in S : (\A j \in S : j <= k) => k = m
  OBVIOUS
<1>2. QED
  BY <1>1 DEF Latest

LEMMA LatestIn ==
  ASSUME NEW n \in Nat, NEW S \in SUBSET (1..n), S # {}
  PROVE  Latest(S) \in S
BY Largest DEF Latest

LEMMA EventsBounded ==
  ASSUME NEW c, NEW b, NEW n \in Nat
  PROVE  EventsOf(c, b, n) \in SUBSET (1..n)
BY DEF EventsOf

Told(c, b) == ColumnTold(c, b, Len(log))

\* An event more at the end of the log: what was told before stands, and the new one
\* tells where its card is on its board.
LEMMA LogGrows ==
  ASSUME log \in Seq(Event), NEW e \in Event, log' = Append(log, e)
  PROVE  /\ Len(log) \in Nat /\ Len(log') = Len(log) + 1 /\ log' \in Seq(Event)
         /\ \A i \in 1..Len(log) : log'[i] = log[i]
         /\ log'[Len(log) + 1] = e
         /\ DOMAIN log' = DOMAIN log \cup {Len(log) + 1} /\ DOMAIN log = 1..Len(log)
OBVIOUS

LEMMA ToldStands ==
  ASSUME log \in Seq(Event), NEW e \in Event, log' = Append(log, e),
         NEW c, NEW b, NEW n \in 0..Len(log)
  PROVE  ColumnTold(c, b, n)' = ColumnTold(c, b, n)
<1>1. n \in Nat /\ \A i \in 1..n : log'[i] = log[i]
  BY LogGrows
<1>2. EventsOf(c, b, n)' = EventsOf(c, b, n)
  BY <1>1 DEF EventsOf
<1>3. CASE EventsOf(c, b, n) = {}
  BY <1>2, <1>3 DEF ColumnTold
<1>4. CASE EventsOf(c, b, n) # {}
  <2>1. Latest(EventsOf(c, b, n)) \in 1..n
    BY <1>1, <1>4, EventsBounded, LatestIn
  <2>2. QED
    BY <1>1, <1>2, <1>4, <2>1 DEF ColumnTold
<1>5. QED
  BY <1>3, <1>4

LEMMA ToldAnew ==
  ASSUME log \in Seq(Event), NEW e \in Event, log' = Append(log, e), NEW c, NEW b,
         NEW n \in Nat, n = Len(log)
  PROVE  Told(c, b)' = IF e.card = c /\ e.board = b THEN e.to ELSE Told(c, b)
<1>1. /\ Len(log') = n + 1 /\ \A i \in 1..n : log'[i] = log[i]
      /\ log'[n + 1] = e
  BY LogGrows
<1>2. CASE e.card = c /\ e.board = b
  <2>1. n + 1 \in EventsOf(c, b, n + 1)' /\ EventsOf(c, b, n + 1)' \in SUBSET (1..(n + 1))
    BY <1>1, <1>2 DEF EventsOf
  <2>2. \A i \in EventsOf(c, b, n + 1)' : i <= n + 1
    BY <1>1, <2>1
  <2>3. Latest(EventsOf(c, b, n + 1)') = n + 1
    <3> DEFINE S == EventsOf(c, b, n + 1)'
    <3>1. n + 1 \in Nat /\ S \in SUBSET (1..(n + 1)) /\ n + 1 \in S /\ \A i \in S : i <= n + 1
      BY <2>1, <2>2
    <3> HIDE DEF S
    <3>2. Latest(S) = n + 1
      BY <3>1, LatestIs
    <3>3. QED
      BY <3>2 DEF S
  <2>4. ColumnTold(c, b, n + 1)' = e.to
    BY <1>1, <2>1, <2>3 DEF ColumnTold
  <2>5. QED
    BY <1>1, <1>2, <2>4 DEF Told
<1>3. CASE ~(e.card = c /\ e.board = b)
  <2>1. EventsOf(c, b, n + 1)' = EventsOf(c, b, n)'
    BY <1>1, <1>3 DEF EventsOf
  <2>2. ColumnTold(c, b, n + 1)' = ColumnTold(c, b, n)'
    BY <2>1 DEF ColumnTold
  <2>3. ColumnTold(c, b, n)' = ColumnTold(c, b, n)
    BY <1>1, ToldStands
  <2>4. QED
    BY <1>1, <1>3, <2>2, <2>3 DEF Told
<1>4. QED
  BY <1>2, <1>3

\* What auto_status should have made of card c's item.
Expected(c) ==
  IF StatusArrivals(c) = {} THEN "open"
  ELSE AutoStatus[log[Latest(StatusArrivals(c))].to]

\* The event is an arrival of card c that applies a status.
Arrives(e, c) ==
  /\ e.card = c /\ e.kind \in {"card_created", "card_moved"}
  /\ AutoStatus[e.to] # NoStatus

LEMMA ExpectedAnew ==
  ASSUME log \in Seq(Event), NEW e \in Event, log' = Append(log, e), NEW c,
         NEW n \in Nat, n = Len(log)
  PROVE  /\ Expected(c)' = IF Arrives(e, c) THEN AutoStatus[e.to] ELSE Expected(c)
         /\ ~Arrives(e, c) => StatusArrivals(c)' = StatusArrivals(c)
<1>1. /\ Len(log') = n + 1 /\ \A i \in 1..n : log'[i] = log[i]
      /\ log'[n + 1] = e /\ DOMAIN log = 1..n /\ DOMAIN log' = 1..(n + 1)
  BY LogGrows
<1>2. CASE Arrives(e, c)
  <2>1. n + 1 \in StatusArrivals(c)' /\ StatusArrivals(c)' \in SUBSET (1..(n + 1))
    BY <1>1, <1>2 DEF StatusArrivals, Arrives
  <2>2. \A i \in StatusArrivals(c)' : i <= n + 1
    BY <1>1, <2>1
  <2>3. Latest(StatusArrivals(c)') = n + 1
    BY <1>1, <2>1, <2>2, LatestIs
  <2>4. QED
    BY <1>1, <1>2, <2>1, <2>3 DEF Expected
<1>3. CASE ~Arrives(e, c)
  <2>1. StatusArrivals(c)' = StatusArrivals(c)
    BY <1>1, <1>3 DEF StatusArrivals, Arrives
  <2>2. StatusArrivals(c) # {} => Latest(StatusArrivals(c)) \in 1..n
    <3>1. StatusArrivals(c) \in SUBSET (1..n)
      BY <1>1 DEF StatusArrivals
    <3>2. QED
      BY <1>1, <3>1, LatestIn
  <2>3. QED
    BY <1>1, <1>3, <2>1, <2>2 DEF Expected
<1>4. QED
  BY <1>2, <1>3

-----------------------------------------------------------------------------
(* The invariant of items is kept *)

\* What a request is when it has just begun.
Begun(r, op, stage, c) ==
  /\ req[r].stage = "new"
  /\ req'[r].op = op /\ req'[r].card = c /\ req'[r].stage = stage
  /\ \A q \in Request \ {r} : req'[q] = req[q]
  /\ Active' = Active \cup {r} /\ r \notin Active
  /\ op = "create" => item[c] = "absent" /\ c \notin Reserved
  /\ op # "create" => item[c] # "absent"
  /\ disturbed' = IF \E q \in Active : req[q].card = c THEN disturbed \cup {c} ELSE disturbed
  /\ UNCHANGED <<item, place, log>>

LEMMA BeginDetail ==
  ASSUME TypeOK, NEW r \in Request,
         BeginCreate(r) \/ BeginAttach(r) \/ BeginMove(r) \/ BeginDetach(r)
  PROVE  \E op \in Ops \ {"none"}, c \in Card, stage \in {"check", "read", "write"} :
           /\ Begun(r, op, stage, c)
           /\ op = "create" => stage = "check"
           /\ op = "move" <=> stage = "read"
           /\ op = "detach" <=> stage = "write"
<1>1. \E op \in Ops \ {"none"}, c \in Card, stage \in {"check", "read", "write"} : \E b, col :
        /\ Begin(r, op, stage, c, b, col)
        /\ op = "create" => item[c] = "absent" /\ c \notin Reserved /\ stage = "check"
        /\ op # "create" => item[c] # "absent"
        /\ op = "move" <=> stage = "read"
        /\ op = "detach" <=> stage = "write"
  <2>1. CASE BeginCreate(r)
    BY <2>1 DEF BeginCreate, Ops
  <2>2. CASE BeginAttach(r)
    BY <2>2 DEF BeginAttach, Ops
  <2>3. CASE BeginMove(r)
    BY <2>3 DEF BeginMove, Ops
  <2>4. CASE BeginDetach(r)
    BY <2>4 DEF BeginDetach, Ops
  <2>5. QED
    BY <2>1, <2>2, <2>3, <2>4
<1>2. ASSUME NEW op, NEW c, NEW stage \in {"check", "read", "write"}, NEW b, NEW col,
             Begin(r, op, stage, c, b, col),
             op = "create" => item[c] = "absent" /\ c \notin Reserved,
             op # "create" => item[c] # "absent"
      PROVE  Begun(r, op, stage, c)
  <2>1. /\ req' = [req EXCEPT ![r] = [stage |-> stage, op |-> op, card |-> c, board |-> b,
                                     col |-> col, from |-> NoColumn]]
        /\ req[r].stage = "new"
        /\ disturbed' = IF \E q \in Active : req[q].card = c THEN disturbed \cup {c} ELSE disturbed
        /\ UNCHANGED <<item, place, log>>
    BY <1>2 DEF Begin
  <2>2. req'[r].op = op /\ req'[r].card = c /\ req'[r].stage = stage
        /\ \A q \in Request \ {r} : req'[q] = req[q]
    BY <2>1 DEF TypeOK
  <2>3. Active' = Active \cup {r} /\ r \notin Active
    BY <2>1, <2>2 DEF Active
  <2>4. QED
    BY <1>2, <2>1, <2>2, <2>3 DEF Begun
<1>3. QED
  BY <1>1, <1>2

LEMMA BeginItem ==
  ASSUME TypeOK, ItemInv, NEW r \in Request,
         BeginCreate(r) \/ BeginAttach(r) \/ BeginMove(r) \/ BeginDetach(r)
  PROVE  ItemInv'
<1>1. PICK op \in Ops \ {"none"}, c \in Card, stage \in {"check", "read", "write"} :
        Begun(r, op, stage, c) /\ (op = "create" => stage = "check")
        /\ (op = "detach" <=> stage = "write")
  BY BeginDetail
<1>2. \A d \in Card : Held(d) => Held(d)'
  BY <1>1 DEF Begun, Held
<1>3. \A d \in Card : Unplaced(d) => Unplaced(d)'
  BY <1>1 DEF Begun, Unplaced
<1>4. ASSUME NEW q \in Active'
      PROVE  item'[req'[q].card] = "absent" <=> Minting(q)'
  <2>1. CASE q = r
    BY <1>1, <2>1 DEF Begun, Minting
  <2>2. CASE q # r
    <3>1. q \in Active /\ req'[q] = req[q] /\ item' = item
      BY <1>1, <2>2 DEF Begun, Active
    <3>2. QED
      BY <3>1 DEF ItemInv, Minting
  <2>3. QED
    BY <2>1, <2>2
<1>5. \A p, q \in Active' :
        req'[p].op = "create" /\ req'[q].op = "create" /\ req'[p].card = req'[q].card => p = q
  <2>1. \A q \in Active : req'[q] = req[q]
    BY <1>1 DEF Begun, Active
  <2>2. op = "create" => \A q \in Active : req[q].op = "create" => req[q].card # c
    BY <1>1 DEF Begun, Reserved
  <2>3. QED
    BY <1>1, <2>1, <2>2 DEF Begun, ItemInv
<1>6. ASSUME NEW d \in Card, NEW q \in Request,
             (At(q, "create", "patch") \/ At(q, "create", "log"))', req'[q].card = d
      PROVE  Held(d)'
  <2>1. q # r
    BY <1>1, <1>6 DEF Begun, At
  <2>2. req[q] = req'[q]
    BY <1>1, <2>1 DEF Begun
  <2>3. Held(d)
    BY <1>6, <2>2 DEF ItemInv, At
  <2>4. QED
    BY <1>2, <2>3
<1>7. UNCHANGED <<item, place, log>>
  BY <1>1 DEF Begun
<1>8. QED
  BY <1>2, <1>3, <1>4, <1>5, <1>6, <1>7 DEF ItemInv

\* Once a card is on a board or told to have been taken off, it stays so.
LEMMA StepHeld ==
  ASSUME TypeOK, NEW r \in Request, NEW d \in Card, Held(d),
         Handle(r) \/ PatchRefused(r) \/ CreateAttachFails(r) \/ Abandon(r)
  PROVE  Held(d)'
<1>1. Touches(r) /\ r \in Active
  BY StepTouches DEF Touches
<1>2. CASE \E b \in Board : place[d][b] # NoColumn
  <2>1. PICK b \in Board : place[d][b] # NoColumn
    BY <1>2
  <2>2. CASE place'[d][b] # NoColumn
    BY <2>2 DEF Held
  <2>3. CASE place'[d][b] = NoColumn
    <3>1. Put(r) /\ d = req[r].card /\ b = req[r].board /\ req[r].col = NoColumn
      <4>1. d = req[r].card /\ b = req[r].board
        BY <1>1, <2>1, <2>3 DEF Touches
      <4>2. Put(r)
        BY <2>1, <2>3 DEF Handle, MoveReadCurrent, CheckWip, CreateItem, AttachRow, MoveRow, MoveReread,
           DetachRow, Record, PatchStatus, PatchRefused, CreateAttachFails, Abandon
      <4>3. QED
        BY <2>3, <4>1, <4>2 DEF Put, TypeOK
    <3>2. req[r].op = "detach"
      BY <1>1, <3>1 DEF TypeOK
    <3>3. DetachRow(r) /\ Goto(r, "log")
      BY <2>1, <2>3, <3>1, <3>2 DEF Handle, MoveReadCurrent, CheckWip, CreateItem, AttachRow, MoveRow, MoveReread,
           DetachRow, Record, PatchStatus, PatchRefused, CreateAttachFails, Abandon, At
    <3>4. req'[r].card = d /\ req'[r].op = "detach" /\ req'[r].stage = "log"
      <4>1. req'[r] = [req[r] EXCEPT !.stage = "log"] /\ req[r] \in ReqRecord
        BY <1>1, <3>3, GotoType DEF Stages, TypeOK
      <4>2. QED
        BY <3>1, <3>2, <4>1 DEF ReqRecord
    <3>5. QED
      BY <3>4 DEF Held
  <2>4. QED
    BY <2>2, <2>3
<1>3. CASE \E q \in Request : req[q].card = d /\ req[q].op = "detach" /\ req[q].stage \in {"log", "failed"}
  <2>1. PICK q \in Request : req[q].card = d /\ req[q].op = "detach" /\ req[q].stage \in {"log", "failed"}
    BY <1>3
  <2>2. CASE q # r
    BY <1>1, <2>1, <2>2 DEF Touches, Held
  <2>3. CASE q = r
    <3>1. req[r].stage = "log"
      BY <1>1, <2>1, <2>3 DEF Active
    <3>2. CASE Record(r)
      <4>1. \E e \in Event : e.card = d /\ e.kind = "card_detached" /\ log' = Append(log, e)
        BY <1>1, <2>1, <2>3, <3>2, EventTyped DEF Record, EventKind
      <4>2. \E i \in DOMAIN log' : log'[i].card = d /\ log'[i].kind = "card_detached"
        BY <4>1, LogGrows DEF TypeOK
      <4>3. QED
        BY <4>2 DEF Held
    <3>3. CASE Abandon(r)
      <4>1. Goto(r, "failed")
        BY <3>1, <3>3 DEF Abandon, HasWritten
      <4>2. req'[r] = [req[r] EXCEPT !.stage = "failed"] /\ req[r] \in ReqRecord
        BY <1>1, <4>1, GotoType DEF Stages, TypeOK
      <4>3. req'[r].card = d /\ req'[r].op = "detach" /\ req'[r].stage = "failed"
        BY <2>1, <2>3, <4>2 DEF ReqRecord
      <4>4. QED
        BY <4>3 DEF Held
    <3>4. QED
      BY <2>1, <2>3, <3>1, <3>2, <3>3 DEF Handle, MoveReadCurrent, CheckWip, CreateItem, AttachRow, MoveRow,
         MoveReread, DetachRow, PatchStatus, PatchRefused, CreateAttachFails, At
  <2>4. QED
    BY <2>2, <2>3
<1>4. CASE \E i \in DOMAIN log : log[i].card = d /\ log[i].kind = "card_detached"
  <2>1. \E i \in DOMAIN log' : log'[i].card = d /\ log'[i].kind = "card_detached"
    BY <1>1, <1>4, LogGrows DEF Touches, TypeOK
  <2>2. QED
    BY <2>1 DEF Held
<1>5. QED
  BY <1>2, <1>3, <1>4 DEF Held

\* No step takes an item away.
LEMMA StepItemStays ==
  ASSUME TypeOK, NEW r \in Request, NEW d \in Card, item[d] # "absent",
         Handle(r) \/ PatchRefused(r) \/ CreateAttachFails(r) \/ Abandon(r)
  PROVE  item'[d] # "absent"
<1>1. r \in Active /\ req[r] \in ReqRecord
  BY HandleKeeps DEF TypeOK
<1>2. CASE PatchStatus(r) \/ CreateAttachFails(r)
  <2>1. req[r].col \in Column
    BY <1>1, <1>2 DEF PatchStatus, CreateAttachFails, At, TypeOK, ReqRecord
  <2>2. AutoStatus[req[r].col] # "absent" \/ AutoStatus[req[r].col] = NoStatus
    BY <2>1, ColumnAssumption
  <2>3. QED
    BY <1>2, <2>2 DEF PatchStatus, CreateAttachFails, TypeOK
<1>3. CASE CreateItem(r)
  BY <1>3 DEF CreateItem, TypeOK
<1>4. CASE ~(PatchStatus(r) \/ CreateAttachFails(r) \/ CreateItem(r))
  BY <1>4 DEF Handle, MoveReadCurrent, CheckWip, AttachRow, MoveRow, MoveReread, DetachRow,
              Record, PatchRefused, Abandon
<1>5. QED
  BY <1>2, <1>3, <1>4

\* While a card's item does not exist, its creation only checks, writes the item or ends.
LEMMA MintingSteps ==
  ASSUME TypeOK, NEW r \in Request, Minting(r),
         Handle(r) \/ PatchRefused(r) \/ CreateAttachFails(r) \/ Abandon(r)
  PROVE  /\ \/ CheckWip(r) \/ Abandon(r)
            \/ CreateItem(r)
         /\ CheckWip(r) \/ Abandon(r) =>
              /\ UNCHANGED <<item, place, log>>
              /\ Close(r) \/ (req'[r].op = "create" /\ req'[r].stage = "item" /\ req'[r].card = req[r].card)
         /\ CreateItem(r) =>
              /\ item' = [item EXCEPT ![req[r].card] = "open"]
              /\ UNCHANGED <<place, log>>
              /\ req'[r].op = "create" /\ req'[r].stage = "write" /\ req'[r].card = req[r].card
<1>1. CheckWip(r) \/ Abandon(r) \/ CreateItem(r)
  BY DEF Minting, Handle, MoveReadCurrent, AttachRow, MoveRow, MoveReread, DetachRow, Record,
         PatchStatus, PatchRefused, CreateAttachFails, At
<1>2. r \in Active /\ req[r] \in ReqRecord
  BY HandleKeeps DEF TypeOK
<1>3. ASSUME NEW stage \in Stages, Goto(r, stage)
      PROVE  req'[r].op = "create" /\ req'[r].stage = stage /\ req'[r].card = req[r].card
  <2>1. req'[r] = [req[r] EXCEPT !.stage = stage]
    BY <1>2, <1>3, GotoType
  <2>2. QED
    BY <1>2, <2>1 DEF ReqRecord, Minting
<1>4. CheckWip(r) => Close(r) \/ Goto(r, "item")
  BY DEF CheckWip, Minting
<1>5. Abandon(r) => Close(r)
  BY DEF Abandon, HasWritten, Minting, At
<1>6. QED
  BY <1>1, <1>3, <1>4, <1>5 DEF CheckWip, Abandon, CreateItem, Stages

LEMMA StepItem ==
  ASSUME TypeOK, TypeOK', ItemInv, NEW r \in Request,
         Handle(r) \/ PatchRefused(r) \/ CreateAttachFails(r) \/ Abandon(r)
  PROVE  ItemInv'
<1>1. Touches(r) /\ r \in Active
  BY StepTouches DEF Touches
<1>2. PICK k \in Card : k = req[r].card
  BY <1>1 DEF TypeOK
<1>3. item[k] = "absent" <=> Minting(r)
  BY <1>1, <1>2 DEF ItemInv
<1>4. ASSUME NEW d \in Card, item'[d] = "absent", NEW b \in Board
      PROVE  place'[d][b] = NoColumn
  <2>1. item[d] = "absent"
    BY <1>4, StepItemStays
  <2>2. place[d][b] = NoColumn
    BY <2>1 DEF ItemInv
  <2>3. CASE d # k
    BY <1>1, <1>2, <2>2, <2>3 DEF Touches
  <2>4. CASE d = k
    BY <1>3, <2>1, <2>2, <2>4, MintingSteps
  <2>5. QED
    BY <2>3, <2>4
<1>5. ASSUME NEW q \in Active'
      PROVE  item'[req'[q].card] = "absent" <=> Minting(q)'
  <2>1. CASE q # r
    <3>1. q \in Active /\ req'[q] = req[q] /\ req[q].card \in Card
      BY <1>1, <2>1 DEF Touches, Active, TypeOK
    <3>2. item[req[q].card] = "absent" <=> Minting(q)
      BY <3>1 DEF ItemInv
    <3>3. req[q].card = k => ~Minting(q) \/ ~Minting(r)
      BY <1>1, <1>2, <2>1, <3>1 DEF ItemInv, Minting
    <3>4. item'[req[q].card] = "absent" <=> item[req[q].card] = "absent"
      <4>1. CASE req[q].card # k
        BY <1>1, <1>2, <3>1, <4>1 DEF Touches
      <4>2. CASE req[q].card = k
        BY <1>3, <3>1, <3>2, <3>3, <4>2, StepItemStays
      <4>3. QED
        BY <4>1, <4>2
    <3>5. QED
      BY <3>1, <3>2, <3>4 DEF Minting
  <2>2. CASE q = r
    <3>1. ~Close(r)
      BY <1>1, <2>2, CloseType
    <3>2. CASE Minting(r)
      BY <1>2, <1>3, <2>2, <3>1, <3>2, MintingSteps DEF Minting, TypeOK
    <3>3. CASE ~Minting(r)
      <4>1. item'[k] # "absent"
        BY <1>3, <3>3, StepItemStays
      <4>2. Same(r)
        BY <3>1, StepSame
      <4>3. ~Minting(r)'
        <5>1. SUFFICES ASSUME req[r].op = "create", req'[r].stage \in {"check", "item"} PROVE FALSE
          BY <4>2 DEF Same, Minting
        <5>2. ~MoveReadCurrent(r) /\ ~CheckWip(r)
          BY <3>3, <5>1 DEF MoveReadCurrent, CheckWip, Minting, At
        <5>3. \E stage \in {"write", "reread", "patch", "log", "failed"} : Goto(r, stage)
          BY <3>1, <5>2 DEF Handle, CreateItem, AttachRow, MoveRow, MoveReread, DetachRow, Record,
             PatchStatus, PatchRefused, CreateAttachFails, Abandon
        <5>4. PICK stage \in {"write", "reread", "patch", "log", "failed"} : Goto(r, stage)
          BY <5>3
        <5>5. req'[r] = [req[r] EXCEPT !.stage = stage] /\ req[r] \in ReqRecord
          BY <1>1, <5>4, GotoType DEF Stages, TypeOK
        <5>6. QED
          BY <5>1, <5>5 DEF ReqRecord
      <4>4. QED
        BY <1>2, <2>2, <4>1, <4>2, <4>3 DEF Same
    <3>4. QED
      BY <3>2, <3>3
  <2>3. QED
    BY <2>1, <2>2
<1>6. ASSUME NEW p \in Active', NEW q \in Active',
             req'[p].op = "create", req'[q].op = "create", req'[p].card = req'[q].card
      PROVE  p = q
  <2>1. \A s \in Active' : s \in Active /\ req'[s].op = req[s].op /\ req'[s].card = req[s].card
    <3>1. ASSUME NEW s \in Active' PROVE s \in Active /\ req'[s].op = req[s].op /\ req'[s].card = req[s].card
      <4>1. CASE s # r
        BY <1>1, <4>1 DEF Touches, Active
      <4>2. CASE s = r
        BY <1>1, <4>2, CloseType, StepSame DEF Same
      <4>3. QED
        BY <4>1, <4>2
    <3>2. QED
      BY <3>1
  <2>2. QED
    BY <1>6, <2>1 DEF ItemInv
<1>7. ASSUME NEW d \in Card
      PROVE  item'[d] = "absent" \/ Held(d)' \/ Unplaced(d)'
  <2>1. CASE Held(d)
    BY <2>1, StepHeld
  <2>2. CASE item[d] = "absent" /\ item'[d] # "absent"
    <3>1. d = k
      BY <1>1, <1>2, <2>2 DEF Touches
    <3>2. req'[r].op = "create" /\ req'[r].stage = "write" /\ req'[r].card = d
      BY <1>2, <1>3, <2>2, <3>1, MintingSteps
    <3>3. QED
      BY <3>2 DEF Unplaced
  <2>3. CASE Unplaced(d)
    <3>1. PICK q \in Request : req[q].card = d /\ req[q].op = "create" /\ req[q].stage \in {"write", "failed"}
      BY <2>3 DEF Unplaced
    <3>2. CASE q # r
      BY <1>1, <3>1, <3>2 DEF Touches, Unplaced
    <3>3. CASE q = r
      <4>1. At(r, "create", "write") /\ d = k
        BY <1>1, <1>2, <3>1, <3>3 DEF At, Active
      <4>2. AttachRow(r) \/ CreateAttachFails(r) \/ Abandon(r)
        BY <4>1 DEF Handle, MoveReadCurrent, CheckWip, CreateItem, MoveRow, MoveReread, DetachRow, Record,
                    PatchStatus, PatchRefused, At
      <4>3. CASE AttachRow(r)
        <5>1. place'[k][req[r].board] = req[r].col /\ req[r].board \in Board /\ req[r].col # NoColumn
          BY <1>1, <1>2, <4>1, <4>3 DEF AttachRow, Put, TypeOK, At
        <5>2. QED
          BY <4>1, <5>1 DEF Held
      <4>4. CASE CreateAttachFails(r) \/ Abandon(r)
        <5>1. Goto(r, "failed")
          BY <4>1, <4>4 DEF CreateAttachFails, Abandon, HasWritten
        <5>2. req'[r] = [req[r] EXCEPT !.stage = "failed"] /\ req[r] \in ReqRecord
          BY <1>1, <5>1, GotoType DEF Stages, TypeOK
        <5>3. req'[r].card = d /\ req'[r].op = "create" /\ req'[r].stage = "failed"
          BY <3>1, <3>3, <5>2 DEF ReqRecord
        <5>4. QED
          BY <5>3 DEF Unplaced
      <4>5. QED
        BY <4>2, <4>3, <4>4
    <3>4. QED
      BY <3>2, <3>3
  <2>4. QED
    BY <2>1, <2>2, <2>3 DEF ItemInv
<1>8. ASSUME NEW d \in Card, NEW q \in Request,
             (At(q, "create", "patch") \/ At(q, "create", "log"))', req'[q].card = d
      PROVE  Held(d)'
  <2>1. CASE q # r
    <3>1. req[q] = req'[q]
      BY <1>1, <2>1 DEF Touches
    <3>2. Held(d)
      BY <1>8, <3>1 DEF ItemInv, At
    <3>3. QED
      BY <3>2, StepHeld
  <2>2. CASE q = r
    <3>1. ~Close(r)
      BY <1>8, <2>2, CloseType DEF At, Active
    <3>2. Same(r) /\ req[r].op = "create" /\ d = k
      BY <1>2, <1>8, <2>2, <3>1, StepSame DEF Same, At
    <3>3. CASE AttachRow(r)
      <4>1. place'[k][req[r].board] = req[r].col /\ req[r].board \in Board /\ req[r].col # NoColumn
        BY <1>1, <1>2, <3>2, <3>3 DEF AttachRow, Put, TypeOK
      <4>2. QED
        BY <3>2, <4>1 DEF Held
    <3>4. CASE ~AttachRow(r)
      <4>1. \/ At(r, "create", "patch")
            \/ \E stage \in {"item", "write", "failed"} : Goto(r, stage)
        BY <3>1, <3>2, <3>4 DEF Handle, MoveReadCurrent, CheckWip, CreateItem, MoveRow, MoveReread, DetachRow,
            Record, PatchStatus, PatchRefused, CreateAttachFails, Abandon, At
      <4>2. At(r, "create", "patch")
        <5>1. ASSUME NEW stage \in {"item", "write", "failed"}, Goto(r, stage) PROVE FALSE
          <6>1. req'[r] = [req[r] EXCEPT !.stage = stage] /\ req[r] \in ReqRecord
            BY <1>1, <5>1, GotoType DEF Stages, TypeOK
          <6>2. QED
            BY <1>8, <2>2, <6>1 DEF ReqRecord, At
        <5>2. QED
          BY <4>1, <5>1
      <4>3. Held(d)
        BY <1>2, <3>2, <4>2 DEF ItemInv
      <4>4. QED
        BY <4>3, StepHeld
    <3>5. QED
      BY <3>3, <3>4
  <2>3. QED
    BY <2>1, <2>2
<1>9. QED
  BY <1>4, <1>5, <1>6, <1>7, <1>8 DEF ItemInv

LEMMA NextItem == TypeOK /\ TypeOK' /\ ItemInv /\ [Next]_vars => ItemInv'
<1> SUFFICES ASSUME TypeOK, TypeOK', ItemInv, [Next]_vars PROVE ItemInv'
  OBVIOUS
<1>1. CASE Idle \/ UNCHANGED vars
  BY <1>1 DEF Idle, vars, ItemInv, Active, Minting, Held, Unplaced, At
<1>2. QED
  BY <1>1, BeginItem, StepItem DEF Next

\* No board holds a card noteboard does not have, and no answered creation leaves an
\* item that no board shows, for any cards, boards, limits and number of requests.
THEOREM NoOrphans == Spec => []NoOrphanItems
<1>1. QED
  BY InitType, NextType, InitItem, NextItem, ItemInvSuffices, PTL DEF Spec

-----------------------------------------------------------------------------
(* The log tells where a card is, and what its status should be *)

\* The row is written and the event that tells of it is not.
Written(r) == req[r].stage \in {"reread", "log"} \/ At(r, "create", "patch")

\* Where an open request r on card c stands between the log and the rows.
Placed(r, c) ==
  \A b \in Board :
    /\ b # req[r].board \/ ~Written(r) => place[c][b] = Told(c, b)
    /\ b = req[r].board =>
         /\ Written(r) => place[c][b] = req[r].col
         /\ At(r, "move", "check") \/ At(r, "move", "write") => req[r].from = place[c][b]
         /\ At(r, "move", "reread") \/ At(r, "move", "log") => req[r].from = Told(c, b)

\* The column request r is about asks for a status.
Asks(r) == AutoStatus[req[r].col] # NoStatus

\* The same between the log and the item's status.
Statused(r, c) ==
  /\ req[r].op = "create" =>
       /\ StatusArrivals(c) = {} /\ req[r].stage # "read"
       /\ req[r].stage \in {"write", "patch"} => item[c] = "open"
       /\ req[r].stage = "log" => item[c] = IF Asks(r) THEN AutoStatus[req[r].col] ELSE "open"
  /\ req[r].op # "create" =>
       IF At(r, "move", "patch") /\ Asks(r) THEN Expected(c) = AutoStatus[req[r].col]
       ELSE item[c] = Expected(c)

MovesTold(c) ==
  \A i \in DOMAIN log : \A b \in Board :
    log[i].card = c /\ log[i].board = b /\ log[i].kind = "card_moved" =>
      log[i].from = ColumnTold(c, b, i - 1)

Settled(c) ==
  /\ \A b \in Board : place[c][b] = Told(c, b)
  /\ item[c] # "absent" => item[c] = Expected(c)

\* One request at a time was open on card c, and none failed after it wrote.
Tale(c) ==
  /\ \A p, q \in Active : req[p].card = c /\ req[q].card = c => p = q
  /\ Quiet(c) => Settled(c)
  /\ \A q \in Active : req[q].card = c => Placed(q, c) /\ Statused(q, c)
  /\ MovesTold(c)

TaleInv ==
  /\ \A c \in Card : item[c] = "absent" => \A i \in DOMAIN log : log[i].card # c
  /\ \A c \in Card \ disturbed : Tale(c)

LEMMA TaleSuffices == TypeOK /\ TaleInv => LogReplaysPlacement /\ StatusFollowsArrivals
<1> SUFFICES ASSUME TypeOK, TaleInv PROVE LogReplaysPlacement /\ StatusFollowsArrivals
  OBVIOUS
<1>1. ASSUME NEW c \in Card \ disturbed, NEW i \in DOMAIN log,
             log[i].card = c, log[i].kind = "card_moved"
      PROVE  log[i].from = ColumnTold(c, log[i].board, i - 1)
  <2>1. log[i].board \in Board
    <3>1. log[i] \in Event
      BY DEF TypeOK
    <3>2. QED
      BY <3>1 DEF Event
  <2>2. QED
    BY <1>1, <2>1 DEF TaleInv, Tale, MovesTold
<1>2. LogReplaysPlacement
  BY <1>1 DEF LogReplaysPlacement, TaleInv, Tale, Settled, Told
<1>3. StatusFollowsArrivals
  BY DEF StatusFollowsArrivals, TaleInv, Tale, Settled, Expected
<1>4. QED
  BY <1>2, <1>3

LEMMA InitTale == Init => TaleInv
<1> SUFFICES ASSUME Init PROVE TaleInv
  OBVIOUS
<1>1. log = <<>> /\ DOMAIN log = {} /\ Len(log) = 0
  BY DEF Init
<1>2. Active = {}
  BY DEF Init, Active
<1>3. ASSUME NEW c \in Card, NEW b \in Board PROVE place[c][b] = Told(c, b)
  <2>1. EventsOf(c, b, Len(log)) = {}
    BY <1>1 DEF EventsOf
  <2>2. QED
    BY <2>1 DEF Told, ColumnTold, Init
<1>4. \A c \in Card : item[c] = "absent"
  BY DEF Init
<1>5. QED
  BY <1>1, <1>2, <1>3, <1>4 DEF TaleInv, Tale, Settled, MovesTold

\* An event of another card changes nothing of what is told of this one.
LEMMA OthersTold ==
  ASSUME log \in Seq(Event), NEW d \in Card,
         log' = log \/ \E e \in Event : e.card # d /\ log' = Append(log, e)
  PROVE  /\ \A b \in Board : Told(d, b)' = Told(d, b)
         /\ Expected(d)' = Expected(d) /\ StatusArrivals(d)' = StatusArrivals(d)
         /\ MovesTold(d) => MovesTold(d)'
         /\ (\A i \in DOMAIN log : log[i].card # d) => \A i \in DOMAIN log' : log'[i].card # d
<1>1. CASE log' = log
  BY <1>1 DEF Told, ColumnTold, EventsOf, Expected, StatusArrivals, MovesTold
<1>2. ASSUME NEW e \in Event, e.card # d, log' = Append(log, e)
      PROVE  /\ \A b \in Board : Told(d, b)' = Told(d, b)
             /\ Expected(d)' = Expected(d) /\ StatusArrivals(d)' = StatusArrivals(d)
             /\ MovesTold(d) => MovesTold(d)'
             /\ (\A i \in DOMAIN log : log[i].card # d) => \A i \in DOMAIN log' : log'[i].card # d
  <2>1. PICK n \in Nat : n = Len(log)
    BY LogGrows, <1>2
  <2>2. \A b \in Board : Told(d, b)' = Told(d, b)
    BY <1>2, <2>1, ToldAnew
  <2>3. Expected(d)' = Expected(d) /\ StatusArrivals(d)' = StatusArrivals(d)
    BY <1>2, <2>1, ExpectedAnew DEF Arrives
  <2>4. ASSUME MovesTold(d), NEW i \in DOMAIN log', NEW b \in Board,
               log'[i].card = d, log'[i].board = b, log'[i].kind = "card_moved"
        PROVE  log'[i].from = ColumnTold(d, b, i - 1)'
    <3>1. i \in DOMAIN log /\ log'[i] = log[i] /\ i - 1 \in 0..Len(log)
      BY <1>2, <2>4, LogGrows
    <3>2. log[i].from = ColumnTold(d, b, i - 1)
      BY <2>4, <3>1 DEF MovesTold
    <3>3. ColumnTold(d, b, i - 1)' = ColumnTold(d, b, i - 1)
      BY <1>2, <3>1, ToldStands
    <3>4. QED
      BY <3>1, <3>2, <3>3
  <2>5. MovesTold(d) => MovesTold(d)'
    BY <2>4 DEF MovesTold
  <2>6. (\A i \in DOMAIN log : log[i].card # d) => \A i \in DOMAIN log' : log'[i].card # d
    BY <1>2, LogGrows
  <2>7. QED
    BY <2>2, <2>3, <2>5, <2>6
<1>3. QED
  BY <1>1, <1>2

\* A step on another card leaves the tale of this one as it was.
LEMMA OthersTale ==
  ASSUME TypeOK, NEW d \in Card, Tale(d),
         place'[d] = place[d], item'[d] = item[d],
         log' = log \/ \E e \in Event : e.card # d /\ log' = Append(log, e),
         \A q \in Active' : req'[q].card = d => q \in Active /\ req'[q] = req[q],
         \A q \in Active : req[q].card = d => q \in Active' /\ req'[q] = req[q]
  PROVE  Tale(d)'
<1>1. /\ \A b \in Board : Told(d, b)' = Told(d, b)
      /\ Expected(d)' = Expected(d) /\ StatusArrivals(d)' = StatusArrivals(d)
      /\ MovesTold(d)'
  BY OthersTold DEF TypeOK, Tale
<1>2. Settled(d)' <=> Settled(d)
  BY <1>1 DEF Settled
<1>3. \A q \in Active' : req'[q].card = d => Placed(q, d)' /\ Statused(q, d)'
  BY <1>1 DEF Tale, Placed, Statused, Written, At, Asks
<1>4. Quiet(d)' => Quiet(d)
  BY DEF Quiet
<1>5. QED
  BY <1>1, <1>2, <1>3, <1>4 DEF Tale

LEMMA BeginTale ==
  ASSUME TypeOK, TaleInv, NEW r \in Request,
         BeginCreate(r) \/ BeginAttach(r) \/ BeginMove(r) \/ BeginDetach(r)
  PROVE  TaleInv'
<1>1. PICK op \in Ops \ {"none"}, c \in Card, stage \in {"check", "read", "write"} :
        /\ Begun(r, op, stage, c)
        /\ op = "create" => stage = "check"
        /\ op = "move" <=> stage = "read"
        /\ op = "detach" <=> stage = "write"
  BY BeginDetail
<1>2. /\ UNCHANGED <<item, place, log>>
      /\ \A q \in Active' \ {r} : q \in Active /\ req'[q] = req[q]
      /\ \A q \in Active : q \in Active' /\ req'[q] = req[q]
      /\ req'[r].card = c /\ req'[r].op = op /\ req'[r].stage = stage
  BY <1>1 DEF Begun, Active
<1>3. ASSUME NEW d \in Card \ disturbed', d # c PROVE Tale(d)'
  <2>1. Tale(d)
    BY <1>1, <1>3 DEF Begun, TaleInv
  <2>2. QED
    BY <1>2, <1>3, <2>1, OthersTale
<1>4. ASSUME c \notin disturbed' PROVE Tale(c)'
  <2>1. c \notin disturbed /\ \A q \in Active : req[q].card # c
    BY <1>1, <1>4 DEF Begun
  <2>2. Settled(c) /\ MovesTold(c)
    BY <2>1 DEF TaleInv, Tale, Quiet
  <2>3. MovesTold(c)' /\ (\A b \in Board : Told(c, b)' = Told(c, b)) /\ Expected(c)' = Expected(c)
        /\ StatusArrivals(c)' = StatusArrivals(c)
    BY <1>2, <2>2, OthersTold DEF TypeOK
  <2>4. ~Written(r)' /\ ~(At(r, "move", "check") \/ At(r, "move", "write"))'
        /\ ~(At(r, "move", "reread") \/ At(r, "move", "log"))' /\ ~At(r, "move", "patch")'
    BY <1>1, <1>2 DEF Written, At
  <2>5. Placed(r, c)'
    BY <1>2, <2>2, <2>3, <2>4 DEF Placed, Settled
  <2>6. Statused(r, c)'
    <3>1. CASE op = "create"
      <4>1. StatusArrivals(c) = {}
        BY <1>1, <3>1 DEF Begun, TaleInv, StatusArrivals
      <4>2. QED
        BY <1>1, <1>2, <2>3, <3>1, <4>1 DEF Statused
    <3>2. CASE op # "create"
      BY <1>1, <1>2, <2>2, <2>3, <2>4, <3>2 DEF Statused, Settled, Begun
    <3>3. QED
      BY <3>1, <3>2
  <2>7. \A q \in Active' : req'[q].card = c => q = r
    BY <1>2, <2>1
  <2>8. ~Quiet(c)'
    BY <1>1, <1>2 DEF Quiet, Begun
  <2>9. QED
    BY <2>3, <2>5, <2>6, <2>7, <2>8 DEF Tale
<1>5. QED
  BY <1>2, <1>3, <1>4 DEF TaleInv

LEMMA GotoKeeps ==
  ASSUME TypeOK, NEW r \in Active, NEW stage \in Stages, Goto(r, stage)
  PROVE  Same(r) /\ req'[r].stage = stage /\ req'[r].from = req[r].from
<1>1. req'[r] = [req[r] EXCEPT !.stage = stage] /\ req[r] \in ReqRecord
  BY GotoType DEF TypeOK, Active
<1>2. QED
  BY <1>1 DEF Same, ReqRecord

\* The only open request of an undisturbed card goes on, or is answered.
LEMMA GoesOn ==
  ASSUME TypeOK, NEW r \in Active, NEW k \in Card, k = req[r].card, Tale(k), Same(r),
         \A q \in Request \ {r} : req'[q] = req[q],
         Placed(r, k)', Statused(r, k)', MovesTold(k)', r \in Active'
  PROVE  Tale(k)'
<1>1. \A q \in Active' : req'[q].card = k => q = r
  BY DEF Tale, Active
<1>2. ~Quiet(k)'
  BY DEF Quiet, Same
<1>3. QED
  BY <1>1, <1>2 DEF Tale

LEMMA IsAnswered ==
  ASSUME TypeOK, NEW r \in Active, NEW k \in Card, k = req[r].card, Tale(k), Close(r),
         Settled(k)', MovesTold(k)'
  PROVE  Tale(k)'
<1>1. r \notin Active' /\ \A q \in Request \ {r} : req'[q] = req[q]
  BY CloseType DEF Active
<1>2. \A q \in Active' : req'[q].card # k
  BY <1>1 DEF Tale, Active
<1>3. QED
  BY <1>2 DEF Tale

\* A step of r that leaves the rows, the item and the log alone.
LEMMA NothingTold ==
  ASSUME TypeOK, NEW k \in Card, Tale(k), log' = log
  PROVE  /\ \A b \in Board : Told(k, b)' = Told(k, b)
         /\ Expected(k)' = Expected(k) /\ StatusArrivals(k)' = StatusArrivals(k)
         /\ MovesTold(k)'
BY OthersTold DEF TypeOK, Tale

LEMMA ReadTale ==
  ASSUME TypeOK, NEW r \in Active, NEW k \in Card, k = req[r].card, Tale(k), MoveReadCurrent(r)
  PROVE  Tale(k)'
<1> DEFINE current == place[req[r].card][req[r].board]
           stage == IF current = req[r].col THEN "write" ELSE "check"
<1>1. req' = [req EXCEPT ![r] = [req[r] EXCEPT !.from = current, !.stage = stage]]
      /\ UNCHANGED <<item, place, log>> /\ At(r, "move", "read")
  BY DEF MoveReadCurrent
<1>2. stage \in {"write", "check"}
  OBVIOUS
<1> HIDE DEF stage, current
<1>3. r \in Request /\ req[r] \in ReqRecord /\ req \in [Request -> ReqRecord]
  BY DEF TypeOK, Active
<1>4. req'[r] = [req[r] EXCEPT !.from = current, !.stage = stage]
      /\ \A q \in Request \ {r} : req'[q] = req[q]
  BY <1>1, <1>3
<1>5. Same(r) /\ req'[r].stage = stage /\ req'[r].from = current
  BY <1>3, <1>4 DEF Same, ReqRecord
<1>6. r \in Active'
  BY <1>2, <1>5 DEF Active
<1>7. Placed(r, k) /\ Statused(r, k)
  BY DEF Tale
<1>8. /\ \A b \in Board : Told(k, b)' = Told(k, b)
      /\ Expected(k)' = Expected(k) /\ MovesTold(k)'
  BY <1>1, NothingTold
<1>9. Placed(r, k)'
  BY <1>1, <1>2, <1>5, <1>7, <1>8 DEF Placed, Written, At, Same, current
<1>10. Statused(r, k)'
  BY <1>1, <1>2, <1>5, <1>7, <1>8 DEF Statused, At, Same, Asks
<1>11. QED
  BY <1>4, <1>5, <1>6, <1>8, <1>9, <1>10, GoesOn

LEMMA CheckTale ==
  ASSUME TypeOK, ItemInv, NEW r \in Active, NEW k \in Card, k = req[r].card, Tale(k), CheckWip(r)
  PROVE  Tale(k)'
<1>1. Placed(r, k) /\ Statused(r, k) /\ req[r].stage = "check" /\ UNCHANGED <<item, place, log>>
  BY DEF Tale, CheckWip
<1>2. /\ \A b \in Board : Told(k, b)' = Told(k, b)
      /\ Expected(k)' = Expected(k) /\ StatusArrivals(k)' = StatusArrivals(k) /\ MovesTold(k)'
  BY <1>1, NothingTold
<1>3. CASE Close(r)
  <2>1. Settled(k)
    <3>1. \A b \in Board : place[k][b] = Told(k, b)
      BY <1>1 DEF Placed, Written, At
    <3>2. req[r].op = "create" => item[k] = "absent"
      BY <1>1 DEF ItemInv, Minting
    <3>3. QED
      BY <1>1, <3>1, <3>2 DEF Settled, Statused, At
  <2>2. Settled(k)'
    BY <1>1, <1>2, <2>1 DEF Settled
  <2>3. QED
    BY <1>2, <1>3, <2>2, IsAnswered
<1>4. CASE ~Close(r)
  <2>1. PICK stage \in {"item", "write"} :
          Goto(r, stage) /\ (stage = "item" <=> req[r].op = "create")
    BY <1>4 DEF CheckWip
  <2>2. Same(r) /\ req'[r].stage = stage /\ req'[r].from = req[r].from
        /\ \A q \in Request \ {r} : req'[q] = req[q]
    BY <2>1, GotoKeeps, GotoType DEF Stages
  <2>3. r \in Active'
    BY <2>2 DEF Active
  <2>4. Placed(r, k)'
    BY <1>1, <1>2, <2>2 DEF Placed, Written, At, Same
  <2>5. Statused(r, k)'
    BY <1>1, <1>2, <2>1, <2>2 DEF Statused, At, Same, Asks
  <2>6. QED
    BY <1>2, <2>2, <2>3, <2>4, <2>5, GoesOn
<1>5. QED
  BY <1>3, <1>4

LEMMA CreateTale ==
  ASSUME TypeOK, NEW r \in Active, NEW k \in Card, k = req[r].card, Tale(k), CreateItem(r)
  PROVE  Tale(k)'
<1>1. Placed(r, k) /\ Statused(r, k) /\ At(r, "create", "item") /\ UNCHANGED <<place, log>>
      /\ item' = [item EXCEPT ![k] = "open"] /\ Goto(r, "write")
  BY DEF Tale, CreateItem
<1>2. /\ \A b \in Board : Told(k, b)' = Told(k, b)
      /\ Expected(k)' = Expected(k) /\ StatusArrivals(k)' = StatusArrivals(k) /\ MovesTold(k)'
  BY <1>1, NothingTold
<1>3. Same(r) /\ req'[r].stage = "write" /\ req'[r].from = req[r].from
      /\ \A q \in Request \ {r} : req'[q] = req[q]
  BY <1>1, GotoKeeps, GotoType DEF Stages
<1>4. r \in Active'
  BY <1>3 DEF Active
<1>5. Placed(r, k)'
  BY <1>1, <1>2, <1>3 DEF Placed, Written, At, Same
<1>6. item'[k] = "open"
  BY <1>1 DEF TypeOK
<1>7. Statused(r, k)'
  BY <1>1, <1>2, <1>3, <1>6 DEF Statused, At, Same, Asks
<1>8. QED
  BY <1>2, <1>3, <1>4, <1>5, <1>7, GoesOn

\* The row an open request writes.
LEMMA PutRow ==
  ASSUME TypeOK, NEW r \in Active, NEW k \in Card, k = req[r].card, Put(r)
  PROVE  /\ place'[k][req[r].board] = req[r].col
         /\ \A b \in Board \ {req[r].board} : place'[k][b] = place[k][b]
         /\ req[r].board \in Board
BY DEF TypeOK, Put

\* The three statements that write a row go on to a stage that is yet to tell of it.
LEMMA WriteTale ==
  ASSUME TypeOK, NEW r \in Active, NEW k \in Card, k = req[r].card, Tale(k), Put(r),
         req[r].stage = "write", UNCHANGED <<item, log>>,
         NEW stage \in {"patch", "reread", "log"}, Goto(r, stage),
         stage = "patch" <=> req[r].op = "create",
         stage = "reread" <=> req[r].op = "move"
  PROVE  Tale(k)'
<1>1. Placed(r, k) /\ Statused(r, k)
  BY DEF Tale
<1>2. /\ \A b \in Board : Told(k, b)' = Told(k, b)
      /\ Expected(k)' = Expected(k) /\ StatusArrivals(k)' = StatusArrivals(k) /\ MovesTold(k)'
  BY NothingTold
<1>3. Same(r) /\ req'[r].stage = stage /\ req'[r].from = req[r].from
      /\ \A q \in Request \ {r} : req'[q] = req[q]
  BY GotoKeeps, GotoType DEF Stages
<1>4. r \in Active'
  BY <1>3 DEF Active
<1>5. ~Written(r) /\ Written(r)'
  BY <1>3 DEF Written, At, Same
<1>6. Placed(r, k)'
  <2>1. PICK h \in Board : h = req[r].board /\ h = req'[r].board
    BY <1>3, PutRow DEF Same
  <2>2. ASSUME NEW b \in Board, b # h PROVE place'[k][b] = Told(k, b)'
    BY <1>1, <1>2, <2>1, <2>2, PutRow DEF Placed
  <2>3. place'[k][h] = req'[r].col
    BY <1>3, <2>1, PutRow DEF Same
  <2>4. ~(At(r, "move", "check") \/ At(r, "move", "write"))'
    BY <1>3 DEF At
  <2>5. req[r].op = "move" => req'[r].from = Told(k, h)'
    <3>1. req[r].op = "move" => req[r].from = place[k][h] /\ place[k][h] = Told(k, h)
      BY <1>1, <1>5, <2>1 DEF Placed, At
    <3>2. QED
      BY <1>2, <1>3, <3>1
  <2>6. At(r, "move", "reread")' \/ At(r, "move", "log")' => req[r].op = "move"
    BY <1>3 DEF At, Same
  <2>7. QED
    BY <1>5, <2>1, <2>2, <2>3, <2>4, <2>5, <2>6 DEF Placed
<1>7. Statused(r, k)'
  BY <1>1, <1>2, <1>3 DEF Statused, At, Same, Asks
<1>8. QED
  BY <1>2, <1>3, <1>4, <1>6, <1>7, GoesOn

\* A request that found nothing to write, and whose card's creation is over, is answered.
LEMMA AnswerTale ==
  ASSUME TypeOK, NEW r \in Active, NEW k \in Card, k = req[r].card, Tale(k), Close(r),
         ~Written(r), req[r].op # "create" \/ item[k] = "absent", ~At(r, "move", "patch"),
         UNCHANGED <<item, place, log>>
  PROVE  Tale(k)'
<1>1. Placed(r, k) /\ Statused(r, k)
  BY DEF Tale
<1>2. /\ \A b \in Board : Told(k, b)' = Told(k, b)
      /\ Expected(k)' = Expected(k) /\ MovesTold(k)'
  BY NothingTold
<1>3. Settled(k)
  BY <1>1 DEF Settled, Statused, Placed
<1>4. Settled(k)'
  BY <1>2, <1>3 DEF Settled
<1>5. QED
  BY <1>2, <1>4, IsAnswered

LEMMA AttachTale ==
  ASSUME TypeOK, NEW r \in Active, NEW k \in Card, k = req[r].card, Tale(k), AttachRow(r)
  PROVE  Tale(k)'
<1>1. CASE req[r].op = "create"
  <2>1. Put(r) /\ req[r].stage = "write" /\ UNCHANGED <<item, log>> /\ Goto(r, "patch")
    BY <1>1 DEF AttachRow
  <2>2. QED
    BY <1>1, <2>1, WriteTale
<1>2. CASE req[r].op = "attach"
  <2>1. Put(r) /\ req[r].stage = "write" /\ UNCHANGED <<item, log>> /\ Goto(r, "log")
    BY <1>2 DEF AttachRow
  <2>2. QED
    BY <1>2, <2>1, WriteTale
<1>3. QED
  BY <1>1, <1>2 DEF AttachRow

LEMMA RowTale ==
  ASSUME TypeOK, NEW r \in Active, NEW k \in Card, k = req[r].card, Tale(k),
         MoveRow(r) \/ DetachRow(r)
  PROVE  Tale(k)'
<1>1. req[r].stage = "write" /\ req[r].op \in {"move", "detach"} /\ UNCHANGED <<item, log>>
  BY DEF MoveRow, DetachRow, At
<1>2. CASE place[req[r].card][req[r].board] = NoColumn
  <2>1. Close(r) /\ UNCHANGED place
    BY <1>2 DEF MoveRow, DetachRow
  <2>2. ~Written(r) /\ ~At(r, "move", "patch")
    BY <1>1 DEF Written, At
  <2>3. QED
    BY <1>1, <2>1, <2>2, AnswerTale
<1>3. CASE place[req[r].card][req[r].board] # NoColumn
  <2>1. CASE MoveRow(r)
    <3>1. Put(r) /\ Goto(r, "reread") /\ req[r].op = "move"
      BY <1>3, <2>1 DEF MoveRow, At
    <3>2. QED
      BY <1>1, <3>1, WriteTale
  <2>2. CASE DetachRow(r)
    <3>1. Put(r) /\ Goto(r, "log") /\ req[r].op = "detach"
      BY <1>3, <2>2 DEF DetachRow, At
    <3>2. QED
      BY <1>1, <3>1, WriteTale
  <2>3. QED
    BY <2>1, <2>2
<1>4. QED
  BY <1>2, <1>3

LEMMA RereadTale ==
  ASSUME TypeOK, NEW r \in Active, NEW k \in Card, k = req[r].card, Tale(k), MoveReread(r)
  PROVE  Tale(k)'
<1>1. Placed(r, k) /\ Statused(r, k) /\ At(r, "move", "reread") /\ UNCHANGED <<item, place, log>>
  BY DEF Tale, MoveReread
<1>2. place[k][req[r].board] = req[r].col /\ req[r].col # NoColumn
  BY <1>1 DEF Placed, Written, At, TypeOK
<1>3. Goto(r, "log")
  BY <1>2 DEF MoveReread
<1>4. Same(r) /\ req'[r].stage = "log" /\ req'[r].from = req[r].from
      /\ \A q \in Request \ {r} : req'[q] = req[q]
  BY <1>3, GotoKeeps, GotoType DEF Stages
<1>5. r \in Active'
  BY <1>4 DEF Active
<1>6. /\ \A b \in Board : Told(k, b)' = Told(k, b)
      /\ Expected(k)' = Expected(k) /\ MovesTold(k)'
  BY <1>1, NothingTold
<1>7. Placed(r, k)'
  BY <1>1, <1>4, <1>6 DEF Placed, Written, At, Same
<1>8. Statused(r, k)'
  BY <1>1, <1>4, <1>6 DEF Statused, At, Same, Asks
<1>9. QED
  BY <1>4, <1>5, <1>6, <1>7, <1>8, GoesOn

LEMMA PatchTale ==
  ASSUME TypeOK, NEW r \in Active, NEW k \in Card, k = req[r].card, Tale(k), PatchStatus(r)
  PROVE  Tale(k)'
<1>1. Placed(r, k) /\ Statused(r, k) /\ req[r].stage = "patch" /\ UNCHANGED <<place, log>>
      /\ req[r].op \in {"create", "move"}
  BY DEF Tale, PatchStatus, TypeOK
<1>2. item'[k] = IF Asks(r) THEN AutoStatus[req[r].col] ELSE item[k]
  BY DEF PatchStatus, TypeOK, Asks
<1>3. /\ \A b \in Board : Told(k, b)' = Told(k, b)
      /\ Expected(k)' = Expected(k) /\ StatusArrivals(k)' = StatusArrivals(k) /\ MovesTold(k)'
  BY <1>1, NothingTold
<1>4. CASE req[r].op = "create"
  <2>1. Goto(r, "log")
    BY <1>4 DEF PatchStatus
  <2>2. Same(r) /\ req'[r].stage = "log" /\ \A q \in Request \ {r} : req'[q] = req[q]
    BY <2>1, GotoKeeps, GotoType DEF Stages
  <2>3. r \in Active'
    BY <2>2 DEF Active
  <2>4. Placed(r, k)'
    BY <1>1, <1>3, <1>4, <2>2 DEF Placed, Written, At, Same
  <2>5. Statused(r, k)'
    BY <1>1, <1>2, <1>3, <1>4, <2>2 DEF Statused, At, Same, Asks
  <2>6. QED
    BY <1>3, <2>2, <2>3, <2>4, <2>5, GoesOn
<1>5. CASE req[r].op = "move"
  <2>1. Close(r)
    BY <1>5 DEF PatchStatus
  <2>2. \A b \in Board : place[k][b] = Told(k, b)
    BY <1>1, <1>5 DEF Placed, Written, At
  <2>3. item'[k] = Expected(k)
    BY <1>1, <1>2, <1>5 DEF Statused, At, Asks
  <2>4. Settled(k)'
    BY <1>1, <1>3, <2>2, <2>3 DEF Settled
  <2>5. QED
    BY <1>3, <2>1, <2>4, IsAnswered
<1>6. QED
  BY <1>1, <1>4, <1>5

\* Nothing was written yet: the request may end where it stands.
LEMMA AbandonTale ==
  ASSUME TypeOK, ItemInv, NEW r \in Active, NEW k \in Card, k = req[r].card, Tale(k), Abandon(r),
         k \notin disturbed'
  PROVE  Tale(k)'
<1>1. ~HasWritten(r) /\ Close(r) /\ UNCHANGED <<item, place, log>>
  BY DEF Abandon
<1>2. ~Written(r) /\ ~At(r, "move", "patch")
  BY <1>1 DEF HasWritten, Written, At
<1>3. req[r].op = "create" => item[k] = "absent"
  <2>1. ASSUME req[r].op = "create" PROVE Minting(r)
    <3>1. req[r] \in ReqRecord
      BY DEF TypeOK, Active
    <3>2. req[r].stage \in {"check", "item"}
      BY <1>1, <2>1, <3>1 DEF ReqRecord, Stages, HasWritten, At, Active, Tale, Statused
    <3>3. QED
      BY <2>1, <3>2 DEF Minting
  <2>2. QED
    BY <2>1 DEF ItemInv
<1>4. QED
  BY <1>1, <1>2, <1>3, AnswerTale

\* The event tells what the row already says, and of a move where it came from.
LEMMA RecordTale ==
  ASSUME TypeOK, NEW r \in Active, NEW k \in Card, k = req[r].card, Tale(k), Record(r)
  PROVE  Tale(k)'
<1>1. PICK e \in Event : /\ log' = Append(log, e) /\ e.card = k /\ e.board = req[r].board
                         /\ e.kind = EventKind[req[r].op] /\ e.from = req[r].from /\ e.to = req[r].col
  BY EventTyped DEF Record, EventFrom
<1>2. PICK n \in Nat : n = Len(log)
  BY <1>1, LogGrows DEF TypeOK
<1>3. PICK h \in Board : h = req[r].board
  BY DEF TypeOK
<1>4. Placed(r, k) /\ Statused(r, k) /\ req[r].stage = "log" /\ UNCHANGED <<item, place>>
      /\ MovesTold(k)
  BY DEF Tale, Record
<1>5. req[r].op \in {"create", "attach", "move", "detach"}
  BY DEF TypeOK, ReqRecord, Ops, Active
<1>6. \A b \in Board : Told(k, b)' = IF b = h THEN req[r].col ELSE Told(k, b)
  <2>1. ASSUME NEW b \in Board PROVE Told(k, b)' = IF b = h THEN req[r].col ELSE Told(k, b)
    <3>1. log \in Seq(Event) /\ log' = Append(log, e)
      BY <1>1 DEF TypeOK
    <3>2. Told(k, b)' = IF e.card = k /\ e.board = b THEN e.to ELSE Told(k, b)
      BY <1>2, <3>1, ToldAnew
    <3>3. QED
      BY <1>1, <1>3, <3>2
  <2>2. QED
    BY <2>1
<1>7. \A b \in Board : place'[k][b] = Told(k, b)'
  BY <1>3, <1>4, <1>6 DEF Placed, Written
<1>8. Arrives(e, k) <=> req[r].op \in {"create", "move"} /\ Asks(r)
  BY <1>1, <1>5 DEF Arrives, Asks, EventKind
<1>9. Expected(k)' = IF Arrives(e, k) THEN AutoStatus[req[r].col] ELSE Expected(k)
  BY <1>1, <1>2, ExpectedAnew DEF TypeOK
<1>10. MovesTold(k)'
  <2>1. ASSUME NEW i \in DOMAIN log', NEW b \in Board,
               log'[i].card = k, log'[i].board = b, log'[i].kind = "card_moved"
        PROVE  log'[i].from = ColumnTold(k, b, i - 1)'
    <3>1. CASE i \in DOMAIN log
      <4>1. log'[i] = log[i] /\ i - 1 \in 0..Len(log)
        BY <1>1, <3>1, LogGrows DEF TypeOK
      <4>2. log[i].from = ColumnTold(k, b, i - 1)
        BY <1>4, <2>1, <3>1, <4>1 DEF MovesTold
      <4>3. ColumnTold(k, b, i - 1)' = ColumnTold(k, b, i - 1)
        BY <1>1, <4>1, ToldStands DEF TypeOK
      <4>4. QED
        BY <4>1, <4>2, <4>3
    <3>2. CASE i \notin DOMAIN log
      <4>1. i = n + 1 /\ log'[i] = e /\ i - 1 = n /\ n \in 0..Len(log)
        BY <1>1, <1>2, <3>2, LogGrows DEF TypeOK
      <4>2. b = h /\ req[r].op = "move"
        BY <1>1, <1>3, <1>5, <2>1, <4>1 DEF EventKind
      <4>3. e.from = ColumnTold(k, h, n)
        BY <1>1, <1>2, <1>3, <1>4, <4>2 DEF Placed, At, Told
      <4>4. ColumnTold(k, h, n)' = ColumnTold(k, h, n)
        BY <1>1, <4>1, ToldStands DEF TypeOK
      <4>5. ColumnTold(k, b, i - 1)' = ColumnTold(k, h, n)'
        BY <4>1, <4>2
      <4>6. QED
        BY <4>1, <4>3, <4>4, <4>5
    <3>3. QED
      BY <3>1, <3>2
  <2>2. QED
    BY <2>1 DEF MovesTold
<1>11. CASE req[r].op = "move"
  <2>1. Goto(r, "patch")
    BY <1>11 DEF Record
  <2>2. Same(r) /\ req'[r].stage = "patch" /\ \A q \in Request \ {r} : req'[q] = req[q]
    BY <2>1, GotoKeeps, GotoType DEF Stages
  <2>3. r \in Active'
    BY <2>2 DEF Active
  <2>4. ~Written(r)'
    BY <1>11, <2>2 DEF Written, At, Same
  <2>5. Placed(r, k)'
    BY <1>7, <2>2, <2>4 DEF Placed, At
  <2>6. Statused(r, k)'
    BY <1>4, <1>8, <1>9, <1>11, <2>2 DEF Statused, At, Same, Asks
  <2>7. QED
    BY <1>10, <2>2, <2>3, <2>5, <2>6, GoesOn
<1>12. CASE req[r].op # "move"
  <2>1. Close(r)
    BY <1>12 DEF Record
  <2>2. item'[k] = Expected(k)'
    <3>1. CASE req[r].op = "create"
      <4>1. Expected(k) = "open"
        BY <1>4, <3>1 DEF Statused, Expected
      <4>2. QED
        BY <1>4, <1>8, <1>9, <3>1, <4>1 DEF Statused
    <3>2. CASE req[r].op # "create"
      BY <1>4, <1>8, <1>9, <1>12, <3>2 DEF Statused, At
    <3>3. QED
      BY <3>1, <3>2
  <2>3. Settled(k)'
    BY <1>7, <2>2 DEF Settled
  <2>4. QED
    BY <1>10, <2>1, <2>3, IsAnswered
<1>13. QED
  BY <1>11, <1>12

LEMMA StepTale ==
  ASSUME TypeOK, ItemInv, TaleInv, NEW r \in Request,
         Handle(r) \/ PatchRefused(r) \/ CreateAttachFails(r) \/ Abandon(r)
  PROVE  TaleInv'
<1>1. Touches(r) /\ r \in Active
  BY StepTouches DEF Touches
<1>2. PICK k \in Card : k = req[r].card
  BY <1>1 DEF TypeOK
<1>3. ASSUME NEW d \in Card, d # k
      PROVE  log' = log \/ \E e \in Event : e.card # d /\ log' = Append(log, e)
  BY <1>1, <1>2, <1>3 DEF Touches
<1>4. ASSUME NEW d \in Card, item'[d] = "absent"
      PROVE  \A i \in DOMAIN log' : log'[i].card # d
  <2>1. item[d] = "absent"
    BY <1>4, StepItemStays
  <2>2. \A i \in DOMAIN log : log[i].card # d
    BY <2>1 DEF TaleInv
  <2>3. CASE d # k
    BY <1>3, <2>2, <2>3, OthersTold DEF TypeOK
  <2>4. CASE d = k
    <3>1. Minting(r)
      BY <1>1, <1>2, <2>1, <2>4 DEF ItemInv
    <3>2. log' = log
      BY <3>1, MintingSteps
    <3>3. QED
      BY <2>2, <3>2
  <2>5. QED
    BY <2>3, <2>4
<1>5. ASSUME NEW d \in Card \ disturbed', d # k
      PROVE  Tale(d)'
  <2>1. Tale(d)
    BY <1>1, <1>5 DEF Touches, TaleInv
  <2>2. place'[d] = place[d] /\ item'[d] = item[d] /\ \A q \in Request \ {r} : req'[q] = req[q]
    BY <1>1, <1>2, <1>5 DEF Touches
  <2>3. Close(r) \/ Same(r)
    BY StepSame
  <2>4. ASSUME NEW q \in Active', req'[q].card = d PROVE q \in Active /\ req'[q] = req[q]
    <3>1. q # r
      BY <1>1, <1>2, <1>5, <2>3, <2>4, CloseType DEF Same
    <3>2. QED
      BY <2>2, <3>1 DEF Active
  <2>5. ASSUME NEW q \in Active, req[q].card = d PROVE q \in Active' /\ req'[q] = req[q]
    BY <1>2, <1>5, <2>2, <2>5 DEF Active
  <2>6. QED
    BY <1>3, <1>5, <2>1, <2>2, <2>4, <2>5, OthersTale
<1>6. ASSUME k \notin disturbed'
      PROVE  Tale(k)'
  <2>1. Tale(k)
    BY <1>1, <1>6 DEF Touches, TaleInv
  <2>2. ~PatchRefused(r) /\ ~CreateAttachFails(r)
    BY <1>2, <1>6 DEF PatchRefused, CreateAttachFails
  <2>3. QED
    BY <1>1, <1>2, <1>6, <2>1, <2>2, ReadTale, CheckTale, CreateTale, AttachTale, RowTale, RereadTale,
       RecordTale, PatchTale, AbandonTale DEF Handle
<1>7. QED
  BY <1>2, <1>4, <1>5, <1>6 DEF TaleInv

LEMMA NextTale == TypeOK /\ ItemInv /\ TaleInv /\ [Next]_vars => TaleInv'
<1> SUFFICES ASSUME TypeOK, ItemInv, TaleInv, [Next]_vars PROVE TaleInv'
  OBVIOUS
<1>1. CASE Idle \/ UNCHANGED vars
  <2>1. UNCHANGED vars
    BY <1>1 DEF Idle
  <2>2. Active' = Active /\ disturbed' = disturbed
    BY <2>1 DEF vars, Active
  <2>3. ASSUME NEW d \in Card \ disturbed PROVE Tale(d)'
    <3>1. Tale(d)
      BY <2>3 DEF TaleInv
    <3>2. QED
      BY <2>1, <2>2, <3>1, OthersTale DEF vars
  <2>4. QED
    BY <2>1, <2>2, <2>3 DEF TaleInv, vars
<1>2. QED
  BY <1>1, BeginTale, StepTale DEF Next

\* For a card whose requests never overlapped nor failed half way, the log tells between
\* its requests where it is on every board, and each card_moved leaves from the column
\* the log had last put it in: for any number of cards, boards, columns and requests.
THEOREM LogReplays == Spec => []LogReplaysPlacement
<1>1. QED
  BY InitType, NextType, InitItem, NextItem, InitTale, NextTale, TaleSuffices, PTL DEF Spec

\* And its item reads what the last arrival in a column with an auto_status asked for.
THEOREM StatusFollows == Spec => []StatusFollowsArrivals
<1>1. QED
  BY InitType, NextType, InitItem, NextItem, InitTale, NextTale, TaleSuffices, PTL DEF Spec
=============================================================================
