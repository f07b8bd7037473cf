----------------------------- MODULE BoardsProofs -----------------------------
(***************************************************************************)
(* The properties of Boards and of BoardSettings, for any boards, columns, *)
(* cards, people, requests and clock.                                      *)
(*                                                                         *)
(* BoardSettings keeps the promise of SettingsRegister: a version names    *)
(* one content of the row, because every save moves the version strictly   *)
(* forward from the one it compared; so a save that finds the version it   *)
(* read also finds the settings it read, and its two statements act as the *)
(* one step of the register.                                               *)
(*                                                                         *)
(* The invariant of Boards, BoardsInv, says what every request knows at    *)
(* each of its statements (Shaped), which columns it can name and on which *)
(* board it found them (Known), whose creation a board still is            *)
(* (Creators), that who writes a field back read what is saved of it       *)
(* (Fresh), and that the rows of a card moved in the order of its turns    *)
(* (Turns).  Each part is kept by every step in a lemma of its own.  What  *)
(* the folds of LevelOnCard and Shared compute follows position by         *)
(* position: PositionsOneByOne.                                            *)
(***************************************************************************)
EXTENDS Boards, BoardSettings, FiniteSetTheorems, WellFoundedInduction, TLAPS

-----------------------------------------------------------------------------
(* The settings of a board *)

\* A save that passed its If-Match has read the version its client sent.
BasedIsRead ==
  \A r \in Save : save[r].stage = "write" => save[r].based \in {NoVersion, save[r].readVersion}

SettingsInv == SettingsTypeOK /\ VersionNamesContent /\ BasedIsRead

LEMMA SettingsHold == SettingsInit => SettingsInv
BY SettingsAssumption
   DEF SettingsInit, SettingsInv, SettingsTypeOK, SaveRecord, VersionNamesContent, BasedIsRead

\* The clock never makes a version that is not later than the one it replaces.
LEMMA VersionAdvances ==
  ASSUME NEW now \in Now, NEW previous \in Nat
  PROVE  NextVersion(now, previous) \in Nat /\ NextVersion(now, previous) > previous
BY SettingsAssumption DEF NextVersion

LEMMA MergeType ==
  ASSUME NEW r \in Save, NEW settings \in [Field -> Setting]
  PROVE  Merge(settings, Patch[r]) \in [Field -> Setting]
BY SettingsAssumption DEF Merge, Register!Merge

\* What a step that changes one save's record, and perhaps the row, has to show.
LEMMA OneSave ==
  ASSUME SettingsInv, NEW r \in Save, NEW to \in SaveRecord, NEW told \in {"none", "saved", "refused"},
         save' = [save EXCEPT ![r] = to], answer' = [answer EXCEPT ![r] = told],
         row' \in [Field -> Setting] \cup {Gone}, version' \in Nat,
         \/ row' = row /\ version' = version
         \/ version' > version,
         to.stage # "done" <=> told = "none",
         to.stage = "write" => /\ to.read # Gone /\ to.readVersion # NoVersion
                               /\ to.based \in {NoVersion, to.readVersion},
         \/ to.based = save[r].based /\ to.shown = save[r].shown
         \/ to.based = version /\ to.shown = row /\ version' = version,
         \/ to.readVersion = save[r].readVersion /\ to.read = save[r].read
         \/ to.readVersion = version /\ to.read = row /\ version' = version
  PROVE  SettingsInv'
<1>1. /\ save \in [Save -> SaveRecord] /\ answer \in [Save -> {"none", "saved", "refused"}]
      /\ version \in Nat
  BY DEF SettingsInv, SettingsTypeOK
<1>2. \A q \in Save : save'[q] = IF q = r THEN to ELSE save[q]
  BY <1>1
<1>3. \A q \in Save : answer'[q] = IF q = r THEN told ELSE answer[q]
  BY <1>1
<1>4. SettingsTypeOK'
  <2>1. save' \in [Save -> SaveRecord] /\ answer' \in [Save -> {"none", "saved", "refused"}]
    BY <1>1
  <2>2. \A q \in Save :
          /\ save'[q].stage # "done" <=> answer'[q] = "none"
          /\ save'[q].stage = "write" => save'[q].read # Gone /\ save'[q].readVersion # NoVersion
    BY <1>2, <1>3 DEF SettingsInv, SettingsTypeOK
  <2>. QED BY <2>1, <2>2 DEF SettingsTypeOK
<1>5. BasedIsRead'
  BY <1>2 DEF SettingsInv, BasedIsRead
<1>6. VersionNamesContent'
  <2> SUFFICES ASSUME NEW q \in Save
               PROVE  /\ save'[q].based # NoVersion =>
                           /\ save'[q].based <= version'
                           /\ row' # Gone /\ save'[q].based = version' => save'[q].shown = row'
                      /\ save'[q].readVersion # NoVersion =>
                           /\ save'[q].readVersion <= version'
                           /\ row' # Gone /\ save'[q].readVersion = version' => save'[q].read = row'
    BY DEF VersionNamesContent
  <2>0. save[q] \in SaveRecord /\ SaveRecord = SaveRecord
    BY <1>1
  <2>1. /\ save[q].based \in Nat \cup {NoVersion} /\ save[q].readVersion \in Nat \cup {NoVersion}
        /\ save[q].based # NoVersion =>
             /\ save[q].based <= version
             /\ row # Gone /\ save[q].based = version => save[q].shown = row
        /\ save[q].readVersion # NoVersion =>
             /\ save[q].readVersion <= version
             /\ row # Gone /\ save[q].readVersion = version => save[q].read = row
    BY <2>0 DEF SettingsInv, VersionNamesContent, SaveRecord
  <2>2. /\ \/ save'[q].based = save[q].based /\ save'[q].shown = save[q].shown
           \/ save'[q].based = version /\ save'[q].shown = row /\ version' = version
        /\ \/ save'[q].readVersion = save[q].readVersion /\ save'[q].read = save[q].read
           \/ save'[q].readVersion = version /\ save'[q].read = row /\ version' = version
    BY <1>2
  <2>3. CASE row' = row /\ version' = version
    BY <1>1, <2>1, <2>2, <2>3
  <2>4. CASE version' > version
    BY <1>1, <2>1, <2>2, <2>4
  <2>. QED BY <2>3, <2>4
<1>. QED BY <1>4, <1>5, <1>6 DEF SettingsInv

LEMMA SettingsKept == SettingsInv /\ [SettingsNext]_settingsVars => SettingsInv'
<1> SUFFICES ASSUME SettingsInv, [SettingsNext]_settingsVars PROVE SettingsInv'
  OBVIOUS
<1>0. /\ save \in [Save -> SaveRecord] /\ answer \in [Save -> {"none", "saved", "refused"}]
      /\ version \in Nat /\ row \in [Field -> Setting] \cup {Gone}
  BY DEF SettingsInv, SettingsTypeOK
<1>1. ASSUME NEW r \in Save PROVE
        /\ save[r] \in SaveRecord
        /\ save[r].stage # "done" <=> answer[r] = "none"
        /\ save[r].stage = "write" => save[r].read # Gone /\ save[r].readVersion # NoVersion
        /\ save[r].stage = "write" => save[r].based \in {NoVersion, save[r].readVersion}
        /\ answer[r] \in {"none", "saved", "refused"}
  BY <1>0 DEF SettingsInv, SettingsTypeOK, BasedIsRead
<1>2. ASSUME NEW r \in Save, Send(r) PROVE SettingsInv'
  <2> DEFINE to == [save[r] EXCEPT !.stage = "read"]
  <2>1. to \in SaveRecord /\ to.stage = "read" /\ to.based = save[r].based
        /\ to.shown = save[r].shown /\ to.read = save[r].read /\ to.readVersion = save[r].readVersion
    BY <1>1 DEF SaveRecord
  <2>2. save' = [save EXCEPT ![r] = to] /\ row' = row /\ version' = version /\ save[r].stage = "new"
    BY <1>2 DEF Send
  <2>3. answer[r] = "none" /\ answer' = [answer EXCEPT ![r] = "none"]
    BY <1>0, <1>1, <1>2, <2>2 DEF Send
  <2> HIDE DEF to
  <2>. QED BY <1>0, <2>1, <2>2, <2>3, OneSave
<1>3. ASSUME NEW r \in Save, SendIfMatch(r) PROVE SettingsInv'
  <2> DEFINE to == [save[r] EXCEPT !.stage = "read", !.based = version, !.shown = row]
  <2>1. to \in SaveRecord /\ to.stage = "read" /\ to.based = version
        /\ to.shown = row /\ to.read = save[r].read /\ to.readVersion = save[r].readVersion
    BY <1>0, <1>1 DEF SaveRecord
  <2>2. /\ save' = [save EXCEPT ![r] = to] /\ row' = row /\ version' = version
        /\ save[r].stage = "new" /\ answer' = answer
    BY <1>0, <1>3 DEF SendIfMatch
  <2>3. answer[r] = "none" /\ answer' = [answer EXCEPT ![r] = "none"]
    BY <1>0, <1>1, <2>2
  <2> HIDE DEF to
  <2>. QED BY <1>0, <2>1, <2>2, <2>3, OneSave
<1>4. ASSUME NEW r \in Save, ReadBoard(r) PROVE SettingsInv'
  <2>0. save[r].stage = "read" /\ row' = row /\ version' = version
    BY <1>4 DEF ReadBoard
  <2>1. CASE row = Gone \/ save[r].based \notin {NoVersion, version}
    <3> DEFINE to == [save[r] EXCEPT !.stage = "done"]
    <3>1. to \in SaveRecord /\ to.stage = "done" /\ to.based = save[r].based
          /\ to.shown = save[r].shown /\ to.read = save[r].read
          /\ to.readVersion = save[r].readVersion
      BY <1>1 DEF SaveRecord
    <3>2. save' = [save EXCEPT ![r] = to] /\ answer' = [answer EXCEPT ![r] = "refused"]
      BY <1>4, <2>1 DEF ReadBoard, Answer
    <3> HIDE DEF to
    <3>. QED BY <1>0, <2>0, <3>1, <3>2, OneSave
  <2>2. CASE ~(row = Gone \/ save[r].based \notin {NoVersion, version})
    <3> DEFINE to == [save[r] EXCEPT !.stage = "write", !.read = row, !.readVersion = version]
    <3>1. to \in SaveRecord /\ to.stage = "write" /\ to.based = save[r].based
          /\ to.shown = save[r].shown /\ to.read = row /\ to.readVersion = version
      BY <1>0, <1>1 DEF SaveRecord
    <3>2. save' = [save EXCEPT ![r] = to] /\ answer' = answer
      BY <1>0, <1>4, <2>2 DEF ReadBoard
    <3>3. answer[r] = "none" /\ answer' = [answer EXCEPT ![r] = "none"]
      BY <1>0, <1>1, <2>0, <3>2
    <3>4. to.read # Gone /\ to.readVersion # NoVersion /\ to.based \in {NoVersion, to.readVersion}
      BY <1>0, <2>2, <3>1, SettingsAssumption
    <3> HIDE DEF to
    <3>. QED BY <1>0, <2>0, <3>1, <3>2, <3>3, <3>4, OneSave
  <2>. QED BY <2>1, <2>2
<1>5. ASSUME NEW r \in Save, WriteBoard(r) PROVE SettingsInv'
  <2> DEFINE to == [save[r] EXCEPT !.stage = "done"]
  <2>1. to \in SaveRecord /\ to.stage = "done" /\ to.based = save[r].based
        /\ to.shown = save[r].shown /\ to.read = save[r].read
        /\ to.readVersion = save[r].readVersion
    BY <1>1 DEF SaveRecord
  <2>2. save[r].stage = "write" /\ save' = [save EXCEPT ![r] = to]
    BY <1>5 DEF WriteBoard
  <2>3. CASE row # Gone /\ version = save[r].readVersion
    <3>1. /\ row' = Merge(save[r].read, Patch[r])
          /\ \E now \in Now : version' = NextVersion(now, save[r].readVersion)
          /\ answer' = [answer EXCEPT ![r] = "saved"]
      BY <1>5, <2>3 DEF WriteBoard, Answer
    <3>2. version' \in Nat /\ version' > version
      BY <1>0, <2>3, <3>1, VersionAdvances
    <3>3. save[r].read \in [Field -> Setting]
      BY <1>1, <2>2 DEF SaveRecord
    <3>4. row' \in [Field -> Setting]
      BY <3>1, <3>3, MergeType
    <3> HIDE DEF to
    <3>. QED BY <1>0, <2>1, <2>2, <3>1, <3>2, <3>4, OneSave
  <2>4. CASE ~(row # Gone /\ version = save[r].readVersion)
    <3>1. row' = row /\ version' = version /\ answer' = [answer EXCEPT ![r] = "refused"]
      BY <1>5, <2>4 DEF WriteBoard, Answer
    <3> HIDE DEF to
    <3>. QED BY <1>0, <2>1, <2>2, <3>1, OneSave
  <2>. QED BY <2>3, <2>4
<1>6. ASSUME NEW r \in Save, Refuse(r) PROVE SettingsInv'
  <2> DEFINE to == [save[r] EXCEPT !.stage = "done"]
  <2>1. to \in SaveRecord /\ to.stage = "done" /\ to.based = save[r].based
        /\ to.shown = save[r].shown /\ to.read = save[r].read
        /\ to.readVersion = save[r].readVersion
    BY <1>1 DEF SaveRecord
  <2>2. /\ save' = [save EXCEPT ![r] = to] /\ row' = row /\ version' = version
        /\ answer' = [answer EXCEPT ![r] = "refused"]
    BY <1>6 DEF Refuse, Answer
  <2> HIDE DEF to
  <2>. QED BY <1>0, <2>1, <2>2, OneSave
<1>7. CASE Delete
  BY <1>7 DEF Delete, SettingsInv, SettingsTypeOK, VersionNamesContent, BasedIsRead
<1>8. CASE UNCHANGED settingsVars
  BY <1>8 DEF settingsVars, SettingsInv, SettingsTypeOK, VersionNamesContent, BasedIsRead
<1>. QED BY <1>2, <1>3, <1>4, <1>5, <1>6, <1>7, <1>8 DEF SettingsNext, Over

LEMMA SettingsInvariance == SettingsSpec => []SettingsInv
BY SettingsHold, SettingsKept, PTL DEF SettingsSpec

\* Every save is of the kinds BoardSettings names, and is answered once it is done.
THEOREM SettingsTypeCorrect == SettingsSpec => []SettingsTypeOK
<1>1. SettingsInv => SettingsTypeOK
  BY DEF SettingsInv
<1>. QED BY SettingsInvariance, <1>1, PTL

\* The ETag is honest: no two contents of the row ever have the same updated_at, as far
\* as any save or client can tell, even when the clock stands still.
THEOREM HonestVersion == SettingsSpec => []VersionNamesContent
<1>1. SettingsInv => VersionNamesContent
  BY DEF SettingsInv
<1>. QED BY SettingsInvariance, <1>1, PTL

\* A save that is acknowledged wrote over the settings it had read.
LEMMA WritesOverWhatItRead ==
  ASSUME SettingsInv, NEW r \in Save, WriteBoard(r), row # Gone, version = save[r].readVersion
  PROVE  row = save[r].read /\ save[r].based \in {NoVersion, version} /\ answer[r] = "none"
<1>1. save[r].stage = "write"
  BY DEF WriteBoard
<1>2. save[r].readVersion # NoVersion /\ answer[r] = "none"
  BY <1>1 DEF SettingsInv, SettingsTypeOK
<1>. QED BY <1>1, <1>2 DEF SettingsInv, VersionNamesContent, BasedIsRead

\* If-Match does what the README says of it: an acknowledged save changed the settings
\* its client was shown, and no others.
THEOREM ConditionalSaves == SettingsSpec => SavesWhatWasShown
<1>1. ASSUME SettingsInv, [SettingsNext]_settingsVars
      PROVE  [\A r \in Save :
                save[r].based # NoVersion /\ answer[r] = "none" /\ answer'[r] = "saved" =>
                  row = save[r].shown]_settingsVars
  <2> SUFFICES ASSUME NEW r \in Save, save[r].based # NoVersion, answer[r] = "none",
                      answer'[r] = "saved"
               PROVE  row = save[r].shown
    OBVIOUS
  <2>1. answer \in [Save -> {"none", "saved", "refused"}]
    BY <1>1 DEF SettingsInv, SettingsTypeOK
  <2>2. WriteBoard(r) /\ row # Gone /\ version = save[r].readVersion
    BY <1>1, <2>1 DEF SettingsNext, Send, SendIfMatch, ReadBoard, WriteBoard, Refuse, Delete, Over,
                      Answer, settingsVars
  <2>3. save[r].based = version
    BY <1>1, <2>2, WritesOverWhatItRead
  <2>. QED BY <1>1, <2>2, <2>3 DEF SettingsInv, VersionNamesContent
<1>. QED BY <1>1, SettingsInvariance, PTL DEF SettingsSpec, SavesWhatWasShown

\* The two statements of a save act as one step of the register, or refuse: no update is
\* lost, whoever saves and whatever the clock says.
THEOREM Implements == SettingsSpec => ImplementsRegister
<1>1. SettingsInit => Register!Init
  BY SettingsAssumption DEF SettingsInit, Register!Init
<1>2. ASSUME SettingsInv, [SettingsNext]_settingsVars PROVE [Register!Next]_<<row, answer>>
  <2>0. ASSUME NEW r \in Save, save[r].stage # "done" PROVE answer[r] = "none"
    BY <1>2, <2>0 DEF SettingsInv, SettingsTypeOK
  <2>1. ASSUME NEW r \in Save, WriteBoard(r) PROVE Register!Next
    <3>1. CASE row # Gone /\ version = save[r].readVersion
      BY <1>2, <2>1, <3>1, WritesOverWhatItRead
         DEF WriteBoard, Answer, Merge, Register!Next, Register!Accept, Register!Answer
    <3>2. CASE ~(row # Gone /\ version = save[r].readVersion)
      BY <2>0, <2>1, <3>2
         DEF WriteBoard, Answer, Register!Next, Register!Refuse, Register!Answer
    <3>. QED BY <3>1, <3>2
  <2>2. ASSUME NEW r \in Save, ReadBoard(r) PROVE [Register!Next]_<<row, answer>>
    BY <2>0, <2>2 DEF ReadBoard, Answer, Register!Next, Register!Refuse, Register!Answer
  <2>3. ASSUME NEW r \in Save, Refuse(r) PROVE Register!Next
    BY <2>0, <2>3 DEF Refuse, Answer, Register!Next, Register!Refuse, Register!Answer
  <2>4. CASE Delete
    BY <2>4 DEF Delete, Register!Next, Register!Delete
  <2>5. ASSUME NEW r \in Save, Send(r) \/ SendIfMatch(r) PROVE UNCHANGED <<row, answer>>
    BY <2>5 DEF Send, SendIfMatch
  <2>6. CASE UNCHANGED settingsVars
    BY <2>6 DEF settingsVars
  <2>. QED BY <1>2, <2>1, <2>2, <2>3, <2>4, <2>5, <2>6 DEF SettingsNext, Over
<1>. QED BY <1>1, <1>2, SettingsInvariance, PTL DEF SettingsSpec, ImplementsRegister, Register!Spec

-----------------------------------------------------------------------------
(* The invariant of Boards *)

Placement == [column : Column, position : Position]

Patches == [position : Position \cup {Keep}, state : State \cup {None, Keep}]

Stages == {"gate", "rule", "insert", "grant", "undo", "delete", "board", "max", "read", "write",
           "look"}

RequestRecord ==
  [stage : Stages \cup {"new", "done"}, op : DOMAIN First \cup {"none"},
   by : Principal \cup {Service}, levels : [Board -> Level],
   board : Board \cup {None}, column : Column \cup {None}, card : Card \cup {None},
   patch : Patches, rest : Seq(Placement), copy : Row \cup {None}, moved : 0..MaxClock]

\* What a request knows, by what it does and how far it is.
Shaped(q) ==
  /\ q \in RequestRecord
  /\ q.op = "none" => q = Closed("new") \/ q = Closed("done")
  /\ q.op # "none" => q.stage \in Stages
  /\ q.op \in {"create_board", "delete_board", "create_column", "reorder", "attach", "move", "detach"} =>
       q.board \in Board
  /\ q.op \in {"create_column", "edit_column", "delete_column", "reorder", "attach", "move"} =>
       q.column \in Column
  /\ q.op \in {"attach", "move", "detach"} => q.card \in Card
  /\ q.stage \in {"grant", "undo"} => q.op = "create_board" /\ q.by # Service
  /\ q.stage = "gate" => q.by # Service
  /\ q.stage = "write" => Editing(q) \/ Placing(q)
  /\ q.stage = "insert" => q.op \in {"create_board", "create_column"}
  /\ q.stage = "insert" /\ q.op = "create_column" => q.patch.position \in Position
  /\ q.op = "create_column" => q.patch.state \in State \cup {None}
  /\ q.stage = "delete" => q.op \in {"delete_board", "delete_column", "detach"}
  /\ q.stage = "write" /\ Editing(q) => q.copy \in Row
  /\ q.stage = "read" => Editing(q)
  /\ q.stage = "look" => Placing(q)

Creation == [by : Principal \cup {Service}, told : {"nothing", "created", "not_created", "error", "handed_on"}]

Shape ==
  /\ req \in [Request -> RequestRecord]
  /\ \A r \in Request : Shaped(req[r])
  /\ creation \in [Board -> Creation]
  /\ DOMAIN saved = Column
  /\ turn \in [Card -> Seq(Board)]

Store ==
  /\ NothingOutlivesItsBoard
  /\ \A c \in Column : column[c] # None => c \in minted

\* The board of a request that creates one: nobody's, until it is written.
Creating ==
  \A r \in Request : req[r].op = "create_board" =>
    /\ req[r].stage \in {"grant", "undo"} =>
         /\ board[req[r].board] # "unborn"
         /\ creation[req[r].board].by = req[r].by /\ creation[req[r].board].told = "nothing"
    /\ req[r].stage \notin {"grant", "undo"} => board[req[r].board] = "unborn"

OneCreator ==
  \A r, q \in Request :
    req[r].op = "create_board" /\ req[q].op = "create_board" /\ req[r].board = req[q].board => r = q

WhatWasTold ==
  \A b \in Board :
    /\ board[b] = "unborn" => creation[b].told = "nothing"
    /\ creation[b].told = "not_created" => board[b] = "gone"
    /\ creation[b].told = "created" /\ creation[b].by # Service =>
         grant[creation[b].by][b] = Administer

Creators == Creating /\ OneCreator /\ WhatWasTold

\* Which columns requests name: those that were created, or the one that is being created.
Naming ==
  \A r \in Request :
    /\ req[r].op \in {"edit_column", "delete_column", "reorder", "attach", "move"} =>
         req[r].column \in minted
    /\ \A i \in DOMAIN req[r].rest : req[r].rest[i].column \in minted
    /\ req[r].op = "create_column" => req[r].column \notin minted

OneMaker ==
  \A r, q \in Request :
    req[r].op = "create_column" /\ req[q].op = "create_column" /\ req[r].column = req[q].column => r = q

\* While a column stays, it stays on the board on which a request found it.
Found ==
  \A r \in Request : req[r].stage = "write" /\ column[req[r].column] # None =>
    /\ Editing(req[r]) => column[req[r].column].board = req[r].copy.board
    /\ Placing(req[r]) => column[req[r].column].board = req[r].board

Known == Naming /\ OneMaker /\ Found

Fresh ==
  \A r \in Request, f \in ColumnField :
    /\ req[r].stage = "write" /\ Editing(req[r]) /\ req[r].patch[f] = Keep
    /\ column[req[r].column] # None /\ ~saved[req[r].column][f].threatened
    => req[r].copy[f] = saved[req[r].column][f].value

\* The row of this board was not put again after this turn.
NotSince(k, b, j) == \A i \in DOMAIN turn[k] : i > j => turn[k][i] # b

RowsHaveTurns ==
  \A k \in Card : \A b \in Boards(k) :
    place[k][b].moved <= clock /\ \E i \in DOMAIN turn[k] : turn[k][i] = b

NoMoveToCome == \A r \in Request : req[r].moved <= clock

\* On a card that two requests never were placing at once.
OneMover ==
  \A k \in Card \ tangled : \A r, q \in Request :
    Placing(req[r]) /\ req[r].card = k /\ Placing(req[q]) /\ req[q].card = k => r = q

MoverIsLatest ==
  \A k \in Card \ tangled : \A r \in Request :
    Placing(req[r]) /\ req[r].card = k /\ req[r].stage = "write" =>
      \A b \in Boards(k) : place[k][b].moved <= req[r].moved

TurnsInOrder ==
  \A k \in Card \ tangled : \A b \in Boards(k), j \in DOMAIN turn[k] :
    turn[k][j] \in Boards(k) /\ NotSince(k, b, j) =>
      place[k][b].moved <= place[k][turn[k][j]].moved

Turns == RowsHaveTurns /\ NoMoveToCome /\ OneMover /\ MoverIsLatest /\ TurnsInOrder

BoardsInv ==
  TypeOK /\ Shape /\ Store /\ Creators /\ Known /\ SavedFieldsStay /\ Fresh /\ Turns

-----------------------------------------------------------------------------
(* Requests *)

LEMMA Operations ==
  DOMAIN First = {"create_board", "create_column", "edit_column", "reorder", "attach", "move",
                  "delete_board", "delete_column", "detach"}
BY DEF First

LEMMA FirstStatement ==
  /\ First["create_board"] = "insert" /\ First["create_column"] = "board"
  /\ First["edit_column"] = "read" /\ First["reorder"] = "read"
  /\ First["attach"] = "look" /\ First["move"] = "look"
  /\ First["delete_board"] = "delete" /\ First["delete_column"] = "delete"
  /\ First["detach"] = "delete"
BY DEF First

LEMMA ClosedShaped ==
  ASSUME NEW stage \in {"new", "done"}
  PROVE  /\ Closed(stage) \in RequestRecord /\ Shaped(Closed(stage))
         /\ Closed(stage).op = "none" /\ Closed(stage).stage = stage
         /\ Closed(stage).rest = <<>> /\ Closed(stage).moved = 0
<1>1. [b \in Board |-> 0] \in [Board -> Level]
  BY DEF Level
<1>2. <<>> \in Seq(Placement) /\ NoPatch \in Patches /\ 0 \in 0..MaxClock
  BY BoardAssumption DEF NoPatch, Patches
<1>3. Closed(stage) \in RequestRecord
  BY <1>1, <1>2 DEF Closed, RequestRecord
<1>4. /\ Closed(stage).op = "none" /\ Closed(stage).stage = stage
      /\ Closed(stage).rest = <<>> /\ Closed(stage).moved = 0
  BY DEF Closed
<1>5. Shaped(Closed(stage))
  BY <1>3, <1>4 DEF Shaped, Editing, Placing
<1>. QED BY <1>3, <1>4, <1>5

\* What a step of one request has to show of it.
LEMMA OneRequest ==
  ASSUME Shape, NEW r \in Request, NEW to, Shaped(to), req' = [req EXCEPT ![r] = to]
  PROVE  /\ req' \in [Request -> RequestRecord] /\ DOMAIN req' = Request
         /\ \A p \in Request : Shaped(req'[p])
         /\ req'[r] = to
         /\ \A p \in Request : p # r => req'[p] = req[p]
<1>1. to \in RequestRecord
  BY DEF Shaped
<1>2. req \in [Request -> RequestRecord] /\ \A p \in Request : Shaped(req[p])
  BY DEF Shape
<1>. QED BY <1>1, <1>2

\* A request as it is sent.
Sent(op, by, fields) ==
  [fields EXCEPT !.op = op, !.by = by, !.stage = IF by = Service THEN First[op] ELSE "gate"]

LEMMA SentShaped ==
  ASSUME NEW op \in DOMAIN First, NEW by \in Principal \cup {Service}, NEW fields \in RequestRecord,
         op \in {"create_board", "delete_board", "create_column", "reorder", "attach", "move", "detach"} =>
           fields.board \in Board,
         op \in {"create_column", "edit_column", "delete_column", "reorder", "attach", "move"} =>
           fields.column \in Column,
         op \in {"attach", "move", "detach"} => fields.card \in Card,
         op = "create_column" => fields.patch.state \in State \cup {None}
  PROVE  LET to == Sent(op, by, fields) IN
         /\ Shaped(to) /\ to.op = op /\ to.by = by
         /\ to.board = fields.board /\ to.column = fields.column /\ to.card = fields.card
         /\ to.rest = fields.rest /\ to.moved = fields.moved
         /\ to.stage \in Stages \ {"write", "grant", "undo"}
<1> DEFINE to == Sent(op, by, fields)
<1>1. (IF by = Service THEN First[op] ELSE "gate")
        \in {"gate", "insert", "board", "read", "look", "delete"}
  BY Operations, FirstStatement
<1>2. to.op = op /\ to.by = by /\ to.stage = IF by = Service THEN First[op] ELSE "gate"
  BY DEF Sent, RequestRecord
<1>3. /\ to.board = fields.board /\ to.column = fields.column /\ to.card = fields.card
      /\ to.patch = fields.patch /\ to.rest = fields.rest /\ to.moved = fields.moved
  BY DEF Sent, RequestRecord
<1>4. to \in RequestRecord
  <2> DEFINE start == IF by = Service THEN First[op] ELSE "gate"
  <2>1. to = [fields EXCEPT !.op = op, !.by = by, !.stage = start]
    BY DEF Sent
  <2>2. start \in Stages \cup {"new", "done"}
    BY <1>1 DEF Stages
  <2> HIDE DEF to, start
  <2>. QED BY <2>1, <2>2 DEF RequestRecord
<1>5. to.stage \in Stages \ {"write", "grant", "undo"}
  BY <1>1, <1>2 DEF Stages
<1>6. /\ to.stage = "gate" => to.by # Service
      /\ to.stage = "insert" => to.op \in {"create_board", "create_column"}
      /\ to.stage = "insert" => to.op # "create_column"
      /\ to.stage = "delete" => to.op \in {"delete_board", "delete_column", "detach"}
      /\ to.stage = "read" => to.op \in {"edit_column", "reorder"}
      /\ to.stage = "look" => to.op \in {"attach", "move"}
      /\ to.op # "none"
  BY <1>2, Operations, FirstStatement
<1> HIDE DEF to
<1>7. Shaped(to)
  BY <1>2, <1>3, <1>4, <1>5, <1>6 DEF Shaped, Editing, Placing
<1>. QED BY <1>2, <1>3, <1>5, <1>7 DEF to

\* A request that goes on to another statement, or is over.
GoesOn(q, to) ==
  \/ to = Closed("done")
  \/ /\ to.op = q.op /\ to.by = q.by /\ to.board = q.board /\ to.column = q.column
     /\ to.card = q.card /\ to.rest = q.rest

LEMMA NewIsClosed ==
  ASSUME Shape, NEW r \in Request
  PROVE  /\ req[r].stage = "new" => req[r] = Closed("new")
         /\ req[r].op = "none" <=> req[r].stage \in {"new", "done"}
         /\ r \in Open <=> req[r].op # "none"
<1>1. Shaped(req[r])
  BY DEF Shape
<1>2. "new" \notin Stages /\ "done" \notin Stages
  BY DEF Stages
<1>. QED BY <1>1, <1>2, ClosedShaped DEF Shaped, Open

LEMMA GateStep ==
  ASSUME TypeOK, Shape, NEW r \in Request, Gate(r)
  PROVE  /\ req' = [req EXCEPT ![r] = req'[r]] /\ Shaped(req'[r]) /\ GoesOn(req[r], req'[r])
         /\ req[r].stage = "gate" /\ req'[r].stage = "rule" /\ req'[r].moved = req[r].moved
<1> DEFINE q == req[r]
           to == [q EXCEPT !.levels = grant[q.by], !.stage = "rule"]
<1>1. q.stage = "gate" /\ Shaped(q) /\ req \in [Request -> RequestRecord]
  BY DEF Gate, Shape
<1>2. q \in RequestRecord /\ q.by # Service /\ q.op # "none"
  BY <1>1, NewIsClosed DEF Shaped
<1>3. grant[q.by] \in [Board -> Level]
  BY <1>2 DEF TypeOK, RequestRecord
<1>4. req' = [req EXCEPT ![r] = to]
  BY <1>1, <1>2 DEF Gate, RequestRecord
<1>5. /\ to \in RequestRecord /\ to.stage = "rule" /\ to.op = q.op /\ to.by = q.by /\ to.board = q.board
      /\ to.column = q.column /\ to.card = q.card /\ to.rest = q.rest /\ to.patch = q.patch
      /\ to.moved = q.moved
  BY <1>2, <1>3 DEF RequestRecord, Stages
<1> HIDE DEF to
<1>6. Shaped(to)
  BY <1>1, <1>2, <1>5 DEF Shaped, Stages
<1>. QED BY <1>1, <1>4, <1>5, <1>6 DEF GoesOn

LEMMA RuleStep ==
  ASSUME TypeOK, Shape, NEW r \in Request, Rule(r)
  PROVE  /\ req' = [req EXCEPT ![r] = req'[r]] /\ Shaped(req'[r]) /\ GoesOn(req[r], req'[r])
         /\ req[r].stage = "rule" /\ req'[r].stage \notin {"write", "grant", "undo"}
         /\ req'[r].moved \in {0, req[r].moved}
<1> DEFINE q == req[r]
           to == [q EXCEPT !.stage = First[q.op]]
<1>1. q.stage = "rule" /\ Shaped(q) /\ req \in [Request -> RequestRecord]
  BY DEF Rule, Shape
<1>2. q \in RequestRecord /\ q.op # "none" /\ q.op \in DOMAIN First
  BY <1>1, NewIsClosed DEF Shaped, RequestRecord
<1>3. CASE req' = [req EXCEPT ![r] = Closed("done")]
  BY <1>1, <1>3, ClosedShaped DEF GoesOn
<1>4. CASE req' = [req EXCEPT ![r].stage = First[q.op]]
  <2>0. First[q.op] \in {"insert", "board", "read", "look", "delete"}
    BY <1>2, Operations, FirstStatement
  <2>1. req' = [req EXCEPT ![r] = to]
    BY <1>1, <1>4 DEF RequestRecord
  <2>2. First[q.op] \in Stages \cup {"new", "done"}
    BY <2>0 DEF Stages
  <2>3. /\ to.stage = First[q.op] /\ to.op = q.op /\ to.by = q.by /\ to.board = q.board
        /\ to.column = q.column /\ to.card = q.card /\ to.rest = q.rest /\ to.patch = q.patch
        /\ to.moved = q.moved
    BY <1>2 DEF RequestRecord
  <2>4. to \in RequestRecord
    BY <1>2, <2>2 DEF RequestRecord
  <2>5. /\ to.stage = "insert" => to.op \in {"create_board"}
        /\ to.stage = "delete" => to.op \in {"delete_board", "delete_column", "detach"}
        /\ to.stage = "read" => to.op \in {"edit_column", "reorder"}
        /\ to.stage = "look" => to.op \in {"attach", "move"}
        /\ to.stage \in Stages
    BY <1>2, <2>0, <2>3, Operations, FirstStatement DEF Stages
  <2> HIDE DEF to
  <2>6. Shaped(to)
    BY <1>1, <1>2, <2>0, <2>3, <2>4, <2>5 DEF Shaped, Editing, Placing
  <2>. QED BY <1>1, <2>0, <2>1, <2>3, <2>6 DEF GoesOn
<1>. QED BY <1>3, <1>4 DEF Rule, Goto, Close

LEMMA PlanColumnStep ==
  ASSUME TypeOK, Shape, NEW r \in Request, PlanColumn(r)
  PROVE  /\ req' = [req EXCEPT ![r] = req'[r]] /\ Shaped(req'[r]) /\ GoesOn(req[r], req'[r])
         /\ req[r].op = "create_column" /\ req'[r].stage \notin {"write", "grant", "undo"}
         /\ req'[r].moved \in {0, req[r].moved}
<1> DEFINE q == req[r]
<1>1. q.op = "create_column" /\ Shaped(q) /\ req \in [Request -> RequestRecord]
  BY DEF PlanColumn, Shape
<1>2. q \in RequestRecord
  BY <1>1 DEF Shaped
<1>3. CASE req' = [req EXCEPT ![r] = Closed("done")]
  BY <1>1, <1>3, ClosedShaped DEF GoesOn
<1>4. CASE req' = [req EXCEPT ![r].stage = "max"]
  <2> DEFINE to == [q EXCEPT !.stage = "max"]
  <2>1. req' = [req EXCEPT ![r] = to]
    BY <1>1, <1>4 DEF RequestRecord
  <2>2. /\ to \in RequestRecord /\ to.stage = "max" /\ to.op = q.op /\ to.by = q.by
        /\ to.board = q.board /\ to.column = q.column /\ to.card = q.card /\ to.rest = q.rest
        /\ to.patch = q.patch /\ to.moved = q.moved
    BY <1>2 DEF RequestRecord, Stages
  <2> HIDE DEF to
  <2>3. Shaped(to)
    BY <1>1, <2>2 DEF Shaped, Editing, Placing, Stages
  <2>. QED BY <1>1, <2>1, <2>2, <2>3 DEF GoesOn
<1>5. ASSUME NEW next \in Position,
             req' = [req EXCEPT ![r].patch.position = next, ![r].stage = "insert"]
      PROVE  /\ req' = [req EXCEPT ![r] = req'[r]] /\ Shaped(req'[r]) /\ GoesOn(req[r], req'[r])
             /\ req'[r].stage = "insert" /\ req'[r].moved = req[r].moved
  <2> DEFINE to == [q EXCEPT !.patch.position = next, !.stage = "insert"]
  <2>0. q.patch \in Patches
    BY <1>2 DEF RequestRecord
  <2>1. req' = [req EXCEPT ![r] = to]
    BY <1>1, <1>5 DEF RequestRecord
  <2>2. /\ to.patch = [q.patch EXCEPT !.position = next]
        /\ to.stage = "insert" /\ to.op = q.op /\ to.by = q.by
        /\ to.board = q.board /\ to.column = q.column /\ to.card = q.card /\ to.rest = q.rest
        /\ to.moved = q.moved
    BY <1>2 DEF RequestRecord
  <2>3. /\ [q.patch EXCEPT !.position = next] \in Patches
        /\ to.patch.position = next /\ to.patch.state = q.patch.state
    BY <2>0, <2>2 DEF Patches
  <2>4. to \in RequestRecord
    <3> DEFINE patch == [q.patch EXCEPT !.position = next]
    <3>1. to = [q EXCEPT !.patch = patch, !.stage = "insert"]
      BY <1>2 DEF RequestRecord
    <3> HIDE DEF to, patch
    <3>2. "insert" \in Stages \cup {"new", "done"} /\ patch \in Patches
      BY <2>3 DEF Stages, patch
    <3>. QED BY <1>2, <3>1, <3>2 DEF RequestRecord
  <2> HIDE DEF to
  <2>5. Shaped(to)
    BY <1>1, <2>2, <2>3, <2>4 DEF Shaped, Editing, Placing, Stages
  <2>. QED BY <1>1, <2>1, <2>2, <2>5 DEF GoesOn
<1>. QED
  <2>1. CASE q.stage = "board"
    BY <1>1, <1>3, <1>4, <2>1 DEF PlanColumn, Goto, Close
  <2>2. CASE \E position \in Position : req' = [req EXCEPT ![r].patch.position = position, ![r].stage = "insert"]
    BY <1>1, <1>5, <2>2
  <2>. QED BY <1>1, <2>1, <2>2 DEF PlanColumn

-----------------------------------------------------------------------------
(* Requests that start *)

\* What is known of a request that has just been sent.
Starts(r) ==
  LET to == req'[r] IN
  /\ req[r] = Closed("new") /\ req' = [req EXCEPT ![r] = to] /\ Shaped(to)
  /\ to.op # "none" /\ to.stage \notin {"write", "grant", "undo"} /\ to.moved = 0
  /\ UNCHANGED <<store, grant, clock, creation, saved, turn>>
  /\ tangled' = IF Placing(to) /\ \E q \in Open : Placing(req[q]) /\ req[q].card = to.card
                THEN tangled \cup {to.card} ELSE tangled
  /\ to.op = "create_board" =>
       board[to.board] = "unborn" /\ \A q \in Open : req[q].board # to.board
  /\ to.op = "create_column" =>
       /\ to.column \notin minted
       /\ \A q \in Open : req[q].op = "create_column" => req[q].column # to.column
  /\ to.op \in {"edit_column", "delete_column", "reorder", "attach", "move"} => to.column \in minted
  /\ \A i \in DOMAIN to.rest : to.rest[i].column \in minted

LEMMA BeginStep ==
  ASSUME Shape, NEW r \in Request, NEW op \in DOMAIN First, NEW fields \in RequestRecord,
         Begin(r, op, fields), fields.moved = 0,
         op \in {"create_board", "delete_board", "create_column", "reorder", "attach", "move", "detach"} =>
           fields.board \in Board,
         op \in {"create_column", "edit_column", "delete_column", "reorder", "attach", "move"} =>
           fields.column \in Column,
         op \in {"attach", "move", "detach"} => fields.card \in Card,
         op = "create_column" => fields.patch.state \in State \cup {None},
         op = "create_board" =>
           board[fields.board] = "unborn" /\ \A q \in Open : req[q].board # fields.board,
         op = "create_column" =>
           /\ fields.column \notin minted
           /\ \A q \in Open : req[q].op = "create_column" => req[q].column # fields.column,
         op \in {"edit_column", "delete_column", "reorder", "attach", "move"} =>
           fields.column \in minted,
         \A i \in DOMAIN fields.rest : fields.rest[i].column \in minted
  PROVE  Starts(r)
<1>1. PICK by \in Principal \cup {Service} : req' = [req EXCEPT ![r] = Sent(op, by, fields)]
  BY DEF Begin, Sent
<1>2. req[r].stage = "new"
  BY DEF Begin, NextToSend
<1>3. req[r] = Closed("new")
  BY <1>2, NewIsClosed
<1> DEFINE to == Sent(op, by, fields)
<1>4. /\ Shaped(to) /\ to.op = op /\ to.by = by
      /\ to.board = fields.board /\ to.column = fields.column /\ to.card = fields.card
      /\ to.rest = fields.rest /\ to.moved = fields.moved
      /\ to.stage \in Stages \ {"write", "grant", "undo"}
  BY SentShaped
<1> HIDE DEF to
<1>5. req'[r] = to /\ req' = [req EXCEPT ![r] = to]
  BY <1>1 DEF to, Shape
<1>6. UNCHANGED <<store, grant, clock, creation, saved, turn>>
  BY DEF Begin
<1>7. tangled' = IF Placing(to) /\ \E q \in Open : Placing(req[q]) /\ req[q].card = to.card
                 THEN tangled \cup {to.card} ELSE tangled
  BY <1>4 DEF Begin, Placing
<1>8. op # "none"
  BY Operations
<1>. QED BY <1>3, <1>4, <1>5, <1>6, <1>7, <1>8 DEF Starts

LEMMA BeginBoardStep ==
  ASSUME Shape, NEW r \in Request, BeginBoard(r) PROVE Starts(r)
<1> DEFINE blank == Closed("new")
<1>0. blank \in RequestRecord /\ blank.rest = <<>> /\ blank.moved = 0
  BY ClosedShaped
<1>1. ASSUME NEW b \in Board
      PROVE  LET fields == [blank EXCEPT !.board = b] IN
             fields \in RequestRecord /\ fields.board = b /\ fields.rest = <<>> /\ fields.moved = 0
  BY <1>0 DEF RequestRecord
<1>2. ASSUME NEW b \in Board, board[b] = "unborn", \A q \in Open : req[q].board # b,
             Begin(r, "create_board", [blank EXCEPT !.board = b])
      PROVE  Starts(r)
  <2> DEFINE fields == [blank EXCEPT !.board = b]
  <2>1. fields \in RequestRecord /\ fields.board = b /\ fields.rest = <<>> /\ fields.moved = 0
    BY <1>1
  <2>2. Begin(r, "create_board", fields) /\ "create_board" \in DOMAIN First
    BY <1>2, Operations
  <2> HIDE DEF fields
  <2>9. \A i \in DOMAIN fields.rest : fields.rest[i].column \in minted
    BY <2>1
  <2>. QED BY <1>2, <2>1, <2>2, <2>9, BeginStep
<1>3. ASSUME NEW b \in Board, Begin(r, "delete_board", [blank EXCEPT !.board = b])
      PROVE  Starts(r)
  <2> DEFINE fields == [blank EXCEPT !.board = b]
  <2>1. fields \in RequestRecord /\ fields.board = b /\ fields.rest = <<>> /\ fields.moved = 0
    BY <1>1
  <2>2. Begin(r, "delete_board", fields) /\ "delete_board" \in DOMAIN First
    BY <1>3, Operations
  <2> HIDE DEF fields
  <2>9. \A i \in DOMAIN fields.rest : fields.rest[i].column \in minted
    BY <2>1
  <2>. QED BY <2>1, <2>2, <2>9, BeginStep
<1>. QED BY <1>2, <1>3 DEF BeginBoard

LEMMA BeginColumnStep ==
  ASSUME TypeOK, Shape, NEW r \in Request, BeginColumn(r) PROVE Starts(r)
<1> DEFINE blank == Closed("new")
<1>0. blank \in RequestRecord /\ blank.rest = <<>> /\ blank.moved = 0 /\ minted \subseteq Column
  BY ClosedShaped DEF TypeOK
<1>1. ASSUME NEW b \in Board, NEW c \in Column \ minted, NEW state \in State \cup {None},
             \A q \in Open : req[q].op = "create_column" => req[q].column # c,
             Begin(r, "create_column", [blank EXCEPT !.board = b, !.column = c, !.patch.state = state])
      PROVE  Starts(r)
  <2> DEFINE patch == [NoPatch EXCEPT !.state = state]
             fields == [blank EXCEPT !.board = b, !.column = c, !.patch = patch]
  <2>0. patch \in Patches /\ patch.state = state
    BY DEF Patches, NoPatch
  <2>1. fields = [blank EXCEPT !.board = b, !.column = c, !.patch.state = state]
    BY DEF Closed
  <2> HIDE DEF patch
  <2>2. /\ fields \in RequestRecord /\ fields.board = b /\ fields.column = c /\ fields.patch = patch
        /\ fields.rest = <<>> /\ fields.moved = 0
    BY <1>0, <2>0 DEF RequestRecord
  <2>3. Begin(r, "create_column", fields) /\ "create_column" \in DOMAIN First
    BY <1>1, <2>1, Operations
  <2> HIDE DEF fields
  <2>9. \A i \in DOMAIN fields.rest : fields.rest[i].column \in minted
    BY <2>2
  <2>. QED BY <1>1, <2>0, <2>2, <2>3, <2>9, BeginStep
<1>2. ASSUME NEW c \in minted, NEW patch \in ColumnPatch,
             Begin(r, "edit_column", [blank EXCEPT !.column = c, !.patch = patch])
      PROVE  Starts(r)
  <2> DEFINE fields == [blank EXCEPT !.column = c, !.patch = patch]
  <2>0. patch \in Patches
    BY BoardAssumption DEF Patches
  <2>1. /\ fields \in RequestRecord /\ fields.column = c /\ fields.rest = <<>> /\ fields.moved = 0
    BY <1>0, <2>0 DEF RequestRecord
  <2>2. Begin(r, "edit_column", fields) /\ "edit_column" \in DOMAIN First
    BY <1>2, Operations
  <2> HIDE DEF fields
  <2>9. \A i \in DOMAIN fields.rest : fields.rest[i].column \in minted
    BY <2>1
  <2>. QED BY <1>0, <2>1, <2>2, <2>9, BeginStep
<1>3. ASSUME NEW c \in minted, Begin(r, "delete_column", [blank EXCEPT !.column = c])
      PROVE  Starts(r)
  <2> DEFINE fields == [blank EXCEPT !.column = c]
  <2>1. /\ fields \in RequestRecord /\ fields.column = c /\ fields.rest = <<>> /\ fields.moved = 0
    BY <1>0 DEF RequestRecord
  <2>2. Begin(r, "delete_column", fields) /\ "delete_column" \in DOMAIN First
    BY <1>3, Operations
  <2> HIDE DEF fields
  <2>9. \A i \in DOMAIN fields.rest : fields.rest[i].column \in minted
    BY <2>1
  <2>. QED BY <1>0, <2>1, <2>2, <2>9, BeginStep
<1>4. ASSUME NEW b \in Board, NEW order \in Order, \A i \in DOMAIN order : order[i].column \in minted,
             Begin(r, "reorder", [blank EXCEPT !.board = b, !.column = Head(order).column,
                                               !.patch.position = Head(order).position,
                                               !.rest = Tail(order)])
      PROVE  Starts(r)
  <2> DEFINE patch == [NoPatch EXCEPT !.position = Head(order).position]
             fields == [blank EXCEPT !.board = b, !.column = Head(order).column, !.patch = patch,
                                     !.rest = Tail(order)]
  <2>0. /\ order \in Seq(Placement) /\ order # <<>>
        /\ Head(order) \in Placement /\ Head(order) = order[1] /\ 1 \in DOMAIN order
        /\ Tail(order) \in Seq(Placement)
        /\ \A i \in DOMAIN Tail(order) : i + 1 \in DOMAIN order /\ Tail(order)[i] = order[i + 1]
    <3>1. order \in Seq(Placement) /\ order # <<>>
      BY BoardAssumption DEF Placement
    <3>. QED BY <3>1
  <2>1. patch \in Patches
    BY <2>0 DEF Patches, NoPatch, Placement
  <2>2. fields = [blank EXCEPT !.board = b, !.column = Head(order).column,
                               !.patch.position = Head(order).position, !.rest = Tail(order)]
    BY DEF Closed
  <2>3. Head(order).column \in Column /\ Head(order).column \in minted
    BY <1>4, <2>0 DEF Placement
  <2>4. \A i \in DOMAIN Tail(order) : Tail(order)[i].column \in minted
    BY <1>4, <2>0
  <2> HIDE DEF patch
  <2>5. /\ fields \in RequestRecord /\ fields.board = b /\ fields.column = Head(order).column
        /\ fields.rest = Tail(order) /\ fields.moved = 0
    BY <1>0, <2>0, <2>1, <2>3 DEF RequestRecord
  <2>6. Begin(r, "reorder", fields) /\ "reorder" \in DOMAIN First
    BY <1>4, <2>2, Operations
  <2> HIDE DEF fields
  <2>. QED BY <2>3, <2>4, <2>5, <2>6, BeginStep
<1>. QED BY <1>1, <1>2, <1>3, <1>4 DEF BeginColumn

LEMMA BeginCardStep ==
  ASSUME TypeOK, Shape, NEW r \in Request, BeginCard(r) PROVE Starts(r)
<1> DEFINE blank == Closed("new")
<1>0. blank \in RequestRecord /\ blank.rest = <<>> /\ blank.moved = 0 /\ minted \subseteq Column
  BY ClosedShaped DEF TypeOK
<1>1. ASSUME NEW k \in Card, NEW b \in Board, NEW c \in minted, NEW op \in {"attach", "move"},
             Begin(r, op, [blank EXCEPT !.card = k, !.board = b, !.column = c])
      PROVE  Starts(r)
  <2> DEFINE fields == [blank EXCEPT !.card = k, !.board = b, !.column = c]
  <2>1. /\ fields \in RequestRecord /\ fields.column = c /\ fields.board = b /\ fields.card = k
        /\ fields.rest = <<>> /\ fields.moved = 0
    BY <1>0 DEF RequestRecord
  <2>2. Begin(r, op, fields) /\ op \in DOMAIN First
    BY <1>1, Operations
  <2> HIDE DEF fields
  <2>9. \A i \in DOMAIN fields.rest : fields.rest[i].column \in minted
    BY <2>1
  <2>. QED BY <1>0, <2>1, <2>2, <2>9, BeginStep
<1>2. ASSUME NEW k \in Card, NEW b \in Board, Begin(r, "detach", [blank EXCEPT !.card = k, !.board = b])
      PROVE  Starts(r)
  <2> DEFINE fields == [blank EXCEPT !.card = k, !.board = b]
  <2>1. /\ fields \in RequestRecord /\ fields.board = b /\ fields.card = k
        /\ fields.rest = <<>> /\ fields.moved = 0
    BY <1>0 DEF RequestRecord
  <2>2. Begin(r, "detach", fields) /\ "detach" \in DOMAIN First
    BY <1>2, Operations
  <2> HIDE DEF fields
  <2>9. \A i \in DOMAIN fields.rest : fields.rest[i].column \in minted
    BY <2>1
  <2>. QED BY <2>1, <2>2, <2>9, BeginStep
<1>. QED BY <1>1, <1>2 DEF BeginCard

-----------------------------------------------------------------------------
(* Requests that go on *)

\* A step that only reads the store.
Reads(r) ==
  LET q == req[r]
      to == req'[r]
  IN
  /\ req' = [req EXCEPT ![r] = to] /\ Shaped(to) /\ GoesOn(q, to) /\ q.op # "none"
  /\ q.stage \notin {"grant", "undo"} /\ to.stage \notin {"grant", "undo"}
  /\ to.moved \in {0, q.moved, clock}
  /\ to.stage = "write" =>
       /\ column[to.column] # None
       /\ IF Editing(to) THEN to.copy = column[to.column]
          ELSE to.moved = clock /\ column[to.column].board = to.board
  /\ UNCHANGED <<store, grant, clock, history>>

LEMMA ReadColumnStep ==
  ASSUME TypeOK, Shape, NEW r \in Request, ReadColumn(r) PROVE Reads(r)
<1> DEFINE q == req[r]
           to == [q EXCEPT !.copy = column[q.column], !.stage = "write"]
<1>1. q.stage = "read" /\ Shaped(q) /\ req \in [Request -> RequestRecord]
  BY DEF ReadColumn, Shape
<1>2. /\ q \in RequestRecord /\ Editing(q) /\ q.op # "none" /\ q.column \in Column
  BY <1>1, NewIsClosed DEF Shaped, Editing
<1>3. UNCHANGED <<store, grant, clock, history>>
  BY DEF ReadColumn
<1>4. CASE column[q.column] = None
  <2>1. req' = [req EXCEPT ![r] = Closed("done")]
    BY <1>4 DEF ReadColumn, Close
  <2>. QED BY <1>1, <1>2, <1>3, <2>1, ClosedShaped DEF Reads, GoesOn
<1>5. CASE column[q.column] # None
  <2>1. req' = [req EXCEPT ![r] = to]
    BY <1>1, <1>2, <1>5 DEF ReadColumn, RequestRecord
  <2>2. column[q.column] \in Row
    BY <1>2, <1>5 DEF TypeOK
  <2>3. /\ to.stage = "write" /\ to.op = q.op /\ to.by = q.by /\ to.board = q.board
        /\ to.column = q.column /\ to.card = q.card /\ to.rest = q.rest /\ to.patch = q.patch
        /\ to.moved = q.moved /\ to.copy = column[q.column]
    BY <1>2 DEF RequestRecord
  <2>4. to \in RequestRecord
    BY <1>2, <2>2 DEF RequestRecord, Stages
  <2> HIDE DEF to
  <2>5. Shaped(to)
    BY <1>1, <1>2, <2>2, <2>3, <2>4 DEF Shaped, Editing, Placing, Stages
  <2>6. Editing(to)
    BY <1>2, <2>3 DEF Editing
  <2>7. req'[r] = to
    BY <1>1, <2>1
  <2>. QED BY <1>1, <1>2, <1>3, <1>5, <2>1, <2>3, <2>5, <2>6, <2>7 DEF Reads, GoesOn
<1>. QED BY <1>4, <1>5

LEMMA LookForColumnStep ==
  ASSUME TypeOK, Shape, NEW r \in Request, LookForColumn(r) PROVE Reads(r)
<1> DEFINE q == req[r]
           to == [q EXCEPT !.moved = clock, !.stage = "write"]
<1>1. q.stage = "look" /\ Shaped(q) /\ req \in [Request -> RequestRecord]
  BY DEF LookForColumn, Shape
<1>2. /\ q \in RequestRecord /\ Placing(q) /\ q.op # "none" /\ ~Editing(q)
  BY <1>1, NewIsClosed DEF Shaped, Editing, Placing
<1>3. UNCHANGED <<store, grant, clock, history>>
  BY DEF LookForColumn
<1>4. CASE ~(column[q.column] # None /\ column[q.column].board = q.board)
  <2>1. req' = [req EXCEPT ![r] = Closed("done")]
    BY <1>4 DEF LookForColumn, Close
  <2>. QED BY <1>1, <1>2, <1>3, <2>1, ClosedShaped DEF Reads, GoesOn
<1>5. CASE column[q.column] # None /\ column[q.column].board = q.board
  <2>1. req' = [req EXCEPT ![r] = to]
    BY <1>1, <1>2, <1>5 DEF LookForColumn, RequestRecord
  <2>2. clock \in 0..MaxClock
    BY BoardAssumption DEF TypeOK
  <2>3. /\ to.stage = "write" /\ to.op = q.op /\ to.by = q.by /\ to.board = q.board
        /\ to.column = q.column /\ to.card = q.card /\ to.rest = q.rest /\ to.patch = q.patch
        /\ to.moved = clock
    BY <1>2 DEF RequestRecord
  <2>4. to \in RequestRecord
    BY <1>2, <2>2 DEF RequestRecord, Stages
  <2> HIDE DEF to
  <2>5. Shaped(to) /\ ~Editing(to)
    BY <1>1, <1>2, <2>3, <2>4 DEF Shaped, Editing, Placing, Stages
  <2>7. req'[r] = to
    BY <1>1, <2>1
  <2>. QED BY <1>1, <1>2, <1>3, <1>5, <2>1, <2>3, <2>5, <2>7 DEF Reads, GoesOn
<1>. QED BY <1>4, <1>5

LEMMA ReadingStep ==
  ASSUME TypeOK, Shape, NEW r \in Request,
         Gate(r) \/ Rule(r) \/ PlanColumn(r) \/ ReadColumn(r) \/ LookForColumn(r)
  PROVE  Reads(r)
<1>0. /\ req[r].op = "none" <=> req[r].stage \in {"new", "done"}
  BY NewIsClosed
<1>3. Shaped(req[r])
  BY DEF Shape
<1>1. CASE Gate(r)
  BY <1>0, <1>1, GateStep DEF Reads, Gate
<1>2. CASE Rule(r)
  BY <1>0, <1>2, RuleStep DEF Reads, Rule
<1>4. CASE PlanColumn(r)
  BY <1>0, <1>3, <1>4, PlanColumnStep DEF Reads, PlanColumn, Shaped
<1>. QED BY <1>1, <1>2, <1>4, ReadColumnStep, LookForColumnStep

\* A reorder that goes on to its next column.
NextOfReorder(q, to) ==
  /\ q.rest # <<>>
  /\ to.stage = "read" /\ to.op = q.op /\ to.by = q.by /\ to.board = q.board /\ to.card = q.card
  /\ to.column = Head(q.rest).column /\ to.rest = Tail(q.rest) /\ to.moved = q.moved

LEMMA WriteColumnStep ==
  ASSUME TypeOK, Shape, NEW r \in Request, WriteColumn(r)
  PROVE  /\ req' = [req EXCEPT ![r] = req'[r]] /\ Shaped(req'[r])
         /\ req'[r] = Closed("done") \/ NextOfReorder(req[r], req'[r])
         /\ Editing(req[r]) /\ req[r].stage = "write" /\ req[r].copy \in Row /\ req[r].column \in Column
         /\ req[r].patch \in Patches
<1> DEFINE q == req[r]
           next == Head(q.rest)
           patch == [q.patch EXCEPT !.position = next.position]
           to == [q EXCEPT !.stage = "read", !.copy = None, !.column = next.column, !.patch = patch,
                           !.rest = Tail(q.rest)]
<1>1. q.stage = "write" /\ Editing(q) /\ Shaped(q) /\ req \in [Request -> RequestRecord]
  BY DEF WriteColumn, Shape
<1>2. q \in RequestRecord /\ q.copy \in Row /\ q.patch \in Patches /\ q.rest \in Seq(Placement)
  BY <1>1 DEF Shaped, RequestRecord
<1>3. q.column \in Column
  BY <1>1 DEF Shaped, Editing
<1>4. CASE q.rest = <<>>
  <2>1. req' = [req EXCEPT ![r] = Closed("done")]
    BY <1>4 DEF WriteColumn, Close
  <2>. QED BY <1>1, <1>2, <1>3, <2>1, ClosedShaped
<1>5. CASE q.rest # <<>>
  <2>0. req' = [req EXCEPT ![r].stage = "read", ![r].copy = None, ![r].column = next.column,
                           ![r].patch.position = next.position, ![r].rest = Tail(q.rest)]
    BY <1>5 DEF WriteColumn
  <2>1. req' = [req EXCEPT ![r] = to]
    BY <1>1, <1>2, <2>0 DEF RequestRecord
  <2>2. next \in Placement /\ Tail(q.rest) \in Seq(Placement)
    BY <1>2, <1>5
  <2>3. patch \in Patches /\ patch.state = q.patch.state
    BY <1>2, <2>2 DEF Patches, Placement
  <2>4. next.column \in Column
    BY <2>2 DEF Placement
  <2> HIDE DEF patch, next
  <2>5. /\ to.stage = "read" /\ to.op = q.op /\ to.by = q.by /\ to.board = q.board
        /\ to.column = next.column /\ to.card = q.card /\ to.rest = Tail(q.rest) /\ to.patch = patch
        /\ to.moved = q.moved
    BY <1>2 DEF RequestRecord
  <2>6. to \in RequestRecord
    BY <1>2, <2>2, <2>3, <2>4 DEF RequestRecord, Stages
  <2> HIDE DEF to
  <2>7. Shaped(to)
    BY <1>1, <1>2, <2>3, <2>4, <2>5, <2>6 DEF Shaped, Editing, Placing, Stages
  <2>8. req'[r] = to
    BY <1>1, <2>1
  <2>. QED BY <1>1, <1>2, <1>3, <1>5, <2>1, <2>5, <2>7, <2>8 DEF NextOfReorder, next
<1>. QED BY <1>4, <1>5

LEMMA CreateBoardStep ==
  ASSUME TypeOK, Shape, NEW r \in Request, CreateBoard(r)
  PROVE  LET q == req[r]
             to == req'[r]
         IN  /\ req' = [req EXCEPT ![r] = to] /\ Shaped(to) /\ q.op = "create_board" /\ q.stage = "insert"
             /\ q.board \in Board /\ q.by \in Principal \cup {Service}
             /\ IF q.by = Service THEN to = Closed("done")
                ELSE /\ to.stage = "grant" /\ to.op = q.op /\ to.by = q.by /\ to.board = q.board
                     /\ to.card = q.card /\ to.rest = q.rest /\ to.column = q.column /\ to.moved = q.moved
<1> DEFINE q == req[r]
           to == [q EXCEPT !.stage = "grant"]
<1>1. q.stage = "insert" /\ q.op = "create_board" /\ Shaped(q) /\ req \in [Request -> RequestRecord]
  BY DEF CreateBoard, Shape
<1>2. q \in RequestRecord /\ q.board \in Board /\ q.by \in Principal \cup {Service}
  BY <1>1 DEF Shaped, RequestRecord
<1>3. CASE q.by = Service
  <2>1. req' = [req EXCEPT ![r] = Closed("done")]
    BY <1>3 DEF CreateBoard, Close
  <2>. QED BY <1>1, <1>2, <1>3, <2>1, ClosedShaped
<1>4. CASE q.by # Service
  <2>1. req' = [req EXCEPT ![r] = to]
    BY <1>1, <1>2, <1>4 DEF CreateBoard, Goto, RequestRecord
  <2>2. /\ to \in RequestRecord /\ to.stage = "grant" /\ to.op = q.op /\ to.by = q.by
        /\ to.board = q.board /\ to.column = q.column /\ to.card = q.card /\ to.rest = q.rest
        /\ to.patch = q.patch /\ to.moved = q.moved
    BY <1>2 DEF RequestRecord, Stages
  <2> HIDE DEF to
  <2>3. Shaped(to)
    BY <1>1, <1>2, <1>4, <2>2 DEF Shaped, Editing, Placing, Stages
  <2>4. req'[r] = to
    BY <1>1, <2>1
  <2>. QED BY <1>1, <1>2, <1>4, <2>1, <2>2, <2>3, <2>4
<1>. QED BY <1>3, <1>4

LEMMA GrantStep ==
  ASSUME TypeOK, Shape, NEW r \in Request, GrantBoardAdministration(r)
  PROVE  LET q == req[r]
             to == req'[r]
         IN  /\ req' = [req EXCEPT ![r] = to] /\ Shaped(to) /\ q.op = "create_board" /\ q.stage = "grant"
             /\ q.board \in Board /\ q.by \in Principal
             /\ \/ to = Closed("done")
                \/ /\ to.stage = "undo" /\ to.op = q.op /\ to.by = q.by /\ to.board = q.board
                   /\ to.card = q.card /\ to.rest = q.rest /\ to.column = q.column /\ to.moved = q.moved
<1> DEFINE q == req[r]
           to == [q EXCEPT !.stage = "undo"]
<1>1. q.stage = "grant" /\ Shaped(q) /\ req \in [Request -> RequestRecord]
  BY DEF GrantBoardAdministration, Shape
<1>2. q \in RequestRecord /\ q.op = "create_board" /\ q.board \in Board /\ q.by \in Principal
  BY <1>1 DEF Shaped, RequestRecord
<1>3. CASE req' = [req EXCEPT ![r] = Closed("done")]
  BY <1>1, <1>2, <1>3, ClosedShaped
<1>4. CASE req' = [req EXCEPT ![r].stage = "undo"]
  <2>1. req' = [req EXCEPT ![r] = to]
    BY <1>1, <1>2, <1>4 DEF RequestRecord
  <2>2. /\ to \in RequestRecord /\ to.stage = "undo" /\ to.op = q.op /\ to.by = q.by
        /\ to.board = q.board /\ to.column = q.column /\ to.card = q.card /\ to.rest = q.rest
        /\ to.patch = q.patch /\ to.moved = q.moved
    BY <1>2 DEF RequestRecord, Stages
  <2> HIDE DEF to
  <2>3. Shaped(to)
    BY <1>1, <1>2, <2>2 DEF Shaped, Editing, Placing, Stages
  <2>4. req'[r] = to
    BY <1>1, <2>1
  <2>. QED BY <1>1, <1>2, <1>4, <2>1, <2>2, <2>3, <2>4
<1>. QED BY <1>3, <1>4 DEF GrantBoardAdministration, Goto, Close

-----------------------------------------------------------------------------
(* Steps that close a request, and rows that go *)

\* The steps that end their request.
Ends(r) == req' = [req EXCEPT ![r] = Closed("done")]

LEMMA EndsShaped ==
  ASSUME Shape, NEW r \in Request, Ends(r)
  PROVE  /\ req' = [req EXCEPT ![r] = req'[r]] /\ req'[r] = Closed("done") /\ Shaped(req'[r])
BY ClosedShaped, OneRequest DEF Ends

LEMMA RequestsKept ==
  ASSUME Shape, NEW r \in Request, req' = [req EXCEPT ![r] = req'[r]], Shaped(req'[r])
  PROVE  req' \in [Request -> RequestRecord] /\ DOMAIN req' = Request /\ \A p \in Request : Shaped(req'[p])
BY OneRequest

LEMMA CutShortRequests ==
  ASSUME Shape, NEW requests, CutShort(requests)
  PROVE  req' \in [Request -> RequestRecord] /\ DOMAIN req' = Request /\ \A p \in Request : Shaped(req'[p])
<1>1. \A p \in Request : req'[p] = IF p \in requests THEN Closed("done") ELSE req[p]
  BY DEF CutShort
<1>2. req \in [Request -> RequestRecord] /\ \A p \in Request : Shaped(req[p])
  BY DEF Shape
<1>3. Closed("done") \in RequestRecord /\ Shaped(Closed("done"))
  BY ClosedShaped
<1>4. req' = [p \in Request |-> IF p \in requests THEN Closed("done") ELSE req[p]]
  BY DEF CutShort
<1>. QED BY <1>1, <1>2, <1>3, <1>4

LEMMA DropType ==
  ASSUME TypeOK, NEW columns, Drop(columns)
  PROVE  /\ column' \in [Column -> Row \cup {None}]
         /\ place' \in [Card -> [Board -> Place \cup {None}]]
         /\ \A c \in Column : column'[c] = IF c \in columns THEN None ELSE column[c]
         /\ \A k \in Card, b \in Board : place'[k][b] =
              IF place[k][b] # None /\ place[k][b].column \in columns THEN None ELSE place[k][b]
<1>1. /\ column \in [Column -> Row \cup {None}]
      /\ place \in [Card -> [Board -> Place \cup {None}]]
  BY DEF TypeOK
<1>. QED BY <1>1 DEF Drop

LEMMA CreationTold ==
  ASSUME Shape, NEW b \in Board, NEW told \in {"nothing", "created", "not_created", "error", "handed_on"},
         Tell(b, told)
  PROVE  /\ creation' \in [Board -> Creation]
         /\ creation'[b].by = creation[b].by /\ creation'[b].told = told
         /\ \A a \in Board : a # b => creation'[a] = creation[a]
<1>1. creation \in [Board -> Creation]
  BY DEF Shape
<1>2. creation[b] \in Creation
  BY <1>1
<1>3. creation' = [creation EXCEPT ![b] = [creation[b] EXCEPT !.told = told]]
  BY DEF Tell
<1> DEFINE made == creation[b]
<1>4. /\ [made EXCEPT !.told = told] \in Creation
      /\ [made EXCEPT !.told = told].by = made.by /\ [made EXCEPT !.told = told].told = told
  <2>1. made \in Creation
    BY <1>2
  <2> HIDE DEF made
  <2>. QED BY <2>1 DEF Creation
<1>. QED BY <1>1, <1>3, <1>4

LEMMA CutShortTells ==
  ASSUME Shape, NEW requests, CutShort(requests)
  PROVE  /\ creation' \in [Board -> Creation]
         /\ \A b \in Board :
              IF \E r \in requests : req[r].stage \in {"grant", "undo"} /\ req[r].board = b
              THEN creation'[b].by = creation[b].by /\ creation'[b].told = "error"
              ELSE creation'[b] = creation[b]
<1>1. creation \in [Board -> Creation]
  BY DEF Shape
<1> DEFINE cut(b) == \E r \in requests : req[r].stage \in {"grant", "undo"} /\ req[r].board = b
<1>2. creation' = [b \in Board |-> IF cut(b) THEN [creation[b] EXCEPT !.told = "error"] ELSE creation[b]]
  BY DEF CutShort
<1>3. \A b \in Board : LET new == [creation[b] EXCEPT !.told = "error"] IN
        new \in Creation /\ new.by = creation[b].by /\ new.told = "error"
  <2> TAKE b \in Board
  <2> DEFINE made == creation[b]
  <2>1. made \in Creation
    BY <1>1
  <2> HIDE DEF made
  <2>2. LET new == [made EXCEPT !.told = "error"] IN
        new \in Creation /\ new.by = made.by /\ new.told = "error"
    BY <2>1 DEF Creation
  <2>. QED BY <2>2 DEF made
<1> HIDE DEF cut
<1>4. /\ creation' \in [Board -> Creation]
      /\ \A b \in Board : IF cut(b) THEN creation'[b].by = creation[b].by /\ creation'[b].told = "error"
                          ELSE creation'[b] = creation[b]
  BY <1>1, <1>2, <1>3
<1>. QED BY <1>4 DEF cut

LEMMA RowsOfRequests ==
  ASSUME Shape, NEW r \in Request
  PROVE  LET q == req[r] IN
         /\ q \in RequestRecord
         /\ q.op \in {"create_board", "delete_board", "create_column", "attach", "move", "detach"} => q.board \in Board
         /\ q.op \in {"create_column", "edit_column", "delete_column", "reorder", "attach", "move"} =>
              q.column \in Column
         /\ q.op \in {"attach", "move", "detach"} => q.card \in Card
         /\ q.moved \in 0..MaxClock
         /\ q.stage = "undo" => q.op = "create_board"
         /\ q.stage = "insert" /\ q.op = "create_column" =>
              q.patch.position \in Position /\ q.patch.state \in State \cup {None}
<1>1. Shaped(req[r])
  BY DEF Shape
<1>. QED BY <1>1 DEF Shaped, RequestRecord

LEMMA MergedType ==
  ASSUME NEW copy \in Row, NEW patch \in Patches
  PROVE  LET new == Merged(copy, patch) IN
         /\ new \in Row /\ new.board = copy.board
         /\ new.position = IF patch.position = Keep THEN copy.position ELSE patch.position
         /\ new.state = IF patch.state = Keep THEN copy.state ELSE patch.state
<1> DEFINE position == IF patch.position = Keep THEN copy.position ELSE patch.position
           state == IF patch.state = Keep THEN copy.state ELSE patch.state
<1>1. position \in Position /\ state \in State \cup {None}
  BY DEF Row, Patches
<1>2. Merged(copy, patch) = [copy EXCEPT !.position = position, !.state = state]
  BY DEF Merged, Row
<1> HIDE DEF position, state
<1>3. /\ Merged(copy, patch) \in Row /\ Merged(copy, patch).board = copy.board
      /\ Merged(copy, patch).position = position /\ Merged(copy, patch).state = state
  BY <1>1, <1>2 DEF Row
<1>. QED BY <1>3 DEF position, state

-----------------------------------------------------------------------------
(* Types *)

LEMMA ShapeInit == Init => TypeOK /\ Shape
<1> SUFFICES ASSUME Init PROVE TypeOK /\ Shape
  OBVIOUS
<1>1. PICK s \in Start : board = s.board /\ column = s.column /\ place = s.place /\ grant = s.grant
  BY DEF Init
<1>2. TypeOK
  <2>1. /\ board \in [Board -> {"unborn", "there", "gone"}] /\ column \in [Column -> Row \cup {None}]
        /\ place \in [Card -> [Board -> Place \cup {None}]] /\ grant \in [Principal -> [Board -> Level]]
    BY <1>1, BoardAssumption
  <2>2. clock \in 1..MaxClock
    BY BoardAssumption DEF Init
  <2>3. DOMAIN req = Request /\ tangled \subseteq Card /\ minted \subseteq Column
    BY DEF Init
  <2>. QED BY <2>1, <2>2, <2>3 DEF TypeOK
<1>3. req \in [Request -> RequestRecord] /\ \A r \in Request : Shaped(req[r])
  <2>1. req = [r \in Request |-> Closed("new")]
    BY DEF Init
  <2>. QED BY <2>1, ClosedShaped
<1>4. creation \in [Board -> Creation]
  <2>1. creation = [b \in Board |-> [by |-> Service, told |-> "nothing"]]
    BY DEF Init
  <2>. QED BY <2>1 DEF Creation
<1>5. DOMAIN saved = Column
  BY DEF Init
<1>6. turn \in [Card -> Seq(Board)]
  <2>1. turn \in [Card -> UNION {SetToSeqs(Boards(k)) : k \in Card}]
    BY DEF Init
  <2>2. ASSUME NEW k \in Card PROVE SetToSeqs(Boards(k)) \subseteq Seq(Board)
    <3>1. IsFiniteSet(Boards(k))
      BY FS_Subset, BoardAssumption DEF Boards
    <3>2. Cardinality(Boards(k)) \in Nat
      BY <3>1, FS_CardinalityType
    <3>3. [1..Cardinality(Boards(k)) -> Boards(k)] \subseteq Seq(Boards(k))
      BY <3>2
    <3>4. Boards(k) \subseteq Board
      BY DEF Boards
    <3>5. SetToSeqs(Boards(k)) \subseteq [1..Cardinality(Boards(k)) -> Boards(k)]
      BY DEF SetToSeqs
    <3> HIDE DEF Boards
    <3>. QED BY <3>3, <3>4, <3>5
  <2>. QED BY <2>1, <2>2
<1>. QED BY <1>2, <1>3, <1>4, <1>5, <1>6 DEF Shape

LEMMA ShapeKept == TypeOK /\ Shape /\ [Next]_vars => TypeOK' /\ Shape'
<1> SUFFICES ASSUME TypeOK, Shape, [Next]_vars PROVE TypeOK' /\ Shape'
  OBVIOUS
<1>0. /\ board \in [Board -> {"unborn", "there", "gone"}] /\ column \in [Column -> Row \cup {None}]
      /\ place \in [Card -> [Board -> Place \cup {None}]] /\ grant \in [Principal -> [Board -> Level]]
      /\ clock \in 1..MaxClock /\ DOMAIN req = Request /\ tangled \subseteq Card /\ minted \subseteq Column
      /\ creation \in [Board -> Creation] /\ DOMAIN saved = Column /\ turn \in [Card -> Seq(Board)]
      /\ req \in [Request -> RequestRecord] /\ \A r \in Request : Shaped(req[r])
  BY DEF TypeOK, Shape
<1>a. ASSUME req' \in [Request -> RequestRecord], DOMAIN req' = Request, \A p \in Request : Shaped(req'[p]),
             UNCHANGED <<store, grant, clock, creation, saved, turn>>, tangled' \subseteq Card
      PROVE  TypeOK' /\ Shape'
  BY <1>0, <1>a DEF TypeOK, Shape, store
<1>1. ASSUME NEW r \in Request, Starts(r) PROVE TypeOK' /\ Shape'
  <2>1. req' = [req EXCEPT ![r] = req'[r]] /\ Shaped(req'[r])
    BY <1>1 DEF Starts
  <2>2. tangled' \subseteq Card
    BY <1>0, <1>1 DEF Starts, Shaped, Placing
  <2>3. UNCHANGED <<store, grant, clock, creation, saved, turn>>
    BY <1>1 DEF Starts
  <2>. QED BY <1>a, <2>1, <2>2, <2>3, RequestsKept
<1>2. ASSUME NEW r \in Request, Reads(r) PROVE TypeOK' /\ Shape'
  <2>1. req' = [req EXCEPT ![r] = req'[r]] /\ Shaped(req'[r])
    BY <1>2 DEF Reads
  <2>2. UNCHANGED <<store, grant, clock, creation, saved, turn>> /\ tangled' = tangled
    BY <1>2 DEF Reads, history
  <2>. QED BY <1>0, <1>a, <2>1, <2>2, RequestsKept
<1>3. ASSUME NEW r \in Request, CreateBoard(r) PROVE TypeOK' /\ Shape'
  <2>1. req' = [req EXCEPT ![r] = req'[r]] /\ Shaped(req'[r])
        /\ req[r].board \in Board /\ req[r].by \in Principal \cup {Service}
    BY <1>3, CreateBoardStep
  <2>2. board' \in [Board -> {"unborn", "there", "gone"}]
    BY <1>0, <1>3, <2>1 DEF CreateBoard
  <2>3. creation' \in [Board -> Creation]
    <3> DEFINE made == [by |-> req[r].by, told |-> IF req[r].by = Service THEN "created" ELSE "nothing"]
    <3>1. made \in Creation
      BY <2>1 DEF Creation
    <3>2. creation' = [creation EXCEPT ![req[r].board] = made]
      BY <1>3 DEF CreateBoard
    <3> HIDE DEF made
    <3>. QED BY <1>0, <2>1, <3>1, <3>2
  <2>4. UNCHANGED <<column, minted, place, grant, clock, saved, turn, tangled>>
    BY <1>3 DEF CreateBoard
  <2>. QED BY <1>0, <2>1, <2>2, <2>3, <2>4, RequestsKept DEF TypeOK, Shape
<1>4. ASSUME NEW r \in Request, GrantBoardAdministration(r) PROVE TypeOK' /\ Shape'
  <2>1. req' = [req EXCEPT ![r] = req'[r]] /\ Shaped(req'[r])
        /\ req[r].board \in Board /\ req[r].by \in Principal
    BY <1>4, GrantStep
  <2>2. [grant EXCEPT ![req[r].by][req[r].board] = Administer] \in [Principal -> [Board -> Level]]
    BY <1>0, <2>1 DEF Level, Administer
  <2>3. grant' \in [Principal -> [Board -> Level]]
    BY <1>0, <1>4, <2>2 DEF GrantBoardAdministration
  <2>4. creation' \in [Board -> Creation]
    BY <1>0, <1>4, <2>1, CreationTold DEF GrantBoardAdministration
  <2>5. UNCHANGED <<store, clock, saved, turn, tangled>>
    BY <1>4 DEF GrantBoardAdministration
  <2>. QED BY <1>0, <2>1, <2>3, <2>4, <2>5, RequestsKept DEF TypeOK, Shape, store
<1>5. ASSUME NEW r \in Request, UndoCreate(r) PROVE TypeOK' /\ Shape'
  <2> DEFINE b == req[r].board
  <2>1. req' = [req EXCEPT ![r] = req'[r]] /\ Shaped(req'[r]) /\ b \in Board
    BY <1>5, EndsShaped, RowsOfRequests DEF UndoCreate, Ends, Close
  <2> HIDE DEF b
  <2>2. CASE board[b] = "there" /\ RemoveBoard(b) /\ Tell(b, "not_created")
    <3>1. board' \in [Board -> {"unborn", "there", "gone"}]
      BY <1>0, <2>1, <2>2 DEF RemoveBoard
    <3>2. /\ column' \in [Column -> Row \cup {None}] /\ place' \in [Card -> [Board -> Place \cup {None}]]
      BY <2>2, DropType DEF RemoveBoard
    <3>3. creation' \in [Board -> Creation] /\ minted' = minted
      BY <2>1, <2>2, CreationTold DEF RemoveBoard
    <3>4. UNCHANGED <<grant, clock, saved, turn, tangled>>
      BY <1>5 DEF UndoCreate
    <3>. QED BY <1>0, <2>1, <3>1, <3>2, <3>3, <3>4, RequestsKept DEF TypeOK, Shape
  <2>3. CASE Tell(b, "error") /\ UNCHANGED store
    <3>1. creation' \in [Board -> Creation]
      BY <2>1, <2>3, CreationTold
    <3>2. UNCHANGED <<grant, clock, saved, turn, tangled>>
      BY <1>5 DEF UndoCreate
    <3>. QED BY <1>0, <2>1, <2>3, <3>1, <3>2, RequestsKept DEF TypeOK, Shape, store
  <2>. QED BY <1>5, <2>2, <2>3 DEF UndoCreate, b
<1>6. ASSUME NEW r \in Request, DeleteBoard(r) PROVE TypeOK' /\ Shape'
  <2> DEFINE b == req[r].board
  <2>1. req' = [req EXCEPT ![r] = req'[r]] /\ Shaped(req'[r]) /\ b \in Board
    BY <1>6, EndsShaped, RowsOfRequests DEF DeleteBoard, Ends, Close
  <2>2. UNCHANGED <<grant, clock, creation, saved, turn, tangled>>
    BY <1>6 DEF DeleteBoard, history
  <2> HIDE DEF b
  <2>3. CASE RemoveBoard(b)
    <3>1. board' \in [Board -> {"unborn", "there", "gone"}]
      BY <1>0, <2>1, <2>3 DEF RemoveBoard
    <3>2. /\ column' \in [Column -> Row \cup {None}] /\ place' \in [Card -> [Board -> Place \cup {None}]]
      BY <2>3, DropType DEF RemoveBoard
    <3>3. minted' = minted
      BY <2>3 DEF RemoveBoard
    <3>. QED BY <1>0, <2>1, <2>2, <3>1, <3>2, <3>3, RequestsKept DEF TypeOK, Shape
  <2>4. CASE UNCHANGED store
    BY <1>0, <2>1, <2>2, <2>4, RequestsKept DEF TypeOK, Shape, store
  <2>. QED BY <1>6, <2>3, <2>4 DEF DeleteBoard, b
<1>7. ASSUME NEW r \in Request, InsertColumn(r) PROVE TypeOK' /\ Shape'
  <2> DEFINE q == req[r]
             new == [board |-> q.board, position |-> q.patch.position, state |-> q.patch.state]
  <2>1. /\ req' = [req EXCEPT ![r] = req'[r]] /\ Shaped(req'[r]) /\ q.board \in Board /\ q.column \in Column
        /\ q.patch.position \in Position /\ q.patch.state \in State \cup {None}
    BY <1>7, EndsShaped, RowsOfRequests DEF InsertColumn, Ends, Close
  <2>2. new \in Row
    BY <2>1 DEF Row
  <2>3. UNCHANGED <<board, place, grant, clock, creation, turn, tangled>>
    BY <1>7 DEF InsertColumn
  <2>4. column' \in [Column -> Row \cup {None}]
    <3>1. column' = [column EXCEPT ![q.column] = new] \/ column' = column
      BY <1>7 DEF InsertColumn
    <3> HIDE DEF new
    <3>. QED BY <1>0, <2>1, <2>2, <3>1
  <2>5. minted' \subseteq Column /\ DOMAIN saved' = Column
    <3> DEFINE fields == [f \in ColumnField |-> [value |-> q.patch[f], threatened |-> FALSE]]
    <3>1. \/ minted' = minted \cup {q.column} /\ saved' = [saved EXCEPT ![q.column] = fields]
          \/ minted' = minted /\ saved' = saved
      BY <1>7 DEF InsertColumn
    <3> HIDE DEF fields, q
    <3>. QED BY <1>0, <2>1, <3>1
  <2>. QED BY <1>0, <2>1, <2>3, <2>4, <2>5, RequestsKept DEF TypeOK, Shape
<1>8. ASSUME NEW r \in Request, WriteColumn(r) PROVE TypeOK' /\ Shape'
  <2> DEFINE q == req[r]
             new == Merged(q.copy, q.patch)
  <2>1. /\ req' = [req EXCEPT ![r] = req'[r]] /\ Shaped(req'[r])
        /\ q.copy \in Row /\ q.column \in Column /\ q.patch \in Patches
    BY <1>8, WriteColumnStep
  <2>2. new \in Row
    BY <2>1, MergedType
  <2>3. UNCHANGED <<board, minted, place, grant, clock, creation, turn, tangled>>
    BY <1>8 DEF WriteColumn
  <2>4. column' = [column EXCEPT ![q.column] = new] \/ column' = column
    BY <1>8 DEF WriteColumn
  <2>5. DOMAIN saved' = Column
    BY <1>0, <1>8 DEF WriteColumn
  <2> HIDE DEF new, q
  <2>6. column' \in [Column -> Row \cup {None}]
    BY <1>0, <2>1, <2>2, <2>4
  <2>. QED BY <1>0, <2>1, <2>3, <2>5, <2>6, RequestsKept DEF TypeOK, Shape
<1>9. ASSUME NEW r \in Request, DeleteColumn(r) PROVE TypeOK' /\ Shape'
  <2>1. req' = [req EXCEPT ![r] = req'[r]] /\ Shaped(req'[r])
    BY <1>9, EndsShaped DEF DeleteColumn, Ends, Close
  <2>2. /\ column' \in [Column -> Row \cup {None}] /\ place' \in [Card -> [Board -> Place \cup {None}]]
    BY <1>9, DropType DEF DeleteColumn
  <2>3. UNCHANGED <<board, minted, grant, clock, creation, saved, turn, tangled>>
    BY <1>9 DEF DeleteColumn, history
  <2>. QED BY <1>0, <2>1, <2>2, <2>3, RequestsKept DEF TypeOK, Shape
<1>10. ASSUME NEW r \in Request, PutRow(r) PROVE TypeOK' /\ Shape'
  <2> DEFINE q == req[r]
             new == [column |-> q.column, moved |-> q.moved]
  <2>1. /\ req' = [req EXCEPT ![r] = req'[r]] /\ Shaped(req'[r]) /\ q.board \in Board /\ q.column \in Column
        /\ q.card \in Card /\ q.moved \in 0..MaxClock
    BY <1>10, EndsShaped, RowsOfRequests DEF PutRow, Placing, Ends, Close
  <2>2. new \in Place
    BY <2>1 DEF Place
  <2>3. UNCHANGED <<board, column, minted, grant, clock, creation, saved, tangled>>
    BY <1>10 DEF PutRow
  <2>4. \/ place' = [place EXCEPT ![q.card][q.board] = new] /\ turn' = [turn EXCEPT ![q.card] = Append(@, q.board)]
        \/ place' = place /\ turn' = turn
    BY <1>10 DEF PutRow, Put
  <2> DEFINE rows == [place[q.card] EXCEPT ![q.board] = new]
             turns == Append(turn[q.card], q.board)
  <2>5. rows \in [Board -> Place \cup {None}] /\ turns \in Seq(Board)
    <3> HIDE DEF new, q
    <3>. QED BY <1>0, <2>1, <2>2
  <2>6. \/ place' = [place EXCEPT ![q.card] = rows] /\ turn' = [turn EXCEPT ![q.card] = turns]
        \/ place' = place /\ turn' = turn
    BY <2>4
  <2> HIDE DEF rows, turns, q
  <2>7. /\ place' \in [Card -> [Board -> Place \cup {None}]]
        /\ turn' \in [Card -> Seq(Board)]
    <3>1. q.card \in Card
      BY <2>1
    <3>2. /\ place \in [Card -> [Board -> Place \cup {None}]] /\ turn \in [Card -> Seq(Board)]
      BY <1>0
    <3>3. CASE place' = [place EXCEPT ![q.card] = rows] /\ turn' = [turn EXCEPT ![q.card] = turns]
      BY <2>5, <3>1, <3>2, <3>3
    <3>4. CASE place' = place /\ turn' = turn
      BY <3>2, <3>4
    <3>. QED BY <2>6, <3>3, <3>4
  <2>. QED BY <1>0, <2>1, <2>3, <2>7, RequestsKept DEF TypeOK, Shape
<1>11. ASSUME NEW r \in Request, DetachRow(r) PROVE TypeOK' /\ Shape'
  <2>1. /\ req' = [req EXCEPT ![r] = req'[r]] /\ Shaped(req'[r]) /\ req[r].board \in Board /\ req[r].card \in Card
    BY <1>11, EndsShaped, RowsOfRequests DEF DetachRow, Ends, Close
  <2>2. UNCHANGED <<board, column, minted, grant, clock, creation, saved, turn, tangled>>
    BY <1>11 DEF DetachRow, history
  <2>3. place' \in [Card -> [Board -> Place \cup {None}]]
    BY <1>0, <1>11, <2>1 DEF DetachRow
  <2>. QED BY <1>0, <2>1, <2>2, <2>3, RequestsKept DEF TypeOK, Shape
<1>12. ASSUME NEW r \in Request, Regrant(r) PROVE TypeOK' /\ Shape'
  <2>1. req' = [req EXCEPT ![r] = req'[r]] /\ Shaped(req'[r])
    BY <1>12, EndsShaped DEF Regrant, Ends, Close
  <2>2. UNCHANGED <<store, clock, saved, turn, tangled>>
    BY <1>12 DEF Regrant
  <2>3. grant' \in [Principal -> [Board -> Level]] /\ creation' \in [Board -> Creation]
    <3>1. PICK p \in Principal, b \in Board, level \in Level :
            /\ grant' = [grant EXCEPT ![p][b] = level]
            /\ Tell(b, "handed_on") \/ UNCHANGED creation
      BY <1>12 DEF Regrant
    <3>. QED BY <1>0, <3>1, CreationTold
  <2>. QED BY <1>0, <2>1, <2>2, <2>3, RequestsKept DEF TypeOK, Shape, store
<1>13. ASSUME NEW requests, CutShort(requests) PROVE TypeOK' /\ Shape'
  <2>1. UNCHANGED <<store, grant, clock, saved, turn, tangled>>
    BY <1>13 DEF CutShort
  <2>. QED BY <1>0, <1>13, <2>1, CutShortRequests, CutShortTells DEF TypeOK, Shape, store
<1>14. CASE Tick
  <2>1. clock' \in 1..MaxClock
    BY <1>0, <1>14, BoardAssumption DEF Tick
  <2>2. UNCHANGED <<store, grant, req, creation, saved, turn, tangled>>
    BY <1>14 DEF Tick, history
  <2>. QED BY <1>0, <2>1, <2>2 DEF TypeOK, Shape, store
<1>15. CASE UNCHANGED vars
  BY <1>0, <1>15 DEF TypeOK, Shape, vars, store, history
<1>16. ASSUME NEW r \in Request, BeginBoard(r) \/ BeginColumn(r) \/ BeginCard(r) PROVE TypeOK' /\ Shape'
  BY <1>1, <1>16, BeginBoardStep, BeginColumnStep, BeginCardStep
<1>17. ASSUME NEW r \in Request,
              Gate(r) \/ Rule(r) \/ PlanColumn(r) \/ ReadColumn(r) \/ LookForColumn(r)
       PROVE  TypeOK' /\ Shape'
  BY <1>2, <1>17, ReadingStep
<1>. QED BY <1>3, <1>4, <1>5, <1>6, <1>7, <1>8, <1>9, <1>10, <1>11, <1>12, <1>13, <1>14, <1>15, <1>16, <1>17
         DEF Next, Fail, Stop, Idle

-----------------------------------------------------------------------------
(* Who created a board, and what they were told *)

\* The requests that go on creating a board, and how far they are, stay as they are.
SameCreators ==
  \A p \in Request : req'[p].op = "create_board" =>
    /\ req[p].op = "create_board" /\ req'[p].board = req[p].board /\ req'[p].by = req[p].by
    /\ req'[p].stage \in {"grant", "undo"} <=> req[p].stage \in {"grant", "undo"}

LEMMA CreatorsOfOthers ==
  ASSUME TypeOK, Shape, Creators, SameCreators, UNCHANGED <<creation, grant>>,
         \A b \in Board : board'[b] = board[b] \/ (board[b] = "there" /\ board'[b] = "gone")
  PROVE  Creators'
<1>0. Creating /\ OneCreator /\ WhatWasTold
  BY DEF Creators
<1>1. \A p \in Request : req[p].op = "create_board" => req[p].board \in Board
  BY RowsOfRequests
<1>2. Creating'
  BY <1>0, <1>1 DEF Creating, SameCreators
<1>3. OneCreator'
  BY <1>0 DEF OneCreator, SameCreators
<1>4. WhatWasTold'
  BY <1>0 DEF WhatWasTold
<1>. QED BY <1>2, <1>3, <1>4 DEF Creators

\* What a step of the request that creates board b shows.
LEMMA CreatorsOfOne ==
  ASSUME TypeOK, Shape, Creators, NEW r \in Request, NEW b \in Board,
         req' = [req EXCEPT ![r] = req'[r]],
         \/ req[r].op = "create_board" /\ req[r].board = b
         \/ req[r].op = "none" /\ board[b] = "unborn" /\ \A q \in Open : req[q].board # b,
         \A a \in Board : a # b => board'[a] = board[a] /\ creation'[a] = creation[a],
         \A p \in Principal, a \in Board : a # b => grant'[p][a] = grant[p][a],
         \A a \in Board : creation[a].by \in Principal \cup {Service},
         req'[r].op # "none" =>
           /\ req'[r].op = "create_board" /\ req'[r].board = b
           /\ req'[r].stage \in {"grant", "undo"} =>
                board'[b] # "unborn" /\ creation'[b].by = req'[r].by /\ creation'[b].told = "nothing"
           /\ req'[r].stage \notin {"grant", "undo"} => board'[b] = "unborn",
         board'[b] = "unborn" => creation'[b].told = "nothing",
         creation'[b].told = "not_created" => board'[b] = "gone",
         creation'[b].told = "created" /\ creation'[b].by # Service => grant'[creation'[b].by][b] = Administer
  PROVE  Creators'
<1>0. Creating /\ OneCreator /\ WhatWasTold
  BY DEF Creators
<1>1. \A p \in Request : req[p].op = "create_board" => req[p].board \in Board
  BY RowsOfRequests
<1>2. \A p \in Request : p # r => req'[p] = req[p]
  BY DEF Shape
<1>3. \A p \in Request : p # r /\ req[p].op = "create_board" => req[p].board # b
  <2> TAKE p \in Request
  <2>1. p \in Open <=> req[p].op # "none"
    BY NewIsClosed
  <2>. QED BY <1>0, <2>1 DEF OneCreator
<1>4. Creating'
  <2> SUFFICES ASSUME NEW p \in Request, req'[p].op = "create_board"
               PROVE  /\ req'[p].stage \in {"grant", "undo"} =>
                           /\ board'[req'[p].board] # "unborn"
                           /\ creation'[req'[p].board].by = req'[p].by
                           /\ creation'[req'[p].board].told = "nothing"
                      /\ req'[p].stage \notin {"grant", "undo"} => board'[req'[p].board] = "unborn"
    BY DEF Creating
  <2>1. CASE p = r
    BY <2>1
  <2>2. CASE p # r
    <3>1. req'[p] = req[p] /\ req[p].board \in Board /\ req[p].board # b
      BY <1>1, <1>2, <1>3, <2>2
    <3>2. board'[req[p].board] = board[req[p].board] /\ creation'[req[p].board] = creation[req[p].board]
      BY <3>1
    <3>. QED BY <1>0, <3>1, <3>2 DEF Creating
  <2>. QED BY <2>1, <2>2
<1>5. OneCreator'
  <2> SUFFICES ASSUME NEW p \in Request, NEW q \in Request, req'[p].op = "create_board",
                      req'[q].op = "create_board", req'[p].board = req'[q].board
               PROVE  p = q
    BY DEF OneCreator
  <2>1. req'[r].op = "create_board" => req'[r].board = b
    OBVIOUS
  <2>. QED BY <1>0, <1>2, <1>3, <2>1 DEF OneCreator
<1>6. WhatWasTold'
  <2> SUFFICES ASSUME NEW a \in Board
               PROVE  /\ board'[a] = "unborn" => creation'[a].told = "nothing"
                      /\ creation'[a].told = "not_created" => board'[a] = "gone"
                      /\ creation'[a].told = "created" /\ creation'[a].by # Service =>
                           grant'[creation'[a].by][a] = Administer
    BY DEF WhatWasTold
  <2>1. CASE a = b
    BY <2>1
  <2>2. CASE a # b
    <3>1. board'[a] = board[a] /\ creation'[a] = creation[a]
      BY <2>2
    <3>2. creation[a].by # Service => grant'[creation[a].by][a] = grant[creation[a].by][a]
      BY <2>2
    <3>. QED BY <1>0, <3>1, <3>2 DEF WhatWasTold
  <2>. QED BY <2>1, <2>2
<1>. QED BY <1>4, <1>5, <1>6 DEF Creators

LEMMA CreatorsInit == Init => Creators
<1> SUFFICES ASSUME Init PROVE Creators
  OBVIOUS
<1>1. \A r \in Request : req[r].op = "none"
  BY ClosedShaped DEF Init
<1>2. \A b \in Board : creation[b].told = "nothing"
  BY DEF Init
<1>. QED BY <1>1, <1>2 DEF Creators, Creating, OneCreator, WhatWasTold

LEMMA CreatorsKept ==
  ASSUME TypeOK, Shape, Creators, [Next]_vars PROVE Creators'
<1>0. /\ board \in [Board -> {"unborn", "there", "gone"}] /\ grant \in [Principal -> [Board -> Level]]
      /\ creation \in [Board -> Creation] /\ req \in [Request -> RequestRecord]
      /\ \A a \in Board : creation[a].by \in Principal \cup {Service}
      /\ \A r \in Request : Shaped(req[r])
  BY DEF TypeOK, Shape, Creation
<1>a. ASSUME NEW r \in Request, req' = [req EXCEPT ![r] = req'[r]], req'[r].op # "create_board",
             UNCHANGED <<creation, grant>>,
             \A b \in Board : board'[b] = board[b] \/ (board[b] = "there" /\ board'[b] = "gone")
      PROVE  Creators'
  <2>1. \A p \in Request : p # r => req'[p] = req[p]
    BY <1>0, <1>a
  <2>2. SameCreators
    BY <1>a, <2>1 DEF SameCreators
  <2>. QED BY <1>a, <2>2, CreatorsOfOthers
<1>c. Creating /\ OneCreator /\ WhatWasTold
  BY DEF Creators
<1>b. Closed("done").op = "none"
  BY ClosedShaped
<1>1. ASSUME NEW r \in Request, Starts(r) PROVE Creators'
  <2>1. /\ req' = [req EXCEPT ![r] = req'[r]] /\ Shaped(req'[r]) /\ req[r].op = "none"
        /\ UNCHANGED <<board, creation, grant>> /\ req'[r].stage \notin {"grant", "undo"}
    BY <1>1, ClosedShaped DEF Starts, store
  <2>2. CASE req'[r].op = "create_board"
    <3> DEFINE b == req'[r].board
    <3>1. b \in Board /\ board[b] = "unborn" /\ \A q \in Open : req[q].board # b
      BY <1>1, <2>1, <2>2 DEF Starts, Shaped
    <3> HIDE DEF b
    <3>2. req'[r].board = b
      BY DEF b
    <3>3. creation[b].told = "nothing" /\ board'[b] = "unborn" /\ creation' = creation /\ grant' = grant
      BY <1>c, <2>1, <3>1 DEF WhatWasTold
    <3>4. creation'[b].told = "nothing"
      BY <3>3
    <3>. QED BY <1>0, <2>1, <2>2, <3>1, <3>2, <3>3, <3>4, CreatorsOfOne
  <2>3. CASE req'[r].op # "create_board"
    BY <1>a, <2>1, <2>3
  <2>. QED BY <2>2, <2>3
<1>2. ASSUME NEW r \in Request, Reads(r) PROVE Creators'
  <2>1. /\ req' = [req EXCEPT ![r] = req'[r]] /\ GoesOn(req[r], req'[r])
        /\ UNCHANGED <<board, creation, grant>>
        /\ req[r].stage \notin {"grant", "undo"} /\ req'[r].stage \notin {"grant", "undo"}
    BY <1>2 DEF Reads, store, history
  <2>2. \A p \in Request : p # r => req'[p] = req[p]
    BY <1>0, <2>1
  <2>3. SameCreators
    BY <1>b, <2>1, <2>2 DEF SameCreators, GoesOn
  <2>. QED BY <2>1, <2>3, CreatorsOfOthers
<1>3. ASSUME NEW r \in Request, CreateBoard(r) PROVE Creators'
  <2> DEFINE q == req[r]
             b == q.board
  <2>1. /\ req' = [req EXCEPT ![r] = req'[r]] /\ q.op = "create_board" /\ q.stage = "insert" /\ b \in Board
        /\ q.by \in Principal \cup {Service}
        /\ IF q.by = Service THEN req'[r].op = "none"
           ELSE req'[r].stage = "grant" /\ req'[r].op = q.op /\ req'[r].by = q.by /\ req'[r].board = b
    BY <1>3, <1>b, CreateBoardStep
  <2>2. /\ board' = [board EXCEPT ![b] = "there"] /\ grant' = grant
        /\ creation' = [creation EXCEPT ![b] = [by |-> q.by, told |-> IF q.by = Service THEN "created" ELSE "nothing"]]
    BY <1>3 DEF CreateBoard
  <2>3. /\ board'[b] = "there" /\ \A a \in Board : a # b => board'[a] = board[a]
        /\ creation'[b].by = q.by /\ creation'[b].told = (IF q.by = Service THEN "created" ELSE "nothing")
        /\ \A a \in Board : a # b => creation'[a] = creation[a]
    BY <1>0, <2>1, <2>2
  <2>4. q.op = "create_board" /\ q.board = b
    BY <2>1
  <2> HIDE DEF b
  <2>. QED BY <1>0, <2>1, <2>2, <2>3, <2>4, CreatorsOfOne
<1>4. ASSUME NEW r \in Request, GrantBoardAdministration(r) PROVE Creators'
  <2> DEFINE q == req[r]
             b == q.board
             granted == [grant EXCEPT ![q.by][b] = Administer]
  <2>1. /\ req' = [req EXCEPT ![r] = req'[r]] /\ q.op = "create_board" /\ q.stage = "grant" /\ b \in Board
        /\ q.by \in Principal
        /\ \/ req'[r].op = "none"
           \/ req'[r].stage = "undo" /\ req'[r].op = q.op /\ req'[r].by = q.by /\ req'[r].board = b
    BY <1>4, <1>b, GrantStep
  <2>2. board[b] # "unborn" /\ creation[b].by = q.by /\ creation[b].told = "nothing"
    BY <1>c, <2>1 DEF Creating
  <2>3. /\ \A p \in Principal, a \in Board : a # b => granted[p][a] = grant[p][a]
        /\ granted[q.by][b] = Administer
    BY <1>0, <2>1
  <2>4. board' = board
    BY <1>4 DEF GrantBoardAdministration, store
  <2>5. q.op = "create_board" /\ q.board = b
    BY <2>1
  <2>6. \/ Close(r) /\ Tell(b, "created") /\ grant' = granted
        \/ Goto(r, "undo") /\ UNCHANGED creation /\ grant' \in {grant, granted}
    BY <1>4 DEF GrantBoardAdministration
  <2>7. CASE Close(r) /\ Tell(b, "created") /\ grant' = granted
    <3>1. req'[r] = Closed("done")
      BY <2>7, EndsShaped DEF Close, Ends
    <3>2. creation'[b].by = q.by /\ creation'[b].told = "created"
          /\ \A a \in Board : a # b => creation'[a] = creation[a]
      BY <2>1, <2>2, <2>7, CreationTold
    <3>3. req'[r].op = "none"
      BY <1>b, <3>1
    <3> HIDE DEF b, granted, q
    <3>. QED BY <1>0, <2>1, <2>2, <2>3, <2>4, <2>5, <2>7, <3>2, <3>3, CreatorsOfOne DEF q
  <2>8. CASE Goto(r, "undo") /\ UNCHANGED creation /\ grant' \in {grant, granted}
    <3>1. \A p \in Principal, a \in Board : a # b => grant'[p][a] = grant[p][a]
      BY <2>3, <2>8
    <3>2. creation' = creation
      BY <2>8
    <3> HIDE DEF b, granted
    <3>. QED BY <1>0, <2>1, <2>2, <2>4, <2>5, <3>1, <3>2, CreatorsOfOne
  <2>. QED BY <2>6, <2>7, <2>8
<1>5. ASSUME NEW r \in Request, UndoCreate(r) PROVE Creators'
  <2> DEFINE q == req[r]
             b == q.board
  <2>1. /\ req' = [req EXCEPT ![r] = req'[r]] /\ q.op = "create_board" /\ q.stage = "undo" /\ b \in Board
        /\ req'[r].op = "none"
    BY <1>5, <1>b, EndsShaped, RowsOfRequests DEF UndoCreate, Close, Ends
  <2>2. board[b] # "unborn" /\ creation[b].by = q.by /\ creation[b].told = "nothing"
    BY <1>c, <2>1 DEF Creating
  <2>3. grant' = grant
    BY <1>5 DEF UndoCreate
  <2>4. q.op = "create_board" /\ q.board = b
    BY <2>1
  <2>5. \/ board' = [board EXCEPT ![b] = "gone"] /\ Tell(b, "not_created")
        \/ board' = board /\ Tell(b, "error")
    BY <1>5 DEF UndoCreate, RemoveBoard, store
  <2>6. /\ \A a \in Board : a # b => board'[a] = board[a] /\ creation'[a] = creation[a]
        /\ board'[b] # "unborn"
        /\ \/ board'[b] = "gone" /\ creation'[b].told = "not_created"
           \/ creation'[b].told = "error"
    BY <1>0, <2>1, <2>2, <2>5, CreationTold
  <2> HIDE DEF b
  <2>. QED BY <1>0, <2>1, <2>3, <2>4, <2>6, CreatorsOfOne
<1>6. ASSUME NEW r \in Request, DeleteBoard(r) PROVE Creators'
  <2>1. /\ req' = [req EXCEPT ![r] = req'[r]] /\ req'[r].op = "none"
    BY <1>6, <1>b, EndsShaped DEF DeleteBoard, Close, Ends
  <2>2. UNCHANGED <<creation, grant>>
    BY <1>6 DEF DeleteBoard, history
  <2>3. \A b \in Board : board'[b] = board[b] \/ (board[b] = "there" /\ board'[b] = "gone")
    BY <1>0, <1>6 DEF DeleteBoard, RemoveBoard, store
  <2>. QED BY <1>a, <2>1, <2>2, <2>3
<1>7. ASSUME NEW r \in Request, Regrant(r) PROVE Creators'
  <2>1. /\ req' = [req EXCEPT ![r] = req'[r]] /\ req'[r].op = "none"
    BY <1>7, <1>b, EndsShaped DEF Regrant, Close, Ends
  <2>2. \A p \in Request : p # r => req'[p] = req[p]
    BY <1>0, <2>1
  <2>3. \A p \in Request : req'[p].op = "create_board" => p # r
    BY <2>1
  <2>4. PICK p \in Principal, b \in Board, level \in Level :
          /\ board[b] # "unborn"
          /\ grant' = [grant EXCEPT ![p][b] = level]
          /\ IF creation[b].told = "created" /\ creation[b].by = p
             THEN Tell(b, "handed_on") ELSE UNCHANGED creation
    BY <1>7 DEF Regrant
  <2>5. board' = board
    BY <1>7 DEF Regrant, store
  <2>6. \A a \in Board : /\ creation'[a].by = creation[a].by
                         /\ \/ creation'[a].told = creation[a].told
                            \/ a = b /\ creation[a].told = "created" /\ creation'[a].told = "handed_on"
    BY <2>4, CreationTold
  <2>7. \A o \in Principal, a \in Board : o # p \/ a # b => grant'[o][a] = grant[o][a]
    BY <1>0, <2>4
  <2>8. creation[b].told = "created" /\ creation[b].by = p => creation'[b].told = "handed_on"
    BY <2>4, CreationTold
  <2>9. \A o \in Request : req[o].op = "create_board" => req[o].board \in Board
    BY RowsOfRequests
  <2>10. \A a \in Board : creation'[a].told = "created" /\ creation'[a].by # Service =>
           grant'[creation'[a].by][a] = Administer
    <3> TAKE a \in Board
    <3>1. CASE a = b /\ creation[b].told = "created" /\ creation[b].by = p
      BY <2>8, <3>1
    <3>2. CASE ~(a = b /\ creation[b].told = "created" /\ creation[b].by = p)
      BY <1>0, <1>c, <2>6, <2>7, <3>2 DEF WhatWasTold
    <3>. QED BY <3>1, <3>2
  <2>11. Creating'
    BY <1>c, <2>2, <2>3, <2>5, <2>6, <2>9 DEF Creating
  <2>12. OneCreator'
    BY <1>c, <2>2, <2>3 DEF OneCreator
  <2>13. \A a \in Board : /\ board'[a] = "unborn" => creation'[a].told = "nothing"
                          /\ creation'[a].told = "not_created" => board'[a] = "gone"
    BY <1>c, <2>5, <2>6 DEF WhatWasTold
  <2>14. WhatWasTold'
    BY <2>10, <2>13 DEF WhatWasTold
  <2>. QED BY <2>11, <2>12, <2>14 DEF Creators
<1>8. ASSUME NEW requests, requests \subseteq Request, CutShort(requests) PROVE Creators'
  <2>1. \A p \in Request : req'[p] = IF p \in requests THEN Closed("done") ELSE req[p]
    BY <1>8 DEF CutShort
  <2>2. board' = board /\ grant' = grant
    BY <1>8 DEF CutShort, store
  <2>3. \A b \in Board :
          \/ creation'[b] = creation[b]
          \/ /\ creation'[b].told = "error"
             /\ \E r \in requests : req[r].stage \in {"grant", "undo"} /\ req[r].board = b
    BY <1>8, CutShortTells
  <2>4. \A p \in Request : req'[p].op = "create_board" => p \notin requests /\ req'[p] = req[p]
    BY <1>b, <2>1
  <2>5. \A p \in Request : req[p].op = "create_board" => req[p].board \in Board
    BY RowsOfRequests
  <2>6. \A p \in Request : req[p].stage \in {"grant", "undo"} => req[p].op = "create_board"
    BY <1>0 DEF Shaped
  <2>7. \A p \in Request : req'[p].op = "create_board" => creation'[req[p].board] = creation[req[p].board]
    BY <1>8, <1>c, <2>3, <2>4, <2>5, <2>6 DEF OneCreator
  <2>8. Creating'
    BY <1>c, <2>2, <2>4, <2>7 DEF Creating
  <2>9. OneCreator'
    BY <1>c, <2>4 DEF OneCreator
  <2>10. \A b \in Board : board[b] = "unborn" => creation'[b] = creation[b]
    BY <1>8, <1>c, <2>3, <2>6 DEF Creating
  <2>11. \A b \in Board : creation'[b] = creation[b] \/ creation'[b].told = "error"
    BY <2>3
  <2>12. \A a \in Board : /\ board'[a] = "unborn" => creation'[a].told = "nothing"
                          /\ creation'[a].told = "not_created" => board'[a] = "gone"
                          /\ creation'[a].told = "created" /\ creation'[a].by # Service =>
                               grant'[creation'[a].by][a] = Administer
    BY <1>c, <2>2, <2>10, <2>11 DEF WhatWasTold
  <2>13. WhatWasTold'
    BY <2>12 DEF WhatWasTold
  <2>. QED BY <2>8, <2>9, <2>13 DEF Creators
<1>9. ASSUME NEW r \in Request,
             InsertColumn(r) \/ DeleteColumn(r) \/ PutRow(r) \/ DetachRow(r)
      PROVE  Creators'
  <2>1. /\ req' = [req EXCEPT ![r] = req'[r]] /\ req'[r].op = "none"
    BY <1>9, <1>b, EndsShaped DEF InsertColumn, DeleteColumn, PutRow, DetachRow, Close, Ends
  <2>2. UNCHANGED <<board, creation, grant>>
    BY <1>9 DEF InsertColumn, DeleteColumn, PutRow, DetachRow, history
  <2>. QED BY <1>a, <2>1, <2>2
<1>10. ASSUME NEW r \in Request, WriteColumn(r) PROVE Creators'
  <2>1. /\ req' = [req EXCEPT ![r] = req'[r]] /\ req'[r].op # "create_board"
    BY <1>10, <1>b, WriteColumnStep DEF NextOfReorder, Editing
  <2>2. UNCHANGED <<board, creation, grant>>
    BY <1>10 DEF WriteColumn
  <2>. QED BY <1>a, <2>1, <2>2
<1>11. CASE Tick \/ UNCHANGED vars
  <2>1. UNCHANGED <<board, creation, grant, req>>
    BY <1>11 DEF Tick, vars, store, history
  <2>. QED BY <1>c, <2>1 DEF Creators, Creating, OneCreator, WhatWasTold
<1>12. ASSUME NEW r \in Request, BeginBoard(r) \/ BeginColumn(r) \/ BeginCard(r) PROVE Creators'
  BY <1>1, <1>12, BeginBoardStep, BeginColumnStep, BeginCardStep
<1>13. ASSUME NEW r \in Request,
              Gate(r) \/ Rule(r) \/ PlanColumn(r) \/ ReadColumn(r) \/ LookForColumn(r)
       PROVE  Creators'
  BY <1>2, <1>13, ReadingStep
<1>14. Open \subseteq Request
  BY DEF Open
<1>. QED BY <1>3, <1>4, <1>5, <1>6, <1>7, <1>8, <1>9, <1>10, <1>11, <1>12, <1>13, <1>14
         DEF Next, Fail, Stop, Idle

-----------------------------------------------------------------------------
(* What requests know of columns *)

LEMMA KnownInit == Init => Known
<1> SUFFICES ASSUME Init PROVE Known
  OBVIOUS
<1>1. \A r \in Request : req[r].op = "none" /\ req[r].rest = <<>> /\ req[r].stage = "new"
  BY ClosedShaped DEF Init
<1>2. Naming
  BY <1>1 DEF Naming
<1>3. OneMaker /\ Found
  BY <1>1 DEF OneMaker, Found
<1>. QED BY <1>2, <1>3 DEF Known

\* No column changes its board.
ColumnsStay ==
  \A c \in Column :
    \/ column'[c] = column[c] \/ column'[c] = None
    \/ column[c] # None /\ column'[c].board = column[c].board

\* What a step of one request shows, when no column is created.
LEMMA KnownOfOne ==
  ASSUME TypeOK, Shape, Known, ColumnsStay, minted' = minted, NEW r \in Request, NEW to,
         req' = [req EXCEPT ![r] = to],
         to.op \in {"edit_column", "delete_column", "reorder", "attach", "move"} => to.column \in minted,
         \A i \in DOMAIN to.rest : to.rest[i].column \in minted,
         to.op = "create_column" =>
           /\ to.column \notin minted
           /\ \A q \in Request : q # r /\ req[q].op = "create_column" => req[q].column # to.column,
         to.stage = "write" /\ column'[to.column] # None =>
           /\ Editing(to) => column'[to.column].board = to.copy.board
           /\ Placing(to) => column'[to.column].board = to.board
  PROVE  Known'
<1>0. Naming /\ OneMaker /\ Found /\ minted \subseteq Column
  BY DEF Known, TypeOK
<1>1. req'[r] = to /\ \A p \in Request : p # r => req'[p] = req[p]
  BY DEF Shape
<1>2. Naming'
  <2> SUFFICES ASSUME NEW p \in Request
               PROVE  /\ req'[p].op \in {"edit_column", "delete_column", "reorder", "attach", "move"} =>
                           req'[p].column \in minted
                      /\ \A i \in DOMAIN req'[p].rest : req'[p].rest[i].column \in minted
                      /\ req'[p].op = "create_column" => req'[p].column \notin minted
    BY DEF Naming
  <2>1. CASE p = r
    BY <1>1, <2>1
  <2>2. CASE p # r
    BY <1>0, <1>1, <2>2 DEF Naming
  <2>. QED BY <2>1, <2>2
<1>3. OneMaker'
  BY <1>0, <1>1 DEF OneMaker
<1>4. Found'
  <2> SUFFICES ASSUME NEW p \in Request, req'[p].stage = "write", column'[req'[p].column] # None
               PROVE  /\ Editing(req'[p]) => column'[req'[p].column].board = req'[p].copy.board
                      /\ Placing(req'[p]) => column'[req'[p].column].board = req'[p].board
    BY DEF Found
  <2>1. CASE p = r
    BY <1>1, <2>1
  <2>2. CASE p # r
    <3>1. Shaped(req[p]) /\ req'[p] = req[p]
      BY <1>1, <2>2 DEF Shape
    <3>2. req[p].column \in Column
      BY <3>1 DEF Shaped, Editing, Placing
    <3>3. column[req[p].column] # None /\ column'[req[p].column].board = column[req[p].column].board
      BY <3>1, <3>2 DEF ColumnsStay
    <3>. QED BY <1>0, <3>1, <3>3 DEF Found
  <2>. QED BY <2>1, <2>2
<1>. QED BY <1>2, <1>3, <1>4 DEF Known

LEMMA KnownAtEnd ==
  ASSUME TypeOK, Shape, Known, ColumnsStay, minted' = minted, NEW r \in Request, Ends(r)
  PROVE  Known'
<1> DEFINE to == Closed("done")
<1>1. to.op = "none" /\ to.stage = "done" /\ to.rest = <<>> /\ req' = [req EXCEPT ![r] = to]
  BY ClosedShaped DEF Ends
<1> HIDE DEF to
<1>2. \A i \in DOMAIN to.rest : to.rest[i].column \in minted
  BY <1>1
<1>. QED BY <1>1, <1>2, KnownOfOne

LEMMA DropStays ==
  ASSUME TypeOK, NEW columns, Drop(columns) PROVE ColumnsStay
BY DropType DEF ColumnsStay

LEMMA KnownKept ==
  ASSUME TypeOK, Shape, Known, [Next]_vars PROVE Known'
<1>0. /\ column \in [Column -> Row \cup {None}] /\ req \in [Request -> RequestRecord]
      /\ minted \subseteq Column /\ \A r \in Request : Shaped(req[r])
  BY DEF TypeOK, Shape
<1>c. Naming /\ OneMaker /\ Found
  BY DEF Known
<1>a. ASSUME column' = column PROVE ColumnsStay
  BY <1>a DEF ColumnsStay
<1>b. Closed("done").op = "none" /\ Closed("done").rest = <<>> /\ Closed("done").stage = "done"
  BY ClosedShaped
<1>1. ASSUME NEW r \in Request, Starts(r) PROVE Known'
  <2> DEFINE to == req'[r]
  <2>1. /\ req' = [req EXCEPT ![r] = to] /\ UNCHANGED <<minted, column>>
        /\ to.op \in {"edit_column", "delete_column", "reorder", "attach", "move"} => to.column \in minted
        /\ \A i \in DOMAIN to.rest : to.rest[i].column \in minted
        /\ to.stage # "write"
    BY <1>1 DEF Starts, store
  <2>2. to.op = "create_column" =>
           /\ to.column \notin minted
           /\ \A q \in Request : q # r /\ req[q].op = "create_column" => req[q].column # to.column
    <3>1. \A q \in Request : q \in Open <=> req[q].op # "none"
      BY NewIsClosed
    <3>. QED BY <1>1, <3>1 DEF Starts
  <2> HIDE DEF to
  <2>. QED BY <1>a, <2>1, <2>2, KnownOfOne
<1>2. ASSUME NEW r \in Request, NEW to, req' = [req EXCEPT ![r] = to], GoesOn(req[r], to),
             UNCHANGED <<minted, column>>,
             to.stage = "write" /\ column[to.column] # None =>
               /\ Editing(to) => to.copy = column[to.column]
               /\ Placing(to) => column[to.column].board = to.board
      PROVE  Known'
  <2>1. CASE to = Closed("done")
    BY <1>2, <1>a, <2>1, KnownAtEnd DEF Ends
  <2>2. CASE to # Closed("done")
    <3>1. to.op = req[r].op /\ to.column = req[r].column /\ to.rest = req[r].rest
      BY <1>2, <2>2 DEF GoesOn
    <3>2. /\ to.op \in {"edit_column", "delete_column", "reorder", "attach", "move"} => to.column \in minted
          /\ \A i \in DOMAIN to.rest : to.rest[i].column \in minted
          /\ to.op = "create_column" =>
               /\ to.column \notin minted
               /\ \A q \in Request : q # r /\ req[q].op = "create_column" => req[q].column # to.column
      BY <1>c, <3>1 DEF Naming, OneMaker
    <3>. QED BY <1>2, <1>a, <3>2, KnownOfOne
  <2>. QED BY <2>1, <2>2
<1>3. ASSUME NEW r \in Request, Reads(r) PROVE Known'
  <2> DEFINE to == req'[r]
  <2>1. /\ req' = [req EXCEPT ![r] = to] /\ GoesOn(req[r], to) /\ UNCHANGED <<minted, column>>
    BY <1>3 DEF Reads, store
  <2>2. to.stage = "write" =>
               /\ Editing(to) => to.copy = column[to.column]
               /\ Placing(to) => column[to.column].board = to.board
    BY <1>3 DEF Reads, Editing, Placing
  <2> HIDE DEF to
  <2>. QED BY <1>2, <2>1, <2>2
<1>4. ASSUME NEW r \in Request, CreateBoard(r) \/ GrantBoardAdministration(r) PROVE Known'
  <2> DEFINE to == req'[r]
  <2>1. UNCHANGED <<minted, column>>
    BY <1>4 DEF CreateBoard, GrantBoardAdministration, store
  <2>2. /\ req' = [req EXCEPT ![r] = to] /\ GoesOn(req[r], to) /\ to.stage # "write"
    BY <1>4, <1>b, CreateBoardStep, GrantStep DEF GoesOn
  <2> HIDE DEF to
  <2>. QED BY <1>2, <2>1, <2>2
<1>5. ASSUME NEW r \in Request, UndoCreate(r) PROVE Known'
  <2>1. Ends(r)
    BY <1>5 DEF UndoCreate, Close, Ends
  <2>2. minted' = minted /\ ColumnsStay
    BY <1>5, <1>a, DropStays DEF UndoCreate, RemoveBoard, store
  <2>. QED BY <2>1, <2>2, KnownAtEnd
<1>6. ASSUME NEW r \in Request, DeleteBoard(r) PROVE Known'
  <2>1. Ends(r)
    BY <1>6 DEF DeleteBoard, Close, Ends
  <2>2. minted' = minted /\ ColumnsStay
    BY <1>6, <1>a, DropStays DEF DeleteBoard, RemoveBoard, store
  <2>. QED BY <2>1, <2>2, KnownAtEnd
<1>7. ASSUME NEW r \in Request, InsertColumn(r) PROVE Known'
  <2> DEFINE c == req[r].column
  <2>1. Ends(r) /\ req[r].op = "create_column"
    BY <1>7 DEF InsertColumn, Close, Ends
  <2>2. c \in Column /\ c \notin minted
    BY <1>c, <2>1, RowsOfRequests DEF Naming
  <2>3. CASE board[req[r].board] = "there"
    <3>1. /\ minted' = minted \cup {c} /\ \A a \in Column : a # c => column'[a] = column[a]
      BY <1>0, <1>7, <2>2, <2>3 DEF InsertColumn
    <3>2. req'[r] = Closed("done") /\ \A p \in Request : p # r => req'[p] = req[p]
      BY <1>0, <2>1 DEF Ends
    <3>3. \A p \in Request : p # r /\ req[p].op = "create_column" => req[p].column # c
      BY <1>c, <2>1 DEF OneMaker
    <3> HIDE DEF c
    <3>4. Naming'
      <4> SUFFICES ASSUME NEW p \in Request
               PROVE  /\ req'[p].op \in {"edit_column", "delete_column", "reorder", "attach", "move"} =>
                           req'[p].column \in minted'
                      /\ \A i \in DOMAIN req'[p].rest : req'[p].rest[i].column \in minted'
                      /\ req'[p].op = "create_column" => req'[p].column \notin minted'
        BY DEF Naming
      <4>1. CASE p = r
        BY <1>b, <3>2, <4>1
      <4>2. CASE p # r
        BY <1>c, <3>1, <3>2, <3>3, <4>2 DEF Naming
      <4>. QED BY <4>1, <4>2
    <3>5. OneMaker'
      BY <1>b, <1>c, <3>2 DEF OneMaker
    <3>6. Found'
      <4> SUFFICES ASSUME NEW p \in Request, req'[p].stage = "write", column'[req'[p].column] # None
               PROVE  /\ Editing(req'[p]) => column'[req'[p].column].board = req'[p].copy.board
                      /\ Placing(req'[p]) => column'[req'[p].column].board = req'[p].board
        BY DEF Found
      <4>1. p # r /\ req'[p] = req[p] /\ Shaped(req[p])
        BY <1>0, <1>b, <3>2
      <4>2. req[p].op \in {"edit_column", "reorder", "attach", "move"}
        BY <4>1 DEF Shaped, Editing, Placing
      <4>3. req[p].column \in Column /\ req[p].column # c
        BY <1>0, <1>c, <2>2, <4>2 DEF Naming
      <4>. QED BY <1>c, <3>1, <4>1, <4>3 DEF Found
    <3>. QED BY <3>4, <3>5, <3>6 DEF Known
  <2>4. CASE board[req[r].board] # "there"
    <3>1. minted' = minted /\ column' = column
      BY <1>7, <2>4 DEF InsertColumn
    <3>. QED BY <1>a, <2>1, <3>1, KnownAtEnd
  <2>. QED BY <2>3, <2>4
<1>8. ASSUME NEW r \in Request, WriteColumn(r) PROVE Known'
  <2> DEFINE q == req[r]
             c == q.column
             new == Merged(q.copy, q.patch)
             to == req'[r]
  <2>1. /\ req' = [req EXCEPT ![r] = to] /\ (to = Closed("done") \/ NextOfReorder(q, to))
        /\ Editing(q) /\ q.stage = "write" /\ q.copy \in Row /\ c \in Column /\ q.patch \in Patches
    BY <1>8, WriteColumnStep
  <2>2. new.board = q.copy.board
    BY <2>1, MergedType
  <2>3. minted' = minted
    BY <1>8 DEF WriteColumn
  <2>4. \/ column' = column
        \/ column[c] # None /\ column' = [column EXCEPT ![c] = new]
    BY <1>8 DEF WriteColumn
  <2>5. column[c] # None => column[c].board = q.copy.board
    BY <1>c, <2>1 DEF Found
  <2>6. ColumnsStay
    <3> HIDE DEF new, c
    <3>. QED BY <1>0, <2>1, <2>2, <2>4, <2>5 DEF ColumnsStay
  <2>7. CASE to = Closed("done")
    BY <2>1, <2>3, <2>6, <2>7, KnownAtEnd DEF Ends
  <2>8. CASE NextOfReorder(q, to)
    <3>1. q \in RequestRecord
      BY <1>0
    <3>2. q.rest \in Seq(Placement) /\ q.rest # <<>>
      BY <2>8, <3>1 DEF RequestRecord, NextOfReorder
    <3>3. \A i \in DOMAIN q.rest : q.rest[i].column \in minted
      BY <1>c DEF Naming
    <3> DEFINE rest == q.rest
    <3>4. /\ Head(rest).column \in minted
          /\ \A i \in DOMAIN Tail(rest) : Tail(rest)[i].column \in minted
      <4>1. rest \in Seq(Placement) /\ rest # <<>> /\ \A i \in DOMAIN rest : rest[i].column \in minted
        BY <3>2, <3>3
      <4> HIDE DEF rest
      <4>2. /\ Head(rest) = rest[1] /\ 1 \in DOMAIN rest
            /\ \A i \in DOMAIN Tail(rest) : i + 1 \in DOMAIN rest /\ Tail(rest)[i] = rest[i + 1]
        BY <4>1
      <4>. QED BY <4>1, <4>2
    <3>5. /\ to.column \in minted /\ \A i \in DOMAIN to.rest : to.rest[i].column \in minted
          /\ to.op = q.op /\ to.stage = "read"
      BY <2>8, <3>4 DEF NextOfReorder
    <3>6. to.op # "create_column"
      BY <2>1, <3>5 DEF Editing
    <3> HIDE DEF to
    <3>. QED BY <2>1, <2>3, <2>6, <3>5, <3>6, KnownOfOne
  <2>. QED BY <2>1, <2>7, <2>8
<1>9. ASSUME NEW r \in Request, DeleteColumn(r) PROVE Known'
  <2>1. Ends(r) /\ minted' = minted /\ ColumnsStay
    BY <1>9, DropStays DEF DeleteColumn, Close, Ends
  <2>. QED BY <2>1, KnownAtEnd
<1>10. ASSUME NEW r \in Request, PutRow(r) \/ DetachRow(r) \/ Regrant(r) PROVE Known'
  <2>1. Ends(r) /\ minted' = minted /\ column' = column
    BY <1>10 DEF PutRow, DetachRow, Regrant, Close, Ends, store
  <2>. QED BY <1>a, <2>1, KnownAtEnd
<1>11. ASSUME NEW requests, CutShort(requests) PROVE Known'
  <2>1. \A p \in Request : req'[p] = Closed("done") \/ req'[p] = req[p]
    BY <1>11 DEF CutShort
  <2>2. minted' = minted /\ column' = column
    BY <1>11 DEF CutShort, store
  <2>3. Naming'
    <3> SUFFICES ASSUME NEW p \in Request
               PROVE  /\ req'[p].op \in {"edit_column", "delete_column", "reorder", "attach", "move"} =>
                           req'[p].column \in minted'
                      /\ \A i \in DOMAIN req'[p].rest : req'[p].rest[i].column \in minted'
                      /\ req'[p].op = "create_column" => req'[p].column \notin minted'
      BY DEF Naming
    <3>1. CASE req'[p] = Closed("done")
      BY <1>b, <3>1
    <3>2. CASE req'[p] = req[p]
      BY <1>c, <2>2, <3>2 DEF Naming
    <3>. QED BY <2>1, <3>1, <3>2
  <2>4. OneMaker'
    BY <1>b, <1>c, <2>1 DEF OneMaker
  <2>5. Found'
    BY <1>b, <1>c, <2>1, <2>2 DEF Found
  <2>. QED BY <2>3, <2>4, <2>5 DEF Known
<1>12. CASE Tick \/ UNCHANGED vars
  <2>1. UNCHANGED <<minted, column, req>>
    BY <1>12 DEF Tick, vars, store, history
  <2>. QED BY <1>c, <2>1 DEF Known, Naming, OneMaker, Found
<1>13. ASSUME NEW r \in Request, BeginBoard(r) \/ BeginColumn(r) \/ BeginCard(r) PROVE Known'
  BY <1>1, <1>13, BeginBoardStep, BeginColumnStep, BeginCardStep
<1>14. ASSUME NEW r \in Request,
              Gate(r) \/ Rule(r) \/ PlanColumn(r) \/ ReadColumn(r) \/ LookForColumn(r)
       PROVE  Known'
  BY <1>3, <1>14, ReadingStep
<1>. QED BY <1>4, <1>5, <1>6, <1>7, <1>8, <1>9, <1>10, <1>11, <1>12, <1>13, <1>14
         DEF Next, Fail, Stop, Idle

-----------------------------------------------------------------------------
(* Nothing outlives its board *)

\* The parts of Store.
LEMMA StoreParts ==
  Store <=>
    /\ \A c \in Column : column[c] # None => board[column[c].board] = "there" /\ c \in minted
    /\ \A k \in Card, b \in Board : place[k][b] # None =>
         column[place[k][b].column] # None /\ column[place[k][b].column].board = b
BY DEF Store, NothingOutlivesItsBoard

LEMMA StorePartsNext ==
  Store' <=>
    /\ \A c \in Column : column'[c] # None => board'[column'[c].board] = "there" /\ c \in minted'
    /\ \A k \in Card, b \in Board : place'[k][b] # None =>
         column'[place'[k][b].column] # None /\ column'[place'[k][b].column].board = b
BY DEF Store, NothingOutlivesItsBoard

LEMMA RowTypes ==
  ASSUME TypeOK
  PROVE  /\ \A c \in Column : column[c] # None =>
              column[c].board \in Board /\ column[c].position \in Position /\ column[c].state \in State \cup {None}
         /\ \A k \in Card, b \in Board : place[k][b] # None =>
              place[k][b].column \in Column /\ place[k][b].moved \in 0..MaxClock
BY DEF TypeOK, Row, Place

LEMMA StoreInit == Init => Store
<1> SUFFICES ASSUME Init PROVE Store
  OBVIOUS
<1>1. PICK s \in Start : board = s.board /\ column = s.column /\ place = s.place /\ grant = s.grant
  BY DEF Init
<1>2. Consistent(s)
  BY BoardAssumption
<1>3. minted = {c \in Column : column[c] # None}
  BY DEF Init
<1>4. \A k \in Card, b \in Board : place[k][b] # None =>
         column[place[k][b].column] # None /\ column[place[k][b].column].board = b
  BY <1>1, <1>2 DEF Consistent
<1>5. \A c \in Column : column[c] # None => board[column[c].board] = "there" /\ c \in minted
  BY <1>1, <1>2, <1>3 DEF Consistent
<1>. QED BY <1>4, <1>5, StoreParts

LEMMA RemoveBoardKeepsStore ==
  ASSUME TypeOK, Store, NEW b \in Board, RemoveBoard(b) PROVE Store'
<1> DEFINE columns == {c \in Column : column[c] # None /\ column[c].board = b}
<1>1. Drop(columns) /\ board' = [board EXCEPT ![b] = "gone"] /\ minted' = minted
  BY DEF RemoveBoard
<1>2. \A c \in Column : c \in columns <=> column[c] # None /\ column[c].board = b
  OBVIOUS
<1> HIDE DEF columns
<1>3. /\ \A c \in Column : column'[c] = IF c \in columns THEN None ELSE column[c]
      /\ \A k \in Card, a \in Board : place'[k][a] =
           IF place[k][a] # None /\ place[k][a].column \in columns THEN None ELSE place[k][a]
  BY <1>1, DropType
<1>4. \A a \in Board : a # b => board'[a] = board[a]
  BY <1>1 DEF TypeOK
<1>5. \A c \in Column : column'[c] # None => board'[column'[c].board] = "there" /\ c \in minted'
  <2> TAKE c \in Column
  <2>1. column'[c] # None => column'[c] = column[c] /\ column[c] # None /\ column[c].board # b
    BY <1>2, <1>3
  <2>. QED BY <1>1, <1>4, <2>1, RowTypes, StoreParts
<1>6. \A k \in Card, a \in Board : place'[k][a] # None =>
         column'[place'[k][a].column] # None /\ column'[place'[k][a].column].board = a
  <2> TAKE k \in Card, a \in Board
  <2> HAVE place'[k][a] # None
  <2>1. place'[k][a] = place[k][a] /\ place[k][a] # None /\ place[k][a].column \notin columns
    BY <1>3
  <2>2. place[k][a].column \in Column
    BY <2>1, RowTypes
  <2>3. column'[place[k][a].column] = column[place[k][a].column]
    BY <1>3, <2>1, <2>2
  <2>. QED BY <2>1, <2>3, StoreParts
<1>. QED BY <1>5, <1>6, StorePartsNext

LEMMA StoreKept ==
  ASSUME TypeOK, Shape, Known, Creators, Store, [Next]_vars PROVE Store'
<1>0. /\ column \in [Column -> Row \cup {None}] /\ req \in [Request -> RequestRecord]
      /\ place \in [Card -> [Board -> Place \cup {None}]]
      /\ board \in [Board -> {"unborn", "there", "gone"}]
      /\ minted \subseteq Column /\ \A r \in Request : Shaped(req[r])
  BY DEF TypeOK, Shape
<1>c. /\ Naming /\ OneMaker /\ Found
      /\ \A c \in Column : column[c] # None => board[column[c].board] = "there" /\ c \in minted
      /\ \A k \in Card, b \in Board : place[k][b] # None =>
           column[place[k][b].column] # None /\ column[place[k][b].column].board = b
  BY StoreParts DEF Known
<1>a. ASSUME UNCHANGED store PROVE Store'
  <2>1. UNCHANGED <<board, column, minted, place>>
    BY <1>a DEF store
  <2>. QED BY <1>c, <2>1, StorePartsNext
<1>1. ASSUME NEW r \in Request, CreateBoard(r) PROVE Store'
  <2>1. req[r].board \in Board /\ board' = [board EXCEPT ![req[r].board] = "there"]
        /\ UNCHANGED <<column, minted, place>>
    BY <1>1, CreateBoardStep DEF CreateBoard
  <2>2. \A b \in Board : board[b] = "there" => board'[b] = "there"
    BY <1>0, <2>1
  <2>3. \A c \in Column : column'[c] # None => board'[column'[c].board] = "there" /\ c \in minted'
    BY <1>c, <2>1, <2>2, RowTypes
  <2>. QED BY <1>c, <2>1, <2>3, StorePartsNext
<1>2. ASSUME NEW r \in Request, UndoCreate(r) PROVE Store'
  <2>1. req[r].board \in Board
    BY <1>2, RowsOfRequests DEF UndoCreate
  <2>. QED BY <1>a, <1>2, <2>1, RemoveBoardKeepsStore DEF UndoCreate
<1>3. ASSUME NEW r \in Request, DeleteBoard(r) PROVE Store'
  <2>1. req[r].board \in Board
    BY <1>3, RowsOfRequests DEF DeleteBoard
  <2>. QED BY <1>a, <1>3, <2>1, RemoveBoardKeepsStore DEF DeleteBoard
<1>4. ASSUME NEW r \in Request, InsertColumn(r) PROVE Store'
  <2> DEFINE c == req[r].column
             new == [board |-> req[r].board, position |-> req[r].patch.position, state |-> req[r].patch.state]
  <2>1. req[r].op = "create_column" /\ c \in Column /\ c \notin minted
    BY <1>4, <1>c, RowsOfRequests DEF InsertColumn, Naming
  <2>2. CASE board[req[r].board] = "there"
    <3>1. /\ minted' = minted \cup {c} /\ column' = [column EXCEPT ![c] = new]
          /\ UNCHANGED <<board, place>>
      BY <1>4, <2>2 DEF InsertColumn
    <3>2. new.board = req[r].board
      OBVIOUS
    <3> HIDE DEF new, c
    <3>3. \A a \in Column : a # c => column'[a] = column[a]
      BY <1>0, <3>1
    <3>4. column'[c] = new
      BY <1>0, <2>1, <3>1
    <3>5. \A a \in Column : column'[a] # None => board'[column'[a].board] = "there" /\ a \in minted'
      <4> TAKE a \in Column
      <4>1. CASE a = c
        BY <2>2, <3>1, <3>2, <3>4, <4>1
      <4>2. CASE a # c
        BY <1>c, <3>1, <3>3, <4>2
      <4>. QED BY <4>1, <4>2
    <3>6. \A k \in Card, b \in Board : place'[k][b] # None =>
           column'[place'[k][b].column] # None /\ column'[place'[k][b].column].board = b
      <4> TAKE k \in Card, b \in Board
      <4> HAVE place'[k][b] # None
      <4>1. place'[k][b] = place[k][b] /\ place[k][b] # None /\ place[k][b].column \in Column
        BY <3>1, RowTypes
      <4>2. place[k][b].column # c
        BY <1>c, <2>1, <4>1
      <4>. QED BY <1>c, <3>3, <4>1, <4>2
    <3>. QED BY <3>5, <3>6, StorePartsNext
  <2>3. CASE board[req[r].board] # "there"
    BY <1>a, <1>4, <2>3 DEF InsertColumn, store
  <2>. QED BY <2>2, <2>3
<1>5. ASSUME NEW r \in Request, WriteColumn(r) PROVE Store'
  <2> DEFINE q == req[r]
             c == q.column
             new == Merged(q.copy, q.patch)
  <2>1. /\ Editing(q) /\ q.stage = "write" /\ q.copy \in Row /\ c \in Column /\ q.patch \in Patches
    BY <1>5, WriteColumnStep
  <2>2. new \in Row /\ new.board = q.copy.board
    BY <2>1, MergedType
  <2>3. UNCHANGED <<board, minted, place>>
    BY <1>5 DEF WriteColumn
  <2>4. \/ column' = column
        \/ column[c] # None /\ column' = [column EXCEPT ![c] = new]
    BY <1>5 DEF WriteColumn
  <2>5. column[c] # None => column[c].board = q.copy.board
    BY <1>c, <2>1 DEF Found
  <2>6. new # None
    BY <2>2, BoardAssumption
  <2> HIDE DEF new, c
  <2>7. \A a \in Column : /\ column'[a] # None <=> column[a] # None
                          /\ column[a] # None => column'[a].board = column[a].board
    <3>1. CASE column' = column
      BY <3>1
    <3>2. CASE column[c] # None /\ column' = [column EXCEPT ![c] = new]
      <4> TAKE a \in Column
      <4>1. column'[a] = IF a = c THEN new ELSE column[a]
        BY <1>0, <3>2
      <4>. QED BY <2>2, <2>5, <2>6, <3>2, <4>1
    <3>. QED BY <2>4, <3>1, <3>2
  <2>8. \A a \in Column : column'[a] # None => board'[column'[a].board] = "there" /\ a \in minted'
    BY <1>c, <2>3, <2>7
  <2>9. \A k \in Card, b \in Board : place'[k][b] # None =>
           column'[place'[k][b].column] # None /\ column'[place'[k][b].column].board = b
    BY <1>c, <2>3, <2>7, RowTypes
  <2>. QED BY <2>8, <2>9, StorePartsNext
<1>6. ASSUME NEW r \in Request, DeleteColumn(r) PROVE Store'
  <2> DEFINE c == req[r].column
  <2>1. Drop({c}) /\ UNCHANGED <<board, minted>>
    BY <1>6 DEF DeleteColumn
  <2> HIDE DEF c
  <2>2. /\ \A a \in Column : column'[a] = IF a \in {c} THEN None ELSE column[a]
        /\ \A k \in Card, b \in Board : place'[k][b] =
             IF place[k][b] # None /\ place[k][b].column \in {c} THEN None ELSE place[k][b]
    BY <2>1, DropType
  <2>3. \A a \in Column : column'[a] # None => board'[column'[a].board] = "there" /\ a \in minted'
    BY <1>c, <2>1, <2>2
  <2>4. \A k \in Card, b \in Board : place'[k][b] # None =>
           column'[place'[k][b].column] # None /\ column'[place'[k][b].column].board = b
    <3> TAKE k \in Card, b \in Board
    <3> HAVE place'[k][b] # None
    <3>1. place'[k][b] = place[k][b] /\ place[k][b] # None /\ place[k][b].column # c
      BY <2>2
    <3>2. place[k][b].column \in Column
      BY <3>1, RowTypes
    <3>. QED BY <1>c, <2>2, <3>1, <3>2
  <2>. QED BY <2>3, <2>4, StorePartsNext
<1>7. ASSUME NEW r \in Request, PutRow(r) PROVE Store'
  <2> DEFINE q == req[r]
             new == [column |-> q.column, moved |-> q.moved]
  <2>1. q.stage = "write" /\ Placing(q)
    BY <1>7 DEF PutRow
  <2>2. UNCHANGED <<board, column, minted>>
    BY <1>7 DEF PutRow
  <2>3. \/ place' = place
        \/ column[q.column] # None /\ place' = [place EXCEPT ![q.card][q.board] = new]
    BY <1>7 DEF PutRow, Put
  <2>4. column[q.column] # None => column[q.column].board = q.board
    BY <1>c, <2>1 DEF Found
  <2>5. new.column = q.column
    OBVIOUS
  <2> HIDE DEF new, q
  <2>6. \A k \in Card, b \in Board : place'[k][b] # None =>
           column'[place'[k][b].column] # None /\ column'[place'[k][b].column].board = b
    <3>1. CASE place' = place
      BY <1>c, <2>2, <3>1
    <3>2. CASE column[q.column] # None /\ place' = [place EXCEPT ![q.card][q.board] = new]
      <4> TAKE k \in Card, b \in Board
      <4>1. place'[k][b] = IF k = q.card /\ b = q.board THEN new ELSE place[k][b]
        BY <1>0, <3>2
      <4>2. CASE k = q.card /\ b = q.board
        BY <2>2, <2>4, <2>5, <3>2, <4>1, <4>2
      <4>3. CASE ~(k = q.card /\ b = q.board)
        BY <1>c, <2>2, <4>1, <4>3
      <4>. QED BY <4>2, <4>3
    <3>. QED BY <2>3, <3>1, <3>2
  <2>. QED BY <1>c, <2>2, <2>6, StorePartsNext
<1>8. ASSUME NEW r \in Request, DetachRow(r) PROVE Store'
  <2>1. place' = [place EXCEPT ![req[r].card][req[r].board] = None] /\ UNCHANGED <<board, column, minted>>
    BY <1>8 DEF DetachRow
  <2>2. \A k \in Card, b \in Board : place'[k][b] = None \/ place'[k][b] = place[k][b]
    BY <1>0, <2>1
  <2>3. \A k \in Card, b \in Board : place'[k][b] # None =>
           column'[place'[k][b].column] # None /\ column'[place'[k][b].column].board = b
    BY <1>c, <2>1, <2>2
  <2>. QED BY <1>c, <2>1, <2>3, StorePartsNext
<1>9. ASSUME NEW r \in Request, Starts(r) \/ Reads(r) PROVE UNCHANGED store
  BY <1>9 DEF Starts, Reads
<1>10. ASSUME NEW r \in Request, GrantBoardAdministration(r) \/ Regrant(r) PROVE UNCHANGED store
  BY <1>10 DEF GrantBoardAdministration, Regrant
<1>11. ASSUME NEW requests, CutShort(requests) PROVE UNCHANGED store
  BY <1>11 DEF CutShort
<1>12. CASE Tick \/ UNCHANGED vars
  BY <1>a, <1>12 DEF Tick, vars
<1>13. ASSUME NEW r \in Request, BeginBoard(r) \/ BeginColumn(r) \/ BeginCard(r) PROVE Store'
  BY <1>a, <1>9, <1>13, BeginBoardStep, BeginColumnStep, BeginCardStep
<1>14. ASSUME NEW r \in Request,
              Gate(r) \/ Rule(r) \/ PlanColumn(r) \/ ReadColumn(r) \/ LookForColumn(r)
       PROVE  Store'
  BY <1>a, <1>9, <1>14, ReadingStep
<1>. QED BY <1>a, <1>1, <1>2, <1>3, <1>4, <1>5, <1>6, <1>7, <1>8, <1>10, <1>11, <1>12, <1>13, <1>14
         DEF Next, Fail, Stop, Idle

-----------------------------------------------------------------------------
(* The saved fields of columns *)

LEMMA FieldsInit == Init => SavedFieldsStay /\ Fresh
<1> SUFFICES ASSUME Init PROVE SavedFieldsStay /\ Fresh
  OBVIOUS
<1>1. \A c \in Column, f \in ColumnField : saved[c][f].threatened
  BY DEF Init
<1>2. \A r \in Request : req[r].stage = "new"
  BY ClosedShaped DEF Init
<1>. QED BY <1>1, <1>2 DEF SavedFieldsStay, Fresh

\* A request that is about to write has just read the row, or had read it before.
Reread ==
  \A p \in Request : req'[p].stage = "write" /\ Editing(req'[p]) =>
    \/ req'[p] = req[p]
    \/ req'[p].column \in Column /\ column[req'[p].column] # None /\ req'[p].copy = column[req'[p].column]

LEMMA FieldsNotSaved ==
  ASSUME SavedFieldsStay, Fresh, UNCHANGED saved, Reread,
         \A p \in Request : req[p].stage = "write" => req[p].column \in Column,
         \A c \in Column : column'[c] = column[c] \/ column'[c] = None
  PROVE  SavedFieldsStay' /\ Fresh'
<1>1. SavedFieldsStay'
  BY DEF SavedFieldsStay
<1>2. Fresh'
  <2> SUFFICES ASSUME NEW p \in Request, NEW f \in ColumnField,
                      req'[p].stage = "write", Editing(req'[p]), req'[p].patch[f] = Keep,
                      column'[req'[p].column] # None, ~saved'[req'[p].column][f].threatened
               PROVE  req'[p].copy[f] = saved'[req'[p].column][f].value
    BY DEF Fresh
  <2>1. CASE req'[p] = req[p]
    <3>1. req[p].column \in Column
      BY <2>1
    <3>2. column[req[p].column] # None
      BY <2>1, <3>1
    <3>. QED BY <2>1, <3>2 DEF Fresh
  <2>2. CASE /\ req'[p].column \in Column /\ column[req'[p].column] # None
             /\ req'[p].copy = column[req'[p].column]
    BY <2>2 DEF SavedFieldsStay
  <2>. QED BY <2>1, <2>2 DEF Reread
<1>. QED BY <1>1, <1>2

\* A step after which the request is not about to write a column.
LEMMA RereadByNobody ==
  ASSUME Shape, NEW r \in Request, req' = [req EXCEPT ![r] = req'[r]], req'[r].stage # "write"
  PROVE  Reread
BY DEF Shape, Reread

LEMMA FieldsKept ==
  ASSUME TypeOK, Shape, Known, SavedFieldsStay, Fresh, [Next]_vars PROVE SavedFieldsStay' /\ Fresh'
<1>0. /\ column \in [Column -> Row \cup {None}] /\ req \in [Request -> RequestRecord]
      /\ DOMAIN saved = Column /\ minted \subseteq Column
      /\ \A r \in Request : Shaped(req[r])
  BY DEF TypeOK, Shape
<1>b. Closed("done").stage # "write"
  BY ClosedShaped
<1>c. \A p \in Request : req[p].stage = "write" =>
        /\ req[p].column \in Column
        /\ Editing(req[p]) => req[p].column \in minted
  <2> SUFFICES ASSUME NEW p \in Request, req[p].stage = "write"
               PROVE req[p].column \in Column /\ (Editing(req[p]) => req[p].column \in minted)
    OBVIOUS
  <2>1. Editing(req[p]) \/ Placing(req[p])
    BY <1>0 DEF Shaped
  <2>2. req[p].column \in Column
    BY <2>1, RowsOfRequests DEF Editing, Placing
  <2>. QED BY <2>2 DEF Known, Naming, Editing
<1>a. ASSUME UNCHANGED saved, Reread, \A c \in Column : column'[c] = column[c] \/ column'[c] = None
      PROVE  SavedFieldsStay' /\ Fresh'
  BY <1>a, <1>c, FieldsNotSaved
<1>1. ASSUME NEW r \in Request, Starts(r) PROVE SavedFieldsStay' /\ Fresh'
  <2>1. req' = [req EXCEPT ![r] = req'[r]] /\ req'[r].stage # "write" /\ column' = column /\ saved' = saved
    BY <1>1 DEF Starts, store
  <2>. QED BY <1>a, <2>1, RereadByNobody
<1>2. ASSUME NEW r \in Request, Reads(r) PROVE SavedFieldsStay' /\ Fresh'
  <2>1. /\ req' = [req EXCEPT ![r] = req'[r]] /\ column' = column /\ saved' = saved
        /\ Shaped(req'[r])
        /\ req'[r].stage = "write" /\ Editing(req'[r]) =>
             column[req'[r].column] # None /\ req'[r].copy = column[req'[r].column]
    BY <1>2 DEF Reads, store, history
  <2>2. Editing(req'[r]) => req'[r].column \in Column
    BY <2>1 DEF Shaped, Editing
  <2>3. \A p \in Request : p # r => req'[p] = req[p]
    BY <1>0, <2>1
  <2>4. Reread
    BY <2>1, <2>2, <2>3 DEF Reread
  <2>. QED BY <1>a, <2>1, <2>4
<1>3. ASSUME NEW r \in Request, CreateBoard(r) PROVE SavedFieldsStay' /\ Fresh'
  <2>1. req' = [req EXCEPT ![r] = req'[r]] /\ req'[r].stage # "write"
    BY <1>3, <1>b, CreateBoardStep
  <2>2. column' = column /\ saved' = saved
    BY <1>3 DEF CreateBoard
  <2>. QED BY <1>a, <2>1, <2>2, RereadByNobody
<1>4. ASSUME NEW r \in Request, GrantBoardAdministration(r) PROVE SavedFieldsStay' /\ Fresh'
  <2>1. req' = [req EXCEPT ![r] = req'[r]] /\ req'[r].stage # "write"
    BY <1>4, <1>b, GrantStep
  <2>2. column' = column /\ saved' = saved
    BY <1>4 DEF GrantBoardAdministration, store
  <2>. QED BY <1>a, <2>1, <2>2, RereadByNobody
<1>5. ASSUME NEW r \in Request, UndoCreate(r) \/ DeleteBoard(r) \/ DeleteColumn(r)
      PROVE  SavedFieldsStay' /\ Fresh'
  <2>1. req' = [req EXCEPT ![r] = req'[r]] /\ req'[r].stage # "write" /\ saved' = saved
    BY <1>5, <1>b, EndsShaped DEF UndoCreate, DeleteBoard, DeleteColumn, Close, Ends, history
  <2>2. \A c \in Column : column'[c] = column[c] \/ column'[c] = None
    BY <1>5, DropType DEF UndoCreate, DeleteBoard, DeleteColumn, RemoveBoard, store
  <2>. QED BY <1>a, <2>1, <2>2, RereadByNobody
<1>6. ASSUME NEW r \in Request, PutRow(r) \/ DetachRow(r) \/ Regrant(r)
      PROVE  SavedFieldsStay' /\ Fresh'
  <2>1. /\ req' = [req EXCEPT ![r] = req'[r]] /\ req'[r].stage # "write"
        /\ saved' = saved /\ column' = column
    BY <1>6, <1>b, EndsShaped DEF PutRow, DetachRow, Regrant, Close, Ends, history, store
  <2>. QED BY <1>a, <2>1, RereadByNobody
<1>7. ASSUME NEW r \in Request, InsertColumn(r) PROVE SavedFieldsStay' /\ Fresh'
  <2> DEFINE q == req[r]
             c == q.column
             new == [board |-> q.board, position |-> q.patch.position, state |-> q.patch.state]
             marks == [f \in ColumnField |-> [value |-> q.patch[f], threatened |-> FALSE]]
  <2>1. req' = [req EXCEPT ![r] = req'[r]] /\ req'[r].stage # "write"
    BY <1>7, <1>b, EndsShaped DEF InsertColumn, Close, Ends
  <2>2. c \in Column /\ c \notin minted
    BY <1>7, RowsOfRequests DEF InsertColumn, Known, Naming
  <2>3. CASE board[q.board] = "there"
    <3>1. column' = [column EXCEPT ![c] = new] /\ saved' = [saved EXCEPT ![c] = marks]
      BY <1>7, <2>3 DEF InsertColumn
    <3>2. \A f \in ColumnField : new[f] = marks[f].value
      <4>1. new["position"] = q.patch["position"] /\ new["state"] = q.patch["state"]
        OBVIOUS
      <4>2. \A f \in ColumnField : marks[f].value = q.patch[f]
        OBVIOUS
      <4>. QED BY <4>1, <4>2 DEF ColumnField
    <3> HIDE DEF new, marks, c
    <3>3. \A d \in Column : d # c => column'[d] = column[d] /\ saved'[d] = saved[d]
      BY <1>0, <3>1
    <3>4. column'[c] = new /\ saved'[c] = marks
      BY <1>0, <2>2, <3>1
    <3>5. SavedFieldsStay'
      BY <3>2, <3>3, <3>4 DEF SavedFieldsStay
    <3>6. \A p \in Request : req'[p].stage = "write" /\ Editing(req'[p]) =>
            req'[p] = req[p] /\ req[p].column \in Column /\ req[p].column # c
      BY <1>0, <1>c, <2>1, <2>2
    <3>7. Fresh'
      BY <3>3, <3>6 DEF Fresh
    <3>. QED BY <3>5, <3>7
  <2>4. CASE board[q.board] # "there"
    <3>1. column' = column /\ saved' = saved
      BY <1>7, <2>4 DEF InsertColumn
    <3>. QED BY <1>a, <2>1, <3>1, RereadByNobody
  <2>. QED BY <2>3, <2>4
<1>8. ASSUME NEW r \in Request, WriteColumn(r) PROVE SavedFieldsStay' /\ Fresh'
  <2> DEFINE q == req[r]
             c == q.column
             new == Merged(q.copy, q.patch)
             marks == [f \in ColumnField |->
                         IF q.patch[f] = Keep THEN saved[c][f]
                         ELSE [value |-> q.patch[f], threatened |-> Holding(r, c, f) # {}]]
  <2>1. /\ req' = [req EXCEPT ![r] = req'[r]] /\ req'[r].stage # "write"
        /\ Editing(q) /\ q.stage = "write" /\ q.copy \in Row /\ c \in Column /\ q.patch \in Patches
    BY <1>8, <1>b, WriteColumnStep DEF NextOfReorder
  <2>2. CASE column[c] = None
    <3>1. column' = column /\ saved' = saved
      BY <1>8, <2>2 DEF WriteColumn
    <3>. QED BY <1>a, <2>1, <3>1, RereadByNobody
  <2>3. CASE column[c] # None
    <3>1. column' = [column EXCEPT ![c] = new] /\ saved' = [saved EXCEPT ![c] = marks]
      BY <1>0, <1>8, <2>1, <2>3 DEF WriteColumn
    <3>2. \A f \in ColumnField : new[f] = IF q.patch[f] = Keep THEN q.copy[f] ELSE q.patch[f]
      <4>1. /\ new.position = IF q.patch.position = Keep THEN q.copy.position ELSE q.patch.position
            /\ new.state = IF q.patch.state = Keep THEN q.copy.state ELSE q.patch.state
        BY <2>1, MergedType
      <4>. QED BY <4>1 DEF ColumnField
    <3>3. \A f \in ColumnField :
            /\ q.patch[f] = Keep => marks[f] = saved[c][f]
            /\ q.patch[f] # Keep =>
                 /\ marks[f].value = q.patch[f]
                 /\ Holding(r, c, f) # {} => marks[f].threatened
      OBVIOUS
    <3>4. \A f \in ColumnField : q.patch[f] = Keep /\ ~saved[c][f].threatened => q.copy[f] = saved[c][f].value
      BY <2>1, <2>3 DEF Fresh
    <3> HIDE DEF new, marks
    <3>5. \A d \in Column : d # c => column'[d] = column[d] /\ saved'[d] = saved[d]
      BY <1>0, <3>1
    <3>6. column'[c] = new /\ saved'[c] = marks
      BY <1>0, <2>1, <3>1
    <3>7. SavedFieldsStay'
      <4> SUFFICES ASSUME NEW d \in Column, NEW f \in ColumnField, ~saved'[d][f].threatened, column'[d] # None
                   PROVE  column'[d][f] = saved'[d][f].value
        BY DEF SavedFieldsStay
      <4>1. CASE d # c
        BY <3>5, <4>1 DEF SavedFieldsStay
      <4>2. CASE d = c
        BY <3>2, <3>3, <3>4, <3>6, <4>2
      <4>. QED BY <4>1, <4>2
    <3>8. Fresh'
      <4> SUFFICES ASSUME NEW p \in Request, NEW f \in ColumnField,
                          req'[p].stage = "write", Editing(req'[p]), req'[p].patch[f] = Keep,
                          column'[req'[p].column] # None, ~saved'[req'[p].column][f].threatened
                   PROVE  req'[p].copy[f] = saved'[req'[p].column][f].value
        BY DEF Fresh
      <4>1. p # r /\ req'[p] = req[p] /\ req[p].column \in Column
        BY <1>0, <1>c, <2>1
      <4>2. CASE req[p].column # c
        BY <3>5, <4>1, <4>2 DEF Fresh
      <4>3. CASE req[p].column = c
        <5>1. p \in Holding(r, c, f)
          BY <4>1, <4>3 DEF Holding
        <5>2. q.patch[f] = Keep
          BY <3>3, <3>6, <4>1, <4>3, <5>1
        <5>3. saved'[c][f] = saved[c][f]
          BY <3>3, <3>6, <5>2
        <5>. QED BY <2>3, <4>1, <4>3, <5>3 DEF Fresh
      <4>. QED BY <4>2, <4>3
    <3>. QED BY <3>7, <3>8
  <2>. QED BY <2>2, <2>3
<1>9. ASSUME NEW requests, CutShort(requests) PROVE SavedFieldsStay' /\ Fresh'
  <2>1. /\ \A p \in Request : req'[p] = Closed("done") \/ req'[p] = req[p]
        /\ column' = column /\ saved' = saved
    BY <1>9 DEF CutShort, store
  <2>2. Reread
    BY <1>b, <2>1 DEF Reread
  <2>. QED BY <1>a, <2>1, <2>2
<1>10. CASE Tick \/ UNCHANGED vars
  <2>1. UNCHANGED <<column, saved, req>>
    BY <1>10 DEF Tick, vars, store, history
  <2>2. Reread
    BY <2>1 DEF Reread
  <2>. QED BY <1>a, <2>1, <2>2
<1>11. ASSUME NEW r \in Request, BeginBoard(r) \/ BeginColumn(r) \/ BeginCard(r)
       PROVE  SavedFieldsStay' /\ Fresh'
  BY <1>1, <1>11, BeginBoardStep, BeginColumnStep, BeginCardStep
<1>12. ASSUME NEW r \in Request,
              Gate(r) \/ Rule(r) \/ PlanColumn(r) \/ ReadColumn(r) \/ LookForColumn(r)
       PROVE  SavedFieldsStay' /\ Fresh'
  BY <1>2, <1>12, ReadingStep
<1>. QED BY <1>3, <1>4, <1>5, <1>6, <1>7, <1>8, <1>9, <1>10, <1>11, <1>12
         DEF Next, Fail, Stop, Idle

-----------------------------------------------------------------------------
(* The turns of cards *)

\* A sequence of a set's elements has each of them, once.
LEMMA SetToSeqsOnto ==
  ASSUME NEW S, IsFiniteSet(S), NEW f \in SetToSeqs(S)
  PROVE  /\ Cardinality(S) \in Nat /\ DOMAIN f = 1..Cardinality(S) /\ f \in Seq(S)
         /\ \A i \in DOMAIN f : f[i] \in S
         /\ \A b \in S : \E i \in DOMAIN f : f[i] = b
<1> DEFINE n == Cardinality(S)
           D == 1..n
<1>1. n \in Nat
  BY FS_CardinalityType
<1>2. f \in [D -> S] /\ \A i, j \in D : i # j => f[i] # f[j]
  BY DEF SetToSeqs
<1>3. f \in Injection(D, S)
  BY <1>2 DEF Injection, IsInjective
<1>4. IsFiniteSet(D) /\ Cardinality(D) = n
  BY <1>1, FS_Interval
<1>5. f \in Surjection(D, S)
  BY <1>3, <1>4, FS_Injection
<1>6. \A b \in S : \E i \in D : f[i] = b
  BY <1>5 DEF Surjection
<1>. QED BY <1>1, <1>2, <1>6

LEMMA RowOnBoard ==
  ASSUME TypeOK, NEW k \in Card, NEW b \in Boards(k)
  PROVE  b \in Board /\ place[k][b] # None /\ place[k][b] \in Place /\ place[k][b].moved \in 0..MaxClock
BY DEF TypeOK, Boards, Place

LEMMA BoardsFinite == ASSUME NEW k PROVE IsFiniteSet(Boards(k)) /\ Boards(k) \subseteq Board
<1>1. Boards(k) \subseteq Board
  BY DEF Boards
<1>. QED BY <1>1, FS_Subset, BoardAssumption

LEMMA TurnsInit == Init => Turns
<1> SUFFICES ASSUME Init PROVE Turns
  OBVIOUS
<1>1. TypeOK
  BY ShapeInit
<1>2. PICK s \in Start : board = s.board /\ column = s.column /\ place = s.place /\ grant = s.grant
  BY DEF Init
<1>3. clock = 1 /\ \A k \in Card, b \in Board : place[k][b] # None => place[k][b].moved <= 1
  BY <1>2, BoardAssumption DEF Init, Consistent
<1>4. \A k \in Card : turn[k] \in SetToSeqs(Boards(k))
  BY DEF Init
<1>5. ASSUME NEW k \in Card, NEW b \in Boards(k) PROVE \E i \in DOMAIN turn[k] : turn[k][i] = b
  BY <1>4, BoardsFinite, SetToSeqsOnto
<1>6. \A k \in Card : \A b \in Boards(k) : place[k][b].moved <= clock
  BY <1>1, <1>3, RowOnBoard
<1>7. RowsHaveTurns
  BY <1>5, <1>6 DEF RowsHaveTurns
<1>8. \A r \in Request : req[r].op = "none" /\ req[r].moved = 0
  BY ClosedShaped DEF Init
<1>9. NoMoveToCome
  BY <1>3, <1>8 DEF NoMoveToCome
<1>10. OneMover /\ MoverIsLatest
  BY <1>8 DEF OneMover, MoverIsLatest, Placing
<1>11. TurnsInOrder
  <2> SUFFICES ASSUME NEW k \in Card, NEW b \in Boards(k), NEW j \in DOMAIN turn[k], NotSince(k, b, j)
               PROVE  place[k][b].moved <= place[k][turn[k][j]].moved
    BY DEF TurnsInOrder
  <2>1. PICK i \in DOMAIN turn[k] : turn[k][i] = b
    BY <1>5
  <2>2. DOMAIN turn[k] = 1..Cardinality(Boards(k)) /\ Cardinality(Boards(k)) \in Nat
    BY <1>4, BoardsFinite, SetToSeqsOnto
  <2>3. i <= j
    BY <2>1, <2>2 DEF NotSince
  <2>4. \A h, l \in DOMAIN turn[k] : h <= l => place[k][turn[k][h]].moved <= place[k][turn[k][l]].moved
    BY DEF Init
  <2>. QED BY <2>1, <2>3, <2>4
<1>. QED BY <1>7, <1>9, <1>10, <1>11 DEF Turns

\* Nobody starts to place a card that is being placed, but on a tangled card, and who
\* goes on to write takes the present instant.
MoversGoOn ==
  /\ \A p \in Request : req'[p].moved \in Nat /\ req'[p].moved <= clock'
  /\ \A p \in Request : Placing(req'[p]) /\ req'[p].card \notin tangled' =>
       \/ Placing(req[p]) /\ req[p].card = req'[p].card
       \/ \A q \in Request : Placing(req'[q]) /\ req'[q].card = req'[p].card => q = p
  /\ \A p \in Request : Placing(req'[p]) /\ req'[p].stage = "write" =>
       req'[p] = req[p] \/ req'[p].moved = clock

LEMMA TurnsWhenRowsGo ==
  ASSUME TypeOK, Shape, Turns, MoversGoOn, turn' = turn, tangled \subseteq tangled',
         clock' \in Nat, clock <= clock',
         \A k \in Card, b \in Board : place'[k][b] = place[k][b] \/ place'[k][b] = None
  PROVE  Turns'
<1>0. RowsHaveTurns /\ NoMoveToCome /\ OneMover /\ MoverIsLatest /\ TurnsInOrder
  BY DEF Turns
<1>1. \A k \in Card : \A b \in Boards(k)' : b \in Boards(k) /\ place'[k][b] = place[k][b]
  BY DEF Boards
<1>2. clock \in Nat /\ \A k \in Card : \A b \in Boards(k) : place[k][b].moved \in Nat
  BY RowOnBoard, BoardAssumption DEF TypeOK
<1>3. RowsHaveTurns'
  <2> SUFFICES ASSUME NEW k \in Card, NEW b \in Boards(k)'
               PROVE  place'[k][b].moved <= clock' /\ \E i \in DOMAIN turn'[k] : turn'[k][i] = b
    BY DEF RowsHaveTurns
  <2>1. b \in Boards(k) /\ place'[k][b] = place[k][b]
    BY <1>1
  <2>2. place[k][b].moved <= clock /\ \E i \in DOMAIN turn[k] : turn[k][i] = b
    BY <1>0, <2>1 DEF RowsHaveTurns
  <2>. QED BY <1>2, <2>1, <2>2
<1>4. NoMoveToCome'
  BY DEF NoMoveToCome, MoversGoOn
<1>5. OneMover'
  <2> SUFFICES ASSUME NEW k \in Card \ tangled', NEW r \in Request, NEW q \in Request,
                      Placing(req'[r]), req'[r].card = k, Placing(req'[q]), req'[q].card = k
               PROVE  r = q
    BY DEF OneMover, Placing
  <2>. QED BY <1>0 DEF OneMover, MoversGoOn
<1>6. MoverIsLatest'
  <2> SUFFICES ASSUME NEW k \in Card \ tangled', NEW r \in Request,
                      Placing(req'[r]), req'[r].card = k, req'[r].stage = "write", NEW b \in Boards(k)'
               PROVE  place'[k][b].moved <= req'[r].moved
    BY DEF MoverIsLatest, Placing
  <2>1. b \in Boards(k) /\ place'[k][b] = place[k][b]
    BY <1>1
  <2>2. CASE req'[r] = req[r]
    BY <1>0, <2>1, <2>2 DEF MoverIsLatest
  <2>3. CASE req'[r].moved = clock
    BY <1>0, <2>1, <2>3 DEF RowsHaveTurns
  <2>. QED BY <2>2, <2>3 DEF MoversGoOn
<1>7. TurnsInOrder'
  <2> SUFFICES ASSUME NEW k \in Card \ tangled', NEW b \in Boards(k)', NEW j \in DOMAIN turn'[k],
                      turn'[k][j] \in Boards(k)', NotSince(k, b, j)'
               PROVE  place'[k][b].moved <= place'[k][turn'[k][j]].moved
    BY DEF TurnsInOrder
  <2>1. NotSince(k, b, j)
    BY DEF NotSince
  <2>. QED BY <1>0, <1>1, <2>1 DEF TurnsInOrder
<1>. QED BY <1>3, <1>4, <1>5, <1>6, <1>7 DEF Turns

\* The row that is put is the latest, and has the last turn.
LEMMA TurnsWhenPut ==
  ASSUME TypeOK, Shape, Turns, NEW r \in Request, Put(r), Ends(r), Placing(req[r]), req[r].stage = "write",
         UNCHANGED <<clock, tangled>>
  PROVE  Turns'
<1> DEFINE q == req[r]
           k == q.card
           b == q.board
           put == [column |-> q.column, moved |-> q.moved]
<1>0. RowsHaveTurns /\ NoMoveToCome /\ OneMover /\ MoverIsLatest /\ TurnsInOrder
  BY DEF Turns
<1>1. k \in Card /\ b \in Board /\ q.column \in Column /\ q.moved \in 0..MaxClock
  BY RowsOfRequests DEF Placing
<1>2. place \in [Card -> [Board -> Place \cup {None}]] /\ turn \in [Card -> Seq(Board)]
  BY DEF TypeOK, Shape
<1>3. place' = [place EXCEPT ![k][b] = put] /\ turn' = [turn EXCEPT ![k] = Append(turn[k], b)]
  BY <1>2 DEF Put
<1>4. put \in Place /\ put # None /\ put.moved = q.moved
  BY <1>1, BoardAssumption DEF Place
<1>5. q.moved <= clock /\ clock \in Nat /\ q.moved \in Nat
  BY <1>0, <1>1, BoardAssumption DEF NoMoveToCome, TypeOK
<1>6. \A p \in Request : /\ p # r => req'[p] = req[p]
                         /\ ~Placing(req'[r]) /\ req'[r].moved = 0 /\ req'[r].stage = "done"
  BY EndsShaped, ClosedShaped DEF Shape, Placing
<1>7. \A c \in Card, a \in Board : place'[c][a] = IF c = k /\ a = b THEN put ELSE place[c][a]
  BY <1>1, <1>2, <1>3
<1>8. \A c \in Card : turn'[c] = IF c = k THEN Append(turn[k], b) ELSE turn[c]
  BY <1>1, <1>2, <1>3
<1> DEFINE n == Len(turn[k])
<1>9. /\ n \in Nat /\ DOMAIN turn[k] = 1..n /\ DOMAIN turn'[k] = 1..(n + 1)
      /\ turn'[k][n + 1] = b /\ \A i \in 1..n : turn'[k][i] = turn[k][i]
  <2>1. turn[k] \in Seq(Board) /\ turn'[k] = Append(turn[k], b)
    BY <1>1, <1>2, <1>8
  <2> HIDE DEF k, b
  <2>. QED BY <2>1
<1>10. \A c \in Card, a \in Board :
         /\ a \in Boards(c)' <=> (c = k /\ a = b) \/ a \in Boards(c)
         /\ ~(c = k /\ a = b) => place'[c][a] = place[c][a]
  BY <1>4, <1>7 DEF Boards
<1>11. place'[k][b].moved = q.moved
  BY <1>1, <1>4, <1>7
<1>12. \A c \in Card : Boards(c)' \subseteq Board
  BY DEF Boards
<1>m. \A c \in Card : \A a \in Boards(c) : place[c][a].moved \in Nat
  BY RowOnBoard
<1> HIDE DEF put, q, n
<1>13. RowsHaveTurns'
  <2> SUFFICES ASSUME NEW c \in Card, NEW a \in Boards(c)'
               PROVE  place'[c][a].moved <= clock' /\ \E i \in DOMAIN turn'[c] : turn'[c][i] = a
    BY DEF RowsHaveTurns
  <2>0. a \in Board
    BY <1>12
  <2>1. CASE c = k /\ a = b
    <3>1. n + 1 \in DOMAIN turn'[k] /\ turn'[k][n + 1] = b
      BY <1>9
    <3>. QED BY <1>5, <1>11, <2>1, <3>1
  <2>2. CASE ~(c = k /\ a = b)
    <3>1. a \in Boards(c) /\ place'[c][a] = place[c][a]
      BY <1>10, <2>0, <2>2
    <3>2. PICK i \in DOMAIN turn[c] : turn[c][i] = a
      BY <1>0, <3>1 DEF RowsHaveTurns
    <3>3. i \in DOMAIN turn'[c] /\ turn'[c][i] = a
      BY <1>8, <1>9, <3>2
    <3>. QED BY <1>0, <3>1, <3>3 DEF RowsHaveTurns
  <2>. QED BY <2>1, <2>2
<1>14. NoMoveToCome'
  BY <1>0, <1>5, <1>6 DEF NoMoveToCome
<1>15. OneMover'
  <2> SUFFICES ASSUME NEW c \in Card \ tangled', NEW o \in Request, NEW p \in Request,
                      Placing(req'[o]), req'[o].card = c, Placing(req'[p]), req'[p].card = c
               PROVE  o = p
    BY DEF OneMover, Placing
  <2>. QED BY <1>0, <1>6 DEF OneMover
<1>16. MoverIsLatest'
  <2> SUFFICES ASSUME NEW c \in Card \ tangled', NEW p \in Request,
                      Placing(req'[p]), req'[p].card = c, req'[p].stage = "write", NEW a \in Boards(c)'
               PROVE  place'[c][a].moved <= req'[p].moved
    BY DEF MoverIsLatest, Placing
  <2>1. p # r /\ req'[p] = req[p]
    BY <1>6
  <2>2. c # k
    BY <1>0, <1>1, <2>1 DEF OneMover, q
  <2>3. a \in Boards(c) /\ place'[c][a] = place[c][a]
    BY <1>10, <1>12, <2>2
  <2>. QED BY <1>0, <2>1, <2>3 DEF MoverIsLatest
<1>17. TurnsInOrder'
  <2> SUFFICES ASSUME NEW c \in Card \ tangled', NEW a \in Boards(c)', NEW j \in DOMAIN turn'[c],
                      turn'[c][j] \in Boards(c)', NotSince(c, a, j)'
               PROVE  place'[c][a].moved <= place'[c][turn'[c][j]].moved
    BY DEF TurnsInOrder
  <2>0. a \in Board /\ turn'[c][j] \in Board /\ c \in Card
    BY <1>12
  <2>s. \A i \in DOMAIN turn'[c] : i > j => turn'[c][i] # a
    BY DEF NotSince
  <2>1. CASE c # k
    <3>1. turn'[c] = turn[c] /\ a \in Boards(c) /\ turn[c][j] \in Boards(c)
      BY <1>8, <1>10, <2>0, <2>1
    <3>2. NotSince(c, a, j)
      BY <2>s, <3>1 DEF NotSince
    <3>3. place'[c][a] = place[c][a] /\ place'[c][turn[c][j]] = place[c][turn[c][j]]
      BY <1>10, <2>0, <2>1, <3>1
    <3>. QED BY <1>0, <3>1, <3>2, <3>3 DEF TurnsInOrder
  <2>2. CASE c = k
    <3>1. \A e \in Boards(k) : place[k][e].moved <= q.moved
      BY <1>0, <2>2 DEF MoverIsLatest, q
    <3>2. place'[k][a].moved <= q.moved
      <4>1. CASE a = b
        BY <1>5, <1>11, <4>1
      <4>2. CASE a # b
        BY <1>10, <2>0, <2>2, <3>1, <4>2
      <4>. QED BY <4>1, <4>2
    <3>3. CASE turn'[k][j] = b
      BY <1>11, <2>2, <3>2, <3>3
    <3>4. CASE turn'[k][j] # b
      <4>1. j \in 1..n /\ turn'[k][j] = turn[k][j]
        BY <1>9, <2>2, <3>4
      <4>2. n + 1 \in DOMAIN turn'[k] /\ n + 1 > j /\ turn'[k][n + 1] = b
        BY <1>9, <4>1
      <4>3. a # b
        BY <2>2, <2>s, <4>2
      <4>4. a \in Boards(k) /\ turn[k][j] \in Boards(k) /\ place'[k][a] = place[k][a]
            /\ place'[k][turn[k][j]] = place[k][turn[k][j]]
        BY <1>10, <2>0, <2>2, <3>4, <4>1, <4>3
      <4>5. NotSince(k, a, j)
        BY <1>9, <2>2, <2>s DEF NotSince
      <4>. QED BY <1>0, <1>9, <2>2, <4>1, <4>4, <4>5 DEF TurnsInOrder
    <3>. QED BY <3>3, <3>4
  <2>. QED BY <2>1, <2>2
<1>. QED BY <1>13, <1>14, <1>15, <1>16, <1>17 DEF Turns

\* A step after which no request is placing that was not, as it was.
LEMMA NobodyNewMoves ==
  ASSUME TypeOK, Shape, Turns, clock' \in Nat, clock <= clock', tangled \subseteq tangled',
         \A p \in Request : req'[p].moved \in {0, req[p].moved} /\ (Placing(req'[p]) => req'[p] = req[p])
  PROVE  MoversGoOn
<1>1. \A p \in Request : req[p].moved \in Nat /\ req[p].moved <= clock
  BY RowsOfRequests DEF Turns, NoMoveToCome
<1>2. clock \in Nat
  BY BoardAssumption DEF TypeOK
<1>3. \A p \in Request : req'[p].moved \in Nat /\ req'[p].moved <= clock'
  BY <1>1, <1>2
<1>. QED BY <1>3 DEF MoversGoOn

LEMMA TurnsKept ==
  ASSUME TypeOK, Shape, Turns, [Next]_vars PROVE Turns'
<1>0. /\ place \in [Card -> [Board -> Place \cup {None}]] /\ req \in [Request -> RequestRecord]
      /\ \A r \in Request : Shaped(req[r])
  BY DEF TypeOK, Shape
<1>1. clock \in Nat
  BY BoardAssumption DEF TypeOK
<1>b. Closed("done").op = "none" /\ Closed("done").moved = 0 /\ ~Placing(Closed("done"))
  BY ClosedShaped DEF Placing
<1>a. ASSUME NEW r \in Request, req' = [req EXCEPT ![r] = req'[r]], ~Placing(req'[r]),
             req'[r].moved \in {0, req[r].moved}, UNCHANGED <<clock, turn, tangled>>,
             \A k \in Card, b \in Board : place'[k][b] = place[k][b] \/ place'[k][b] = None
      PROVE  Turns'
  <2>1. \A p \in Request : p # r => req'[p] = req[p]
    BY <1>0, <1>a
  <2>2. clock' \in Nat /\ clock <= clock' /\ tangled \subseteq tangled'
    BY <1>1, <1>a
  <2>3. \A p \in Request : req'[p].moved \in {0, req[p].moved} /\ (Placing(req'[p]) => req'[p] = req[p])
    BY <1>a, <2>1
  <2>. QED BY <1>a, <2>2, <2>3, NobodyNewMoves, TurnsWhenRowsGo
<1>2. ASSUME NEW r \in Request, Starts(r) PROVE Turns'
  <2> DEFINE to == req'[r]
  <2>1. /\ req' = [req EXCEPT ![r] = to] /\ to.moved = 0 /\ to.stage # "write"
        /\ UNCHANGED <<place, clock, turn>>
        /\ tangled' = IF Placing(to) /\ \E q \in Open : Placing(req[q]) /\ req[q].card = to.card
                      THEN tangled \cup {to.card} ELSE tangled
    BY <1>2 DEF Starts, store
  <2>2. \A p \in Request : p # r => req'[p] = req[p]
    BY <1>0, <2>1
  <2>3. clock' \in Nat /\ clock <= clock' /\ tangled \subseteq tangled'
    BY <1>1, <2>1
  <2>4. \A p \in Request : req'[p].moved \in Nat /\ req'[p].moved <= clock'
    <3>1. \A p \in Request : req[p].moved \in Nat /\ req[p].moved <= clock
      BY RowsOfRequests DEF Turns, NoMoveToCome
    <3>. QED BY <1>1, <2>1, <2>2, <3>1
  <2>5. \A p \in Request : Placing(req[p]) => p \in Open
    BY NewIsClosed DEF Placing
  <2>6. Placing(to) /\ to.card \notin tangled' =>
          \A q \in Request : Placing(req'[q]) /\ req'[q].card = to.card => q = r
    BY <2>1, <2>2, <2>5
  <2>7. MoversGoOn
    BY <2>1, <2>2, <2>4, <2>6 DEF MoversGoOn
  <2>. QED BY <2>1, <2>3, <2>7, TurnsWhenRowsGo
<1>3. ASSUME NEW r \in Request, Reads(r) PROVE Turns'
  <2> DEFINE to == req'[r]
  <2>1. /\ req' = [req EXCEPT ![r] = to] /\ to.moved \in {0, req[r].moved, clock}
        /\ GoesOn(req[r], to)
        /\ UNCHANGED <<place, clock, turn, tangled>>
        /\ to.stage = "write" /\ ~Editing(to) => to.moved = clock
    BY <1>3 DEF Reads, store, history
  <2>2. \A p \in Request : p # r => req'[p] = req[p]
    BY <1>0, <2>1
  <2>3. clock' \in Nat /\ clock <= clock' /\ tangled \subseteq tangled'
    BY <1>1, <2>1
  <2>4. \A p \in Request : req'[p].moved \in Nat /\ req'[p].moved <= clock'
    <3>1. \A p \in Request : req[p].moved \in Nat /\ req[p].moved <= clock
      BY RowsOfRequests DEF Turns, NoMoveToCome
    <3>. QED BY <1>1, <2>1, <2>2, <3>1
  <2>5. Placing(to) => Placing(req[r]) /\ req[r].card = to.card /\ ~Editing(to)
    BY <1>b, <2>1 DEF GoesOn, Placing, Editing
  <2>7. MoversGoOn
    BY <2>1, <2>2, <2>4, <2>5 DEF MoversGoOn, Placing
  <2>. QED BY <2>1, <2>3, <2>7, TurnsWhenRowsGo
<1>4. ASSUME NEW r \in Request, CreateBoard(r) PROVE Turns'
  <2>1. /\ req' = [req EXCEPT ![r] = req'[r]] /\ ~Placing(req'[r]) /\ req'[r].moved \in {0, req[r].moved}
    <3>1. /\ req' = [req EXCEPT ![r] = req'[r]] /\ req[r].op = "create_board"
          /\ req'[r] = Closed("done") \/ (req'[r].op = req[r].op /\ req'[r].moved = req[r].moved)
      BY <1>4, CreateBoardStep
    <3>. QED BY <1>b, <3>1 DEF Placing
  <2>2. UNCHANGED <<place, clock, turn, tangled>>
    BY <1>4 DEF CreateBoard
  <2>. QED BY <1>a, <2>1, <2>2
<1>5. ASSUME NEW r \in Request, GrantBoardAdministration(r) PROVE Turns'
  <2>1. /\ req' = [req EXCEPT ![r] = req'[r]] /\ ~Placing(req'[r]) /\ req'[r].moved \in {0, req[r].moved}
    <3>1. /\ req' = [req EXCEPT ![r] = req'[r]] /\ req[r].op = "create_board"
          /\ req'[r] = Closed("done") \/ (req'[r].op = req[r].op /\ req'[r].moved = req[r].moved)
      BY <1>5, GrantStep
    <3>. QED BY <1>b, <3>1 DEF Placing
  <2>2. UNCHANGED <<place, clock, turn, tangled>>
    BY <1>5 DEF GrantBoardAdministration, store
  <2>. QED BY <1>a, <2>1, <2>2
<1>6. ASSUME NEW r \in Request, UndoCreate(r) \/ DeleteBoard(r) \/ DeleteColumn(r) PROVE Turns'
  <2>1. /\ req' = [req EXCEPT ![r] = req'[r]] /\ req'[r] = Closed("done")
        /\ UNCHANGED <<clock, turn, tangled>>
    BY <1>6, EndsShaped DEF UndoCreate, DeleteBoard, DeleteColumn, Close, Ends, history
  <2>2. \A k \in Card, b \in Board : place'[k][b] = place[k][b] \/ place'[k][b] = None
    BY <1>6, DropType DEF UndoCreate, DeleteBoard, DeleteColumn, RemoveBoard, store
  <2>. QED BY <1>a, <1>b, <2>1, <2>2
<1>7. ASSUME NEW r \in Request, InsertColumn(r) \/ Regrant(r) PROVE Turns'
  <2>1. /\ req' = [req EXCEPT ![r] = req'[r]] /\ req'[r] = Closed("done")
        /\ UNCHANGED <<place, clock, turn, tangled>>
    BY <1>7, EndsShaped DEF InsertColumn, Regrant, Close, Ends, store
  <2>. QED BY <1>a, <1>b, <2>1
<1>8. ASSUME NEW r \in Request, WriteColumn(r) PROVE Turns'
  <2>1. /\ req' = [req EXCEPT ![r] = req'[r]] /\ Editing(req[r])
        /\ req'[r] = Closed("done") \/ (req'[r].op = req[r].op /\ req'[r].moved = req[r].moved)
    BY <1>8, WriteColumnStep DEF NextOfReorder
  <2>2. UNCHANGED <<place, clock, turn, tangled>>
    BY <1>8 DEF WriteColumn
  <2>. QED BY <1>a, <1>b, <2>1, <2>2 DEF Editing, Placing
<1>9. ASSUME NEW r \in Request, DetachRow(r) PROVE Turns'
  <2>1. /\ req' = [req EXCEPT ![r] = req'[r]] /\ req'[r] = Closed("done")
        /\ UNCHANGED <<clock, turn, tangled>>
        /\ place' = [place EXCEPT ![req[r].card][req[r].board] = None]
    BY <1>9, EndsShaped DEF DetachRow, Close, Ends, history
  <2>2. \A k \in Card, b \in Board : place'[k][b] = place[k][b] \/ place'[k][b] = None
    BY <1>0, <2>1
  <2>. QED BY <1>a, <1>b, <2>1, <2>2
<1>10. ASSUME NEW r \in Request, PutRow(r) PROVE Turns'
  <2>1. /\ Ends(r) /\ Placing(req[r]) /\ req[r].stage = "write" /\ UNCHANGED <<clock, tangled>>
        /\ Put(r) \/ UNCHANGED <<place, turn>>
    BY <1>10 DEF PutRow, Close, Ends
  <2>2. CASE Put(r)
    BY <2>1, <2>2, TurnsWhenPut
  <2>3. CASE UNCHANGED <<place, turn>>
    BY <1>a, <1>b, <2>1, <2>3, EndsShaped
  <2>. QED BY <2>1, <2>2, <2>3
<1>11. ASSUME NEW requests, CutShort(requests) PROVE Turns'
  <2>1. /\ \A p \in Request : req'[p] = Closed("done") \/ req'[p] = req[p]
        /\ UNCHANGED <<place, clock, turn, tangled>>
    BY <1>11 DEF CutShort, store
  <2>2. clock' \in Nat /\ clock <= clock' /\ tangled \subseteq tangled'
    BY <1>1, <2>1
  <2>3. \A p \in Request : req'[p].moved \in {0, req[p].moved} /\ (Placing(req'[p]) => req'[p] = req[p])
    BY <1>b, <2>1
  <2>. QED BY <2>1, <2>2, <2>3, NobodyNewMoves, TurnsWhenRowsGo
<1>12. CASE Tick \/ UNCHANGED vars
  <2>1. UNCHANGED <<place, req, turn, tangled>> /\ clock' \in {clock, clock + 1}
    BY <1>12 DEF Tick, vars, store, history
  <2>2. clock' \in Nat /\ clock <= clock' /\ tangled \subseteq tangled'
    BY <1>1, <2>1
  <2>3. \A p \in Request : req'[p].moved \in {0, req[p].moved} /\ (Placing(req'[p]) => req'[p] = req[p])
    BY <2>1
  <2>. QED BY <2>1, <2>2, <2>3, NobodyNewMoves, TurnsWhenRowsGo
<1>13. ASSUME NEW r \in Request, BeginBoard(r) \/ BeginColumn(r) \/ BeginCard(r) PROVE Turns'
  BY <1>2, <1>13, BeginBoardStep, BeginColumnStep, BeginCardStep
<1>14. ASSUME NEW r \in Request,
              Gate(r) \/ Rule(r) \/ PlanColumn(r) \/ ReadColumn(r) \/ LookForColumn(r)
       PROVE  Turns'
  BY <1>3, <1>14, ReadingStep
<1>. QED BY <1>4, <1>5, <1>6, <1>7, <1>8, <1>9, <1>10, <1>11, <1>12, <1>13, <1>14
         DEF Next, Fail, Stop, Idle

-----------------------------------------------------------------------------
LEMMA BoardsInvariance == Spec => []BoardsInv
<1>1. Init => BoardsInv
  BY ShapeInit, StoreInit, CreatorsInit, KnownInit, FieldsInit, TurnsInit DEF BoardsInv
<1>2. BoardsInv /\ [Next]_vars => BoardsInv'
  BY ShapeKept, StoreKept, CreatorsKept, KnownKept, FieldsKept, TurnsKept DEF BoardsInv
<1>. QED BY <1>1, <1>2, PTL DEF Spec

-----------------------------------------------------------------------------
(* Folds, one position after another *)

\* A set of natural numbers has a smallest member: it is where a least counterexample is.
LEMMA Smallest ==
  ASSUME NEW S \in SUBSET Nat, S # {}
  PROVE  \E m \in S : \A n \in S : m <= n
<1> DEFINE less == {p \in Nat \X Nat : p[1] < p[2]}
<1>1. IsWellFoundedOn(less, Nat)
  BY NatLessThanWellFounded DEF OpToRel
<1>2. PICK m \in S : \A n \in S : <<n, m>> \notin less
  BY <1>1, WFMin
<1>3. ASSUME NEW n \in S PROVE m <= n
  <2>1. n \in Nat /\ m \in Nat /\ <<n, m>> \in Nat \X Nat
    OBVIOUS
  <2>2. <<n, m>>[1] = n /\ <<n, m>>[2] = m
    OBVIOUS
  <2>3. ~(n < m)
    BY <1>2, <2>1, <2>2, Zenon
  <2>. QED BY <2>1, <2>3
<1>. QED BY <1>3, Zenon

LEMMA LargestOf ==
  ASSUME NEW n \in Nat, NEW s \in SUBSET (1..n), s # {}
  PROVE  Max(s) \in s /\ \A i \in s : i <= Max(s)
<1>0. \A i \in s : n - i \in Nat
  OBVIOUS
<1>1. {n - i : i \in s} \in SUBSET Nat /\ {n - i : i \in s} # {}
  BY <1>0
<1>2. PICK m \in {n - i : i \in s} : \A j \in {n - i : i \in s} : m <= j
  BY <1>1, Smallest
<1>3. PICK i \in s : m = n - i
  OBVIOUS
<1>4. \A j \in s : i >= j
  <2> TAKE j \in s
  <2>1. n - i <= n - j
    BY <1>2, <1>3
  <2>. QED BY <2>1
<1>5. Max(s) \in s /\ \A j \in s : Max(s) >= j
  BY <1>4, Zenon DEF Max
<1>. QED BY <1>5

\* What holds of no positions, and of positions when it holds of all but the last of them,
\* holds of any positions: how a fold to the left goes.
LEMMA PositionsOneByOne ==
  ASSUME NEW n \in Nat, NEW P, {} \in P,
         \A s \in SUBSET (1..n) : s # {} /\ s \ {Max(s)} \in P => s \in P
  PROVE  \A s \in SUBSET (1..n) : s \in P
<1> SUFFICES ASSUME NEW t \in SUBSET (1..n), t \notin P PROVE FALSE
  OBVIOUS
<1>1. \A s \in SUBSET (1..n) : IsFiniteSet(s) /\ Cardinality(s) \in Nat
  <2>1. IsFiniteSet(1..n)
    BY FS_Interval
  <2>. QED BY <2>1, FS_Subset, FS_CardinalityType
<1> DEFINE sizes == {Cardinality(s) : s \in {u \in SUBSET (1..n) : u \notin P}}
<1>2. sizes \in SUBSET Nat /\ sizes # {}
  BY <1>1
<1>3. PICK m \in sizes : \A k \in sizes : m <= k
  <2> HIDE DEF sizes
  <2>. QED BY <1>2, Smallest
<1>4. PICK s \in SUBSET (1..n) : s \notin P /\ m = Cardinality(s)
  OBVIOUS
<1>5. Max(s) \in s
  BY <1>4, LargestOf
<1>6. Cardinality(s \ {Max(s)}) = Cardinality(s) - 1
  BY <1>1, <1>5, FS_RemoveElement
<1>7. s \ {Max(s)} \in SUBSET (1..n) /\ s \ {Max(s)} \notin P
  BY <1>4
<1>8. Cardinality(s \ {Max(s)}) \in sizes
  BY <1>7
<1>9. m <= Cardinality(s) - 1
  BY <1>3, <1>6, <1>8
<1>. QED BY <1>1, <1>4, <1>9

-----------------------------------------------------------------------------
(* The level on a card *)

\* What the fold of LevelOnCard computes over the boards at these positions.
LevelsOf(levels, boards, H) ==
  H = [s \in SUBSET DOMAIN boards |->
         IF s = {} THEN [seen |-> FALSE, lowest |-> Administer]
         ELSE [seen |-> H[s \ {Max(s)}].seen \/ levels[boards[Max(s)]] >= View,
               lowest |-> IF levels[boards[Max(s)]] < H[s \ {Max(s)}].lowest
                          THEN levels[boards[Max(s)]] ELSE H[s \ {Max(s)}].lowest]]

LEMMA LevelComputed ==
  ASSUME NEW levels, NEW boards
  PROVE  LET acc == (CHOOSE H : LevelsOf(levels, boards, H))[DOMAIN boards]
         IN LevelOnCard(levels, boards) = IF ~acc.seen THEN 0 ELSE IF acc.lowest < View THEN View ELSE acc.lowest
BY DEF LevelOnCard, FoldLeft, MapThenFoldSet, LevelsOf

\* The lowest level at these positions.
LowestAt(lv, s, l) ==
  /\ l \in Level /\ \A i \in s : l <= lv[i]
  /\ l = Administer \/ \E i \in s : lv[i] = l

LEMMA LowestExists ==
  ASSUME NEW D, NEW lv \in [D -> Level], NEW s \in SUBSET D
  PROVE  \E l \in Level : LowestAt(lv, s, l)
<1>1. Level = {0, 1, 2, 3} /\ Administer = 3
  BY DEF Level, Administer
<1>2. \A i \in s : lv[i] \in {0, 1, 2, 3}
  BY <1>1
<1>3. CASE \E i \in s : lv[i] = 0
  <2>1. LowestAt(lv, s, 0)
    BY <1>1, <1>2, <1>3 DEF LowestAt
  <2>. QED BY <1>1, <2>1
<1>4. CASE (\A i \in s : lv[i] # 0) /\ \E i \in s : lv[i] = 1
  <2>1. LowestAt(lv, s, 1)
    BY <1>1, <1>2, <1>4 DEF LowestAt
  <2>. QED BY <1>1, <2>1
<1>5. CASE (\A i \in s : lv[i] # 0 /\ lv[i] # 1) /\ \E i \in s : lv[i] = 2
  <2>1. LowestAt(lv, s, 2)
    BY <1>1, <1>2, <1>5 DEF LowestAt
  <2>. QED BY <1>1, <2>1
<1>6. CASE \A i \in s : lv[i] # 0 /\ lv[i] # 1 /\ lv[i] # 2
  <2>1. LowestAt(lv, s, 3)
    BY <1>1, <1>2, <1>6 DEF LowestAt
  <2>. QED BY <1>1, <2>1
<1>. QED BY <1>3, <1>4, <1>5, <1>6

Leveled(levels, boards) == \A i \in DOMAIN boards : levels[boards[i]] \in Level

\* What the positions s come to.
LevelAt(levels, boards, s, x) ==
  /\ x.seen \in BOOLEAN
  /\ x.seen <=> \E i \in s : levels[boards[i]] >= View
  /\ LowestAt([i \in DOMAIN boards |-> levels[boards[i]]], s, x.lowest)

LEMMA LevelStep ==
  ASSUME NEW levels, NEW boards, Leveled(levels, boards),
         NEW s \in SUBSET DOMAIN boards, NEW i \in s, NEW x, LevelAt(levels, boards, s \ {i}, x)
  PROVE  LevelAt(levels, boards, s,
           [seen |-> x.seen \/ levels[boards[i]] >= View,
            lowest |-> IF levels[boards[i]] < x.lowest THEN levels[boards[i]] ELSE x.lowest])
<1> DEFINE lv == [j \in DOMAIN boards |-> levels[boards[j]]]
           lowest == IF levels[boards[i]] < x.lowest THEN levels[boards[i]] ELSE x.lowest
           seen == x.seen \/ levels[boards[i]] >= View
           to == [seen |-> seen, lowest |-> lowest]
<1>1. /\ \A j \in s : lv[j] = levels[boards[j]] /\ lv[j] \in 0..3 /\ lv[j] \in Level
      /\ x.lowest \in 0..3
      /\ \A j \in s \ {i} : x.lowest <= lv[j]
      /\ x.lowest = Administer \/ \E j \in s \ {i} : lv[j] = x.lowest
  BY DEF LevelAt, LowestAt, Level, Leveled
<1>2. x.seen \in BOOLEAN /\ (x.seen <=> \E j \in s \ {i} : levels[boards[j]] >= View)
  BY DEF LevelAt
<1>3. seen <=> \E j \in s : levels[boards[j]] >= View
  BY <1>2
<1>4. lowest = IF lv[i] < x.lowest THEN lv[i] ELSE x.lowest
  BY <1>1
<1> HIDE DEF lv, lowest
<1>5. lowest \in Level /\ lowest <= lv[i] /\ lowest <= x.lowest /\ lowest \in {lv[i], x.lowest}
  BY <1>1, <1>4 DEF Level
<1>6. \A j \in s : lowest <= lv[j]
  BY <1>1, <1>5 DEF Level
<1>7. lowest = Administer \/ \E j \in s : lv[j] = lowest
  <2>1. CASE lv[i] < x.lowest
    BY <1>4, <2>1
  <2>2. CASE ~(lv[i] < x.lowest)
    BY <1>1, <1>4, <2>2
  <2>. QED BY <2>1, <2>2
<1>8. LowestAt(lv, s, lowest)
  BY <1>5, <1>6, <1>7 DEF LowestAt
<1>9. to.seen = seen /\ to.lowest = lowest /\ seen \in BOOLEAN
  OBVIOUS
<1>10. LevelAt(levels, boards, s, to)
  <2> HIDE DEF to, seen
  <2>. QED BY <1>3, <1>8, <1>9 DEF LevelAt, lv
<1>. QED BY <1>10 DEF lowest

LEMMA LevelUnique ==
  ASSUME NEW levels, NEW boards, NEW s, NEW x, NEW y, LevelAt(levels, boards, s, x), LevelAt(levels, boards, s, y),
         s \subseteq DOMAIN boards, Leveled(levels, boards)
  PROVE  x.seen = y.seen /\ x.lowest = y.lowest
<1> DEFINE lv == [j \in DOMAIN boards |-> levels[boards[j]]]
<1>1. LowestAt(lv, s, x.lowest) /\ LowestAt(lv, s, y.lowest)
  BY DEF LevelAt
<1>2. \A i \in s : lv[i] \in 0..3
  BY DEF Level, Leveled
<1>3. x.lowest = y.lowest
  <2> HIDE DEF lv
  <2>. QED BY <1>1, <1>2 DEF LowestAt, Level, Administer
<1>4. x.seen = y.seen
  BY DEF LevelAt
<1>. QED BY <1>3, <1>4

LEMMA LevelFold ==
  ASSUME NEW levels, NEW boards, NEW n \in Nat, DOMAIN boards = 1..n,
         Leveled(levels, boards)
  PROVE  LET acc == (CHOOSE H : LevelsOf(levels, boards, H))[DOMAIN boards]
         IN LevelAt(levels, boards, DOMAIN boards, acc)
<1> DEFINE D == 1..n
           lv == [i \in DOMAIN boards |-> levels[boards[i]]]
           seen(s) == \E i \in s : levels[boards[i]] >= View
           lowest(s) == CHOOSE l \in Level : LowestAt(lv, s, l)
           result(s) == [seen |-> seen(s), lowest |-> lowest(s)]
           K == [s \in SUBSET D |-> result(s)]
<1>0. lv \in [D -> Level]
  BY DEF Leveled
<1>1. ASSUME NEW s \in SUBSET D PROVE LevelAt(levels, boards, s, result(s))
  <2>1. LowestAt(lv, s, lowest(s))
    <3> HIDE DEF lv
    <3>1. \E l \in Level : LowestAt(lv, s, l)
      BY <1>0, LowestExists
    <3>. QED BY <3>1, Zenon
  <2>2. result(s).seen = seen(s) /\ result(s).lowest = lowest(s) /\ seen(s) \in BOOLEAN
    OBVIOUS
  <2> HIDE DEF lowest, result
  <2>. QED BY <2>1, <2>2 DEF LevelAt
<1>2. ASSUME NEW H, LevelsOf(levels, boards, H)
      PROVE  \A s \in SUBSET D : LevelAt(levels, boards, s, H[s])
  <2> DEFINE P == {s \in SUBSET D : LevelAt(levels, boards, s, H[s])}
  <2>1. {} \in P
    <3>1. H[{}] = [seen |-> FALSE, lowest |-> Administer]
      BY <1>2 DEF LevelsOf
    <3>2. H[{}].seen = FALSE /\ H[{}].lowest = Administer
      BY <3>1
    <3>3. LowestAt(lv, {}, H[{}].lowest)
      <4> HIDE DEF lv
      <4>. QED BY <3>2 DEF LowestAt, Level, Administer
    <3>4. LevelAt(levels, boards, {}, H[{}])
      BY <3>2, <3>3 DEF LevelAt
    <3>. QED BY <3>4
  <2>2. ASSUME NEW s \in SUBSET D, s # {}, s \ {Max(s)} \in P PROVE s \in P
    <3>1. PICK i : i = Max(s)
      OBVIOUS
    <3>2. PICK x : x = H[s \ {i}]
      OBVIOUS
    <3>3. i \in s
      BY <2>2, <3>1, LargestOf
    <3> DEFINE z == [seen |-> x.seen \/ levels[boards[i]] >= View,
                     lowest |-> IF levels[boards[i]] < x.lowest THEN levels[boards[i]] ELSE x.lowest]
    <3>4. H[s] = z
      BY <1>2, <2>2, <3>1, <3>2 DEF LevelsOf
    <3>5. LevelAt(levels, boards, s \ {i}, x)
      BY <2>2, <3>1, <3>2
    <3>6. LevelAt(levels, boards, s, z)
      BY <3>3, <3>5, LevelStep
    <3> HIDE DEF z
    <3>. QED BY <3>4, <3>6
  <2> HIDE DEF P
  <2>3. \A s \in SUBSET (1..n) : s \in P
    BY <2>1, <2>2, PositionsOneByOne
  <2>. QED BY <2>3 DEF P
<1>3. LevelsOf(levels, boards, K)
  <2>1. ASSUME NEW s \in SUBSET D
        PROVE  K[s] = IF s = {} THEN [seen |-> FALSE, lowest |-> Administer]
                      ELSE [seen |-> K[s \ {Max(s)}].seen \/ levels[boards[Max(s)]] >= View,
                            lowest |-> IF levels[boards[Max(s)]] < K[s \ {Max(s)}].lowest
                                       THEN levels[boards[Max(s)]] ELSE K[s \ {Max(s)}].lowest]
    <3>0. K[s] = result(s) /\ LevelAt(levels, boards, s, result(s))
      BY <1>1
    <3>1. CASE s = {}
      <4> DEFINE z == [seen |-> FALSE, lowest |-> Administer]
      <4>1. LevelAt(levels, boards, {}, z)
        BY DEF LevelAt, LowestAt, Level, Administer
      <4>2. LevelAt(levels, boards, {}, result({}))
        BY <1>1
      <4>3. z.seen = result({}).seen /\ z.lowest = result({}).lowest
        <5> HIDE DEF z, result
        <5>. QED BY <4>1, <4>2, LevelUnique
      <4>4. result({}) = z
        BY <4>3
      <4>. QED BY <3>0, <3>1, <4>4
    <3>2. CASE s # {}
      <4> DEFINE i == Max(s)
                 x == result(s \ {i})
                 z == [seen |-> x.seen \/ levels[boards[i]] >= View,
                       lowest |-> IF levels[boards[i]] < x.lowest THEN levels[boards[i]] ELSE x.lowest]
      <4>1. i \in s
        BY <3>2, LargestOf
      <4>2. LevelAt(levels, boards, s \ {i}, x) /\ K[s \ {i}] = x
        BY <1>1
      <4>3. LevelAt(levels, boards, s, z)
        <5> HIDE DEF i, x
        <5>. QED BY <4>1, <4>2, LevelStep
      <4>4. z.seen = result(s).seen /\ z.lowest = result(s).lowest
        <5>1. LevelAt(levels, boards, s, result(s)) /\ s \subseteq DOMAIN boards
          BY <3>0
        <5>2. PICK y : y = z
          OBVIOUS
        <5>3. PICK w : w = result(s)
          OBVIOUS
        <5> HIDE DEF z, result, K, lv
        <5>4. LevelAt(levels, boards, s, y) /\ LevelAt(levels, boards, s, w)
          BY <4>3, <5>1, <5>2, <5>3
        <5>5. y.seen = w.seen /\ y.lowest = w.lowest
          BY <5>1, <5>4, LevelUnique, ZenonT(60)
        <5>. QED BY <5>2, <5>3, <5>5
      <4>5. result(s) = z
        <5>1. result(s).seen = seen(s) /\ result(s).lowest = lowest(s)
          OBVIOUS
        <5> HIDE DEF seen, lowest, i, x
        <5>. QED BY <4>4, <5>1
      <4> HIDE DEF result, K
      <4>. QED BY <3>0, <3>2, <4>2, <4>5
    <3>. QED BY <3>1, <3>2
  <2> HIDE DEF result
  <2>2. K = [s \in SUBSET D |-> K[s]]
    OBVIOUS
  <2> HIDE DEF K
  <2>. QED BY <2>1, <2>2 DEF LevelsOf
<1>4. LevelsOf(levels, boards, CHOOSE H : LevelsOf(levels, boards, H))
  <2> HIDE DEF K
  <2>. QED BY <1>3, Zenon
<1>. QED BY <1>2, <1>4

LEMMA RuleOfLevels ==
  ASSUME TypeOK, NEW p \in Principal, NEW k \in Card, NEW boards \in SetToSeqs(Boards(k))
  PROVE  LET level == LevelOnCard(grant[p], boards) IN
         /\ level >= View <=> \E b \in Boards(k) : grant[p][b] >= View
         /\ \A needed \in {Change, Administer} :
              level >= needed <=> Boards(k) # {} /\ \A b \in Boards(k) : grant[p][b] >= needed
<1> DEFINE levels == grant[p]
           D == DOMAIN boards
           lv == [i \in D |-> levels[boards[i]]]
           acc == (CHOOSE H : LevelsOf(levels, boards, H))[D]
           level == LevelOnCard(levels, boards)
<1>1. PICK n \in Nat : n = Cardinality(Boards(k)) /\ D = 1..n
  BY BoardsFinite, SetToSeqsOnto
<1>2. /\ \A i \in D : boards[i] \in Boards(k)
      /\ \A b \in Boards(k) : \E i \in D : boards[i] = b
  BY BoardsFinite, SetToSeqsOnto
<1>3. Boards(k) \subseteq Board /\ levels \in [Board -> Level]
  BY BoardsFinite DEF TypeOK
<1>5. LevelAt(levels, boards, D, acc)
  <2>1. Leveled(levels, boards)
    BY <1>2, <1>3 DEF Leveled
  <2> HIDE DEF levels
  <2>. QED BY <1>1, <2>1, LevelFold
<1>6. level = IF ~acc.seen THEN 0 ELSE IF acc.lowest < View THEN View ELSE acc.lowest
  <2> HIDE DEF levels
  <2>. QED BY LevelComputed
<1>7. PICK seen \in BOOLEAN : seen = acc.seen
  BY <1>5 DEF LevelAt
<1>8. PICK lowest \in 0..3 : lowest = acc.lowest
  BY <1>5 DEF LevelAt, LowestAt, Level
<1>9. /\ seen <=> \E b \in Boards(k) : levels[b] >= View
      /\ \A b \in Boards(k) : lowest <= levels[b]
      /\ lowest = Administer \/ \E b \in Boards(k) : levels[b] = lowest
  <2>1. /\ seen <=> \E i \in D : levels[boards[i]] >= View
        /\ \A i \in D : lowest <= lv[i]
        /\ lowest = Administer \/ \E i \in D : lv[i] = lowest
    BY <1>5, <1>7, <1>8 DEF LevelAt, LowestAt
  <2>2. \A i \in D : lv[i] = levels[boards[i]]
    OBVIOUS
  <2> HIDE DEF levels, lv, D
  <2>. QED BY <1>2, <2>1, <2>2
<1>10. \A b \in Boards(k) : levels[b] \in 0..3
  BY <1>3 DEF Level
<1> HIDE DEF acc, level, levels
<1>11. level = IF ~seen THEN 0 ELSE IF lowest < View THEN View ELSE lowest
  BY <1>6, <1>7, <1>8
<1>12. level >= View <=> \E b \in Boards(k) : levels[b] >= View
  BY <1>9, <1>11 DEF View
<1>13. ASSUME NEW needed \in {Change, Administer}
       PROVE  level >= needed <=> Boards(k) # {} /\ \A b \in Boards(k) : levels[b] >= needed
  <2>1. needed \in {2, 3} /\ View = 1 /\ Administer = 3
    BY DEF Change, Administer, View
  <2>2. CASE ~seen
    BY <1>9, <1>10, <1>11, <2>1, <2>2
  <2>3. CASE seen /\ lowest < View
    BY <1>9, <1>10, <1>11, <2>1, <2>3
  <2>4. CASE seen /\ ~(lowest < View)
    BY <1>9, <1>10, <1>11, <2>1, <2>4
  <2>. QED BY <2>2, <2>3, <2>4
<1>. QED BY <1>12, <1>13 DEF level, levels

-----------------------------------------------------------------------------
(* The one work state of a card *)

\* What the fold of Shared computes over the boards at these positions.
LatestOf(k, boards, H) ==
  H = [s \in SUBSET DOMAIN boards |->
         IF s = {} THEN None
         ELSE IF H[s \ {Max(s)}] = None \/ Better(k, boards[Max(s)], H[s \ {Max(s)}])
              THEN boards[Max(s)] ELSE H[s \ {Max(s)}]]

LEMMA SharedComputed ==
  ASSUME NEW k, NEW boards
  PROVE  Shared(k, boards) = (CHOOSE H : LatestOf(k, boards, H))[DOMAIN boards]
BY DEF Shared, FoldLeft, MapThenFoldSet, LatestOf

\* The board of this set that decides.
Best(k, B, b) == b \in B /\ \A a \in B : a = b \/ Better(k, b, a)

LEMMA BestExists ==
  ASSUME TypeOK, NEW k \in Card, NEW B \in SUBSET Boards(k), B # {}
  PROVE  \E b \in B : Best(k, B, b)
<1>1. \A b \in B : b \in Nat /\ place[k][b].moved \in 0..MaxClock
  <2>1. \A b \in B : b \in Boards(k)
    OBVIOUS
  <2>. QED BY <2>1, RowOnBoard, BoardAssumption
<1>2. MaxClock \in Nat
  BY BoardAssumption
<1> DEFINE age(b) == MaxClock - place[k][b].moved
           ages == {age(b) : b \in B}
<1>3. \A b \in B : age(b) \in Nat
  BY <1>1, <1>2
<1>4. ages \in SUBSET Nat /\ ages # {}
  BY <1>3
<1>5. PICK m \in ages : \A o \in ages : m <= o
  <2> HIDE DEF ages
  <2>. QED BY <1>4, Smallest
<1> DEFINE youngest == {b \in B : age(b) = m}
<1>6. youngest \in SUBSET Nat /\ youngest # {}
  BY <1>1
<1>7. PICK b \in youngest : \A a \in youngest : b <= a
  <2> HIDE DEF youngest
  <2>. QED BY <1>6, Smallest
<1>8. b \in B /\ age(b) = m /\ \A a \in B : m <= age(a)
  BY <1>5, <1>7
<1>9. \A a \in B : a = b \/ Better(k, b, a)
  <2> TAKE a \in B
  <2>0. /\ place[k][b].moved \in Nat /\ place[k][a].moved \in Nat /\ a \in Nat /\ b \in Nat
        /\ MaxClock - place[k][b].moved <= MaxClock - place[k][a].moved
    BY <1>1, <1>8
  <2>1. place[k][a].moved <= place[k][b].moved
    BY <1>2, <2>0
  <2>2. CASE place[k][a].moved < place[k][b].moved
    BY <2>0, <2>2 DEF Better
  <2>3. CASE place[k][a].moved = place[k][b].moved
    <3>1. a \in youngest
      BY <1>8, <2>3
    <3>2. b <= a
      BY <1>7, <3>1
    <3>. QED BY <2>0, <2>3, <3>2 DEF Better
  <2>. QED BY <2>0, <2>1, <2>2, <2>3
<1>. QED BY <1>8, <1>9 DEF Best

LEMMA BetterOrders ==
  ASSUME TypeOK, NEW k \in Card
  PROVE  /\ \A a, b \in Boards(k) : ~(Better(k, a, b) /\ Better(k, b, a))
         /\ \A a, b \in Boards(k) : a = b \/ Better(k, a, b) \/ Better(k, b, a)
         /\ \A a, b, c \in Boards(k) : Better(k, a, b) /\ Better(k, b, c) => Better(k, a, c)
<1>1. ASSUME NEW b \in Boards(k) PROVE b \in Nat /\ place[k][b].moved \in Nat
  <2>1. b \in Board /\ place[k][b].moved \in 0..MaxClock
    BY RowOnBoard
  <2>. QED BY <2>1, BoardAssumption
<1>. QED BY <1>1 DEF Better

\* The board that decides among those at these positions, or none.
BestAt(k, boards, s, x) ==
  /\ s = {} => x = None
  /\ s # {} => /\ \E i \in s : x = boards[i]
               /\ \A i \in s : boards[i] = x \/ Better(k, x, boards[i])

LEMMA BestStep ==
  ASSUME TypeOK, NEW k \in Card, NEW boards, \A i \in DOMAIN boards : boards[i] \in Boards(k),
         NEW s \in SUBSET DOMAIN boards, NEW i \in s, NEW x, BestAt(k, boards, s \ {i}, x)
  PROVE  BestAt(k, boards, s, IF x = None \/ Better(k, boards[i], x) THEN boards[i] ELSE x)
<1> DEFINE to == IF x = None \/ Better(k, boards[i], x) THEN boards[i] ELSE x
<1>1. \A j \in s : boards[j] \in Boards(k) /\ boards[j] # None
  <2>1. None \notin Board /\ Boards(k) \subseteq Board
    BY BoardsFinite, BoardAssumption
  <2>. QED BY <2>1
<1>2. CASE s \ {i} = {}
  <2>1. s = {i} /\ x = None
    BY <1>2 DEF BestAt
  <2>. QED BY <2>1 DEF BestAt
<1>3. CASE s \ {i} # {}
  <2>1. /\ \E j \in s \ {i} : x = boards[j]
        /\ \A j \in s \ {i} : boards[j] = x \/ Better(k, x, boards[j])
    BY <1>3 DEF BestAt
  <2>2. x \in Boards(k) /\ x # None
    BY <1>1, <2>1
  <2>3. CASE Better(k, boards[i], x)
    <3>1. to = boards[i]
      BY <2>3
    <3>2. \A j \in s : boards[j] = boards[i] \/ Better(k, boards[i], boards[j])
      BY <1>1, <2>1, <2>2, <2>3, BetterOrders
    <3>. QED BY <3>1, <3>2 DEF BestAt
  <2>4. CASE ~Better(k, boards[i], x)
    <3>1. to = x
      BY <2>2, <2>4
    <3>2. \A j \in s : boards[j] = x \/ Better(k, x, boards[j])
      BY <1>1, <2>1, <2>2, <2>4, BetterOrders
    <3>. QED BY <2>1, <3>1, <3>2 DEF BestAt
  <2>. QED BY <2>3, <2>4
<1>. QED BY <1>2, <1>3

LEMMA BestUnique ==
  ASSUME TypeOK, NEW k \in Card, NEW boards, \A i \in DOMAIN boards : boards[i] \in Boards(k),
         NEW s \in SUBSET DOMAIN boards, NEW x, NEW y, BestAt(k, boards, s, x), BestAt(k, boards, s, y)
  PROVE  x = y
<1>1. \A j \in s : boards[j] \in Boards(k)
  OBVIOUS
<1>. QED BY <1>1, BetterOrders DEF BestAt

LEMMA BestAtExists ==
  ASSUME TypeOK, NEW k \in Card, NEW boards, \A i \in DOMAIN boards : boards[i] \in Boards(k),
         NEW s \in SUBSET DOMAIN boards
  PROVE  \E x : BestAt(k, boards, s, x)
<1>1. CASE s = {}
  <2>1. BestAt(k, boards, s, None)
    BY <1>1 DEF BestAt
  <2>. QED BY <2>1
<1>2. CASE s # {}
  <2> DEFINE B == {boards[i] : i \in s}
  <2>1. B \in SUBSET Boards(k) /\ B # {}
    BY <1>2
  <2>2. PICK b \in B : Best(k, B, b)
    <3> HIDE DEF B
    <3>. QED BY <2>1, BestExists
  <2>3. BestAt(k, boards, s, b)
    BY <1>2, <2>2 DEF Best, BestAt
  <2>. QED BY <2>3
<1>. QED BY <1>1, <1>2

LEMMA SharedIsBest ==
  ASSUME TypeOK, NEW k \in Card, NEW boards, NEW n \in Nat, DOMAIN boards = 1..n,
         \A i \in DOMAIN boards : boards[i] \in Boards(k)
  PROVE  BestAt(k, boards, DOMAIN boards, Shared(k, boards))
<1> DEFINE D == 1..n
           result(s) == CHOOSE x : BestAt(k, boards, s, x)
           K == [s \in SUBSET D |-> result(s)]
<1>1. ASSUME NEW s \in SUBSET D PROVE BestAt(k, boards, s, result(s))
  <2>1. \E x : BestAt(k, boards, s, x)
    BY BestAtExists
  <2>. QED BY <2>1, Zenon
<1>2. ASSUME NEW H, LatestOf(k, boards, H)
      PROVE  \A s \in SUBSET D : BestAt(k, boards, s, H[s])
  <2> DEFINE P == {s \in SUBSET D : BestAt(k, boards, s, H[s])}
  <2>1. {} \in P
    <3>1. H[{}] = None
      BY <1>2 DEF LatestOf
    <3>2. BestAt(k, boards, {}, H[{}])
      BY <3>1 DEF BestAt
    <3>. QED BY <3>2
  <2>2. ASSUME NEW s \in SUBSET D, s # {}, s \ {Max(s)} \in P PROVE s \in P
    <3>1. PICK i : i = Max(s)
      OBVIOUS
    <3>2. PICK x : x = H[s \ {i}]
      OBVIOUS
    <3>3. i \in s
      BY <2>2, <3>1, LargestOf
    <3>4. H[s] = IF x = None \/ Better(k, boards[i], x) THEN boards[i] ELSE x
      BY <1>2, <2>2, <3>1, <3>2 DEF LatestOf
    <3>5. BestAt(k, boards, s \ {i}, x)
      BY <2>2, <3>1, <3>2
    <3>. QED BY <3>3, <3>4, <3>5, BestStep
  <2> HIDE DEF P
  <2>3. \A s \in SUBSET (1..n) : s \in P
    BY <2>1, <2>2, PositionsOneByOne
  <2>. QED BY <2>3 DEF P
<1> HIDE DEF result
<1>3. LatestOf(k, boards, K)
  <2>1. ASSUME NEW s \in SUBSET D
        PROVE  K[s] = IF s = {} THEN None
                      ELSE IF K[s \ {Max(s)}] = None \/ Better(k, boards[Max(s)], K[s \ {Max(s)}])
                           THEN boards[Max(s)] ELSE K[s \ {Max(s)}]
    <3>0. K[s] = result(s) /\ BestAt(k, boards, s, result(s))
      BY <1>1
    <3>1. CASE s = {}
      BY <3>0, <3>1 DEF BestAt
    <3>2. CASE s # {}
      <4>1. PICK i : i = Max(s)
        OBVIOUS
      <4>2. i \in s
        BY <3>2, <4>1, LargestOf
      <4>3. PICK x : x = K[s \ {i}]
        OBVIOUS
      <4>4. BestAt(k, boards, s \ {i}, x)
        BY <1>1, <4>3
      <4>5. PICK z : z = IF x = None \/ Better(k, boards[i], x) THEN boards[i] ELSE x
        OBVIOUS
      <4>6. BestAt(k, boards, s, z)
        BY <4>2, <4>4, <4>5, BestStep
      <4>7. result(s) = z
        BY <3>0, <4>6, BestUnique
      <4> HIDE DEF K
      <4>. QED BY <3>0, <3>2, <4>1, <4>3, <4>5, <4>7
    <3>. QED BY <3>1, <3>2
  <2>2. K = [s \in SUBSET D |-> K[s]]
    OBVIOUS
  <2> HIDE DEF K
  <2>. QED BY <2>1, <2>2 DEF LatestOf
<1>4. LatestOf(k, boards, CHOOSE H : LatestOf(k, boards, H))
  <2> HIDE DEF K
  <2>. QED BY <1>3, Zenon
<1>5. D \in SUBSET D /\ DOMAIN boards = D
  OBVIOUS
<1>6. BestAt(k, boards, D, (CHOOSE H : LatestOf(k, boards, H))[D])
  BY <1>2, <1>4, <1>5
<1>. QED BY <1>5, <1>6, SharedComputed

\* The board of the last turn that is still a row's: no row moved after it.
LEMMA LastTurn ==
  ASSUME TypeOK, Shape, Turns, NEW k \in Card, Boards(k) # {}
  PROVE  LET last == turn[k][Max({i \in DOMAIN turn[k] : place[k][turn[k][i]] # None}) ] IN
         /\ last \in Boards(k)
         /\ k \notin tangled => \A b \in Boards(k) : place[k][b].moved <= place[k][last].moved
<1> DEFINE T == turn[k]
           J == {i \in DOMAIN T : place[k][T[i]] # None}
           j == Max(J)
<1>1. T \in Seq(Board)
  BY DEF Shape
<1>2. PICK n \in Nat : DOMAIN T = 1..n
  <2> HIDE DEF T
  <2>. QED BY <1>1
<1>3. \A i \in DOMAIN T : T[i] \in Board
  <2> HIDE DEF T
  <2>. QED BY <1>1
<1>4. \A i \in DOMAIN T : i \in J <=> T[i] \in Boards(k)
  BY <1>3 DEF Boards
<1>5. \A b \in Boards(k) : \E i \in DOMAIN T : T[i] = b
  BY DEF Turns, RowsHaveTurns
<1>6. J \in SUBSET (1..n) /\ J # {}
  BY <1>2, <1>4, <1>5
<1>7. j \in J /\ \A i \in J : i <= j
  <2> HIDE DEF J
  <2>. QED BY <1>6, LargestOf
<1>8. T[j] \in Boards(k)
  <2> HIDE DEF j
  <2>. QED BY <1>4, <1>7
<1>9. ASSUME NEW b \in Boards(k), k \notin tangled PROVE place[k][b].moved <= place[k][T[j]].moved
  <2> HIDE DEF j, J
  <2>1. \A i \in DOMAIN T : i > j => T[i] # b
    <3> SUFFICES ASSUME NEW i \in DOMAIN T, i > j, T[i] = b PROVE FALSE
      OBVIOUS
    <3>1. i \in J
      BY <1>4
    <3>2. i <= j /\ i \in 1..n /\ j \in 1..n
      BY <1>6, <1>7, <3>1
    <3>. QED BY <3>2
  <2>2. NotSince(k, b, j)
    BY <2>1 DEF NotSince
  <2>3. j \in DOMAIN T
    BY <1>2, <1>6, <1>7
  <2>. QED BY <1>8, <1>9, <2>2, <2>3 DEF Turns, TurnsInOrder
<1> HIDE DEF j
<1>10. T[j] \in Boards(k) /\ (k \notin tangled => \A b \in Boards(k) : place[k][b].moved <= place[k][T[j]].moved)
  BY <1>8, <1>9
<1>. QED BY <1>10 DEF j

LEMMA LastMoveDecides ==
  ASSUME TypeOK, Shape, Turns
  PROVE  SharedStateIsTheLastMove
<1> SUFFICES ASSUME NEW k \in Card, Boards(k) # {}
             PROVE  LET last == turn[k][Max({i \in DOMAIN turn[k] : place[k][turn[k][i]] # None})]
                    IN \E b \in Boards(k) :
                         /\ \A boards \in SetToSeqs(Boards(k)) : Shared(k, boards) = b
                         /\ k \notin tangled =>
                              (b = last \/ (place[k][b].moved = place[k][last].moved /\ b < last))
  BY DEF SharedStateIsTheLastMove
<1> DEFINE last == turn[k][Max({i \in DOMAIN turn[k] : place[k][turn[k][i]] # None})]
<1>1. /\ last \in Boards(k)
      /\ k \notin tangled => \A b \in Boards(k) : place[k][b].moved <= place[k][last].moved
  BY LastTurn
<1> HIDE DEF last
<1>2. PICK b \in Boards(k) : Best(k, Boards(k), b)
  BY BestExists
<1>3. ASSUME NEW boards \in SetToSeqs(Boards(k)) PROVE Shared(k, boards) = b
  <2>1. PICK n \in Nat : DOMAIN boards = 1..n
    BY BoardsFinite, SetToSeqsOnto
  <2>2. /\ \A i \in DOMAIN boards : boards[i] \in Boards(k)
        /\ \A a \in Boards(k) : \E i \in DOMAIN boards : boards[i] = a
    BY BoardsFinite, SetToSeqsOnto
  <2>3. BestAt(k, boards, DOMAIN boards, Shared(k, boards))
    BY <2>1, <2>2, SharedIsBest
  <2>4. BestAt(k, boards, DOMAIN boards, b)
    BY <1>2, <2>2 DEF Best, BestAt
  <2>. QED BY <2>2, <2>3, <2>4, BestUnique
<1>4. k \notin tangled => (b = last \/ (place[k][b].moved = place[k][last].moved /\ b < last))
  <2>1. b = last \/ Better(k, b, last)
    BY <1>1, <1>2 DEF Best
  <2>2. place[k][b].moved \in Nat /\ place[k][last].moved \in Nat
    BY <1>1, RowOnBoard
  <2>. QED BY <1>1, <2>1, <2>2 DEF Better
<1>5. /\ \A boards \in SetToSeqs(Boards(k)) : Shared(k, boards) = b
      /\ k \notin tangled => (b = last \/ (place[k][b].moved = place[k][last].moved /\ b < last))
  BY <1>3, <1>4
<1>. QED BY <1>5 DEF last

-----------------------------------------------------------------------------
(* The theorems *)

\* Every variable of Boards is of its kind.
THEOREM BoardsTypeCorrect == Spec => []TypeOK
<1>1. BoardsInv => TypeOK
  BY DEF BoardsInv
<1>. QED BY <1>1, BoardsInvariance, PTL

\* "A failed grant undoes the board rather than leaving it orphaned" (api.go:220): who was
\* told that no board was created has left nothing behind, and who was told that one was
\* administers it, whatever else is done between the insert, the grant and the undo.
THEOREM CreationsAreWhole == Spec => []CreationIsWhole
<1>1. BoardsInv => CreationIsWhole
  <2> SUFFICES ASSUME BoardsInv, NEW b \in Board
               PROVE  /\ creation[b].told = "not_created" =>
                           /\ board[b] = "gone"
                           /\ \A c \in Column : column[c] # None => column[c].board # b
                           /\ \A k \in Card : place[k][b] = None
                      /\ creation[b].told = "created" /\ creation[b].by # Service =>
                           grant[creation[b].by][b] = Administer
    BY DEF CreationIsWhole
  <2>1. TypeOK /\ WhatWasTold /\ Store
    BY DEF BoardsInv, Creators
  <2>2. creation[b].told = "not_created" => board[b] = "gone"
    BY <2>1 DEF WhatWasTold
  <2>3. board[b] = "gone" => \A c \in Column : column[c] # None => column[c].board # b
    BY <2>1, StoreParts
  <2>4. (\A c \in Column : column[c] # None => column[c].board # b) => \A k \in Card : place[k][b] = None
    BY <2>1, StoreParts, RowTypes
  <2>5. creation[b].told = "created" /\ creation[b].by # Service => grant[creation[b].by][b] = Administer
    BY <2>1 DEF WhatWasTold
  <2>. QED BY <2>2, <2>3, <2>4, <2>5
<1>. QED BY <1>1, BoardsInvariance, PTL

\* No write that looked first leaves a column on a board that is gone, or a card in a
\* column that is gone or on another board, whatever was deleted in between (db.go:80-105).
THEOREM NothingOutlives == Spec => []NothingOutlivesItsBoard
<1>1. BoardsInv => NothingOutlivesItsBoard
  BY DEF BoardsInv, Store
<1>. QED BY <1>1, BoardsInvariance, PTL

\* No edit and no reorder of columns changes a field it was not given, unless it had read
\* the row before another request saved that field (UpdateColumn, db.go).
THEOREM SavedFieldsKept == Spec => []SavedFieldsStay
<1>1. BoardsInv => SavedFieldsStay
  BY DEF BoardsInv
<1>. QED BY <1>1, BoardsInvariance, PTL

\* "The placement moved most recently wins" (work_state_selection.go:24), in whatever order
\* the rows are read, and it is that of the last request that placed the card.
THEOREM LastMoveIsShared == Spec => []SharedStateIsTheLastMove
<1>1. BoardsInv => SharedStateIsTheLastMove
  BY LastMoveDecides DEF BoardsInv
<1>. QED BY <1>1, BoardsInvariance, PTL

\* The level on a card is the rule of principal_access.go:146, in whatever order the boards
\* of the card are listed.
THEOREM CardLevels == Spec => []CardLevelIsTheRule
<1>1. BoardsInv => CardLevelIsTheRule
  <2> SUFFICES ASSUME TypeOK PROVE CardLevelIsTheRule
    BY DEF BoardsInv
  <2>. QED BY RuleOfLevels DEF CardLevelIsTheRule
<1>. QED BY <1>1, BoardsInvariance, PTL
=============================================================================
