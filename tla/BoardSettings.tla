---------------------------- MODULE BoardSettings ----------------------------
(***************************************************************************)
(* Saving one board's settings: PATCH /api/boards/{id} with or without an  *)
(* If-Match header, and DELETE (internal/api/api.go boardByID,             *)
(* internal/db/db.go UpdateBoardIfVersion).                                *)
(*                                                                         *)
(* A save reads the whole row, merges into its copy what the request       *)
(* names, and writes every column back.  What keeps two saves apart is the *)
(* row's updated_at: it is the ETag, and the UPDATE names the one it read. *)
(* The row's time comes from a wall clock that may stand still or go back. *)
(***************************************************************************)
EXTENDS Naturals

CONSTANTS
  Field, Setting,
  Save, Patch,
  Now,            \* what time.Now may answer
  Hours, Holidays, Cleared, Gone, NoVersion

ASSUME SettingsAssumption ==
  /\ \A r \in Save : /\ DOMAIN Patch[r] \subseteq Field
                     /\ \A f \in DOMAIN Patch[r] : Patch[r][f] \in Setting
  /\ Cleared \in Setting
  /\ Now \subseteq Nat
  /\ Gone \notin [Field -> Setting]
  /\ NoVersion \notin Nat

VARIABLES
  row,      \* boards: the settings of the board, or Gone
  version,  \* boards.updated_at
  save,     \* the saves: their stage, and what they and their clients have read
  answer

settingsVars == <<row, version, save, answer>>

Register == INSTANCE SettingsRegister WITH value <- row, Request <- Save

Merge(settings, patch) == Register!Merge(settings, patch)

SettingsInit ==
  /\ row \in [Field -> Setting]
  /\ row[Hours] = Cleared => row[Holidays] = Cleared
  /\ version \in Now
  /\ save = [r \in Save |-> [stage |-> "new", based |-> NoVersion, shown |-> Gone,
                            read |-> Gone, readVersion |-> NoVersion]]
  /\ answer = [r \in Save |-> "none"]

Answer(r, told) == answer' = [answer EXCEPT ![r] = told]

\* A save without If-Match, or with *.
Send(r) ==
  /\ save[r].stage = "new"
  /\ save' = [save EXCEPT ![r].stage = "read"]
  /\ UNCHANGED <<row, version, answer>>

\* A client reads the board and its ETag, and sends the save with it.
SendIfMatch(r) ==
  /\ save[r].stage = "new" /\ row # Gone
  /\ save' = [save EXCEPT ![r].stage = "read", ![r].based = version, ![r].shown = row]
  /\ UNCHANGED <<row, version, answer>>

MutReadBoard(r) ==
  /\ save[r].stage = "read"
  /\ IF row = Gone
     THEN save' = [save EXCEPT ![r].stage = "done"] /\ Answer(r, "refused")
     ELSE /\ save' = [save EXCEPT ![r].stage = "write", ![r].read = row,
                                 ![r].readVersion = version]
          /\ UNCHANGED answer
  /\ UNCHANGED <<row, version>>

\* GetBoard: 404 when it is gone, 412 when the ETag is another version's.
ReadBoard(r) ==
  /\ save[r].stage = "read"
  /\ IF row = Gone \/ save[r].based \notin {NoVersion, version}
     THEN save' = [save EXCEPT ![r].stage = "done"] /\ Answer(r, "refused")
     ELSE /\ save' = [save EXCEPT ![r].stage = "write", ![r].read = row,
                                 ![r].readVersion = version]
          /\ UNCHANGED answer
  /\ UNCHANGED <<row, version>>

MutNextVersion(now, previous) == IF now < previous THEN previous ELSE now

\* Always after the version it replaces, whatever the clock says.
NextVersion(now, previous) == IF now > previous THEN now ELSE previous + 1

MutWriteBoard(r) ==
  /\ save[r].stage = "write"
  /\ save' = [save EXCEPT ![r].stage = "done"]
  /\ IF row # Gone
     THEN /\ row' = Merge(save[r].read, Patch[r])
          /\ \E now \in Now : version' = NextVersion(now, save[r].readVersion)
          /\ Answer(r, "saved")
     ELSE Answer(r, "refused") /\ UNCHANGED <<row, version>>

\* UPDATE ... WHERE id = ? AND updated_at = ?: no row changed is ErrBoardChanged.
WriteBoard(r) ==
  /\ save[r].stage = "write"
  /\ save' = [save EXCEPT ![r].stage = "done"]
  /\ IF row # Gone /\ version = save[r].readVersion
     THEN /\ row' = Merge(save[r].read, Patch[r])
          /\ \E now \in Now : version' = NextVersion(now, save[r].readVersion)
          /\ Answer(r, "saved")
     ELSE Answer(r, "refused") /\ UNCHANGED <<row, version>>

\* A request that is not valid, or a statement that fails, is refused, and the row is as it was.
Refuse(r) ==
  /\ save[r].stage \in {"read", "write"}
  /\ save' = [save EXCEPT ![r].stage = "done"]
  /\ Answer(r, "refused")
  /\ UNCHANGED <<row, version>>

Delete ==
  /\ row # Gone
  /\ row' = Gone
  /\ UNCHANGED <<version, save, answer>>

Over == (\A r \in Save : save[r].stage = "done") /\ row = Gone /\ UNCHANGED settingsVars

SettingsNext ==
  \/ \E r \in Save :
       Send(r) \/ SendIfMatch(r) \/ ReadBoard(r) \/ WriteBoard(r) \/ Refuse(r)
  \/ Delete
  \/ Over

SettingsSpec == SettingsInit /\ [][SettingsNext]_settingsVars

-----------------------------------------------------------------------------
(* Properties *)

SaveRecord ==
  [stage : {"new", "read", "write", "done"},
   based : Nat \cup {NoVersion}, shown : [Field -> Setting] \cup {Gone},
   read : [Field -> Setting] \cup {Gone}, readVersion : Nat \cup {NoVersion}]

\* A save that is about to write has read a board, and one that is not done has not
\* been answered.
SettingsTypeOK ==
  /\ row \in [Field -> Setting] \cup {Gone}
  /\ version \in Nat
  /\ save \in [Save -> SaveRecord]
  /\ answer \in [Save -> {"none", "saved", "refused"}]
  /\ \A r \in Save :
       /\ save[r].stage # "done" <=> answer[r] = "none"
       /\ save[r].stage = "write" => save[r].read # Gone /\ save[r].readVersion # NoVersion

\* A version names one content of the row: whoever holds the current updated_at, as an
\* ETag or inside a save, has seen the settings as they are, though every save gives
\* the row a time from a clock that may repeat itself.
VersionNamesContent ==
  \A r \in Save :
    /\ save[r].based # NoVersion => /\ save[r].based <= version
                                    /\ row # Gone /\ save[r].based = version => save[r].shown = row
    /\ save[r].readVersion # NoVersion =>
         /\ save[r].readVersion <= version
         /\ row # Gone /\ save[r].readVersion = version => save[r].read = row

\* "Send that exact value in If-Match to reject a stale save": a save with If-Match that
\* is acknowledged changed the very settings its client was shown.
SavesWhatWasShown ==
  [][\A r \in Save :
       save[r].based # NoVersion /\ answer[r] = "none" /\ answer'[r] = "saved" =>
         row = save[r].shown]_settingsVars

\* "Even legacy callers cannot silently replace fields read before another update. A
\* failed save changes nothing": the two statements of a save act as the one step of
\* SettingsRegister, or are refused.
ImplementsRegister == Register!Spec
=============================================================================
