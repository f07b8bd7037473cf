-------------------------- MODULE SettingsRegister --------------------------
(***************************************************************************)
(* What saving a board's settings promises: a save that is acknowledged    *)
(* changed, in one step and to the settings as they then were, exactly     *)
(* what it names; a save that is refused changed nothing (README,          *)
(* "Conditional board updates").  BoardSettings implements it.             *)
(***************************************************************************)
CONSTANTS
  Field, Request,
  Patch,          \* what each request names: a function on a part of Field
  Hours, Holidays, Cleared, Gone

VARIABLES
  value,    \* the settings of the board, or Gone
  answer    \* what each request was told

\* Fields a save does not name stay; clearing the hours clears their holidays.
Merge(settings, patch) ==
  [f \in Field |->
     IF f \in DOMAIN patch THEN patch[f]
     ELSE IF f = Holidays /\ Hours \in DOMAIN patch /\ patch[Hours] = Cleared THEN Cleared
     ELSE settings[f]]

Init == value # Gone /\ answer = [r \in Request |-> "none"]

Answer(r, told) == answer[r] = "none" /\ answer' = [answer EXCEPT ![r] = told]

Accept(r) == value # Gone /\ Answer(r, "saved") /\ value' = Merge(value, Patch[r])

Refuse(r) == Answer(r, "refused") /\ UNCHANGED value

Delete == value # Gone /\ value' = Gone /\ UNCHANGED answer

Next == Delete \/ \E r \in Request : Accept(r) \/ Refuse(r)

Spec == Init /\ [][Next]_<<value, answer>>
=============================================================================
