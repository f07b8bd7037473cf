--------------------------- MODULE MCBoardSettings ---------------------------
(***************************************************************************)
(* An instance of BoardSettings: three saves at once, one of the name, one *)
(* that clears the hours and one that sets the holidays with their hours.  *)
(***************************************************************************)
EXTENDS BoardSettings, TLC

CONSTANTS name, hours, holidays, r1, r2, r3

MCField == {name, hours, holidays}
MCSetting == {"old", "new", "cleared"}
MCSave == {r1, r2, r3}
MCPatch ==
  (r1 :> (name :> "new")) @@ (r2 :> (hours :> "cleared"))
    @@ (r3 :> (hours :> "new" @@ holidays :> "new"))
=============================================================================
