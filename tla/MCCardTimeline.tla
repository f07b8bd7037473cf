--------------------------- MODULE MCCardTimeline ---------------------------
(***************************************************************************)
(* Instances of CardTimeline: a board with an unclassified column, one for *)
(* work that waits and one for work that is done, and a second board.      *)
(***************************************************************************)
EXTENDS CardTimeline, TLC

CONSTANTS b1, b2, todo, blocked, done, other, p1, p2

MCBoard == {b1, b2}
MCColumn == {blocked, done, other}
MCOneBoard == {b1}
MCTwoColumns == {todo, blocked}

MCBoardOf == [col \in Column |-> IF col = other THEN b2 ELSE b1]
MCClassified ==
  [col \in Column |-> CASE col = blocked -> "paused" [] col = done -> "stopped" [] OTHER -> Unset]
\* Either board has a default; or the first one has none, or a pool that may be empty.
MCDefault == [b \in Board |-> IF b = b1 THEN {p1} ELSE {p2}]
MCArrivals == [b \in Board |-> IF b = b1 THEN {Nobody, p1, Skipped} ELSE {p2}]

MCAllOps == {"attach", "move", "detach", "hold", "unhold", "complete",
             "assign", "claim", "unassign"}
=============================================================================
