------------------------------- MODULE MCBoards -------------------------------
(* Small instances of Boards for TLC. *)
EXTENDS Boards

CONSTANTS c1, c2, k1, p1, r1, r2, r3

MCBoard == {1, 2}
MCStates == {"doing"}

\* One board with a column and the card in it, and one that is not made yet; or two
\* boards with the card on both.
Boarded(there) ==
  [board |-> [b \in MCBoard |-> IF b = 1 \/ there THEN "there" ELSE "unborn"],
   column |-> [c \in {c1, c2} |->
     CASE c = c1 -> [board |-> 1, position |-> 0, state |-> None]
       [] c = c2 -> IF there THEN [board |-> 2, position |-> 0, state |-> "doing"] ELSE None],
   place |-> [k \in {k1} |-> [b \in MCBoard |->
     IF b = 1 THEN [column |-> c1, moved |-> 0]
     ELSE IF there THEN [column |-> c2, moved |-> 1] ELSE None]],
   grant |-> [p \in {p1} |-> [b \in MCBoard |-> IF b = 1 THEN Change ELSE 0]]]

MCStart == {Boarded(FALSE), Boarded(TRUE)}

MCPatch == {[position |-> 1, state |-> Keep], [position |-> Keep, state |-> "doing"]}

MCOrder == {<<[column |-> c1, position |-> 1], [column |-> c2, position |-> 0]>>}

MCOp == {"create_board", "create_column", "edit_column", "reorder", "attach", "move",
         "delete_board", "delete_column", "detach", "regrant"}
=============================================================================
