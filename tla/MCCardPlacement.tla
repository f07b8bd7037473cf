--------------------------- MODULE MCCardPlacement ---------------------------
(***************************************************************************)
(* Instances of CardPlacement: a board of two columns, the first with a    *)
(* WIP limit of one, and a second board with one column.                   *)
(***************************************************************************)
EXTENDS CardPlacement, TLC

CONSTANTS b1, b2, todo, done, inbox, r1, r2, r3, r4

MCRequest == {r1, r2, r3, r4}
\* Statements may fail during the second of the four requests.
MCFallible == {r2}

MCBoard == {b1, b2}
MCColumn == {todo, done, inbox}

MCBoardOf == [col \in Column |-> IF col = inbox THEN b2 ELSE b1]
MCWipLimit == [col \in Column |-> IF col = done THEN Unlimited ELSE 1]
MCAutoStatus ==
  [col \in Column |-> CASE col = todo -> "open" [] col = done -> "done" [] OTHER -> NoStatus]
=============================================================================
