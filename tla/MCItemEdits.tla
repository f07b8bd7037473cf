---------------------------- MODULE MCItemEdits ----------------------------
(***************************************************************************)
(* An instance of ItemEdits: a card whose priority and ceiling change, one *)
(* whose tags do, and two boards whose ladders offer 1 or 2 dollars.  A    *)
(* ceiling of 3 is always somebody's own.                                  *)
(***************************************************************************)
EXTENDS ItemEdits, TLC

CONSTANTS k1, k2, b1, b2, t1, t2, high, low

MCRank == {high, low}

Rungs(h, l) == [p \in Rank |-> IF p = high THEN h ELSE l]
MCLadder == {Rungs(1, None), Rungs(2, 1)}

Existing(p, a, boards) ==
  [item |-> [priority |-> p, ceiling |-> a, tags |-> {}, version |-> 1], on |-> boards]
MCBefore ==
  [c \in Card |-> IF c = k1 THEN {[item |-> NoItem, on |-> {}], Existing(low, None, {b1}),
                                  Existing(low, 1, {b1, b2})}
                  ELSE {Existing(Unranked, None, {b2})}]

Asks(p, a) == [Nothing EXCEPT !.priority = p, !.ceiling = a]
MCAsk == [c \in Card |-> IF c = k1 THEN {Asks(high, Keep), Asks(Keep, 3)}
                         ELSE {[Nothing EXCEPT !.tags = {t1}]}]
MCBulk == {<<k2, k1>>}
MCTagChange == {[named |-> {t1}, adding |-> FALSE], [named |-> {t2}, adding |-> TRUE]}
=============================================================================
