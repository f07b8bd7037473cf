-------------------------- MODULE MCMessageDispatch --------------------------
(***************************************************************************)
(* Instances of MessageDispatch: a trigger on moves into one column and a  *)
(* trigger on a card-wide event, on one board or on two.                   *)
(***************************************************************************)
EXTENDS MessageDispatch, TLC

CONSTANTS b1, b2, todo, doing, t1, t2, e1, x1, x2

OneBoard == {b1}
TwoBoards == {b1, b2}
MCColumn == {todo, doing}
OneTrigger == {t1}
TwoTriggers == {t1, t2}
OneEvent == {e1}
OneEditor == {x1}
TwoEditors == {x1, x2}

MovedRule == [board |-> b1, kind |-> "card_moved", to |-> doing, ranked |-> FALSE]
WideRule(b) == [board |-> b, kind |-> "card_wide", to |-> AnyColumn, ranked |-> TRUE]

RulesOfTwoBoards == (t1 :> MovedRule) @@ (t2 :> WideRule(b2))
OneWideRule == t1 :> WideRule(b1)
=============================================================================
