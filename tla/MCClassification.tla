-------------------------- MODULE MCClassification --------------------------
(***************************************************************************)
(* Instances of Classification: a board that may have been migrated with   *)
(* two axes, and the taxonomies its administrators send.                   *)
(***************************************************************************)
EXTENDS Classification, TLC

CONSTANTS c1, o1, s1, s2

MCCard == {c1}
MCOperation == {o1}
MCSubmission == {s1, s2}

Axis1(values) == [archived |-> FALSE, required |-> TRUE, values |-> [v \in values |-> FALSE]]
Axis4(values) == [Axis1(values) EXCEPT !.required = FALSE]

\* Axis 1 with values 2 and 3, of which a card has one, and axis 4 with value 5.
TwoAxes == (1 :> Axis1({2, 3})) @@ (4 :> Axis4({5}))

MCMigrated == {TwoAxes}

Edited ==
  {TwoAxes,
   [TwoAxes EXCEPT ![1].values[3] = TRUE, ![4].archived = TRUE],  \* both retired
   (4 :> Axis4({5})),                                             \* an axis left out
   (1 :> Axis1({2})) @@ (4 :> Axis4({3, 5}))}                     \* a value moved

Modes(one, four) == (1 :> one) @@ (4 :> four)

InUse == {Modes("assisted", "assisted"), Modes("assisted", "off"), Modes("discovery", "assisted"),
          Blank}

MCAnswers == {(1 :> {2}) @@ (4 :> {5}), 1 :> {3}, 1 :> {}}
=============================================================================
