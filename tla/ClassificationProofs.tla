------------------------ MODULE ClassificationProofs ------------------------
(***************************************************************************)
(* Proofs about Classification for every board history: any taxonomies,    *)
(* policies, publications and reviewers, and any number of each.           *)
(*                                                                         *)
(* PolicyInv: the policy and the taxonomy in force fit.  LabelInv: labels  *)
(* are the reviews read in order.  RulesInv: identifiers are handed out    *)
(* once and for good, entries of a taxonomy stay until it is cleared, and  *)
(* no revision a decision or a review names ever changes.                  *)
(***************************************************************************)
EXTENDS Classification, FiniteSetTheorems, TLAPS

-----------------------------------------------------------------------------
(* The policy fits the taxonomy *)

Revisions ==
  /\ taxonomies \in Seq(Sendable \cup Migrated \cup {Blank})
  /\ policies \in Seq([modes : Rules, taxonomy : Nat])

LEMMA NoneIsBlank ==
  /\ DOMAIN Blank = {}
  /\ \A t \in Sendable \cup Migrated : t # Blank
  BY ClassificationAssumption DEF Blank

LEMMA NewestTaxonomy ==
  ASSUME Revisions, NEW t \in Sendable \cup Migrated \cup {Blank},
         taxonomies' = Append(taxonomies, t)
  PROVE  Current' = t /\ taxonomies' \in Seq(Sendable \cup Migrated \cup {Blank})
<1>1. /\ taxonomies' \in Seq(Sendable \cup Migrated \cup {Blank})
      /\ Len(taxonomies') = Len(taxonomies) + 1
      /\ taxonomies'[Len(taxonomies) + 1] = t
  BY DEF Revisions
<1>2. taxonomies' # <<>>
  BY <1>1 DEF Revisions
<1>3. QED
  BY <1>1, <1>2 DEF Current

LEMMA NewestPolicy ==
  ASSUME Revisions, NEW p \in [modes : Rules, taxonomy : Nat],
         policies' = Append(policies, p)
  PROVE  Policy' = p.modes /\ policies' \in Seq([modes : Rules, taxonomy : Nat])
<1>1. /\ policies' \in Seq([modes : Rules, taxonomy : Nat])
      /\ Len(policies') = Len(policies) + 1
      /\ policies'[Len(policies) + 1] = p
  BY DEF Revisions
<1>2. policies' # <<>>
  BY <1>1 DEF Revisions
<1>3. QED
  BY <1>1, <1>2 DEF Policy

\* The two revision histories change by these three operations alone.
LEMMA RevisionsStep ==
  ASSUME Next
  PROVE  \/ \E sent \in Sendable : SetBoardTaxonomy(Len(taxonomies), sent)
         \/ ClearBoardTaxonomy(Len(taxonomies))
         \/ \E modes \in Rules : SetBoardClassificationPolicy(Len(policies), modes)
         \/ UNCHANGED <<taxonomies, policies>>
<1>1. CASE \E expected \in 0..Len(taxonomies) :
             \/ \E sent \in Sendable : SetBoardTaxonomy(expected, sent)
             \/ ClearBoardTaxonomy(expected)
  BY <1>1 DEF SetBoardTaxonomy, ClearBoardTaxonomy
<1>2. CASE \E expected \in 0..Len(policies), modes \in Rules :
             SetBoardClassificationPolicy(expected, modes)
  BY <1>2 DEF SetBoardClassificationPolicy
<1>3. ASSUME NEW op, NEW card, NEW t, NEW p, NEW selections,
             PublishClassificationDecision(op, card, t, p, selections)
      PROVE  UNCHANGED <<taxonomies, policies>>
  BY <1>3 DEF PublishClassificationDecision, settings
<1>4. ASSUME NEW submission, NEW d, NEW action, NEW axes, NEW corrections, NEW supersedes,
             NEW expected, ReviewClassificationDecision(submission, d, action, axes, corrections,
                                                        supersedes, expected)
      PROVE  UNCHANGED <<taxonomies, policies>>
  BY <1>4 DEF ReviewClassificationDecision, settings
<1>5. ASSUME NEW card, ReadLabels(card)
      PROVE  UNCHANGED <<taxonomies, policies>>
  BY <1>5 DEF ReadLabels, settings
<1>6. CASE Refused
  BY <1>6 DEF Refused, vars
<1>7. QED
  BY <1>1, <1>2, <1>3, <1>4, <1>5, <1>6 DEF Next

PolicyInv == Revisions /\ PolicyFitsTaxonomy

LEMMA PolicyInit == Init => PolicyInv
<1> SUFFICES ASSUME Init PROVE PolicyInv
  OBVIOUS
<1>1. Policy = Blank /\ policies = <<>>
  BY DEF Init, Policy
<1>2. taxonomies \in Seq(Sendable \cup Migrated \cup {Blank})
  <2>1. taxonomies = <<>> \/ \E t \in Migrated : taxonomies = <<t>>
    BY Zenon DEF Init
  <2> DEFINE S == Sendable \cup Migrated \cup {Blank}
  <2>2. taxonomies = <<>> \/ \E t \in S : taxonomies = <<t>>
    BY <2>1
  <2> HIDE DEF S
  <2>3. <<>> \in Seq(S) /\ \A t \in S : <<t>> \in Seq(S)
    OBVIOUS
  <2>4. taxonomies \in Seq(S)
    BY <2>2, <2>3, Zenon
  <2>5. QED
    BY <2>4 DEF S
<1>3. PolicyFitsTaxonomy
  BY <1>1, NoneIsBlank DEF PolicyFitsTaxonomy, Fits
<1>4. QED
  BY <1>1, <1>2, <1>3 DEF PolicyInv, Revisions

LEMMA PolicyStep == PolicyInv /\ [Next]_vars => PolicyInv'
<1> SUFFICES ASSUME PolicyInv, [Next]_vars PROVE PolicyInv'
  OBVIOUS
<1> USE DEF PolicyInv
<1>1. ASSUME NEW sent \in Sendable, SetBoardTaxonomy(Len(taxonomies), sent)
      PROVE  PolicyInv'
  <2>1. /\ taxonomies' = Append(taxonomies, sent) /\ UNCHANGED policies
        /\ policies # <<>> => Fits(Policy, sent)
    BY <1>1 DEF SetBoardTaxonomy
  <2>2. Current' = sent /\ Revisions' /\ Policy' = Policy
    BY <2>1, NewestTaxonomy DEF Revisions, Policy
  <2>3. Fits(Policy, sent)
    BY <2>1, NoneIsBlank DEF Policy, Fits
  <2>4. QED
    BY <2>2, <2>3, NoneIsBlank DEF PolicyFitsTaxonomy
<1>2. CASE ClearBoardTaxonomy(Len(taxonomies))
  <2>1. /\ taxonomies' = Append(taxonomies, Blank) /\ UNCHANGED policies
        /\ \A a \in DOMAIN Policy : Policy[a] = "off"
    BY <1>2 DEF ClearBoardTaxonomy
  <2>2. Current' = Blank /\ Revisions' /\ Policy' = Policy
    BY <2>1, NewestTaxonomy DEF Revisions, Policy
  <2>3. QED
    BY <2>1, <2>2 DEF PolicyFitsTaxonomy
<1>3. ASSUME NEW modes \in Rules, SetBoardClassificationPolicy(Len(policies), modes)
      PROVE  PolicyInv'
  <2> DEFINE p == [modes |-> modes, taxonomy |-> Len(taxonomies)]
  <2>1. policies' = Append(policies, p) /\ UNCHANGED taxonomies
        /\ Current # Blank /\ Fits(modes, Current)
    BY <1>3 DEF SetBoardClassificationPolicy
  <2>2. p \in [modes : Rules, taxonomy : Nat] /\ p.modes = modes
    BY DEF Revisions
  <2> HIDE DEF p
  <2>3. Policy' = modes /\ Revisions' /\ Current' = Current
    BY <2>1, <2>2, NewestPolicy DEF Revisions, Current
  <2>4. QED
    BY <2>1, <2>3 DEF PolicyFitsTaxonomy
<1>4. CASE UNCHANGED <<taxonomies, policies>>
  BY <1>4 DEF Revisions, PolicyFitsTaxonomy, Current, Policy
<1>5. CASE UNCHANGED vars
  BY <1>4, <1>5 DEF vars
<1>6. QED
  BY <1>1, <1>2, <1>3, <1>4, <1>5, RevisionsStep

\* Two documents saved under two If-Matches never come apart: the policy in force
\* always fits the taxonomy in force.
THEOREM PolicyFits == Spec => []PolicyFitsTaxonomy
<1>1. PolicyInv => PolicyFitsTaxonomy
  BY DEF PolicyInv
<1>2. QED
  BY <1>1, PolicyInit, PolicyStep, PTL DEF Spec

-----------------------------------------------------------------------------
(* Labels and reviews *)

Labelling == UNION {[some -> [values : SUBSET Nat, origin : Nat]] : some \in SUBSET Nat}

DecisionRecord == [operation : Operation, card : Card, taxonomy : Nat, policy : Nat,
                   selections : Answers]
ReviewRecord == [submission : Submission, decision : Nat, action : ReviewAction,
                 axes : SUBSET Nat, corrections : Answers \cup {Blank},
                 supersedes : SUBSET Nat, expected : Nat, resulting : Nat,
                 taxonomy : Nat, policy : Nat]
PageRecord == [stage : {"asked", "half", "shown"}, revision : Nat, labels : Labelling]

Records ==
  /\ decisions \in Seq(DecisionRecord)
  /\ reviews \in Seq(ReviewRecord)
  /\ \A i \in DOMAIN reviews : reviews[i].decision \in DOMAIN decisions
  /\ labels \in [Card -> Labelling]
  /\ labelsRevision \in [Card -> Nat]
  /\ page \in [Card -> PageRecord]

\* The revision of a card's labels has kept up with every review of the card, and
\* no page is ahead of it.
RevisionsKeepUp ==
  /\ \A i \in DOMAIN reviews : reviews[i].resulting <= labelsRevision[CardOf(i)]
  /\ \A c \in Card : page[c].stage # "asked" => page[c].revision <= labelsRevision[c]

LabelInv ==
  /\ Revisions /\ Records /\ RevisionsKeepUp
  /\ LabelsReplayReviews /\ NoCorrectionOverwrittenUnseen /\ AcceptedMeansSeen

\* The axes in force are numbers, and so are the values a review may choose.
LEMMA AxesInForce ==
  ASSUME Revisions
  PROVE  /\ DOMAIN Current \subseteq Nat
         /\ \A a \in DOMAIN Current : DOMAIN Current[a].values \subseteq Nat
<1>1. Current \in Sendable \cup Migrated \cup {Blank}
  BY DEF Revisions, Current
<1>2. CASE Current = Blank
  BY <1>2, NoneIsBlank
<1>3. CASE Current \in Sendable \cup Migrated
  <2>1. Identifiers(Current) \subseteq 1..MaxIdentifiers
    BY <1>3, ClassificationAssumption
  <2>2. 1..MaxIdentifiers \subseteq Nat
    BY ClassificationAssumption
  <2>3. QED
    BY <2>1, <2>2 DEF Identifiers, Values
<1>4. QED
  BY <1>1, <1>2, <1>3

\* A step that neither reviews nor touches labels, and forgets no decision, leaves
\* what every review set as it was.
LEMMA HistoryKept ==
  ASSUME Records, UNCHANGED reviews,
         \A d \in DOMAIN decisions : d \in DOMAIN decisions' /\ decisions'[d] = decisions[d]
  PROVE  /\ \A i \in DOMAIN reviews : SetByReview(i)' = SetByReview(i) /\ CardOf(i)' = CardOf(i)
         /\ \A c, a : Setting(c, a)' = Setting(c, a)
<1>1. ASSUME NEW i \in DOMAIN reviews
      PROVE  SetByReview(i)' = SetByReview(i) /\ CardOf(i)' = CardOf(i)
  <2>1. reviews'[i] = reviews[i] /\ reviews[i].decision \in DOMAIN decisions
    BY DEF Records
  <2>2. decisions'[reviews[i].decision] = decisions[reviews[i].decision]
    BY <2>1
  <2>3. QED
    BY <2>1, <2>2 DEF SetByReview, SetBy, CardOf
<1>2. QED
  BY <1>1 DEF Setting

LEMMA QuietStep ==
  ASSUME LabelInv, UNCHANGED <<reviews, labels, labelsRevision>>, Revisions', Records',
         \A d \in DOMAIN decisions : d \in DOMAIN decisions' /\ decisions'[d] = decisions[d]
  PROVE  /\ LabelsReplayReviews' /\ NoCorrectionOverwrittenUnseen'
         /\ \A i \in DOMAIN reviews' : reviews'[i].resulting <= labelsRevision'[CardOf(i)']
<1>1. /\ \A i \in DOMAIN reviews : SetByReview(i)' = SetByReview(i) /\ CardOf(i)' = CardOf(i)
      /\ \A c, a : Setting(c, a)' = Setting(c, a)
  BY HistoryKept DEF LabelInv
<1>2. NoCorrectionOverwrittenUnseen'
  BY <1>1 DEF LabelInv, NoCorrectionOverwrittenUnseen, Setting
<1>3. LabelsReplayReviews'
  <2>1. ASSUME NEW c \in Card
        PROVE  {i \in DOMAIN reviews : CardOf(i)' = c /\ SetByReview(i)' # Blank}
                 = {i \in DOMAIN reviews : CardOf(i) = c /\ SetByReview(i) # Blank}
    BY <1>1
  <2>2. ASSUME NEW c \in Card, NEW a \in DOMAIN labels[c]
        PROVE  \E i \in Setting(c, a)' :
                 /\ labels[c][a].origin = i /\ \A j \in Setting(c, a)' : j <= i
                 /\ labels[c][a].values = SetByReview(i)'[a]
    <3>1. PICK i \in Setting(c, a) :
            /\ labels[c][a].origin = i /\ \A j \in Setting(c, a) : j <= i
            /\ labels[c][a].values = SetByReview(i)[a]
      BY DEF LabelInv, LabelsReplayReviews
    <3>2. SetByReview(i)' = SetByReview(i)
      BY <1>1 DEF Setting
    <3>3. QED
      BY <1>1, <3>1, <3>2
  <2>3. ASSUME NEW c \in Card, NEW i \in DOMAIN reviews, CardOf(i)' = c
        PROVE  DOMAIN SetByReview(i)' \subseteq DOMAIN labels[c]
    BY <1>1, <2>3 DEF LabelInv, LabelsReplayReviews
  <2>4. ASSUME NEW c \in Card
        PROVE  labelsRevision[c] =
                 Cardinality({i \in DOMAIN reviews : CardOf(i)' = c /\ SetByReview(i)' # Blank})
    BY <2>1 DEF LabelInv, LabelsReplayReviews
  <2>5. QED
    BY <2>2, <2>3, <2>4 DEF LabelsReplayReviews
<1>4. \A i \in DOMAIN reviews' : reviews'[i].resulting <= labelsRevision'[CardOf(i)']
  BY <1>1 DEF LabelInv, RevisionsKeepUp
<1>5. QED
  BY <1>2, <1>3, <1>4

\* What a review sets names axes and values by their numbers, and nothing is set
\* by rejecting alone.
LEMMA SetShape ==
  ASSUME Revisions, NEW d, NEW action \in ReviewAction, NEW axes \in SUBSET DOMAIN Current,
         NEW corrections, axes # {}, ReviewedValues(d, action, axes, corrections),
         NEW set, set = SetBy(d, action, axes, corrections)
  PROVE  /\ DOMAIN set = IF action = "reject" THEN {} ELSE axes
         /\ DOMAIN set \subseteq Nat
         /\ \A a \in DOMAIN set : set[a] \in SUBSET Nat
         /\ set = Blank <=> DOMAIN set = {}
<1>1. CASE action = "reject"
  BY <1>1, NoneIsBlank DEF SetBy
<1>2. CASE action # "reject"
  <2>1. DOMAIN set = axes
    BY <1>2 DEF SetBy
  <2>2. \A a \in axes : Chosen(Current[a], set[a])
    BY <1>2 DEF ReviewedValues
  <2>3. \A a \in axes : \A v \in set[a] : v \in Nat
    BY <2>2, AxesInForce DEF Chosen
  <2>4. axes \subseteq Nat
    BY AxesInForce
  <2>5. QED
    BY <1>2, <2>1, <2>3, <2>4, NoneIsBlank
<1>3. QED
  BY <1>1, <1>2

LEMMA RelabelledShape ==
  ASSUME Records, NEW card \in Card, NEW n \in Nat, NEW set,
         DOMAIN set \subseteq Nat, \A a \in DOMAIN set : set[a] \in SUBSET Nat
  PROVE  /\ Relabelled(card, set, n) \in Labelling
         /\ DOMAIN Relabelled(card, set, n) = DOMAIN labels[card] \cup DOMAIN set
         /\ \A a \in DOMAIN set :
              Relabelled(card, set, n)[a] = [values |-> set[a], origin |-> n]
         /\ \A a \in DOMAIN labels[card] \ DOMAIN set :
              Relabelled(card, set, n)[a] = labels[card][a]
         /\ DOMAIN set = {} => Relabelled(card, set, n) = labels[card]
<1> DEFINE some == DOMAIN labels[card] \cup DOMAIN set
<1>1. /\ DOMAIN labels[card] \in SUBSET Nat
      /\ labels[card] \in [DOMAIN labels[card] -> [values : SUBSET Nat, origin : Nat]]
  <2>1. labels[card] \in Labelling
    BY DEF Records
  <2>2. PICK s \in SUBSET Nat : labels[card] \in [s -> [values : SUBSET Nat, origin : Nat]]
    BY <2>1 DEF Labelling
  <2>3. QED
    BY <2>2
<1>2. some \in SUBSET Nat
  BY <1>1
<1>3. \A a \in some : (IF a \in DOMAIN set THEN [values |-> set[a], origin |-> n]
                       ELSE labels[card][a]) \in [values : SUBSET Nat, origin : Nat]
  BY <1>1
<1>4. Relabelled(card, set, n) \in [some -> [values : SUBSET Nat, origin : Nat]]
  BY <1>3 DEF Relabelled
<1>5. Relabelled(card, set, n) \in Labelling
  BY <1>2, <1>4 DEF Labelling
<1>6. DOMAIN set = {} => Relabelled(card, set, n) = labels[card]
  BY <1>1 DEF Relabelled
<1>7. QED
  BY <1>5, <1>6 DEF Relabelled

LEMMA ReviewStep ==
  ASSUME LabelInv, NEW submission \in Submission, NEW d \in DOMAIN decisions,
         NEW action \in ReviewAction, NEW axes \in SUBSET DOMAIN Current,
         NEW corrections \in Answers \cup {Blank}, NEW supersedes \in SUBSET DOMAIN reviews,
         NEW expected \in Nat,
         ReviewClassificationDecision(submission, d, action, axes, corrections, supersedes,
                                      expected)
  PROVE  LabelInv'
<1>0. PICK n \in Nat : n = Len(reviews) + 1
  BY DEF LabelInv, Records
<1> DEFINE card == decisions[d].card
           set == SetBy(d, action, axes, corrections)
           resulting == labelsRevision[card] + IF set = Blank THEN 0 ELSE 1
           r == [submission |-> submission, decision |-> d, action |-> action, axes |-> axes,
                 corrections |-> corrections, supersedes |-> supersedes,
                 expected |-> expected, resulting |-> resulting,
                 taxonomy |-> Len(taxonomies), policy |-> Len(policies)]
<1>1. /\ axes # {} /\ ReviewedValues(d, action, axes, corrections)
      /\ expected = labelsRevision[card]
      /\ supersedes = Replaced(card, DOMAIN set)
      /\ reviews' = Append(reviews, r)
      /\ labels' = [labels EXCEPT ![card] = Relabelled(card, set, n)]
      /\ labelsRevision' = [labelsRevision EXCEPT ![card] = resulting]
      /\ UNCHANGED <<taxonomies, policies, decisions, page>>
  BY <1>0 DEF ReviewClassificationDecision, settings
<1>2. /\ decisions \in Seq(DecisionRecord) /\ card \in Card /\ d \in Nat
      /\ reviews \in Seq(ReviewRecord) /\ n \in Nat
      /\ \A i \in DOMAIN reviews : i < n /\ i \in Nat
      /\ labels \in [Card -> Labelling] /\ labelsRevision \in [Card -> Nat]
  <2>1. /\ decisions \in Seq(DecisionRecord) /\ reviews \in Seq(ReviewRecord)
        /\ labels \in [Card -> Labelling] /\ labelsRevision \in [Card -> Nat]
    BY DEF LabelInv, Records
  <2>2. decisions[d] \in DecisionRecord /\ d \in Nat
    BY <2>1
  <2>3. card \in Card
    BY <2>2 DEF DecisionRecord
  <2>4. n \in Nat /\ \A i \in DOMAIN reviews : i < n /\ i \in Nat
    BY <1>0, <2>1
  <2>5. QED
    BY <2>1, <2>2, <2>3, <2>4
<1>3. /\ DOMAIN set = IF action = "reject" THEN {} ELSE axes
      /\ DOMAIN set \subseteq Nat
      /\ \A a \in DOMAIN set : set[a] \in SUBSET Nat
      /\ set = Blank <=> DOMAIN set = {}
  BY <1>1, SetShape DEF LabelInv
<1>4. resulting \in Nat /\ labelsRevision[card] <= resulting
      /\ (DOMAIN set = {} => resulting = labelsRevision[card])
      /\ (DOMAIN set # {} => resulting = labelsRevision[card] + 1)
  BY <1>2, <1>3
<1>5. r \in ReviewRecord
  <2>1. axes \in SUBSET Nat /\ supersedes \in SUBSET Nat
    BY <1>2, AxesInForce DEF LabelInv
  <2>2. Len(taxonomies) \in Nat /\ Len(policies) \in Nat
    BY DEF LabelInv, Revisions
  <2> HIDE DEF resulting
  <2>3. QED
    BY <1>2, <1>4, <2>1, <2>2 DEF ReviewRecord
<1>6. /\ r.decision = d /\ r.action = action /\ r.axes = axes /\ r.corrections = corrections
      /\ r.supersedes = supersedes /\ r.expected = expected /\ r.resulting = resulting
  OBVIOUS
<1> DEFINE relabelled == Relabelled(card, set, n)
<1>7. /\ relabelled \in Labelling
      /\ DOMAIN relabelled = DOMAIN labels[card] \cup DOMAIN set
      /\ \A a \in DOMAIN set : relabelled[a] = [values |-> set[a], origin |-> n]
      /\ \A a \in DOMAIN labels[card] \ DOMAIN set : relabelled[a] = labels[card][a]
      /\ DOMAIN set = {} => relabelled = labels[card]
  <2> HIDE DEF set, card
  <2>1. QED
    BY <1>2, <1>3, RelabelledShape DEF LabelInv
<1> HIDE DEF r, resulting, relabelled
<1>8. /\ reviews' \in Seq(ReviewRecord)
      /\ DOMAIN reviews' = DOMAIN reviews \cup {n} /\ n \notin DOMAIN reviews
      /\ reviews'[n] = r /\ \A i \in DOMAIN reviews : reviews'[i] = reviews[i]
  BY <1>0, <1>1, <1>2, <1>5
<1>9. /\ \A i \in DOMAIN reviews : SetByReview(i)' = SetByReview(i) /\ CardOf(i)' = CardOf(i)
      /\ SetByReview(n)' = set /\ CardOf(n)' = card
  <2>1. \A i \in DOMAIN reviews : SetByReview(i)' = SetByReview(i) /\ CardOf(i)' = CardOf(i)
    BY <1>1, <1>8 DEF SetByReview, SetBy, CardOf
  <2>2. /\ reviews'[n].decision = d /\ reviews'[n].action = action
        /\ reviews'[n].axes = axes /\ reviews'[n].corrections = corrections
    BY <1>6, <1>8
  <2>3. CardOf(n)' = card
    BY <1>1, <2>2 DEF CardOf
  <2>4. SetByReview(n)' = set
    BY <1>1, <2>2 DEF SetByReview, SetBy
  <2>5. QED
    BY <2>1, <2>3, <2>4
<1>10. /\ labels' \in [Card -> Labelling] /\ labels'[card] = relabelled
       /\ \A c \in Card \ {card} : labels'[c] = labels[c]
       /\ labelsRevision' \in [Card -> Nat] /\ labelsRevision'[card] = resulting
       /\ \A c \in Card \ {card} : labelsRevision'[c] = labelsRevision[c]
  <2> HIDE DEF card, set
  <2>1. QED
    BY <1>1, <1>2, <1>4, <1>7 DEF relabelled
<1>11. ASSUME NEW c \in Card, NEW a
       PROVE  Setting(c, a)' = Setting(c, a) \cup (IF c = card /\ a \in DOMAIN set THEN {n} ELSE {})
  <2> HIDE DEF set, card
  <2>1. QED
    BY <1>8, <1>9 DEF Setting
<1>12. ASSUME NEW i \in DOMAIN reviews
       PROVE  CardOf(i) \in Card
  <2>1. decisions[reviews[i].decision] \in DecisionRecord
    BY DEF LabelInv, Records
  <2>2. QED
    BY <2>1 DEF CardOf, DecisionRecord
<1> HIDE DEF set, card
<1>13. Revisions' /\ Records'
  BY <1>1, <1>2, <1>6, <1>8, <1>10 DEF LabelInv, Revisions, Records
<1>14. RevisionsKeepUp'
  <2>1. ASSUME NEW c \in Card
        PROVE  labelsRevision[c] <= labelsRevision'[c]
    <3>1. CASE c = card
      BY <1>4, <1>10, <3>1
    <3>2. CASE c # card
      <4>1. labelsRevision'[c] = labelsRevision[c] /\ labelsRevision[c] \in Nat
        BY <1>2, <1>10, <3>2
      <4>2. QED
        BY <4>1
    <3>3. QED
      BY <3>1, <3>2
  <2>2. ASSUME NEW i \in DOMAIN reviews
        PROVE  reviews'[i].resulting <= labelsRevision'[CardOf(i)']
    <3>1. reviews[i].resulting \in Nat
      <4>1. reviews[i] \in ReviewRecord
        BY <1>2
      <4>2. QED
        BY <4>1 DEF ReviewRecord
    <3>2. reviews[i].resulting <= labelsRevision[CardOf(i)] /\ labelsRevision[CardOf(i)] \in Nat
      BY <1>2, <1>12 DEF LabelInv, RevisionsKeepUp
    <3>3. labelsRevision'[CardOf(i)] \in Nat /\ labelsRevision[CardOf(i)] <= labelsRevision'[CardOf(i)]
      BY <1>10, <1>12, <2>1
    <3>4. reviews[i].resulting <= labelsRevision'[CardOf(i)]
      BY <3>1, <3>2, <3>3
    <3>5. QED
      BY <1>8, <1>9, <3>4
  <2>3. reviews'[n].resulting <= labelsRevision'[CardOf(n)']
    BY <1>4, <1>6, <1>8, <1>9, <1>10
  <2>4. ASSUME NEW c \in Card, page[c].stage # "asked"
        PROVE  page[c].revision <= labelsRevision'[c]
    <3>1. page[c].revision \in Nat
      BY DEF LabelInv, Records, PageRecord
    <3>2. page[c].revision <= labelsRevision[c] /\ labelsRevision[c] \in Nat
      BY <1>2, <2>4 DEF LabelInv, RevisionsKeepUp
    <3>3. QED
      BY <1>10, <2>1, <3>1, <3>2
  <2>5. QED
    BY <1>1, <1>8, <2>2, <2>3, <2>4 DEF RevisionsKeepUp
<1>15. LabelsReplayReviews'
  <2>1. ASSUME NEW c \in Card, NEW a \in DOMAIN labels'[c]
        PROVE  \E i \in Setting(c, a)' :
                 /\ labels'[c][a].origin = i /\ \A j \in Setting(c, a)' : j <= i
                 /\ labels'[c][a].values = SetByReview(i)'[a]
    <3>1. CASE c = card /\ a \in DOMAIN set
      <4>1. labels'[c][a].origin = n /\ labels'[c][a].values = set[a]
        BY <1>7, <1>10, <3>1
      <4>2. Setting(c, a)' = Setting(c, a) \cup {n}
        BY <1>11, <3>1
      <4>3. \A j \in Setting(c, a) \cup {n} : j <= n
        BY <1>2 DEF Setting
      <4>4. QED
        BY <1>9, <4>1, <4>2, <4>3
    <3>2. CASE ~(c = card /\ a \in DOMAIN set)
      <4>1. a \in DOMAIN labels[c] /\ labels'[c][a] = labels[c][a]
        BY <1>7, <1>10, <3>2
      <4>2. Setting(c, a)' = Setting(c, a)
        BY <1>11, <3>2
      <4>3. PICK i \in Setting(c, a) :
              /\ labels[c][a].origin = i /\ \A j \in Setting(c, a) : j <= i
              /\ labels[c][a].values = SetByReview(i)[a]
        BY <4>1 DEF LabelInv, LabelsReplayReviews
      <4>4. SetByReview(i)' = SetByReview(i)
        BY <1>9 DEF Setting
      <4>5. QED
        BY <4>1, <4>2, <4>3, <4>4
    <3>3. QED
      BY <3>1, <3>2
  <2>2. ASSUME NEW c \in Card, NEW i \in DOMAIN reviews', CardOf(i)' = c
        PROVE  DOMAIN SetByReview(i)' \subseteq DOMAIN labels'[c]
    <3>1. DOMAIN labels[c] \subseteq DOMAIN labels'[c]
      BY <1>7, <1>10
    <3>2. CASE i = n
      BY <1>7, <1>9, <1>10, <2>2, <3>2
    <3>3. CASE i \in DOMAIN reviews
      <4>1. SetByReview(i)' = SetByReview(i) /\ CardOf(i) = c
        BY <1>9, <2>2, <3>3
      <4>2. DOMAIN SetByReview(i) \subseteq DOMAIN labels[c]
        BY <3>3, <4>1 DEF LabelInv, LabelsReplayReviews
      <4>3. QED
        BY <3>1, <4>1, <4>2
    <3>4. QED
      BY <1>8, <3>2, <3>3
  <2>3. ASSUME NEW c \in Card
        PROVE  labelsRevision'[c] =
                 Cardinality({i \in DOMAIN reviews' : CardOf(i)' = c /\ SetByReview(i)' # Blank})
    <3> DEFINE before == {i \in DOMAIN reviews : CardOf(i) = c /\ SetByReview(i) # Blank}
    <3>1. {i \in DOMAIN reviews' : CardOf(i)' = c /\ SetByReview(i)' # Blank}
            = before \cup (IF c = card /\ set # Blank THEN {n} ELSE {})
      BY <1>8, <1>9
    <3>2. labelsRevision[c] = Cardinality(before)
      BY DEF LabelInv, LabelsReplayReviews
    <3>3. IsFiniteSet(before) /\ n \notin before
      <4>1. DOMAIN reviews = 1..Len(reviews) /\ Len(reviews) \in Nat
        BY <1>2
      <4>2. IsFiniteSet(DOMAIN reviews)
        BY <4>1, FS_Interval
      <4>3. before \subseteq DOMAIN reviews
        OBVIOUS
      <4>4. QED
        BY <1>8, <4>2, <4>3, FS_Subset
    <3> HIDE DEF before
    <3>4. Cardinality(before \cup {n}) = Cardinality(before) + 1
      BY <3>3, FS_AddElement
    <3>5. QED
      BY <1>3, <1>4, <1>10, <3>1, <3>2, <3>4
  <2>4. QED
    BY <2>1, <2>2, <2>3 DEF LabelsReplayReviews
<1>16. NoCorrectionOverwrittenUnseen'
  <2> SUFFICES ASSUME NEW c \in Card, NEW a \in DOMAIN labels'[c],
                      NEW i \in Setting(c, a)', NEW j \in Setting(c, a)', i < j
      PROVE  /\ reviews'[i].resulting <= reviews'[j].expected
             /\ (\A k \in Setting(c, a)' : ~(i < k /\ k < j)) => i \in reviews'[j].supersedes
    BY DEF NoCorrectionOverwrittenUnseen
  <2>1. i \in DOMAIN reviews /\ i \in Setting(c, a) /\ reviews'[i] = reviews[i]
    <3>1. i # n
      BY <1>2, <1>11 DEF Setting
    <3>2. QED
      BY <1>8, <1>11, <3>1 DEF Setting
  <2>2. a \in DOMAIN labels[c] /\ CardOf(i) = c
    BY <2>1 DEF LabelInv, LabelsReplayReviews, Setting
  <2>3. CASE j = n
    <3>1. c = card /\ a \in DOMAIN set
      BY <1>8, <1>11, <2>3 DEF Setting
    <3>2. reviews[i].resulting <= expected
      BY <1>1, <2>1, <2>2, <3>1 DEF LabelInv, RevisionsKeepUp
    <3>3. ASSUME \A k \in Setting(c, a)' : ~(i < k /\ k < j)
          PROVE  i \in supersedes
      <4> DEFINE o == labels[c][a].origin
      <4>1. o \in Setting(c, a) /\ i <= o
        BY <2>1, <2>2 DEF LabelInv, LabelsReplayReviews
      <4>2. o \in DOMAIN reviews /\ o < n /\ o \in Nat /\ i \in Nat
        BY <1>2, <2>1, <4>1 DEF Setting
      <4>3. o \in Setting(c, a)'
        BY <1>11, <4>1
      <4>4. ~(i < o)
        BY <2>3, <3>3, <4>2, <4>3
      <4>5. i = o
        BY <4>1, <4>2, <4>4
      <4>6. o \in Replaced(card, DOMAIN set)
        BY <2>2, <3>1 DEF Replaced
      <4>7. QED
        BY <1>1, <4>5, <4>6
    <3>4. QED
      BY <1>6, <1>8, <2>1, <2>3, <3>2, <3>3
  <2>4. CASE j # n
    <3>1. j \in Setting(c, a) /\ reviews'[j] = reviews[j] /\ Setting(c, a) \subseteq Setting(c, a)'
      BY <1>8, <1>11, <2>4 DEF Setting
    <3>2. QED
      BY <2>1, <2>2, <3>1 DEF LabelInv, NoCorrectionOverwrittenUnseen
  <2>5. QED
    BY <2>3, <2>4
<1>17. AcceptedMeansSeen'
  <2> SUFFICES ASSUME NEW c \in Card, page[c].stage = "shown",
                      page[c].revision = labelsRevision'[c]
      PROVE  page[c].labels = labels'[c]
    BY <1>1 DEF AcceptedMeansSeen
  <2>1. page[c].revision <= labelsRevision[c] /\ page[c].revision \in Nat
        /\ labelsRevision[c] \in Nat
    BY <1>2 DEF LabelInv, Records, RevisionsKeepUp, PageRecord
  <2>2. labelsRevision'[c] = labelsRevision[c] /\ (c = card => DOMAIN set = {})
    <3>1. CASE c = card
      <4>1. labelsRevision'[c] = resulting
        BY <1>10, <3>1
      <4>2. ~(DOMAIN set # {})
        BY <1>4, <2>1, <3>1, <4>1
      <4>3. QED
        BY <1>4, <3>1, <4>1, <4>2
    <3>2. CASE c # card
      BY <1>10, <3>2
    <3>3. QED
      BY <3>1, <3>2
  <2>3. page[c].labels = labels[c]
    BY <2>2 DEF LabelInv, AcceptedMeansSeen
  <2>4. QED
    BY <1>7, <1>10, <2>2, <2>3
<1>18. QED
  BY <1>13, <1>14, <1>15, <1>16, <1>17 DEF LabelInv

\* Taxonomies, policies and publications leave the reviews and the labels alone.
LEMMA SettingsStep ==
  ASSUME LabelInv, UNCHANGED <<reviews, labels, labelsRevision, page>>, Revisions',
         \/ UNCHANGED decisions
         \/ \E record \in DecisionRecord : decisions' = Append(decisions, record)
  PROVE  LabelInv'
<1>1. /\ decisions' \in Seq(DecisionRecord)
      /\ \A d \in DOMAIN decisions : d \in DOMAIN decisions' /\ decisions'[d] = decisions[d]
  <2>1. decisions \in Seq(DecisionRecord)
    BY DEF LabelInv, Records
  <2>2. CASE UNCHANGED decisions
    BY <2>1, <2>2
  <2>3. ASSUME NEW record \in DecisionRecord, decisions' = Append(decisions, record)
        PROVE  /\ decisions' \in Seq(DecisionRecord)
               /\ \A d \in DOMAIN decisions :
                    d \in DOMAIN decisions' /\ decisions'[d] = decisions[d]
    <3> DEFINE S == DecisionRecord
    <3> HIDE DEF S
    <3>1. decisions \in Seq(S) /\ record \in S
      BY <2>1 DEF S
    <3>2. /\ Append(decisions, record) \in Seq(S)
          /\ \A d \in DOMAIN decisions :
               /\ d \in DOMAIN Append(decisions, record)
               /\ Append(decisions, record)[d] = decisions[d]
      BY <3>1
    <3>3. QED
      BY <2>3, <3>2 DEF S
  <2>4. QED
    BY <2>2, <2>3
<1>2. Records'
  BY <1>1 DEF LabelInv, Records
<1>3. /\ LabelsReplayReviews' /\ NoCorrectionOverwrittenUnseen'
      /\ \A i \in DOMAIN reviews' : reviews'[i].resulting <= labelsRevision'[CardOf(i)']
  BY <1>1, <1>2, QuietStep
<1>4. RevisionsKeepUp' /\ AcceptedMeansSeen'
  BY <1>3 DEF LabelInv, RevisionsKeepUp, AcceptedMeansSeen
<1>5. QED
  BY <1>2, <1>3, <1>4 DEF LabelInv

\* A page read further stays behind the labels, whichever half of it was read.
LEMMA PageStep ==
  ASSUME LabelInv, NEW card \in Card,
         UNCHANGED <<taxonomies, policies, decisions, reviews, labels, labelsRevision>>,
         page' \in [Card -> PageRecord], \A c \in Card \ {card} : page'[c] = page[c],
         page'[card].revision <= labelsRevision[card],
         page'[card].stage = "shown" => page'[card].labels = labels[card]
  PROVE  LabelInv'
<1>1. Revisions' /\ Records'
  BY DEF LabelInv, Revisions, Records
<1>2. /\ LabelsReplayReviews' /\ NoCorrectionOverwrittenUnseen'
      /\ \A i \in DOMAIN reviews' : reviews'[i].resulting <= labelsRevision'[CardOf(i)']
  BY <1>1, QuietStep
<1>3. RevisionsKeepUp' /\ AcceptedMeansSeen'
  BY <1>2 DEF LabelInv, RevisionsKeepUp, AcceptedMeansSeen
<1>4. QED
  BY <1>1, <1>2, <1>3 DEF LabelInv

\* Reading the revision of a card's labels, and after it the labels.
LEMMA ReadStep ==
  ASSUME LabelInv, NEW card \in Card, ReadLabels(card)
  PROVE  LabelInv'
<1>1. UNCHANGED <<taxonomies, policies, decisions, reviews, labels, labelsRevision>>
  BY DEF ReadLabels, settings, work
<1>2. page \in [Card -> PageRecord] /\ page[card] \in PageRecord
      /\ labels[card] \in Labelling /\ labelsRevision[card] \in Nat
  BY DEF LabelInv, Records
<1>3. CASE page' = [page EXCEPT ![card].stage = "half", ![card].revision = labelsRevision[card]]
  <2>1. page' \in [Card -> PageRecord]
    BY <1>2, <1>3 DEF PageRecord
  <2>2. /\ page'[card].stage = "half" /\ page'[card].revision = labelsRevision[card]
        /\ \A c \in Card \ {card} : page'[c] = page[c]
    BY <1>2, <1>3 DEF PageRecord
  <2>3. QED
    BY <1>1, <1>2, <2>1, <2>2, PageStep
<1>4. CASE /\ page[card].stage = "half"
           /\ page' = [page EXCEPT ![card].stage = "shown", ![card].labels = labels[card]]
  <2>1. page' \in [Card -> PageRecord]
    BY <1>2, <1>4 DEF PageRecord
  <2>2. /\ page'[card].stage = "shown" /\ page'[card].revision = page[card].revision
        /\ page'[card].labels = labels[card]
        /\ \A c \in Card \ {card} : page'[c] = page[c]
    BY <1>2, <1>4 DEF PageRecord
  <2>3. page[card].revision <= labelsRevision[card]
    BY <1>4 DEF LabelInv, RevisionsKeepUp
  <2>4. QED
    BY <1>1, <2>1, <2>2, <2>3, PageStep
<1>5. QED
  BY <1>3, <1>4 DEF ReadLabels, CardLabels

LEMMA LabelInit == Init => LabelInv
<1> SUFFICES ASSUME Init PROVE LabelInv
  OBVIOUS
<1>1. Revisions
  BY PolicyInit DEF PolicyInv
<1>2. decisions = <<>> /\ reviews = <<>>
  BY DEF Init
<1>3. Blank \in Labelling
  <2>1. Blank \in [{} -> [values : SUBSET Nat, origin : Nat]]
    BY DEF Blank
  <2>2. {} \in SUBSET Nat
    OBVIOUS
  <2>3. QED
    BY <2>1, <2>2 DEF Labelling
<1>4. Records
  <2>1. page \in [Card -> PageRecord]
    BY <1>3 DEF Init, PageRecord
  <2>2. labels \in [Card -> Labelling] /\ labelsRevision \in [Card -> Nat]
    BY <1>3 DEF Init
  <2>3. QED
    BY <1>2, <2>1, <2>2 DEF Records
<1>5. \A c \in Card : DOMAIN labels[c] = {} /\ labelsRevision[c] = 0 /\ page[c].stage = "asked"
  BY NoneIsBlank DEF Init
<1>6. LabelsReplayReviews
  <2>1. ASSUME NEW c \in Card
        PROVE  {i \in DOMAIN reviews : CardOf(i) = c /\ SetByReview(i) # Blank} = {}
    BY <1>2
  <2>2. QED
    BY <1>2, <1>5, <2>1, FS_EmptySet DEF LabelsReplayReviews
<1>7. RevisionsKeepUp /\ NoCorrectionOverwrittenUnseen /\ AcceptedMeansSeen
  BY <1>2, <1>5 DEF RevisionsKeepUp, NoCorrectionOverwrittenUnseen, AcceptedMeansSeen
<1>8. QED
  BY <1>1, <1>4, <1>6, <1>7 DEF LabelInv

LEMMA LabelStep == LabelInv /\ [Next]_vars => LabelInv'
<1> SUFFICES ASSUME LabelInv, [Next]_vars PROVE LabelInv'
  OBVIOUS
<1>1. ASSUME NEW sent \in Sendable, NEW expected, SetBoardTaxonomy(expected, sent)
      PROVE  LabelInv'
  <2>1. /\ taxonomies' = Append(taxonomies, sent)
        /\ UNCHANGED <<policies, decisions, reviews, labels, labelsRevision, page>>
    BY <1>1 DEF SetBoardTaxonomy, work
  <2>2. Revisions'
    BY <2>1, NewestTaxonomy DEF LabelInv, Revisions
  <2>3. QED
    BY <2>1, <2>2, SettingsStep
<1>2. ASSUME NEW expected, ClearBoardTaxonomy(expected)
      PROVE  LabelInv'
  <2>1. /\ taxonomies' = Append(taxonomies, Blank)
        /\ UNCHANGED <<policies, decisions, reviews, labels, labelsRevision, page>>
    BY <1>2 DEF ClearBoardTaxonomy, work
  <2>2. Revisions'
    BY <2>1, NewestTaxonomy DEF LabelInv, Revisions
  <2>3. QED
    BY <2>1, <2>2, SettingsStep
<1>3. ASSUME NEW expected, NEW modes \in Rules, SetBoardClassificationPolicy(expected, modes)
      PROVE  LabelInv'
  <2> DEFINE p == [modes |-> modes, taxonomy |-> Len(taxonomies)]
  <2>1. /\ policies' = Append(policies, p)
        /\ UNCHANGED <<taxonomies, decisions, reviews, labels, labelsRevision, page>>
    BY <1>3 DEF SetBoardClassificationPolicy, work
  <2>2. p \in [modes : Rules, taxonomy : Nat]
    BY DEF LabelInv, Revisions
  <2> HIDE DEF p
  <2>3. Revisions'
    BY <2>1, <2>2, NewestPolicy DEF LabelInv, Revisions
  <2>4. QED
    BY <2>1, <2>3, SettingsStep
<1>4. ASSUME NEW op \in Operation, NEW card \in Card, NEW t \in DOMAIN taxonomies,
             NEW p \in DOMAIN policies, NEW selections \in Answers,
             PublishClassificationDecision(op, card, t, p, selections)
      PROVE  LabelInv'
  <2> DEFINE record == [operation |-> op, card |-> card, taxonomy |-> t, policy |-> p,
                        selections |-> selections]
  <2>1. /\ decisions' = Append(decisions, record)
        /\ UNCHANGED <<taxonomies, policies, reviews, labels, labelsRevision, page>>
    BY <1>4 DEF PublishClassificationDecision, settings
  <2>2. t \in Nat /\ p \in Nat
    BY DEF LabelInv, Revisions
  <2>3. record \in DecisionRecord
    BY <2>2 DEF DecisionRecord
  <2> HIDE DEF record
  <2>4. Revisions'
    BY <2>1 DEF LabelInv, Revisions
  <2>5. QED
    BY <2>1, <2>3, <2>4, SettingsStep
<1>5. ASSUME NEW submission \in Submission, NEW d \in DOMAIN decisions, NEW action \in ReviewAction,
             NEW supersedes \in SUBSET DOMAIN reviews, NEW axes \in SUBSET DOMAIN Current,
             NEW corrections \in Answers \cup {Blank},
             NEW expected \in 0..labelsRevision[decisions[d].card],
             ReviewClassificationDecision(submission, d, action, axes, corrections, supersedes,
                                          expected)
      PROVE  LabelInv'
  BY <1>5, ReviewStep
<1>6. ASSUME NEW card \in Card, ReadLabels(card)
      PROVE  LabelInv'
  BY <1>6, ReadStep
<1>7. CASE Refused \/ UNCHANGED vars
  <2>1. UNCHANGED <<taxonomies, policies, decisions, reviews, labels, labelsRevision, page>>
    BY <1>7 DEF Refused, vars
  <2>2. Revisions'
    BY <2>1 DEF LabelInv, Revisions
  <2>3. QED
    BY <2>1, <2>2, SettingsStep
<1>8. QED
  BY <1>1, <1>2, <1>3, <1>4, <1>5, <1>6, <1>7 DEF Next

\* The labels of every card are its reviews read in order, whatever was published
\* or saved between them.
THEOREM LabelsAreReviews == Spec => []LabelsReplayReviews
<1>1. LabelInv => LabelsReplayReviews
  BY DEF LabelInv
<1>2. QED
  BY <1>1, LabelInit, LabelStep, PTL DEF Spec

\* No review replaces a label its sender had not seen, and each names the reviews
\* it replaces.
THEOREM CorrectionsSeen == Spec => []NoCorrectionOverwrittenUnseen
<1>1. LabelInv => NoCorrectionOverwrittenUnseen
  BY DEF LabelInv
<1>2. QED
  BY <1>1, LabelInit, LabelStep, PTL DEF Spec

\* A page whose revision is still the labels' shows the labels, read apart as they are.
THEOREM PagesTrusted == Spec => []AcceptedMeansSeen
<1>1. LabelInv => AcceptedMeansSeen
  BY DEF LabelInv
<1>2. QED
  BY <1>1, LabelInit, LabelStep, PTL DEF Spec

-----------------------------------------------------------------------------
(* Identifiers, and what the revisions mean to the reviews made under them *)

\* Every entry of a taxonomy has its row: an axis belongs to the board, a value to its axis.
Owned(taxonomy) ==
  \A a \in DOMAIN taxonomy :
    /\ a \in DOMAIN identifiers /\ identifiers[a] = 0
    /\ \A v \in DOMAIN taxonomy[a].values : v \in DOMAIN identifiers /\ identifiers[v] = a

\* It belongs where any revision had it.
Minted ==
  /\ identifiers \in Seq(Nat) /\ Len(identifiers) <= MaxIdentifiers
  /\ \A t \in DOMAIN taxonomies : Owned(taxonomies[t])

\* Until the taxonomy is cleared, a later revision has what an earlier one had.
NoneLeftOut ==
  \A s, t \in DOMAIN taxonomies :
    s <= t /\ (\A u \in s..t : taxonomies[u] # Blank)
      => Identifiers(taxonomies[s]) \subseteq Identifiers(taxonomies[t])

\* Records name revisions there are, and reviews name earlier ones.
Referring ==
  /\ \A p \in DOMAIN policies : policies[p].taxonomy \in DOMAIN taxonomies
  /\ \A d \in DOMAIN decisions : /\ decisions[d].taxonomy \in DOMAIN taxonomies
                                 /\ decisions[d].policy \in DOMAIN policies
  /\ \A i \in DOMAIN reviews : /\ reviews[i].taxonomy \in DOMAIN taxonomies
                               /\ reviews[i].policy \in DOMAIN policies
                               /\ reviews[i].supersedes \subseteq 1..(i - 1)

RulesInv == Minted /\ NoneLeftOut /\ Referring /\ ReviewsKeepTheirRules

LEMMA Appended ==
  ASSUME NEW S, NEW s \in Seq(S), NEW e \in S, NEW longer, longer = Append(s, e),
         NEW n \in Nat, n = Len(s) + 1
  PROVE  /\ longer \in Seq(S) /\ Len(longer) = n /\ longer[n] = e
         /\ DOMAIN longer = 1..n /\ DOMAIN longer = DOMAIN s \cup {n} /\ n \notin DOMAIN s
         /\ \A i \in DOMAIN s : longer[i] = s[i] /\ i < n /\ i \in Nat
         /\ DOMAIN s \subseteq DOMAIN longer
OBVIOUS

\* An entry's owner is found in the taxonomy that holds it.
LEMMA OwnersFound ==
  ASSUME NEW t \in Migrated \cup Sendable
  PROVE  /\ Identifiers(t) \subseteq 1..MaxIdentifiers /\ MaxIdentifiers \in Nat
         /\ \A a \in DOMAIN t : /\ a \in Identifiers(t) /\ OwnerIn(t, a) = 0
                                /\ \A v \in DOMAIN t[a].values :
                                     v \in Identifiers(t) /\ OwnerIn(t, v) = a
         /\ \A id \in Identifiers(t) : OwnerIn(t, id) \in Nat
<1>1. Identifiers(t) \subseteq 1..MaxIdentifiers /\ OncePerEntry(t) /\ MaxIdentifiers \in Nat
  BY ClassificationAssumption
<1>2. ASSUME NEW a \in DOMAIN t, NEW v \in DOMAIN t[a].values
      PROVE  v \in Identifiers(t) /\ OwnerIn(t, v) = a
  <2>1. v \in Values(t) /\ v \notin DOMAIN t
    BY <1>1 DEF Values, OncePerEntry
  <2>2. \A b \in DOMAIN t : v \in DOMAIN t[b].values => b = a
    BY <1>1 DEF OncePerEntry
  <2>3. QED
    BY <2>1, <2>2 DEF OwnerIn, Identifiers
<1>3. \A a \in DOMAIN t : a \in Identifiers(t) /\ OwnerIn(t, a) = 0 /\ a \in Nat
  BY <1>1 DEF Identifiers, OwnerIn
<1>4. ASSUME NEW id \in Identifiers(t) PROVE OwnerIn(t, id) \in Nat
  <2>1. id \in DOMAIN t \/ \E a \in DOMAIN t : id \in DOMAIN t[a].values
    BY DEF Identifiers, Values
  <2>2. QED
    BY <1>2, <1>3, <2>1
<1>5. QED
  BY <1>1, <1>2, <1>3, <1>4

LEMMA RulesInit == Init => RulesInv
<1> SUFFICES ASSUME Init PROVE RulesInv
  OBVIOUS
<1>1. policies = <<>> /\ decisions = <<>> /\ reviews = <<>>
  BY DEF Init
<1>2. Referring /\ ReviewsKeepTheirRules
  BY <1>1 DEF Referring, ReviewsKeepTheirRules
<1>3. CASE taxonomies = <<>> /\ identifiers = <<>>
  <2>1. MaxIdentifiers \in Nat
    BY ClassificationAssumption
  <2>2. Minted /\ NoneLeftOut
    BY <1>3, <2>1 DEF Minted, NoneLeftOut
  <2>3. QED
    BY <1>2, <2>2 DEF RulesInv
<1>4. ASSUME NEW t \in Migrated, taxonomies = <<t>>,
             identifiers = [id \in 1..Cardinality(Identifiers(t)) |-> OwnerIn(t, id)]
      PROVE  Minted /\ NoneLeftOut
  <2>1. PICK n \in 1..MaxIdentifiers : Identifiers(t) = 1..n
    BY ClassificationAssumption
  <2>2. n \in Nat /\ n <= MaxIdentifiers
    BY <2>1, OwnersFound
  <2>3. Cardinality(Identifiers(t)) = n
    <3>1. Cardinality(1..n) = IF 1 > n THEN 0 ELSE n - 1 + 1
      BY <2>2, FS_Interval
    <3>2. QED
      BY <2>1, <3>1
  <2>4. identifiers \in [1..n -> Nat]
    BY <1>4, <2>1, <2>3, OwnersFound
  <2>5. identifiers \in Seq(Nat) /\ Len(identifiers) = n
    BY <2>2, <2>4
  <2>6. Owned(t)
    BY <1>4, <2>1, <2>3, OwnersFound DEF Owned
  <2>7. DOMAIN taxonomies = {1} /\ taxonomies[1] = t
    BY <1>4
  <2>8. QED
    BY <2>2, <2>5, <2>6, <2>7 DEF Minted, NoneLeftOut
<1>5. QED
  BY <1>2, <1>3, <1>4, Zenon DEF Init, RulesInv

\* A review sets what it sets and a publication selects what it selects, whatever is saved after.
LEMMA RulesStand ==
  ASSUME Records, RulesInv, UNCHANGED reviews,
         \A d \in DOMAIN decisions : d \in DOMAIN decisions' /\ decisions'[d] = decisions[d],
         \A t \in DOMAIN taxonomies : t \in DOMAIN taxonomies' /\ taxonomies'[t] = taxonomies[t],
         \A p \in DOMAIN policies : p \in DOMAIN policies' /\ policies'[p] = policies[p],
         \A p \in DOMAIN policies' \ DOMAIN policies : policies'[p].taxonomy \in DOMAIN taxonomies',
         \A d \in DOMAIN decisions' \ DOMAIN decisions :
            decisions'[d].taxonomy \in DOMAIN taxonomies' /\ decisions'[d].policy \in DOMAIN policies'
  PROVE  Referring' /\ ReviewsKeepTheirRules'
<1>1. Referring'
  BY DEF RulesInv, Referring
<1>2. ASSUME NEW i \in DOMAIN reviews
      PROVE  /\ SetByReview(i)' = SetByReview(i)
             /\ taxonomies'[reviews[i].taxonomy] = taxonomies[reviews[i].taxonomy]
             /\ policies'[reviews[i].policy] = policies[reviews[i].policy]
  BY HistoryKept DEF RulesInv, Referring
<1>3. ASSUME NEW i \in DOMAIN reviews, NEW a \in reviews[i].axes
      PROVE  /\ ModeOf(policies'[reviews[i].policy].modes, a) = "assisted"
             /\ a \in DOMAIN taxonomies'[reviews[i].taxonomy]
             /\ a \in DOMAIN SetByReview(i)' =>
                  /\ Chosen(taxonomies'[reviews[i].taxonomy][a], SetByReview(i)'[a])
                  /\ taxonomies'[reviews[i].taxonomy][a].required => SetByReview(i)'[a] # {}
  BY <1>2 DEF RulesInv, ReviewsKeepTheirRules
<1>4. ReviewsKeepTheirRules'
  BY <1>3 DEF ReviewsKeepTheirRules
<1>5. QED
  BY <1>1, <1>4

\* A saved taxonomy mints the entries that are new and moves none.
LEMMA SavedTaxonomy ==
  ASSUME Revisions, Records, RulesInv, NEW sent \in Sendable, NEW expected,
         SetBoardTaxonomy(expected, sent)
  PROVE  RulesInv'
<1> DEFINE T == Sendable \cup Migrated \cup {Blank}
<1>1. PICK m \in Nat : m = Len(taxonomies) + 1
  BY DEF Revisions
<1>2. /\ taxonomies' = Append(taxonomies, sent) /\ CheckTaxonomyIdentifiers(sent) /\ Mint(sent)
      /\ UNCHANGED <<policies, decisions, reviews, labels, labelsRevision, page>>
  BY DEF SetBoardTaxonomy, work
<1>3. /\ taxonomies \in Seq(T) /\ sent \in T
  BY DEF Revisions
<1> HIDE DEF T
<1>4. /\ Len(taxonomies') = m /\ taxonomies'[m] = sent
      /\ DOMAIN taxonomies' = DOMAIN taxonomies \cup {m}
      /\ \A t \in DOMAIN taxonomies : taxonomies'[t] = taxonomies[t] /\ t < m /\ t \in Nat
      /\ DOMAIN taxonomies = 1..(m - 1)
  BY <1>1, <1>2, <1>3
<1>5. Referring' /\ ReviewsKeepTheirRules'
  BY <1>2, <1>4, RulesStand
<1>6. PICK n \in 0..MaxIdentifiers :
        /\ DOMAIN identifiers \cup Identifiers(sent) = 1..n
        /\ identifiers' = [id \in 1..n |-> IF id \in DOMAIN identifiers THEN identifiers[id]
                                           ELSE OwnerIn(sent, id)]
  BY <1>2 DEF Mint
<1>7. /\ identifiers \in Seq(Nat) /\ DOMAIN identifiers = 1..Len(identifiers)
      /\ MaxIdentifiers \in Nat /\ n \in Nat
  BY OwnersFound DEF RulesInv, Minted
<1>8. identifiers' \in [1..n -> Nat]
  BY <1>6, <1>7, OwnersFound
<1>9. identifiers' \in Seq(Nat) /\ Len(identifiers') = n /\ n <= MaxIdentifiers
  BY <1>7, <1>8
<1>10. \A id \in DOMAIN identifiers : id \in DOMAIN identifiers' /\ identifiers'[id] = identifiers[id]
  BY <1>6
<1>11. \A t \in DOMAIN taxonomies : Owned(taxonomies[t])'
  BY <1>4, <1>10 DEF RulesInv, Minted, Owned
<1>12. Owned(sent)'
  <2>1. ASSUME NEW id \in Identifiers(sent)
        PROVE  /\ id \in DOMAIN identifiers'
               /\ id \notin DOMAIN identifiers => identifiers'[id] = OwnerIn(sent, id)
               /\ id \in DOMAIN identifiers => id <= Len(identifiers) /\ identifiers'[id] = identifiers[id]
    BY <1>6, <1>7
  <2>2. \A a \in DOMAIN sent :
          /\ a \in Identifiers(sent) /\ OwnerIn(sent, a) = 0
          /\ \A v \in DOMAIN sent[a].values : v \in Identifiers(sent) /\ OwnerIn(sent, v) = a
    BY OwnersFound
  <2>3. ASSUME NEW a \in DOMAIN sent
        PROVE  a \in DOMAIN identifiers' /\ identifiers'[a] = 0
    BY <1>2, <2>1, <2>2 DEF CheckTaxonomyIdentifiers
  <2>4. ASSUME NEW a \in DOMAIN sent, NEW v \in DOMAIN sent[a].values
        PROVE  v \in DOMAIN identifiers' /\ identifiers'[v] = a
    BY <1>2, <2>1, <2>2 DEF CheckTaxonomyIdentifiers
  <2>5. QED
    BY <2>3, <2>4 DEF Owned
<1>13. Minted'
  BY <1>4, <1>9, <1>11, <1>12 DEF Minted
<1>14. NoneLeftOut'
  <2>1. ASSUME NEW s \in DOMAIN taxonomies', NEW t \in DOMAIN taxonomies', s <= t,
               \A u \in s..t : taxonomies'[u] # Blank
        PROVE  Identifiers(taxonomies'[s]) \subseteq Identifiers(taxonomies'[t])
    <3>1. CASE t \in DOMAIN taxonomies
      <4>1. s \in DOMAIN taxonomies /\ \A u \in s..t : u \in DOMAIN taxonomies
        BY <1>1, <1>4, <2>1, <3>1
      <4>2. \A u \in s..t : taxonomies[u] # Blank
        BY <1>4, <2>1, <4>1
      <4>3. Identifiers(taxonomies[s]) \subseteq Identifiers(taxonomies[t])
        BY <2>1, <3>1, <4>1, <4>2 DEF RulesInv, NoneLeftOut
      <4>4. QED
        BY <1>4, <3>1, <4>1, <4>3
    <3>2. CASE t = m /\ s = m
      BY <3>2
    <3>3. CASE t = m /\ s \in DOMAIN taxonomies
      <4>1. /\ m - 1 \in DOMAIN taxonomies /\ s <= m - 1
            /\ \A u \in s..(m - 1) : u \in s..t /\ u \in DOMAIN taxonomies
        BY <1>1, <1>4, <3>3
      <4>2. \A u \in s..(m - 1) : taxonomies[u] # Blank
        BY <1>4, <2>1, <4>1
      <4>3. Identifiers(taxonomies[s]) \subseteq Identifiers(taxonomies[m - 1])
        BY <3>3, <4>1, <4>2 DEF RulesInv, NoneLeftOut
      <4>4. Current = taxonomies[m - 1]
        <5>1. taxonomies # <<>> /\ Len(taxonomies) = m - 1
          BY <1>1, <1>3, <4>1
        <5>2. QED
          BY <5>1 DEF Current
      <4>5. Identifiers(Current) \subseteq Identifiers(sent)
        BY <1>2 DEF CheckTaxonomyIdentifiers
      <4>6. QED
        BY <1>4, <3>3, <4>3, <4>4, <4>5
    <3>4. QED
      BY <1>4, <3>1, <3>2, <3>3
  <2>2. QED
    BY <2>1 DEF NoneLeftOut
<1>15. QED
  BY <1>5, <1>13, <1>14 DEF RulesInv

\* A cleared taxonomy moves no entry, and stands between the revisions around it.
LEMMA ClearedTaxonomy ==
  ASSUME Revisions, Records, RulesInv, NEW expected, ClearBoardTaxonomy(expected)
  PROVE  RulesInv'
<1> DEFINE T == Sendable \cup Migrated \cup {Blank}
<1>1. PICK m \in Nat : m = Len(taxonomies) + 1
  BY DEF Revisions
<1>2. /\ taxonomies' = Append(taxonomies, Blank)
      /\ UNCHANGED <<identifiers, policies, decisions, reviews, labels, labelsRevision, page>>
  BY DEF ClearBoardTaxonomy, work
<1>3. /\ taxonomies \in Seq(T) /\ Blank \in T
  BY DEF Revisions
<1> HIDE DEF T
<1>4. /\ Len(taxonomies') = m /\ taxonomies'[m] = Blank
      /\ DOMAIN taxonomies' = DOMAIN taxonomies \cup {m}
      /\ \A t \in DOMAIN taxonomies : taxonomies'[t] = taxonomies[t] /\ t < m /\ t \in Nat
      /\ DOMAIN taxonomies = 1..(m - 1)
  BY <1>1, <1>2, <1>3
<1>5. Referring' /\ ReviewsKeepTheirRules'
  BY <1>2, <1>4, RulesStand
<1>6. Owned(Blank)
  BY NoneIsBlank DEF Owned
<1>7. Minted'
  BY <1>2, <1>4, <1>6 DEF RulesInv, Minted, Owned
<1>8. ASSUME NEW s \in DOMAIN taxonomies', NEW t \in DOMAIN taxonomies', s <= t,
             \A u \in s..t : taxonomies'[u] # Blank
      PROVE  Identifiers(taxonomies'[s]) \subseteq Identifiers(taxonomies'[t])
  <2>1. s \in Nat /\ t \in Nat /\ t \in s..t
    BY <1>1, <1>4, <1>8
  <2>2. t # m
    BY <1>4, <1>8, <2>1
  <2>3. t \in DOMAIN taxonomies
    BY <1>4, <2>2
  <2>4. s \in DOMAIN taxonomies /\ \A u \in s..t : u \in DOMAIN taxonomies
    BY <1>1, <1>4, <1>8, <2>3
  <2>5. \A u \in s..t : taxonomies[u] # Blank
    BY <1>4, <1>8, <2>4
  <2>6. QED
    BY <1>4, <1>8, <2>3, <2>4, <2>5 DEF RulesInv, NoneLeftOut
<1>9. NoneLeftOut'
  BY <1>8 DEF NoneLeftOut
<1>10. QED
  BY <1>5, <1>7, <1>9 DEF RulesInv

\* A policy names the taxonomy in force, and there is one.
LEMMA SavedPolicy ==
  ASSUME Revisions, Records, RulesInv, NEW expected, NEW modes \in Rules,
         SetBoardClassificationPolicy(expected, modes)
  PROVE  RulesInv'
<1> DEFINE p == [modes |-> modes, taxonomy |-> Len(taxonomies)]
           S == [modes : Rules, taxonomy : Nat]
<1>1. PICK n \in Nat : n = Len(policies) + 1
  BY DEF Revisions
<1>2. /\ policies' = Append(policies, p)
      /\ UNCHANGED <<identifiers, taxonomies, decisions, reviews, labels, labelsRevision, page>>
      /\ Current # Blank
  BY DEF SetBoardClassificationPolicy, work
<1>3. Len(taxonomies) \in DOMAIN taxonomies /\ Len(taxonomies) \in Nat
  BY <1>2 DEF Current, Revisions
<1>4. policies \in Seq(S) /\ p \in S /\ p.taxonomy \in DOMAIN taxonomies
  BY <1>3 DEF Revisions
<1> HIDE DEF S, p
<1>5. /\ policies'[n] = p
      /\ DOMAIN policies' = DOMAIN policies \cup {n}
      /\ \A i \in DOMAIN policies : i \in DOMAIN policies' /\ policies'[i] = policies[i]
  BY <1>1, <1>2, <1>4, Appended
<1>6. Referring' /\ ReviewsKeepTheirRules'
  BY <1>2, <1>4, <1>5, RulesStand
<1>7. QED
  BY <1>2, <1>6 DEF RulesInv, Minted, Owned, NoneLeftOut

\* A publication names a taxonomy and a policy there are.
LEMMA Published ==
  ASSUME Revisions, Records, RulesInv, NEW op \in Operation, NEW card \in Card,
         NEW t \in DOMAIN taxonomies, NEW p \in DOMAIN policies, NEW selections \in Answers,
         PublishClassificationDecision(op, card, t, p, selections)
  PROVE  RulesInv'
<1> DEFINE record == [operation |-> op, card |-> card, taxonomy |-> t, policy |-> p,
                      selections |-> selections]
<1>1. PICK n \in Nat : n = Len(decisions) + 1
  BY DEF Records
<1>2. /\ decisions' = Append(decisions, record)
      /\ UNCHANGED <<identifiers, taxonomies, policies, reviews, labels, labelsRevision, page>>
  BY DEF PublishClassificationDecision, settings
<1>3. record \in DecisionRecord /\ decisions \in Seq(DecisionRecord)
      /\ record.taxonomy = t /\ record.policy = p
  BY DEF DecisionRecord, Revisions, Records
<1> HIDE DEF record
<1>4. /\ decisions'[n] = record
      /\ DOMAIN decisions' = DOMAIN decisions \cup {n}
      /\ \A d \in DOMAIN decisions : d \in DOMAIN decisions' /\ decisions'[d] = decisions[d]
  BY <1>1, <1>2, <1>3, Appended
<1>5. Referring' /\ ReviewsKeepTheirRules'
  BY <1>2, <1>3, <1>4, RulesStand
<1>6. QED
  BY <1>2, <1>5 DEF RulesInv, Minted, Owned, NoneLeftOut

\* A review was allowed by the taxonomy and the policy in force, and names those.
LEMMA Reviewed ==
  ASSUME Revisions, Records, RulesInv, NEW submission \in Submission, NEW d \in DOMAIN decisions,
         NEW action \in ReviewAction, NEW axes \in SUBSET DOMAIN Current,
         NEW corrections \in Answers \cup {Blank}, NEW supersedes \in SUBSET DOMAIN reviews,
         NEW expected, reviews' \in Seq(ReviewRecord),
         ReviewClassificationDecision(submission, d, action, axes, corrections, supersedes,
                                      expected)
  PROVE  RulesInv'
<1> DEFINE set == SetBy(d, action, axes, corrections)
           r == [submission |-> submission, decision |-> d, action |-> action, axes |-> axes,
                 corrections |-> corrections, supersedes |-> supersedes, expected |-> expected,
                 resulting |-> labelsRevision[decisions[d].card] + IF set = Blank THEN 0 ELSE 1,
                 taxonomy |-> Len(taxonomies), policy |-> Len(policies)]
<1>1. PICK n \in Nat : n = Len(reviews) + 1
  BY DEF Records
<1>2. /\ axes # {} /\ ReviewedValues(d, action, axes, corrections)
      /\ reviews' = Append(reviews, r)
      /\ UNCHANGED <<identifiers, taxonomies, policies, decisions, page>> /\ Current # Blank
  BY DEF ReviewClassificationDecision, settings
<1>3. /\ r.decision = d /\ r.action = action /\ r.axes = axes /\ r.corrections = corrections
      /\ r.taxonomy = Len(taxonomies) /\ r.policy = Len(policies) /\ r.supersedes = supersedes
  OBVIOUS
<1> HIDE DEF r
<1>4. /\ DOMAIN reviews' = DOMAIN reviews \cup {n} /\ n \notin DOMAIN reviews
      /\ reviews'[n] = r /\ \A i \in DOMAIN reviews : reviews'[i] = reviews[i]
      /\ DOMAIN reviews = 1..(n - 1)
  BY <1>1, <1>2 DEF Records
<1>5. /\ Current = taxonomies[Len(taxonomies)] /\ Len(taxonomies) \in DOMAIN taxonomies
  BY <1>2 DEF Current, Revisions
<1>6. /\ Policy = policies[Len(policies)].modes /\ Len(policies) \in DOMAIN policies
  <2>1. PICK a \in axes : TRUE
    BY <1>2
  <2>2. ModeOf(Policy, a) = "assisted"
    BY <1>2, <2>1 DEF ReviewedValues
  <2>3. policies # <<>>
    BY <2>2, NoneIsBlank DEF ModeOf, Policy
  <2>4. QED
    BY <2>3 DEF Policy, Revisions
<1>7. /\ \A i \in DOMAIN reviews : SetByReview(i)' = SetByReview(i)
      /\ SetByReview(n)' = set
  <2>1. \A i \in DOMAIN reviews : SetByReview(i)' = SetByReview(i)
    BY <1>2, <1>4 DEF SetByReview, SetBy
  <2>2. SetByReview(n)' = set
    BY <1>2, <1>3, <1>4 DEF SetByReview, SetBy
  <2>3. QED
    BY <2>1, <2>2
<1>8. \A a \in axes :
        /\ ModeOf(Policy, a) = "assisted" /\ a \in DOMAIN Current
        /\ a \in DOMAIN set => /\ Chosen(Current[a], set[a])
                               /\ Current[a].required => set[a] # {}
  <2>1. action = "reject" => DOMAIN set = {}
    BY NoneIsBlank DEF SetBy
  <2>2. QED
    BY <1>2, <2>1 DEF ReviewedValues
<1> HIDE DEF set
<1>9. Referring'
  <2>1. ASSUME NEW i \in DOMAIN reviews'
        PROVE  /\ reviews'[i].taxonomy \in DOMAIN taxonomies
               /\ reviews'[i].policy \in DOMAIN policies
               /\ reviews'[i].supersedes \subseteq 1..(i - 1)
    <3>1. CASE i = n
      BY <1>3, <1>4, <1>5, <1>6, <3>1
    <3>2. CASE i \in DOMAIN reviews
      BY <1>4, <3>2 DEF RulesInv, Referring
    <3>3. QED
      BY <1>4, <3>1, <3>2
  <2>2. QED
    BY <1>2, <2>1 DEF RulesInv, Referring
<1>10. ReviewsKeepTheirRules'
  <2>1. ASSUME NEW i \in DOMAIN reviews', NEW a \in reviews'[i].axes
        PROVE  /\ ModeOf(policies[reviews'[i].policy].modes, a) = "assisted"
               /\ a \in DOMAIN taxonomies[reviews'[i].taxonomy]
               /\ a \in DOMAIN SetByReview(i)' =>
                    /\ Chosen(taxonomies[reviews'[i].taxonomy][a], SetByReview(i)'[a])
                    /\ taxonomies[reviews'[i].taxonomy][a].required => SetByReview(i)'[a] # {}
    <3>1. CASE i = n
      BY <1>3, <1>4, <1>5, <1>6, <1>7, <1>8, <2>1, <3>1
    <3>2. CASE i \in DOMAIN reviews
      BY <1>4, <1>7, <2>1, <3>2 DEF RulesInv, ReviewsKeepTheirRules
    <3>3. QED
      BY <1>4, <3>1, <3>2
  <2>2. QED
    BY <1>2, <2>1 DEF ReviewsKeepTheirRules
<1>11. QED
  BY <1>2, <1>9, <1>10 DEF RulesInv, Minted, Owned, NoneLeftOut

LEMMA RulesStep == LabelInv /\ LabelInv' /\ RulesInv /\ [Next]_vars => RulesInv'
<1> SUFFICES ASSUME LabelInv, LabelInv', RulesInv, [Next]_vars PROVE RulesInv'
  OBVIOUS
<1>1. Revisions /\ Records /\ reviews' \in Seq(ReviewRecord)
  BY DEF LabelInv, Records
<1>2. CASE UNCHANGED <<settings, decisions, reviews>>
  <2>1. UNCHANGED <<identifiers, taxonomies, policies, decisions, reviews>>
    BY <1>2 DEF settings
  <2>2. Referring' /\ ReviewsKeepTheirRules'
    BY <1>1, <2>1, RulesStand
  <2>3. QED
    BY <2>1, <2>2 DEF RulesInv, Minted, Owned, NoneLeftOut
<1>3. ASSUME NEW card, ReadLabels(card) PROVE RulesInv'
  BY <1>2, <1>3 DEF ReadLabels, work
<1>4. CASE Refused \/ UNCHANGED vars
  BY <1>2, <1>4 DEF Refused, vars, settings
<1>5. QED
  BY <1>1, <1>3, <1>4, SavedTaxonomy, ClearedTaxonomy, SavedPolicy, Published, Reviewed DEF Next

\* What a review set, its taxonomy had: on that axis and nowhere else.
LEMMA LabelsResolved == ASSUME LabelInv, RulesInv PROVE LabelsResolve
<1> SUFFICES ASSUME NEW c \in Card, NEW a \in DOMAIN labels[c]
      PROVE  /\ (\A t \in reviews[labels[c][a].origin].taxonomy..Len(taxonomies) : taxonomies[t] # Blank)
                  => /\ a \in DOMAIN Current
                     /\ labels[c][a].values \subseteq DOMAIN Current[a].values
             /\ labels[c][a].values \cap Identifiers(Current)
                  \subseteq IF a \in DOMAIN Current THEN DOMAIN Current[a].values ELSE {}
  BY DEF LabelsResolve
<1>1. PICK i \in Setting(c, a) : labels[c][a].origin = i /\ labels[c][a].values = SetByReview(i)[a]
  BY DEF LabelInv, LabelsReplayReviews
<1>2. i \in DOMAIN reviews /\ a \in DOMAIN SetByReview(i) /\ a \in reviews[i].axes
  <2>1. i \in DOMAIN reviews /\ a \in DOMAIN SetByReview(i)
    BY DEF Setting
  <2>2. QED
    BY <2>1, NoneIsBlank DEF SetByReview, SetBy
<1>3. PICK t \in DOMAIN taxonomies :
        /\ t = reviews[i].taxonomy /\ a \in DOMAIN taxonomies[t]
        /\ labels[c][a].values \subseteq DOMAIN taxonomies[t][a].values
  BY <1>1, <1>2 DEF RulesInv, Referring, ReviewsKeepTheirRules, Chosen
<1>4. Owned(taxonomies[t]) /\ t \in 1..Len(taxonomies) /\ Len(taxonomies) \in Nat
  BY DEF RulesInv, Minted, LabelInv, Revisions
<1>5. Current = taxonomies[Len(taxonomies)] /\ Len(taxonomies) \in DOMAIN taxonomies
      /\ Owned(Current)
  BY <1>4 DEF Current, RulesInv, Minted, LabelInv, Revisions
<1>6. a \in DOMAIN identifiers /\ identifiers[a] = 0 /\ a # 0
  BY <1>3, <1>4 DEF Owned, RulesInv, Minted
<1>7. \A v \in labels[c][a].values : identifiers[v] = a
  BY <1>3, <1>4 DEF Owned
<1>8. \A b \in DOMAIN Current : b # 0
  BY <1>5 DEF Owned, RulesInv, Minted
<1>9. ASSUME NEW v \in labels[c][a].values, v \in Identifiers(Current)
      PROVE  a \in DOMAIN Current /\ v \in DOMAIN Current[a].values
  <2>1. v \notin DOMAIN Current
    BY <1>5, <1>6, <1>7 DEF Owned
  <2>2. PICK b \in DOMAIN Current : v \in DOMAIN Current[b].values
    BY <1>9, <2>1 DEF Identifiers, Values
  <2>3. b = a
    BY <1>5, <1>7, <2>2 DEF Owned
  <2>4. QED
    BY <2>2, <2>3
<1>10. ASSUME \A u \in t..Len(taxonomies) : taxonomies[u] # Blank
       PROVE  a \in DOMAIN Current /\ labels[c][a].values \subseteq DOMAIN Current[a].values
  <2>1. Identifiers(taxonomies[t]) \subseteq Identifiers(Current)
    BY <1>4, <1>5, <1>10 DEF RulesInv, NoneLeftOut
  <2>2. a \in Identifiers(Current) /\ labels[c][a].values \subseteq Identifiers(Current)
    BY <1>3, <2>1 DEF Identifiers, Values
  <2>3. a \in DOMAIN Current
    <3>1. ASSUME a \notin DOMAIN Current PROVE FALSE
      <4>1. PICK b \in DOMAIN Current : a \in DOMAIN Current[b].values
        BY <2>2, <3>1 DEF Identifiers, Values
      <4>2. identifiers[a] = b
        BY <1>5, <4>1 DEF Owned
      <4>3. QED
        BY <1>6, <1>8, <4>2
    <3>2. QED
      BY <3>1
  <2>4. QED
    BY <1>9, <2>2, <2>3
<1>11. QED
  BY <1>1, <1>3, <1>9, <1>10

\* Each review was allowed by the taxonomy and the policy it says it was made under.
THEOREM ReviewsAllowed == Spec => []ReviewsKeepTheirRules
<1>1. RulesInv => ReviewsKeepTheirRules
  BY DEF RulesInv
<1>2. QED
  BY <1>1, LabelInit, LabelStep, RulesInit, RulesStep, PTL DEF Spec

\* A label still means what its review meant, until the taxonomy is cleared, and never
\* what another axis means.
THEOREM LabelsKeepTheirMeaning == Spec => []LabelsResolve
<1>1. QED
  BY LabelsResolved, LabelInit, LabelStep, RulesInit, RulesStep, PTL DEF Spec

\* Every record is of its shape and names what there is.
THEOREM TypeCorrect == Spec => []TypeOK
<1>1. LabelInv /\ RulesInv => TypeOK
  <2> SUFFICES ASSUME LabelInv, RulesInv PROVE TypeOK
    OBVIOUS
  <2>1. \A t \in DOMAIN taxonomies : Identifiers(taxonomies[t]) \subseteq DOMAIN identifiers
    BY DEF RulesInv, Minted, Owned, Identifiers, Values
  <2>2. \A p \in DOMAIN policies : \A a \in DOMAIN policies[p].modes : policies[p].modes[a] \in Mode
    <3> DEFINE S == [modes : Rules, taxonomy : Nat]
    <3>1. policies \in Seq(S)
      BY DEF LabelInv, Revisions
    <3>2. \A r \in S : r.modes \in Rules
      OBVIOUS
    <3> HIDE DEF S
    <3>3. \A p \in DOMAIN policies : policies[p] \in S
      BY <3>1
    <3>4. QED
      BY <3>2, <3>3, ClassificationAssumption
  <2>3. \A d \in DOMAIN decisions : decisions[d].card \in Card
    <3>1. \A d \in DOMAIN decisions : decisions[d] \in DecisionRecord
      BY DEF LabelInv, Records
    <3>2. QED
      BY <3>1 DEF DecisionRecord
  <2>4. \A c \in Card : \A a \in DOMAIN labels[c] : labels[c][a].origin \in DOMAIN reviews
    BY DEF LabelInv, LabelsReplayReviews, Setting
  <2>5. QED
    BY <2>1, <2>2, <2>3, <2>4 DEF TypeOK, RulesInv, Minted, Referring, LabelInv, Records
<1>2. QED
  BY <1>1, LabelInit, LabelStep, RulesInit, RulesStep, PTL DEF Spec
=============================================================================
