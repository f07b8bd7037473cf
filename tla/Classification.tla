--------------------------- MODULE Classification ---------------------------
(***************************************************************************)
(* Classifying the cards of one board (internal/db/classification.go,      *)
(* internal/api/board_classification.go).                                  *)
(*                                                                         *)
(* A board has a taxonomy and a policy, each saved whole as a new revision *)
(* under an If-Match of its own.  A classifier publishes decisions that    *)
(* name a revision of each; people review decisions, under whatever is in  *)
(* force by then, and only their reviews set labels.  Every write holds    *)
(* the database's write lock from before its first read, so each is one    *)
(* action; what is left to go wrong is that a request rests on revisions   *)
(* that have moved on since its sender read them.                          *)
(*                                                                         *)
(* Identifiers are numbers, handed out in order.  An entry sent without    *)
(* one is keyed here by the number it is about to get.                     *)
(***************************************************************************)
EXTENDS Naturals, Sequences, FiniteSets

CONSTANTS
  Card,
  Operation,   \* a classifier's run on a card: what a publication's key has beside the revisions
  Submission,  \* a reviewer and his idempotency key
  Sendable,    \* the taxonomies requests send,
  Rules,       \* the policies: modes by axis,
  Answers,     \* and what publications select and reviewers correct to, by axis
  Migrated,    \* the taxonomies a board may have had, by name, before there were revisions
  MaxIdentifiers, MaxTaxonomies, MaxPolicies, MaxDecisions, MaxReviews

Mode == {"off", "discovery", "assisted"}
ReviewAction == {"accept", "correct", "reject"}

\* No axis and, for a taxonomy, none: what a board has before its first and after clearing.
Blank == [axis \in {} |-> {}]

Values(taxonomy) == UNION {DOMAIN taxonomy[a].values : a \in DOMAIN taxonomy}
Identifiers(taxonomy) == DOMAIN taxonomy \cup Values(taxonomy)

Axis(ids) == [archived : BOOLEAN, required : BOOLEAN,
              values : UNION {[some -> BOOLEAN] : some \in SUBSET ids}]

\* To whom an identifier a taxonomy uses belongs: an axis to the board, a value to its axis.
OwnerIn(taxonomy, id) ==
  IF id \in DOMAIN taxonomy THEN 0
  ELSE CHOOSE a \in DOMAIN taxonomy : id \in DOMAIN taxonomy[a].values

\* Whether a taxonomy holds each of its entries once.
OncePerEntry(t) ==
  /\ DOMAIN t \cap Values(t) = {}
  /\ \A a, b \in DOMAIN t : a # b => DOMAIN t[a].values \cap DOMAIN t[b].values = {}

ASSUME ClassificationAssumption ==
  /\ {MaxIdentifiers, MaxTaxonomies, MaxPolicies, MaxDecisions, MaxReviews} \subseteq Nat
  /\ \A t \in Migrated \cup Sendable :
       /\ \A a \in DOMAIN t : t[a] \in Axis(1..MaxIdentifiers)
       /\ Identifiers(t) \subseteq 1..MaxIdentifiers
       /\ OncePerEntry(t) /\ t # Blank
  /\ \A modes \in Rules : \A a \in DOMAIN modes : a \in Nat /\ modes[a] \in Mode
  /\ \A selections \in Answers : \A a \in DOMAIN selections :
       a \in Nat /\ selections[a] \subseteq Nat
  /\ \A t \in Migrated : \E n \in 1..MaxIdentifiers : Identifiers(t) = 1..n

VARIABLES
  identifiers,    \* classification_identifiers: the axis each id belongs to, 0 for an axis
  taxonomies,     \* classification_taxonomy_revisions, Blank for one that clears
  policies,       \* classification_policy_revisions: each axis's mode, and under which taxonomy
  decisions,      \* classification_decisions
  reviews,        \* classification_reviews
  labels,         \* classification_labels: of each card, by axis
  labelsRevision, \* classification_label_revisions
  page            \* of each card, an answer with its labels: how far it is read, and what it says

settings == <<identifiers, taxonomies, policies>>
work == <<decisions, reviews, labels, labelsRevision>>
vars == <<identifiers, taxonomies, policies, decisions, reviews, labels, labelsRevision, page>>

Init ==
  /\ \/ taxonomies = <<>> /\ identifiers = <<>>
     \/ \E t \in Migrated :
          /\ taxonomies = <<t>>
          /\ identifiers = [id \in 1..Cardinality(Identifiers(t)) |-> OwnerIn(t, id)]
  /\ policies = <<>> /\ decisions = <<>> /\ reviews = <<>>
  /\ labels = [c \in Card |-> Blank]
  /\ labelsRevision = [c \in Card |-> 0]
  /\ page = [c \in Card |-> [stage |-> "asked", revision |-> 0, labels |-> Blank]]

\* The newest revision, and the policy in force: an axis it does not name is off.
Current == IF taxonomies = <<>> THEN Blank ELSE taxonomies[Len(taxonomies)]
Policy == IF policies = <<>> THEN Blank ELSE policies[Len(policies)].modes
ModeOf(modes, a) == IF a \in DOMAIN modes THEN modes[a] ELSE "off"

\* ValidateAxisPolicies: only axes of the taxonomy, and an archived one only off.
Fits(modes, taxonomy) ==
  \A a \in DOMAIN modes : a \in DOMAIN taxonomy /\ (taxonomy[a].archived => modes[a] = "off")

-----------------------------------------------------------------------------
(* The taxonomy *)

MutForgetLeftOut(sent) ==
  \A a \in DOMAIN sent :
    /\ a <= Len(identifiers) => identifiers[a] = 0
    /\ \A v \in DOMAIN sent[a].values : v <= Len(identifiers) => identifiers[v] = a

\* An id the request carries must be the board's own and stay where it was, and
\* what the taxonomy in force has must not be left out.
CheckTaxonomyIdentifiers(sent) ==
  /\ \A a \in DOMAIN sent :
       /\ a <= Len(identifiers) => identifiers[a] = 0
       /\ \A v \in DOMAIN sent[a].values : v <= Len(identifiers) => identifiers[v] = a
  /\ Identifiers(Current) \subseteq Identifiers(sent)

MutMintNothing(sent) == identifiers' = identifiers

\* Each entry without an id gets the next one.
Mint(sent) ==
  \E n \in 0..MaxIdentifiers :
    /\ DOMAIN identifiers \cup Identifiers(sent) = 1..n
    /\ identifiers' = [id \in 1..n |-> IF id \in DOMAIN identifiers THEN identifiers[id]
                                       ELSE OwnerIn(sent, id)]

MutSaveUnderAnyPolicy(expected, sent) ==
  /\ expected = Len(taxonomies)
  /\ CheckTaxonomyIdentifiers(sent)
  /\ sent # Current
  /\ Mint(sent)
  /\ taxonomies' = Append(taxonomies, sent)
  /\ UNCHANGED <<policies, work, page>>

\* Saving the taxonomy in force again writes nothing.  Names are left out, and with
\* them the revisions that only rename.
SetBoardTaxonomy(expected, sent) ==
  /\ expected = Len(taxonomies)
  /\ CheckTaxonomyIdentifiers(sent)
  /\ sent # Current
  /\ policies # <<>> => Fits(Policy, sent)
  /\ Mint(sent)
  /\ taxonomies' = Append(taxonomies, sent)
  /\ UNCHANGED <<policies, work, page>>

ClearBoardTaxonomy(expected) ==
  /\ expected = Len(taxonomies)
  /\ Current # Blank
  /\ \A a \in DOMAIN Policy : Policy[a] = "off"
  /\ taxonomies' = Append(taxonomies, Blank)
  /\ UNCHANGED <<identifiers, policies, work, page>>

-----------------------------------------------------------------------------
(* The policy *)

SetBoardClassificationPolicy(expected, modes) ==
  /\ expected = Len(policies)
  /\ Current # Blank
  /\ Fits(modes, Current)
  /\ policies # <<>> => modes # Policy
  /\ policies' = Append(policies, [modes |-> modes, taxonomy |-> Len(taxonomies)])
  /\ UNCHANGED <<identifiers, taxonomies, work, page>>

-----------------------------------------------------------------------------
(* Decisions *)

\* Values of an axis that may be chosen.
Chosen(axis, values) ==
  /\ ~axis.archived
  /\ \A v \in values : v \in DOMAIN axis.values /\ ~axis.values[v]

\* A publication names the taxonomy and the policy it was made under, which need
\* not be the ones in force.  A second one under the same key writes nothing.  The
\* card's placement, the board's organization and what the payload is checked for
\* by itself are not this module's: a publication that fails there is refused.
PublishClassificationDecision(op, card, t, p, selections) ==
  /\ \A d \in DOMAIN decisions :
       <<decisions[d].operation, decisions[d].card, decisions[d].taxonomy, decisions[d].policy>>
         # <<op, card, t, p>>
  /\ taxonomies[t] # Blank
  /\ \A a \in DOMAIN selections :
       /\ a \in DOMAIN taxonomies[t] /\ Chosen(taxonomies[t][a], selections[a])
       /\ ModeOf(policies[p].modes, a) # "off"
  /\ decisions' = Append(decisions, [operation |-> op, card |-> card, taxonomy |-> t,
                                     policy |-> p, selections |-> selections])
  /\ UNCHANGED <<settings, reviews, labels, labelsRevision, page>>

-----------------------------------------------------------------------------
(* Reviews and labels *)

\* What a review sets, by axis.
SetBy(d, action, axes, corrections) ==
  IF action = "reject" THEN Blank
  ELSE [a \in axes |-> IF action = "accept" THEN decisions[d].selections[a] ELSE corrections[a]]

MutReviewUnderItsDecision(d, action, axes, corrections) ==
  LET taxonomy == taxonomies[decisions[d].taxonomy] IN
  \A a \in axes :
    /\ a \in DOMAIN taxonomy /\ ~taxonomy[a].archived
    /\ ModeOf(Policy, a) = "assisted"
    /\ action = "accept" => a \in DOMAIN decisions[d].selections
    /\ action # "reject" =>
         /\ Chosen(taxonomy[a], SetBy(d, action, axes, corrections)[a])
         /\ taxonomy[a].required => SetBy(d, action, axes, corrections)[a] # {}

\* Whether a review may set that under the taxonomy and the policy in force.
ReviewedValues(d, action, axes, corrections) ==
  \A a \in axes :
    /\ a \in DOMAIN Current /\ ~Current[a].archived
    /\ ModeOf(Policy, a) = "assisted"
    /\ action = "accept" => a \in DOMAIN decisions[d].selections
    /\ action # "reject" =>
         /\ Chosen(Current[a], SetBy(d, action, axes, corrections)[a])
         /\ Current[a].required => SetBy(d, action, axes, corrections)[a] # {}

MutReplacedIfAllLabelled(card, axes) ==
  IF axes \subseteq DOMAIN labels[card] THEN {labels[card][a].origin : a \in axes} ELSE {}

\* The reviews a review must name, and no others: those whose labels it replaces.
Replaced(card, axes) == {labels[card][a].origin : a \in axes \cap DOMAIN labels[card]}

MutRelabelWhole(card, set, origin) ==
  [a \in DOMAIN set |-> [values |-> set[a], origin |-> origin]]

\* The labels of a card once review number origin has set some.
Relabelled(card, set, origin) ==
  [a \in DOMAIN labels[card] \cup DOMAIN set |->
     IF a \in DOMAIN set THEN [values |-> set[a], origin |-> origin] ELSE labels[card][a]]

\* A second review under the same key writes nothing.
ReviewClassificationDecision(submission, d, action, axes, corrections, supersedes, expected) ==
  LET card == decisions[d].card
      set == SetBy(d, action, axes, corrections)
      resulting == labelsRevision[card] + IF set = Blank THEN 0 ELSE 1
  IN
  /\ \A i \in DOMAIN reviews : reviews[i].submission # submission
  /\ Current # Blank
  /\ axes # {} /\ DOMAIN corrections = IF action = "correct" THEN axes ELSE {}
  /\ ReviewedValues(d, action, axes, corrections)
  /\ expected = labelsRevision[card]
  /\ supersedes = Replaced(card, DOMAIN set)
  /\ reviews' = Append(reviews,
       [submission |-> submission, decision |-> d, action |-> action, axes |-> axes,
        corrections |-> corrections, supersedes |-> supersedes, expected |-> expected,
        resulting |-> resulting, taxonomy |-> Len(taxonomies), policy |-> Len(policies)])
  /\ labels' = [labels EXCEPT ![card] = Relabelled(card, set, Len(reviews) + 1)]
  /\ labelsRevision' = [labelsRevision EXCEPT ![card] = resulting]
  /\ UNCHANGED <<settings, decisions, page>>

-----------------------------------------------------------------------------
(* Reading a card's labels: the revision and the labels are two statements, *)
(* outside any transaction.                                                 *)

MutReadLabelsFirst(card) ==
  \/ /\ page[card].stage = "asked"
     /\ page' = [page EXCEPT ![card].stage = "half", ![card].labels = labels[card]]
  \/ /\ page[card].stage = "half"
     /\ page' = [page EXCEPT ![card].stage = "shown", ![card].revision = labelsRevision[card]]

CardLabels(card) ==
  \/ /\ page[card].stage = "asked"
     /\ page' = [page EXCEPT ![card].stage = "half", ![card].revision = labelsRevision[card]]
  \/ /\ page[card].stage = "half"
     /\ page' = [page EXCEPT ![card].stage = "shown", ![card].labels = labels[card]]

ReadLabels(card) == CardLabels(card) /\ UNCHANGED <<settings, work>>

\* A refused or a repeated request writes nothing.
Refused == UNCHANGED vars

-----------------------------------------------------------------------------

Next ==
  \/ \E expected \in 0..Len(taxonomies) :
       /\ Len(taxonomies) < MaxTaxonomies
       /\ \/ \E sent \in Sendable : SetBoardTaxonomy(expected, sent)
          \/ ClearBoardTaxonomy(expected)
  \/ /\ Len(policies) < MaxPolicies
     /\ \E expected \in 0..Len(policies), modes \in Rules :
          SetBoardClassificationPolicy(expected, modes)
  \/ /\ Len(decisions) < MaxDecisions
     /\ \E op \in Operation, card \in Card, t \in DOMAIN taxonomies, p \in DOMAIN policies,
           selections \in Answers :
          PublishClassificationDecision(op, card, t, p, selections)
  \/ /\ Len(reviews) < MaxReviews
     /\ \E submission \in Submission, d \in DOMAIN decisions, action \in ReviewAction,
           supersedes \in SUBSET DOMAIN reviews, axes \in SUBSET DOMAIN Current :
          \E corrections \in Answers \cup {Blank},
             expected \in 0..labelsRevision[decisions[d].card] :
            ReviewClassificationDecision(submission, d, action, axes, corrections,
                                         supersedes, expected)
  \/ \E card \in Card : ReadLabels(card)
  \/ Refused

Spec == Init /\ [][Next]_vars

-----------------------------------------------------------------------------
(* Properties *)

\* Every record is of its shape, and names revisions, decisions and reviews there are.
TypeOK ==
  /\ identifiers \in Seq(Nat) /\ Len(identifiers) <= MaxIdentifiers
  /\ \A t \in DOMAIN taxonomies : Identifiers(taxonomies[t]) \subseteq DOMAIN identifiers
  /\ \A p \in DOMAIN policies : /\ \A a \in DOMAIN policies[p].modes : policies[p].modes[a] \in Mode
                                /\ policies[p].taxonomy \in DOMAIN taxonomies
  /\ \A d \in DOMAIN decisions : /\ decisions[d].card \in Card
                                 /\ decisions[d].taxonomy \in DOMAIN taxonomies
                                 /\ decisions[d].policy \in DOMAIN policies
  /\ \A i \in DOMAIN reviews : /\ reviews[i].decision \in DOMAIN decisions
                               /\ reviews[i].supersedes \subseteq 1..(i - 1)
  /\ \A c \in Card : \A a \in DOMAIN labels[c] : labels[c][a].origin \in DOMAIN reviews
  /\ labelsRevision \in [Card -> Nat]

\* The taxonomy and the policy are saved one at a time, each under its own
\* If-Match.  Whatever the order, the policy in force names only axes the
\* taxonomy in force has, an archived one only as off, and none but as off
\* when there is no taxonomy (classification.go:511-517, :559-563, :709-717).
PolicyFitsTaxonomy ==
  IF Current = Blank THEN \A a \in DOMAIN Policy : Policy[a] = "off" ELSE Fits(Policy, Current)

\* A label made by some review still means what it meant: unless the taxonomy was
\* cleared since, its axis and its values are there; and a value that is there
\* is on the label's axis, so a decision or a label is never read under
\* another axis (classification.go:585-642).
LabelsResolve ==
  \A c \in Card : \A a \in DOMAIN labels[c] :
    /\ (\A t \in reviews[labels[c][a].origin].taxonomy..Len(taxonomies) : taxonomies[t] # Blank)
         => /\ a \in DOMAIN Current
            /\ labels[c][a].values \subseteq DOMAIN Current[a].values
    /\ labels[c][a].values \cap Identifiers(Current)
         \subseteq IF a \in DOMAIN Current THEN DOMAIN Current[a].values ELSE {}

\* What review i set, and on which card.
SetByReview(i) == SetBy(reviews[i].decision, reviews[i].action, reviews[i].axes,
                        reviews[i].corrections)
CardOf(i) == decisions[reviews[i].decision].card
Setting(c, a) == {i \in DOMAIN reviews : CardOf(i) = c /\ a \in DOMAIN SetByReview(i)}

\* The labels of a card are what its reviews say, read in order: on each axis
\* the last review that set it, and nothing on an axis no review set; and the
\* labels revision counts the reviews that set any.  Neither a decision nor a
\* repeated review changes them (classification.go:1190-1240).
LabelsReplayReviews ==
  \A c \in Card :
    /\ \A a \in DOMAIN labels[c] : \E i \in Setting(c, a) :
         /\ labels[c][a].origin = i /\ \A j \in Setting(c, a) : j <= i
         /\ labels[c][a].values = SetByReview(i)[a]
    /\ \A i \in DOMAIN reviews : CardOf(i) = c => DOMAIN SetByReview(i) \subseteq DOMAIN labels[c]
    /\ labelsRevision[c] =
         Cardinality({i \in DOMAIN reviews : CardOf(i) = c /\ SetByReview(i) # Blank})

\* When a review replaces what another set on an axis, it names that review, and
\* it was sent by someone who saw the card's labels as that review left them
\* or later: nobody's correction is overwritten unseen (README.md:840-846).
NoCorrectionOverwrittenUnseen ==
  \A c \in Card : \A a \in DOMAIN labels[c] : \A i, j \in Setting(c, a) :
    i < j => /\ reviews[i].resulting <= reviews[j].expected
             /\ (\A k \in Setting(c, a) : ~(i < k /\ k < j)) => i \in reviews[j].supersedes

\* A review sent with the revision on a page, if it is accepted, replaces what that
\* page showed, although the page's revision and its labels were read apart
\* (classification.go:1099-1123; compare classification_page.go:10-11).
AcceptedMeansSeen ==
  \A c \in Card :
    (page[c].stage = "shown" /\ page[c].revision = labelsRevision[c]) => page[c].labels = labels[c]

\* Each review was allowed by the revisions it says it was made under, not only by
\* those of its decision: the axis assisted, and every value it set one
\* that could be chosen, and some value where one is required
\* (classification.go:1255-1323).
ReviewsKeepTheirRules ==
  \A i \in DOMAIN reviews : \A a \in reviews[i].axes :
    /\ ModeOf(policies[reviews[i].policy].modes, a) = "assisted"
    /\ a \in DOMAIN taxonomies[reviews[i].taxonomy]
    /\ a \in DOMAIN SetByReview(i) =>
         /\ Chosen(taxonomies[reviews[i].taxonomy][a], SetByReview(i)[a])
         /\ taxonomies[reviews[i].taxonomy][a].required => SetByReview(i)[a] # {}
=============================================================================
