------------------------------ MODULE ItemEdits ------------------------------
(***************************************************************************)
(* What kanban-store writes on the noteboard items that its cards are, and *)
(* on what reading it decides: the PATCH of a card, whose priority may     *)
(* bring a default spend ceiling with it, the same default for a card that *)
(* is created on a board or attached to one, and the tags a bulk command   *)
(* adds or removes (internal/api/priority_default_spend_ceiling.go,        *)
(* internal/api/api.go, internal/api/bulk_card_commands.go).               *)
(*                                                                         *)
(* noteboard owns the item.  A handler reads it by one call and writes it  *)
(* by another, and in between it reads the card's boards and the ladder of *)
(* each by a statement of its own, while other requests and noteboard's    *)
(* own users write the same item.  A PATCH with If-Match is refused when   *)
(* the item has changed; one without is applied to whatever is there.      *)
(***************************************************************************)
EXTENDS Naturals, FiniteSets, Sequences

CONSTANTS
  Card, Board, Tag,
  Rank,        \* priority values a ladder may have a rung for
  Ladder,      \* what a ladder may say: the default of each rank, if it gives one
  Amount,      \* ceilings, in dollars
  Before,      \* what each card may be at the start, and on which boards
  Ask,         \* what a PATCH or a creation may ask for each card
  Bulk,        \* the lists of cards a bulk command may be given
  TagChange,   \* the tags it may name, and whether they are added
  Request,     \* every request that is ever sent
  MaxOpen,     \* how many are open at once
  CanFail,     \* whether a call may fail and the server may stop
  Unranked,    \* UnsetPriorityValue, 0
  None,        \* no ceiling, or no default
  Keep,        \* the patch does not name the field
  NoCard, NoBoard

Priority == Rank \cup {Unranked}
Ceiling == Amount \cup {None}
Item == [priority : Priority, ceiling : Ceiling, tags : SUBSET Tag, version : Nat]
Patch == [priority : Priority \cup {Keep}, ceiling : Ceiling \cup {Keep},
          tags : {Keep} \cup SUBSET Tag]

\* An item's version is noteboard's updated_at, which every applied write moves.
NoItem == [priority |-> Unranked, ceiling |-> None, tags |-> {}, version |-> 0]

ASSUME ItemAssumption ==
  /\ Amount \subseteq Nat /\ None \notin Amount /\ Keep \notin Ceiling
  /\ Unranked \notin Rank /\ Keep \notin Priority /\ \A tags \in SUBSET Tag : Keep # tags
  /\ Ladder \subseteq [Rank -> Ceiling]
  /\ Before \in [Card -> SUBSET [item : Item, on : SUBSET Board]]
  /\ \A c \in Card : \A before \in Before[c] : before.item.version = 0 => before.item = NoItem
  /\ TagChange \subseteq [named : SUBSET Tag, adding : BOOLEAN]
  /\ Ask \in [Card -> SUBSET Patch]
  /\ Bulk \subseteq Seq(Card) \ {<<>>}
  /\ NoCard \notin Card /\ NoBoard \notin Board
  /\ MaxOpen \in Nat /\ CanFail \in BOOLEAN

VARIABLES
  item,     \* noteboard: each item
  byHand,   \* history: whether somebody named the ceiling the item has
  on,       \* placements: the boards each card is on
  ladder,   \* board_priority_levels
  req       \* what each request has done so far

vars == <<item, byHand, on, ladder, req>>

Nothing == [priority |-> Keep, ceiling |-> Keep, tags |-> Keep]

\* A request that is not open.  While it is: the card and board it is about and the
\* cards after it, the patch, the tags a bulk command names, the version it is made against (0: none), the item
\* as read, the card's boards and those whose ladder is still to be read, the lowest
\* default so far, the default on offer, the default it will write; and crossed, whether
\* a ladder or the card's boards changed meanwhile.
Closed(stage) ==
  [stage |-> stage, op |-> "none", card |-> NoCard, rest |-> <<>>, board |-> NoBoard,
   ask |-> Nothing, named |-> {}, adding |-> FALSE, match |-> 0, read |-> NoItem, boards |-> {},
   left |-> {}, lowest |-> None, offer |-> None, given |-> Keep, crossed |-> FALSE]

Exists(c) == item[c].version # 0

Open == {r \in Request : req[r].stage \notin {"new", "done", "failed"}}

Init ==
  /\ \E before \in {f \in [Card -> UNION {Before[c] : c \in Card}] : \A c \in Card : f[c] \in Before[c]} :
       /\ item = [c \in Card |-> before[c].item]
       /\ on = [c \in Card |-> before[c].on]
  /\ byHand = [c \in Card |-> item[c].ceiling # None]
  /\ ladder \in [Board -> Ladder]
  /\ req = [r \in Request |-> Closed("new")]

-----------------------------------------------------------------------------
(* The rule: priority_default_spend_ceiling.go:10-30 *)

Offers(boards, p) ==
  {ladder[b][p] : b \in {x \in boards : p # Unranked /\ ladder[x][p] # None}}

\* The lowest default any of these boards gives this priority.
LowestOffer(boards, p) ==
  IF Offers(boards, p) = {} THEN None
  ELSE CHOOSE a \in Offers(boards, p) : \A x \in Offers(boards, p) : a <= x

\* The ceiling of an item on these boards that takes priority p, while nobody names one.
RuledCeiling(it, boards, p) ==
  IF /\ LowestOffer(boards, p) # None
     /\ it.ceiling = None \/ it.ceiling = LowestOffer(boards, it.priority)
  THEN LowestOffer(boards, p) ELSE it.ceiling

-----------------------------------------------------------------------------
(* Requests *)

\* Requests are alike: the next one sent is any one of them.
NextToSend(r) == req[r].stage = "new" /\ r = CHOOSE q \in Request : req[q].stage = "new"

Begin(r, fields) ==
  /\ NextToSend(r) /\ Cardinality(Open) < MaxOpen
  /\ req' = [req EXCEPT ![r] = fields]
  /\ UNCHANGED <<item, byHand, on, ladder>>

Becomes(r, fields) == req' = [req EXCEPT ![r] = fields]

\* Nothing is done for this card any more; a bulk command goes on to its next.
Finished(q, stage) ==
  IF q.rest = <<>> THEN Closed(stage)
  ELSE [Closed("tags") EXCEPT !.op = "bulk", !.card = Head(q.rest), !.rest = Tail(q.rest),
                              !.named = q.named, !.adding = q.adding]

\* r takes its next step, and each open request of others is crossed by it.
Crossing(others, r, fields) ==
  req' = [q \in Request |->
            IF q = r THEN fields
            ELSE IF q \in others \cap Open THEN [req[q] EXCEPT !.crossed = TRUE]
            ELSE req[q]]

\* PATCH /api/cards/{id}, made against the version the client saw or against none.
\* Only a priority without a ceiling makes the handler read anything.
BeginPatch(r) ==
  \E c \in Card : \E ask \in Ask[c], match \in {0, item[c].version} :
    /\ Exists(c)
    /\ Begin(r, [Closed(IF ask.priority # Keep /\ ask.ceiling = Keep THEN "item" ELSE "write")
                   EXCEPT !.op = "patch", !.card = c, !.ask = ask, !.match = match])

\* PUT /api/boards/{board}/cards/{card} of an item that exists.
BeginAttach(r) ==
  \E c \in Card, b \in Board :
    /\ Exists(c)
    /\ Begin(r, [Closed("item") EXCEPT !.op = "attach", !.card = c, !.board = b])

\* POST /api/boards/{board}/cards; null names no ceiling there.
BeginCreate(r) ==
  \E c \in Card, b \in Board : \E ask \in {a \in Ask[c] : a.ceiling # None} :
    /\ ~Exists(c) /\ \A q \in Open : req[q].card # c
    /\ LET asked == [Closed("write") EXCEPT !.op = "create", !.card = c, !.board = b, !.ask = ask]
       IN Begin(r, IF ask.priority # Keep /\ ask.ceiling = Keep
                   THEN [asked EXCEPT !.stage = "new rung", !.boards = {b}, !.left = {b}]
                   ELSE asked)

\* POST /api/bulk-card-commands with add_tags or remove_tags.
BeginTags(r) ==
  \E cards \in Bulk, change \in TagChange :
    /\ \A i \in DOMAIN cards : Exists(cards[i])
    /\ Begin(r, [Closed("tags") EXCEPT !.op = "bulk", !.card = Head(cards), !.rest = Tail(cards),
                                       !.named = change.named, !.adding = change.adding])

-----------------------------------------------------------------------------
(* Which ceiling: the item, the card's boards, and a ladder at a time *)

\* GetItem; a priority that becomes unset brings nothing with it.
ReadItem(r) ==
  /\ req[r].stage = "item"
  /\ Becomes(r, [req[r] EXCEPT !.read = item[req[r].card],
                               !.stage = IF req[r].op = "attach" THEN "row"
                                         ELSE IF req[r].ask.priority = Unranked THEN "write"
                                         ELSE "boards"])
  /\ UNCHANGED <<item, byHand, on, ladder>>

\* Writes this default, or leaves the ceiling alone: an arrival then has nothing to write.
Give(q, amount) ==
  IF q.op = "attach" /\ amount = Keep THEN Closed("done")
  ELSE [q EXCEPT !.stage = "write", !.given = amount]

MutOnceRead(q) ==
  IF q.left # {} THEN q
  ELSE Give(q, IF q.lowest = None THEN Keep ELSE q.lowest)

\* What follows the last ladder of a round.  A ceiling is replaced only if it is the
\* default of the rank the card is leaving, which takes a second round.
OnceRead(q) ==
  IF q.left # {} THEN q
  ELSE IF q.stage = "old rung"
  THEN Give(q, IF q.lowest # None /\ q.lowest = q.read.ceiling THEN q.offer ELSE Keep)
  ELSE IF q.lowest = None THEN Give(q, Keep)
  ELSE IF q.read.ceiling = None THEN Give(q, q.lowest)
  ELSE [q EXCEPT !.stage = "old rung", !.offer = q.lowest, !.left = q.boards, !.lowest = None]

\* boardIDsOfCard
ReadBoards(r) ==
  /\ req[r].stage = "boards"
  /\ Becomes(r, OnceRead([req[r] EXCEPT !.stage = "new rung", !.boards = on[req[r].card],
                                        !.left = on[req[r].card]]))
  /\ UNCHANGED <<item, byHand, on, ladder>>

RankSought(q) ==
  IF q.stage = "old rung" \/ q.op = "attach" THEN q.read.priority ELSE q.ask.priority

MutLower(lowest, default) == IF default = None THEN lowest ELSE default

Lower(lowest, default) ==
  IF default = None THEN lowest
  ELSE IF lowest = None THEN default
  ELSE IF default < lowest THEN default ELSE lowest

DefaultFor(b, p) == IF p = Unranked THEN None ELSE ladder[b][p]

\* One turn of lowestDefaultSpendCeilingForPriority: GetPriorityLadder and LevelFor.
ReadLadder(r) ==
  /\ req[r].stage \in {"new rung", "old rung"}
  /\ \E b \in req[r].left :
       Becomes(r, OnceRead([req[r] EXCEPT !.left = @ \ {b},
                    !.lowest = Lower(@, DefaultFor(b, RankSought(req[r])))]))
  /\ UNCHANGED <<item, byHand, on, ladder>>

-----------------------------------------------------------------------------
(* Writes *)

MutReadTags(r) ==
  /\ req[r].stage = "tags"
  /\ LET it == item[req[r].card]
         kept == IF req[r].adding THEN it.tags \cup req[r].named ELSE it.tags \ req[r].named
     IN Becomes(r, [req[r] EXCEPT !.stage = "write", !.read = it, !.ask.tags = kept])
  /\ UNCHANGED <<item, byHand, on, ladder>>

\* changeTagsOfCard reads the card, and writes the new list against the version it read.
ReadTags(r) ==
  /\ req[r].stage = "tags"
  /\ LET it == item[req[r].card]
         kept == IF req[r].adding THEN it.tags \cup req[r].named ELSE it.tags \ req[r].named
     IN Becomes(r, [req[r] EXCEPT !.stage = "write", !.read = it, !.ask.tags = kept,
                                  !.match = it.version])
  /\ UNCHANGED <<item, byHand, on, ladder>>

Named(field, old) == IF field = Keep THEN old ELSE field

\* What noteboard makes of an item under a patch.
Patched(it, q) ==
  [priority |-> Named(q.ask.priority, it.priority),
   ceiling |-> Named(q.given, Named(q.ask.ceiling, it.ceiling)),
   tags |-> Named(q.ask.tags, it.tags),
   version |-> it.version + 1]

Put(q) ==
  /\ item' = [item EXCEPT ![q.card] = Patched(@, q)]
  /\ byHand' = [byHand EXCEPT ![q.card] = q.given = Keep /\ (q.ask.ceiling # Keep \/ @)]

\* noteboard answers 412 when the item is not at the version the patch is made against.
Refused(q) == q.match # 0 /\ q.match # item[q.card].version

\* PatchItemIfMatch, and the PatchItem of an arrival, which names no version.
WriteItem(r) ==
  /\ req[r].stage = "write" /\ req[r].op # "create"
  /\ IF Refused(req[r])
     THEN Becomes(r, Finished(req[r], "failed")) /\ UNCHANGED <<item, byHand>>
     ELSE Becomes(r, Finished(req[r], "done")) /\ Put(req[r])
  /\ UNCHANGED <<on, ladder>>

CreateItem(r) ==
  /\ req[r].stage = "write" /\ req[r].op = "create"
  /\ Put(req[r])
  /\ Becomes(r, [req[r] EXCEPT !.stage = "row"])
  /\ UNCHANGED <<on, ladder>>

\* AttachCard.  After an attachment the default is decided on the item read before it.
AttachRow(r) ==
  LET q == req[r] IN
  /\ q.stage = "row"
  /\ on' = [on EXCEPT ![q.card] = @ \cup {q.board}]
  /\ Crossing({p \in Request \ {r} : req[p].card = q.card}, r,
        IF q.op = "create" \/ q.read.priority = Unranked \/ q.read.ceiling # None
        THEN Closed("done") ELSE [q EXCEPT !.stage = "boards"])
  /\ UNCHANGED <<item, byHand, ladder>>

-----------------------------------------------------------------------------
(* What is done in one statement *)

Once(r, others) == NextToSend(r) /\ Crossing(others, r, Closed("done"))

DetachCard(r) ==
  \E c \in Card : \E b \in on[c] :
    /\ on' = [on EXCEPT ![c] = @ \ {b}]
    /\ Once(r, {q \in Request : req[q].card = c})
    /\ UNCHANGED <<item, byHand, ladder>>

\* SetPriorityLadder replaces the rungs of a board in one transaction.
SetPriorityLadder(r) ==
  \E b \in Board, levels \in Ladder :
    /\ ladder' = [ladder EXCEPT ![b] = levels]
    /\ Once(r, Request)
    /\ UNCHANGED <<item, byHand, on>>

\* Somebody edits the item in noteboard, which brings no default with it.
EditInNoteboard(r) ==
  \E c \in Card : \E ask \in Ask[c] :
    /\ Exists(c)
    /\ Put([card |-> c, ask |-> ask, given |-> Keep])
    /\ Once(r, {})
    /\ UNCHANGED <<on, ladder>>

-----------------------------------------------------------------------------
(* Failures *)

\* A call fails: what was written stays.  A bulk command reports it for this card.
Fail(r) ==
  /\ CanFail /\ r \in Open
  /\ Becomes(r, Finished(req[r], "failed"))
  /\ UNCHANGED <<item, byHand, on, ladder>>

\* The server stops: nothing that was open is taken up again.
Stop ==
  /\ CanFail /\ Open # {}
  /\ req' = [r \in Request |-> IF r \in Open THEN Closed("failed") ELSE req[r]]
  /\ UNCHANGED <<item, byHand, on, ladder>>

\* Every request was sent and answered: the server waits.
Idle == (\A r \in Request : req[r].stage \in {"done", "failed"}) /\ UNCHANGED vars

Next ==
  \/ \E r \in Request :
       \/ BeginPatch(r) \/ BeginAttach(r) \/ BeginCreate(r) \/ BeginTags(r)
       \/ ReadItem(r) \/ ReadBoards(r) \/ ReadLadder(r) \/ ReadTags(r)
       \/ WriteItem(r) \/ CreateItem(r) \/ AttachRow(r)
       \/ DetachCard(r) \/ SetPriorityLadder(r) \/ EditInNoteboard(r)
       \/ Fail(r)
  \/ Stop \/ Idle

Spec == Init /\ [][Next]_vars

-----------------------------------------------------------------------------
(* Properties *)

Stages == {"new", "item", "boards", "new rung", "old rung", "tags", "write", "row", "done", "failed"}

ReqRecord ==
  [stage : Stages, op : {"none", "patch", "attach", "create", "bulk"}, card : Card \cup {NoCard},
   rest : Seq(Card), board : Board \cup {NoBoard}, ask : Patch, named : SUBSET Tag,
   adding : BOOLEAN, match : Nat, read : Item, boards : SUBSET Board, left : SUBSET Board,
   lowest : Ceiling, offer : Ceiling, given : Ceiling \cup {Keep}, crossed : BOOLEAN]

\* The state is well formed, and an open request names a card.
TypeOK ==
  /\ item \in [Card -> Item]
  /\ byHand \in [Card -> BOOLEAN]
  /\ on \in [Card -> SUBSET Board]
  /\ ladder \in [Board -> Ladder]
  /\ req \in [Request -> ReqRecord]
  /\ \A r \in Open : req[r].card \in Card

\* Whether what request r read is still so: no ladder and no placement of its card
\* changed since it began, and the item did not since it was read.  A request made
\* against a version need not be asked that: noteboard refuses it otherwise.
Undisturbed(r) ==
  /\ ~req[r].crossed
  /\ req[r].match # 0 \/ req[r].read.version = item[req[r].card].version

Ends(r) == req[r].stage # "done" /\ req'[r].stage = "done"

\* "A card on several boards takes the LOWEST default any of those boards gives its
\* priority", when it is created, when it arrives without a ceiling and when its
\* priority changes "when the card has no ceiling or still carries the default of the
\* rung it is leaving": read call by call, that is what is written, provided nothing
\* it was read from changed; and If-Match is proof enough that the item did not.
CeilingsFollowTheRule ==
  [][\A r \in Open :
       LET q == req[r]
           c == q.card
           p == q.ask.priority
       IN Undisturbed(r) =>
            /\ q.op = "patch" /\ p # Keep /\ q.ask.ceiling = Keep /\ Ends(r) =>
                 item'[c].ceiling = RuledCeiling(item[c], on[c], p)
            /\ q.op = "attach" /\ Ends(r) =>
                 item'[c].ceiling = RuledCeiling(item[c], on'[c], item[c].priority)
            /\ q.op = "create" /\ q.stage = "write" /\ item'[c] # item[c] /\ q.ask.ceiling = Keep =>
                 item'[c].ceiling = LowestOffer({q.board}, item'[c].priority)]_vars

Offered == {levels[p] : levels \in Ladder, p \in Rank}

\* "A ceiling someone set by hand to any other number is left alone": one that is no
\* rung's default is replaced by a default only by a request that named no version and
\* had read the item before the ceiling was set.
HandSetSurvives ==
  [][\A c \in Card :
       /\ byHand[c] /\ ~byHand'[c]
       /\ item[c].ceiling \notin Offered \cup {None}
       => \E r \in Open : /\ req[r].card = c /\ req[r].match = 0
                          /\ req[r].read.version < item[c].version]_vars

\* "if someone else saves in between, noteboard answers 412 for this card and their tags
\* survive": whatever was written since it read the card, a bulk command changes the
\* tags it names and no other, and nothing else of the item.
TagsOfOthersSurvive ==
  [][\A r \in Open : req[r].op = "bulk" /\ req[r].stage = "write" =>
       LET c == req[r].card
           named == req[r].named
       IN item'[c] # item[c] /\ req'[r] # req[r] =>
            item'[c] = [item[c] EXCEPT
                          !.tags = IF req[r].adding THEN @ \cup named ELSE @ \ named,
                          !.version = @ + 1]]_vars
=============================================================================
