--------------------------- MODULE ItemEditsProofs ---------------------------
(***************************************************************************)
(* Proofs about ItemEdits, for any items, boards, ladders and requests: a  *)
(* ceiling that was set by hand is replaced by a default only behind the   *)
(* back of a request without If-Match, a bulk command takes nobody else's  *)
(* tags, and the default a request writes is the one the rule gives.       *)
(*                                                                         *)
(* The argument: every write moves the version of an item, so a request    *)
(* that read an item whose version is still the same read what the item    *)
(* still is.  A default is only given to an item whose ceiling, as read,   *)
(* was none or a rung's default; and a request made against a version is   *)
(* refused unless the item it read is the item there is.  While no ladder  *)
(* and no placement of its card changes, a request's lowest default is     *)
(* that of the boards it has read so far, so that after the last of them   *)
(* it is what the rule says of the item it read.                           *)
(***************************************************************************)
EXTENDS ItemEdits, WellFoundedInduction, TLAPS

\* What a bulk command asks of an item it has read.
Retagged(q) ==
  [Nothing EXCEPT !.tags = IF q.adding THEN q.read.tags \cup q.named ELSE q.read.tags \ q.named]

\* What an open request has read, and what it concluded, when the items are these.
ReadsTruly(q, items) ==
  /\ q.card \in Card
  /\ q.match <= items[q.card].version
  /\ q.read.version <= items[q.card].version
  /\ q.read.version = items[q.card].version => q.read = items[q.card]

Concludes(q) ==
  /\ q.op = "create" => q.match = 0
  /\ q.op # "bulk" => q.rest = <<>>
  /\ q.op \in {"attach", "create"} => q.board \in Board
  /\ q.stage = "row" => q.op \in {"attach", "create"}
  /\ q.stage = "tags" => q.op = "bulk"
  /\ q.stage = "item" => q.given = Keep
  /\ q.lowest \in Offered \cup {None}
  /\ q.stage \in {"row", "boards", "new rung", "old rung"} \/ q.given # Keep =>
       q.match <= q.read.version
  /\ q.stage \in {"item", "boards", "new rung"} /\ q.op # "attach" => q.ask.priority # Keep
  /\ q.given # Keep => q.read.ceiling \in Offered \cup {None}

Retags(q, items) ==
  q.op = "bulk" =>
    /\ q.stage \in {"tags", "write"}
    /\ q.given = Keep
    /\ items[q.card].version # 0
    /\ \A i \in DOMAIN q.rest : items[q.rest[i]].version # 0
    /\ q.stage = "tags" => q.ask = Nothing
    /\ q.stage = "write" => q.match = q.read.version /\ q.match # 0 /\ q.ask = Retagged(q)

IsOpen(q) == q.stage \notin {"new", "done", "failed"}

Sound(q, items) ==
  IsOpen(q) => ReadsTruly(q, items) /\ Concludes(q) /\ Retags(q, items)

\* Each write of an item moves its version.
Grow(old, new) ==
  \A c \in Card : new[c] = old[c] \/ new[c].version = old[c].version + 1

Blank(items) == \A c \in Card : items[c].version = 0 => items[c] = NoItem

TypedStore ==
  /\ item \in [Card -> Item] /\ Blank(item)
  /\ byHand \in [Card -> BOOLEAN]
  /\ on \in [Card -> SUBSET Board]
  /\ ladder \in [Board -> Ladder]

IInv ==
  /\ TypedStore
  /\ req \in [Request -> ReqRecord]
  /\ \A r \in Request : Sound(req[r], item)

-----------------------------------------------------------------------------
LEMMA NothingTyped == Nothing \in Patch /\ NoItem \in Item
BY DEF Nothing, Patch, NoItem, Item, Priority, Ceiling

LEMMA ClosedTyped ==
  ASSUME NEW stage \in Stages
  PROVE  Closed(stage) \in ReqRecord
BY NothingTyped DEF Closed, ReqRecord, Ceiling

LEMMA OldInv == IInv => TypeOK
BY DEF IInv, TypedStore, TypeOK, Open, Sound, IsOpen, ReadsTruly

\* What others write leaves a request sound: a version that moved is past what it read.
LEMMA SoundStays ==
  ASSUME NEW old \in [Card -> Item], NEW new \in [Card -> Item], Grow(old, new),
         NEW q \in ReqRecord, Sound(q, old)
  PROVE  Sound(q, new)
<1> SUFFICES ASSUME IsOpen(q) PROVE Sound(q, new)
  BY DEF Sound
<1>1. ReadsTruly(q, old) /\ Concludes(q) /\ Retags(q, old)
  BY DEF Sound
<1>2. q.card \in Card /\ q.read.version \in Nat /\ q.match \in Nat
  BY <1>1 DEF ReadsTruly, ReqRecord, Item
<1>3. \A c \in Card : old[c].version \in Nat /\ new[c].version \in Nat
  BY DEF Item
<1>4. ReadsTruly(q, new)
  BY <1>1, <1>2, <1>3 DEF ReadsTruly, Grow
<1>5. \A c \in Card : old[c].version # 0 => new[c].version # 0
  BY <1>3 DEF Grow
<1>6. \A i \in DOMAIN q.rest : q.rest[i] \in Card
  BY DEF ReqRecord
<1>7. Retags(q, new)
  BY <1>1, <1>2, <1>5, <1>6 DEF Retags
<1>8. QED
  BY <1>1, <1>4, <1>7 DEF Sound

\* One request moves on, whatever becomes of the items.
LEMMA OneMoves ==
  ASSUME IInv, NEW r \in Request, NEW q \in ReqRecord, Becomes(r, q),
         TypedStore', Grow(item, item'), Sound(q, item')
  PROVE  IInv'
<1>1. item \in [Card -> Item] /\ item' \in [Card -> Item]
  BY DEF IInv, TypedStore
<1>2. req' \in [Request -> ReqRecord]
  BY DEF IInv, Becomes
<1>3. ASSUME NEW p \in Request PROVE Sound(req'[p], item')
  <2>1. CASE p = r
    BY <2>1 DEF IInv, Becomes
  <2>2. CASE p # r
    <3>1. req'[p] = req[p] /\ req[p] \in ReqRecord /\ Sound(req[p], item)
      BY <2>2 DEF IInv, Becomes
    <3>2. QED
      BY <1>1, <3>1, SoundStays
  <2>3. QED
    BY <2>1, <2>2
<1>4. QED
  BY <1>2, <1>3 DEF IInv

LEMMA CrossedSound ==
  ASSUME NEW items, NEW q \in ReqRecord, Sound(q, items)
  PROVE  [q EXCEPT !.crossed = TRUE] \in ReqRecord /\ Sound([q EXCEPT !.crossed = TRUE], items)
<1>1. [q EXCEPT !.crossed = TRUE] \in ReqRecord
  BY DEF ReqRecord
<1>2. Sound([q EXCEPT !.crossed = TRUE], items)
  BY DEF Sound, IsOpen, ReadsTruly, Concludes, Retags, Retagged, ReqRecord
<1>3. QED
  BY <1>1, <1>2

\* One moves on, and some others are crossed by it.
LEMMA OneCrosses ==
  ASSUME IInv, NEW others, NEW r \in Request, NEW q \in ReqRecord, Crossing(others, r, q),
         TypedStore', Grow(item, item'), Sound(q, item')
  PROVE  IInv'
<1>1. item \in [Card -> Item] /\ item' \in [Card -> Item]
  BY DEF IInv, TypedStore
<1>2. ASSUME NEW p \in Request PROVE req'[p] \in ReqRecord /\ Sound(req'[p], item')
  <2>1. CASE p = r
    BY <2>1 DEF Crossing
  <2>2. CASE p # r
    <3>1. req[p] \in ReqRecord /\ Sound(req[p], item)
      BY DEF IInv
    <3>2. Sound(req[p], item')
      BY <1>1, <3>1, SoundStays
    <3>3. req'[p] = req[p] \/ req'[p] = [req[p] EXCEPT !.crossed = TRUE]
      BY <2>2 DEF Crossing
    <3>4. QED
      BY <3>1, <3>2, <3>3, CrossedSound
  <2>3. QED
    BY <2>1, <2>2
<1>3. req' = [p \in Request |-> req'[p]]
  BY DEF Crossing
<1>4. req' \in [Request -> ReqRecord]
  BY <1>2, <1>3
<1>5. QED
  BY <1>2, <1>4 DEF IInv

LEMMA Standing == ASSUME IInv, UNCHANGED item PROVE Grow(item, item')
BY DEF Grow

LEMMA SameStore == ASSUME IInv, UNCHANGED <<item, byHand, on, ladder>> PROVE TypedStore' /\ Grow(item, item')
BY DEF Grow, IInv, TypedStore, Blank

LEMMA ClosedSound ==
  ASSUME NEW stage \in {"new", "done", "failed"}, NEW items
  PROVE  Closed(stage) \in ReqRecord /\ Sound(Closed(stage), items)
BY ClosedTyped DEF Sound, IsOpen, Closed, Stages

\* A request is over, or a bulk command goes on to its next card.
LEMMA FinishedSound ==
  ASSUME NEW items \in [Card -> Item], Blank(items), NEW q \in ReqRecord, Sound(q, items),
         IsOpen(q), NEW stage \in {"done", "failed"}
  PROVE  Finished(q, stage) \in ReqRecord /\ Sound(Finished(q, stage), items)
<1>1. CASE q.rest = <<>>
  BY <1>1, ClosedSound DEF Finished
<1>2. CASE q.rest # <<>>
  <2> DEFINE next == [Closed("tags") EXCEPT !.op = "bulk", !.card = Head(q.rest),
                         !.rest = Tail(q.rest), !.named = q.named, !.adding = q.adding]
  <2>1. q.op = "bulk" /\ q.rest \in Seq(Card)
    BY <1>2 DEF Sound, Concludes, ReqRecord
  <2>2. \A i \in DOMAIN q.rest : items[q.rest[i]].version # 0
    BY <2>1 DEF Sound, Retags
  <2>3. /\ Head(q.rest) \in Card /\ items[Head(q.rest)].version # 0
        /\ Tail(q.rest) \in Seq(Card)
        /\ \A i \in DOMAIN Tail(q.rest) : items[Tail(q.rest)[i]].version # 0
    BY <1>2, <2>1, <2>2
  <2>4. next \in ReqRecord
    <3>1. Closed("tags") \in ReqRecord
      BY ClosedTyped DEF Stages
    <3>2. q.named \in SUBSET Tag /\ q.adding \in BOOLEAN
      BY DEF ReqRecord
    <3>3. QED
      BY <2>3, <3>1, <3>2 DEF ReqRecord
  <2>5. Sound(next, items)
    <3>1. items[Head(q.rest)] \in Item
      BY <2>3
    <3>2. ReadsTruly(next, items)
      BY <2>3, <3>1 DEF ReadsTruly, Closed, NoItem, Item
    <3>3. Concludes(next)
      BY DEF Concludes, Closed
    <3>4. Retags(next, items)
      BY <2>3 DEF Retags, Closed
    <3>5. QED
      BY <3>2, <3>3, <3>4 DEF Sound
  <2>6. Finished(q, stage) = next
    BY <1>2 DEF Finished
  <2>7. QED
    BY <2>4, <2>5, <2>6
<1>3. QED
  BY <1>1, <1>2

-----------------------------------------------------------------------------
(* Beginning *)

\* A request that has just begun, against a version its card has or against none.
LEMMA BegunSound ==
  ASSUME NEW items \in [Card -> Item], Blank(items), NEW q \in ReqRecord,
         q.card \in Card, q.match \in {0, items[q.card].version},
         q.read = NoItem, q.lowest = None, q.given = Keep, Concludes(q), Retags(q, items)
  PROVE  Sound(q, items)
<1>1. items[q.card] \in Item /\ NoItem.version = 0
  BY DEF NoItem
<1>2. ReadsTruly(q, items)
  BY <1>1 DEF ReadsTruly, Blank, Item
<1>3. QED
  BY <1>2 DEF Sound

LEMMA AskTyped == \A c \in Card : \A ask \in Ask[c] : ask \in Patch
BY ItemAssumption

LEMMA BeginPatchInv == ASSUME IInv, NEW r \in Request, BeginPatch(r) PROVE IInv'
<1>1. PICK c \in Card : \E ask \in Ask[c], match \in {0, item[c].version} :
        Begin(r, [Closed(IF ask.priority # Keep /\ ask.ceiling = Keep THEN "item" ELSE "write")
                    EXCEPT !.op = "patch", !.card = c, !.ask = ask, !.match = match])
  BY DEF BeginPatch
<1>2. PICK ask \in Ask[c], match \in {0, item[c].version} :
        Begin(r, [Closed(IF ask.priority # Keep /\ ask.ceiling = Keep THEN "item" ELSE "write")
                    EXCEPT !.op = "patch", !.card = c, !.ask = ask, !.match = match])
  BY <1>1
<1> DEFINE stage == IF ask.priority # Keep /\ ask.ceiling = Keep THEN "item" ELSE "write"
           q == [Closed(stage) EXCEPT !.op = "patch", !.card = c, !.ask = ask, !.match = match]
<1>3. item \in [Card -> Item] /\ Blank(item)
  BY DEF IInv, TypedStore
<1>4. match \in Nat /\ ask \in Patch
  BY <1>3, AskTyped DEF Item
<1>5. q \in ReqRecord
  <2>1. Closed(stage) \in ReqRecord
    BY ClosedTyped DEF Stages
  <2>2. QED
    BY <1>4, <2>1 DEF ReqRecord
<1>6. Concludes(q) /\ Retags(q, item)
  BY DEF Concludes, Retags, Closed
<1>7. Sound(q, item)
  BY <1>3, <1>5, <1>6, BegunSound DEF Closed
<1>8. Becomes(r, q) /\ UNCHANGED <<item, byHand, on, ladder>>
  BY <1>2 DEF Begin, Becomes
<1>9. QED
  BY <1>5, <1>7, <1>8, SameStore, OneMoves

LEMMA BeginAttachInv == ASSUME IInv, NEW r \in Request, BeginAttach(r) PROVE IInv'
<1>1. PICK c \in Card, b \in Board :
        Begin(r, [Closed("item") EXCEPT !.op = "attach", !.card = c, !.board = b])
  BY DEF BeginAttach
<1> DEFINE q == [Closed("item") EXCEPT !.op = "attach", !.card = c, !.board = b]
<1>2. item \in [Card -> Item] /\ Blank(item)
  BY DEF IInv, TypedStore
<1>3. q \in ReqRecord
  <2>1. Closed("item") \in ReqRecord
    BY ClosedTyped DEF Stages
  <2>2. QED
    BY <2>1 DEF ReqRecord
<1>4. Concludes(q) /\ Retags(q, item)
  BY DEF Concludes, Retags, Closed
<1>5. Sound(q, item)
  BY <1>2, <1>3, <1>4, BegunSound DEF Closed
<1>6. Becomes(r, q) /\ UNCHANGED <<item, byHand, on, ladder>>
  BY <1>1 DEF Begin, Becomes
<1>7. QED
  BY <1>3, <1>5, <1>6, SameStore, OneMoves

LEMMA BeginCreateInv == ASSUME IInv, NEW r \in Request, BeginCreate(r) PROVE IInv'
<1> DEFINE asked(c, b, ask) ==
             [Closed("write") EXCEPT !.op = "create", !.card = c, !.board = b, !.ask = ask]
           q(c, b, ask) ==
             IF ask.priority # Keep /\ ask.ceiling = Keep
             THEN [asked(c, b, ask) EXCEPT !.stage = "new rung", !.boards = {b}, !.left = {b}]
             ELSE asked(c, b, ask)
<1>1. PICK c \in Card, b \in Board : \E ask \in Ask[c] : Begin(r, q(c, b, ask))
  BY DEF BeginCreate
<1>2. PICK ask \in Ask[c] : Begin(r, q(c, b, ask))
  BY <1>1
<1>3. item \in [Card -> Item] /\ Blank(item)
  BY DEF IInv, TypedStore
<1>4. ask \in Patch
  BY AskTyped
<1>5. q(c, b, ask) \in ReqRecord
  <2>1. Closed("write") \in ReqRecord /\ "new rung" \in Stages
    BY ClosedTyped DEF Stages
  <2>2. asked(c, b, ask) \in ReqRecord
    BY <1>4, <2>1 DEF ReqRecord
  <2>3. QED
    BY <2>1, <2>2 DEF ReqRecord
<1>6. Concludes(q(c, b, ask)) /\ Retags(q(c, b, ask), item)
  BY DEF Concludes, Retags, Closed, NoItem
<1>7. Sound(q(c, b, ask), item)
  <2>1. /\ q(c, b, ask).card = c /\ q(c, b, ask).match = 0 /\ q(c, b, ask).read = NoItem
        /\ q(c, b, ask).lowest = None /\ q(c, b, ask).given = Keep
    BY DEF Closed
  <2> HIDE DEF q
  <2>2. QED
    BY <1>3, <1>5, <1>6, <2>1, BegunSound
<1>8. Becomes(r, q(c, b, ask)) /\ UNCHANGED <<item, byHand, on, ladder>>
  BY <1>2 DEF Begin, Becomes
<1> HIDE DEF q
<1>9. QED
  BY <1>5, <1>7, <1>8, SameStore, OneMoves

LEMMA BeginTagsInv == ASSUME IInv, NEW r \in Request, BeginTags(r) PROVE IInv'
<1>1. PICK cards \in Bulk, change \in TagChange :
        /\ \A i \in DOMAIN cards : Exists(cards[i])
        /\ Begin(r, [Closed("tags") EXCEPT !.op = "bulk", !.card = Head(cards), !.rest = Tail(cards),
                                           !.named = change.named, !.adding = change.adding])
  BY DEF BeginTags
<1> DEFINE q == [Closed("tags") EXCEPT !.op = "bulk", !.card = Head(cards), !.rest = Tail(cards),
                                       !.named = change.named, !.adding = change.adding]
<1>2. item \in [Card -> Item] /\ Blank(item)
  BY DEF IInv, TypedStore
<1>3. cards \in Seq(Card) /\ cards # <<>> /\ change \in [named : SUBSET Tag, adding : BOOLEAN]
  BY ItemAssumption
<1>4. /\ Head(cards) \in Card /\ item[Head(cards)].version # 0
      /\ Tail(cards) \in Seq(Card)
      /\ \A i \in DOMAIN Tail(cards) : item[Tail(cards)[i]].version # 0
  BY <1>1, <1>3 DEF Exists
<1>5. q \in ReqRecord
  <2>1. Closed("tags") \in ReqRecord
    BY ClosedTyped DEF Stages
  <2>2. QED
    BY <1>3, <1>4, <2>1 DEF ReqRecord
<1>6. Concludes(q) /\ Retags(q, item)
  BY <1>4 DEF Concludes, Retags, Closed
<1>7. Sound(q, item)
  BY <1>2, <1>4, <1>5, <1>6, BegunSound DEF Closed
<1>8. Becomes(r, q) /\ UNCHANGED <<item, byHand, on, ladder>>
  BY <1>1 DEF Begin, Becomes
<1>9. QED
  BY <1>5, <1>7, <1>8, SameStore, OneMoves

-----------------------------------------------------------------------------
(* Reading *)

LEMMA Known ==
  ASSUME IInv, NEW r \in Request, IsOpen(req[r])
  PROVE  /\ req[r] \in ReqRecord /\ req[r].card \in Card
         /\ item[req[r].card] \in Item /\ on[req[r].card] \in SUBSET Board
         /\ ReadsTruly(req[r], item) /\ Concludes(req[r]) /\ Retags(req[r], item)
BY DEF IInv, TypedStore, Sound, ReadsTruly

LEMMA ReadItemInv == ASSUME IInv, NEW r \in Request, ReadItem(r) PROVE IInv'
<1> DEFINE p == req[r]
           stage == IF p.op = "attach" THEN "row"
                    ELSE IF p.ask.priority = Unranked THEN "write" ELSE "boards"
           q == [p EXCEPT !.read = item[p.card], !.stage = stage]
<1>1. IsOpen(p) /\ p.stage = "item"
  BY DEF ReadItem, IsOpen
<1>2. /\ p \in ReqRecord /\ p.card \in Card /\ item[p.card] \in Item
      /\ ReadsTruly(p, item) /\ Concludes(p) /\ Retags(p, item)
  BY <1>1, Known
<1>3. q \in ReqRecord
  BY <1>2 DEF ReqRecord, Stages
<1>4. ReadsTruly(q, item)
  BY <1>2 DEF ReadsTruly, ReqRecord, Item
<1>5. p.op # "bulk"
  BY <1>1, <1>2 DEF Retags
<1>6. /\ q.stage \in {"row", "write", "boards"} /\ q.stage = "row" => p.op = "attach"
      /\ q.read = item[p.card] /\ q.given = Keep
      /\ q.op = p.op /\ q.match = p.match /\ q.rest = p.rest /\ q.board = p.board
      /\ q.lowest = p.lowest /\ q.ask = p.ask
  BY <1>1, <1>2 DEF ReqRecord, Concludes
<1>7. Concludes(q)
  BY <1>1, <1>2, <1>6 DEF Concludes, ReadsTruly
<1>8. Retags(q, item)
  BY <1>2, <1>5 DEF Retags, ReqRecord
<1>9. Sound(q, item)
  BY <1>4, <1>7, <1>8 DEF Sound
<1>10. Becomes(r, q) /\ UNCHANGED <<item, byHand, on, ladder>>
  BY DEF ReadItem
<1>11. QED
  BY <1>3, <1>9, <1>10, SameStore, OneMoves

\* Once every ladder of a round is read, what a request concludes still holds.
LEMMA OnceReadSound ==
  ASSUME NEW items, NEW q \in ReqRecord, Sound(q, items),
         q.stage \in {"new rung", "old rung"}
  PROVE  OnceRead(q) \in ReqRecord /\ Sound(OnceRead(q), items)
<1>1. IsOpen(q)
  BY DEF IsOpen
<1>2. ReadsTruly(q, items) /\ Concludes(q) /\ Retags(q, items)
  BY <1>1 DEF Sound
<1>3. q.op # "bulk"
  BY <1>2 DEF Retags
<1>4. ASSUME NEW a \in Ceiling \cup {Keep}, a # Keep => q.read.ceiling \in Offered \cup {None}
      PROVE  Give(q, a) \in ReqRecord /\ Sound(Give(q, a), items)
  <2> DEFINE g == [q EXCEPT !.stage = "write", !.given = a]
  <2>1. g \in ReqRecord
    BY DEF ReqRecord, Stages
  <2>2. ReadsTruly(g, items)
    BY <1>2 DEF ReadsTruly, ReqRecord
  <2>3. Concludes(g)
    BY <1>2, <1>4 DEF Concludes, ReqRecord
  <2>4. Retags(g, items)
    BY <1>3 DEF Retags, ReqRecord
  <2>5. Sound(g, items)
    BY <2>2, <2>3, <2>4 DEF Sound
  <2>6. Give(q, a) \in {g, Closed("done")}
    BY DEF Give
  <2>7. QED
    BY <2>1, <2>5, <2>6, ClosedSound
<1> DEFINE old == [q EXCEPT !.stage = "old rung", !.offer = q.lowest, !.left = q.boards,
                            !.lowest = None]
<1>5. old \in ReqRecord /\ Sound(old, items)
  <2>1. old \in ReqRecord
    BY DEF ReqRecord, Stages, Ceiling
  <2>2. ReadsTruly(old, items)
    BY <1>2 DEF ReadsTruly, ReqRecord
  <2>3. Concludes(old)
    BY <1>2 DEF Concludes, ReqRecord
  <2>4. Retags(old, items)
    BY <1>3 DEF Retags, ReqRecord
  <2>5. QED
    BY <2>1, <2>2, <2>3, <2>4 DEF Sound
<1>6. q.lowest \in Offered \cup {None} /\ q.lowest \in Ceiling /\ q.offer \in Ceiling
  BY <1>2 DEF Concludes, ReqRecord
<1>7. Keep \in Ceiling \cup {Keep}
  OBVIOUS
<1>8. Give(q, Keep) \in ReqRecord /\ Sound(Give(q, Keep), items)
  BY <1>4
<1>9. q.lowest = q.read.ceiling => Give(q, q.offer) \in ReqRecord /\ Sound(Give(q, q.offer), items)
  BY <1>4, <1>6
<1>10. q.read.ceiling = None => Give(q, q.lowest) \in ReqRecord /\ Sound(Give(q, q.lowest), items)
  BY <1>4, <1>6
<1> HIDE DEF old
<1>11. OnceRead(q) = q \/ OnceRead(q) = Give(q, Keep) \/ OnceRead(q) = old
       \/ (q.lowest = q.read.ceiling /\ OnceRead(q) = Give(q, q.offer))
       \/ (q.read.ceiling = None /\ OnceRead(q) = Give(q, q.lowest))
  BY DEF OnceRead, old
<1>12. QED
  BY <1>5, <1>8, <1>9, <1>10, <1>11

LEMMA ReadBoardsInv == ASSUME IInv, NEW r \in Request, ReadBoards(r) PROVE IInv'
<1> DEFINE p == req[r]
           q == [p EXCEPT !.stage = "new rung", !.boards = on[p.card], !.left = on[p.card]]
<1>1. IsOpen(p) /\ p.stage = "boards"
  BY DEF ReadBoards, IsOpen
<1>2. /\ p \in ReqRecord /\ on[p.card] \in SUBSET Board
      /\ ReadsTruly(p, item) /\ Concludes(p) /\ Retags(p, item)
  BY <1>1, Known
<1>3. q \in ReqRecord /\ q.stage = "new rung"
  BY <1>2 DEF ReqRecord, Stages
<1>4. Sound(q, item)
  <2>1. ReadsTruly(q, item)
    BY <1>2 DEF ReadsTruly, ReqRecord
  <2>2. Concludes(q)
    BY <1>1, <1>2 DEF Concludes, ReqRecord
  <2>3. Retags(q, item)
    BY <1>1, <1>2 DEF Retags, ReqRecord
  <2>4. QED
    BY <2>1, <2>2, <2>3 DEF Sound
<1>5. Becomes(r, OnceRead(q)) /\ UNCHANGED <<item, byHand, on, ladder>>
  BY DEF ReadBoards
<1> HIDE DEF q
<1>6. OnceRead(q) \in ReqRecord /\ Sound(OnceRead(q), item)
  BY <1>3, <1>4, OnceReadSound
<1>7. QED
  BY <1>5, <1>6, SameStore, OneMoves

\* The lower of two defaults is one of the two.
LEMMA LowerOfTwo == \A a, b : Lower(a, b) \in {a, b}
BY DEF Lower

\* What a ladder says of a priority is the default of a rung, or none.
LEMMA DefaultOffered ==
  ASSUME IInv, NEW b \in Board, NEW p \in Priority
  PROVE  DefaultFor(b, p) \in Offered \cup {None} /\ DefaultFor(b, p) \in Ceiling
<1>1. CASE p = Unranked
  BY <1>1 DEF DefaultFor, Ceiling
<1>2. CASE p # Unranked
  <2>1. p \in Rank /\ ladder[b] \in Ladder
    BY <1>2 DEF Priority, IInv, TypedStore
  <2>2. ladder[b][p] \in Offered /\ ladder[b][p] \in Ceiling
    BY <2>1, ItemAssumption DEF Offered
  <2>3. QED
    BY <1>2, <2>2 DEF DefaultFor
<1>3. QED
  BY <1>1, <1>2

LEMMA ReadLadderInv == ASSUME IInv, NEW r \in Request, ReadLadder(r) PROVE IInv'
<1> DEFINE p == req[r]
<1>1. IsOpen(p) /\ p.stage \in {"new rung", "old rung"}
  BY DEF ReadLadder, IsOpen
<1>2. /\ p \in ReqRecord
      /\ ReadsTruly(p, item) /\ Concludes(p) /\ Retags(p, item)
  BY <1>1, Known
<1>3. PICK b \in p.left :
        Becomes(r, OnceRead([p EXCEPT !.left = @ \ {b},
                               !.lowest = Lower(@, DefaultFor(b, RankSought(p)))]))
  BY DEF ReadLadder
<1> DEFINE default == DefaultFor(b, RankSought(p))
           low == Lower(p.lowest, default)
           q == [p EXCEPT !.left = p.left \ {b}, !.lowest = low]
<1>4. RankSought(p) \in Priority
  BY <1>1, <1>2 DEF RankSought, Concludes, ReqRecord, Item, Patch
<1>5. b \in Board
  BY <1>2 DEF ReqRecord
<1>6. default \in Offered \cup {None} /\ default \in Ceiling
  BY <1>4, <1>5, DefaultOffered
<1>7. p.lowest \in Offered \cup {None} /\ p.lowest \in Ceiling
  BY <1>2 DEF Concludes, ReqRecord
<1>8. low \in Offered \cup {None} /\ low \in Ceiling
  BY <1>6, <1>7, LowerOfTwo
<1> HIDE DEF low
<1>9. q \in ReqRecord /\ q.stage \in {"new rung", "old rung"}
  BY <1>1, <1>2, <1>8 DEF ReqRecord
<1>10. Sound(q, item)
  <2>1. ReadsTruly(q, item)
    BY <1>2 DEF ReadsTruly, ReqRecord
  <2>2. Concludes(q)
    BY <1>2, <1>8 DEF Concludes, ReqRecord
  <2>3. Retags(q, item)
    BY <1>1, <1>2 DEF Retags, ReqRecord
  <2>4. QED
    BY <2>1, <2>2, <2>3 DEF Sound
<1>11. Becomes(r, OnceRead(q))
  BY <1>3 DEF low
<1>12. UNCHANGED <<item, byHand, on, ladder>>
  BY DEF ReadLadder
<1> HIDE DEF q
<1>13. OnceRead(q) \in ReqRecord /\ Sound(OnceRead(q), item)
  BY <1>9, <1>10, OnceReadSound
<1>14. QED
  BY <1>11, <1>12, <1>13, SameStore, OneMoves

LEMMA ReadTagsInv == ASSUME IInv, NEW r \in Request, ReadTags(r) PROVE IInv'
<1> DEFINE p == req[r]
           it == item[p.card]
           kept == IF p.adding THEN it.tags \cup p.named ELSE it.tags \ p.named
           q == [p EXCEPT !.stage = "write", !.read = it, !.ask.tags = kept,
                          !.match = it.version]
<1>1. IsOpen(p) /\ p.stage = "tags"
  BY DEF ReadTags, IsOpen
<1>2. /\ p \in ReqRecord /\ p.card \in Card /\ it \in Item
      /\ ReadsTruly(p, item) /\ Concludes(p) /\ Retags(p, item)
  BY <1>1, Known
<1>3. kept \in SUBSET Tag /\ it.version \in Nat /\ p.ask \in Patch
  BY <1>2 DEF ReqRecord, Item
<1>4. [p.ask EXCEPT !.tags = kept] \in Patch
  BY <1>3 DEF Patch
<1> DEFINE ask == [p.ask EXCEPT !.tags = kept]
<1>5. q = [p EXCEPT !.stage = "write", !.read = it, !.ask = ask, !.match = it.version]
  BY <1>2 DEF ReqRecord
<1>6. /\ q.stage = "write" /\ q.read = it /\ q.ask = ask /\ q.match = it.version
      /\ q.card = p.card /\ q.op = p.op /\ q.rest = p.rest /\ q.board = p.board
      /\ q.lowest = p.lowest /\ q.given = p.given /\ q.named = p.named /\ q.adding = p.adding
  BY <1>2 DEF ReqRecord
<1>7. q \in ReqRecord
  <2>1. "write" \in Stages
    BY DEF Stages
  <2>2. QED
    BY <1>2, <1>3, <1>4, <1>5, <2>1 DEF ReqRecord
<1>8. ReadsTruly(q, item)
  BY <1>2, <1>3, <1>6 DEF ReadsTruly
<1>9. Concludes(q)
  <2>1. p.op = "bulk" /\ p.given = Keep
    BY <1>1, <1>2 DEF Concludes, Retags
  <2>2. QED
    BY <1>2, <1>6, <2>1 DEF Concludes
<1>10. Retags(q, item)
  BY <1>1, <1>2, <1>6 DEF Retags, Retagged
<1>11. Sound(q, item)
  BY <1>8, <1>9, <1>10 DEF Sound
<1>12. Becomes(r, q) /\ UNCHANGED <<item, byHand, on, ladder>>
  BY DEF ReadTags
<1> HIDE DEF q
<1>13. QED
  BY <1>7, <1>11, <1>12, SameStore, OneMoves

-----------------------------------------------------------------------------
(* Writing *)

LEMMA PatchedTyped ==
  ASSUME NEW it \in Item, NEW q, q.ask \in Patch, q.given \in Ceiling \cup {Keep}
  PROVE  Patched(it, q) \in Item /\ Patched(it, q).version = it.version + 1
<1>1. /\ Named(q.ask.priority, it.priority) \in Priority
      /\ Named(q.ask.tags, it.tags) \in SUBSET Tag
      /\ Named(q.given, Named(q.ask.ceiling, it.ceiling)) \in Ceiling
  BY DEF Named, Patch, Item
<1>2. it.version + 1 \in Nat
  BY DEF Item
<1>3. QED
  BY <1>1, <1>2 DEF Patched, Item

\* A write leaves the other items, moves the version of its own, and keeps the store typed.
LEMMA PutKeeps ==
  ASSUME IInv, NEW q, q.card \in Card, q.ask \in Patch, q.given \in Ceiling \cup {Keep},
         Put(q), UNCHANGED <<on, ladder>>
  PROVE  TypedStore' /\ Grow(item, item')
<1>1. item \in [Card -> Item] /\ Blank(item) /\ byHand \in [Card -> BOOLEAN]
  BY DEF IInv, TypedStore
<1>2. item' = [item EXCEPT ![q.card] = Patched(item[q.card], q)]
  BY DEF Put
<1>3. /\ Patched(item[q.card], q) \in Item
      /\ Patched(item[q.card], q).version = item[q.card].version + 1
  BY <1>1, PatchedTyped
<1>4. item' \in [Card -> Item]
  BY <1>1, <1>2, <1>3
<1>5. Grow(item, item')
  BY <1>1, <1>2, <1>3 DEF Grow
<1>6. Blank(item')
  BY <1>1, <1>4, <1>5 DEF Blank, Grow, Item
<1>7. byHand' \in [Card -> BOOLEAN]
  <2>1. byHand' = [byHand EXCEPT ![q.card] = q.given = Keep /\ (q.ask.ceiling # Keep \/ byHand[q.card])]
    BY DEF Put
  <2>2. (q.given = Keep /\ (q.ask.ceiling # Keep \/ byHand[q.card])) \in BOOLEAN
    OBVIOUS
  <2>3. QED
    BY <1>1, <2>1, <2>2
<1>8. on' \in [Card -> SUBSET Board] /\ ladder' \in [Board -> Ladder]
  BY DEF IInv, TypedStore
<1>9. QED
  BY <1>4, <1>5, <1>6, <1>7, <1>8 DEF TypedStore

LEMMA WriteItemInv == ASSUME IInv, NEW r \in Request, WriteItem(r) PROVE IInv'
<1>1. IsOpen(req[r])
  BY DEF WriteItem, IsOpen
<1>2. req[r] \in ReqRecord /\ req[r].card \in Card /\ Sound(req[r], item)
  BY <1>1, Known DEF IInv
<1>3. req[r].ask \in Patch /\ req[r].given \in Ceiling \cup {Keep}
  BY <1>2 DEF ReqRecord
<1>4. item \in [Card -> Item] /\ Blank(item)
  BY DEF IInv, TypedStore
<1>5. CASE Refused(req[r])
  <2>1. Becomes(r, Finished(req[r], "failed")) /\ UNCHANGED <<item, byHand, on, ladder>>
    BY <1>5 DEF WriteItem
  <2>2. Finished(req[r], "failed") \in ReqRecord /\ Sound(Finished(req[r], "failed"), item)
    BY <1>1, <1>2, <1>4, FinishedSound
  <2>3. QED
    BY <2>1, <2>2, SameStore, OneMoves
<1>6. CASE ~Refused(req[r])
  <2>1. Becomes(r, Finished(req[r], "done")) /\ Put(req[r]) /\ UNCHANGED <<on, ladder>>
    BY <1>6 DEF WriteItem
  <2>2. TypedStore' /\ Grow(item, item')
    BY <1>2, <1>3, <2>1, PutKeeps
  <2>3. item' \in [Card -> Item] /\ Blank(item')
    BY <2>2 DEF TypedStore
  <2>4. Sound(req[r], item')
    BY <1>2, <1>4, <2>2, <2>3, SoundStays
  <2>5. Finished(req[r], "done") \in ReqRecord /\ Sound(Finished(req[r], "done"), item')
    BY <1>1, <1>2, <2>3, <2>4, FinishedSound
  <2>6. QED
    BY <2>1, <2>2, <2>5, OneMoves
<1>7. QED
  BY <1>5, <1>6

LEMMA CreateItemInv == ASSUME IInv, NEW r \in Request, CreateItem(r) PROVE IInv'
<1> DEFINE p == req[r]
           q == [p EXCEPT !.stage = "row"]
<1>1. IsOpen(p) /\ p.stage = "write" /\ p.op = "create"
  BY DEF CreateItem, IsOpen
<1>2. p \in ReqRecord /\ p.card \in Card /\ Sound(p, item) /\ ReadsTruly(p, item)
  BY <1>1, Known DEF IInv
<1>3. p.ask \in Patch /\ p.given \in Ceiling \cup {Keep}
  BY <1>2 DEF ReqRecord
<1>4. Becomes(r, q) /\ Put(p) /\ UNCHANGED <<on, ladder>>
  BY DEF CreateItem
<1>5. TypedStore' /\ Grow(item, item')
  BY <1>2, <1>3, <1>4, PutKeeps
<1>6. item \in [Card -> Item] /\ item' \in [Card -> Item]
  BY <1>5 DEF IInv, TypedStore
<1>7. ReadsTruly(p, item') /\ Concludes(p) /\ Retags(p, item')
  BY <1>1, <1>2, <1>5, <1>6, SoundStays DEF Sound
<1>8. q \in ReqRecord
  BY <1>2 DEF ReqRecord, Stages
<1>9. Sound(q, item')
  <2>1. ReadsTruly(q, item')
    BY <1>2, <1>7 DEF ReadsTruly, ReqRecord
  <2>2. p.match = 0 /\ p.read.version \in Nat
    BY <1>1, <1>2, <1>7 DEF Concludes, ReqRecord, Item
  <2>3. Concludes(q)
    BY <1>1, <1>2, <1>7, <2>2 DEF Concludes, ReqRecord
  <2>4. Retags(q, item')
    BY <1>1, <1>2 DEF Retags, ReqRecord
  <2>5. QED
    BY <2>1, <2>3, <2>4 DEF Sound
<1>10. QED
  BY <1>4, <1>5, <1>8, <1>9, OneMoves

LEMMA AttachRowInv == ASSUME IInv, NEW r \in Request, AttachRow(r) PROVE IInv'
<1> DEFINE p == req[r]
           q == [p EXCEPT !.stage = "boards"]
           others == {s \in Request \ {r} : req[s].card = p.card}
           next == IF p.op = "create" \/ p.read.priority = Unranked \/ p.read.ceiling # None
                   THEN Closed("done") ELSE q
<1>1. IsOpen(p) /\ p.stage = "row"
  BY DEF AttachRow, IsOpen
<1>2. /\ p \in ReqRecord /\ p.card \in Card
      /\ ReadsTruly(p, item) /\ Concludes(p) /\ Retags(p, item)
  BY <1>1, Known
<1>3. p.board \in Board /\ p.op \in {"attach", "create"}
  BY <1>1, <1>2 DEF Concludes
<1>4. TypedStore' /\ Grow(item, item')
  <2>1. on' = [on EXCEPT ![p.card] = @ \cup {p.board}] /\ UNCHANGED <<item, byHand, ladder>>
    BY DEF AttachRow
  <2>2. on' \in [Card -> SUBSET Board]
    BY <1>2, <1>3, <2>1 DEF IInv, TypedStore
  <2>3. QED
    BY <2>1, <2>2 DEF IInv, TypedStore, Blank, Grow
<1>5. next \in ReqRecord /\ Sound(next, item')
  <2>1. CASE next = Closed("done")
    BY <2>1, ClosedSound
  <2>2. CASE next # Closed("done")
    <3>1. next = q /\ p.op = "attach"
      BY <1>3, <2>2
    <3>2. q \in ReqRecord
      BY <1>2 DEF ReqRecord, Stages
    <3>3. ReadsTruly(q, item)
      BY <1>2 DEF ReadsTruly, ReqRecord
    <3>4. Concludes(q)
      BY <1>1, <1>2, <3>1 DEF Concludes, ReqRecord
    <3>5. Retags(q, item)
      BY <1>2, <3>1 DEF Retags, ReqRecord
    <3>6. item' = item
      BY DEF AttachRow
    <3>7. Sound(q, item')
      BY <3>3, <3>4, <3>5, <3>6 DEF Sound
    <3>8. QED
      BY <3>1, <3>2, <3>7
  <2>3. QED
    BY <2>1, <2>2
<1>6. Crossing(others, r, next)
  BY DEF AttachRow
<1> HIDE DEF next, others
<1>7. QED
  BY <1>4, <1>5, <1>6, OneCrosses

-----------------------------------------------------------------------------
(* What is done in one statement, failures, and the whole *)

LEMMA OnceKeeps ==
  ASSUME IInv, NEW r \in Request, NEW others, Once(r, others), TypedStore', Grow(item, item')
  PROVE  IInv'
<1>1. Crossing(others, r, Closed("done"))
  BY DEF Once
<1>2. Closed("done") \in ReqRecord /\ Sound(Closed("done"), item')
  BY ClosedSound
<1>3. QED
  BY <1>1, <1>2, OneCrosses

LEMMA OthersInv ==
  ASSUME IInv, NEW r \in Request,
         DetachCard(r) \/ SetPriorityLadder(r) \/ EditInNoteboard(r)
  PROVE  IInv'
<1>1. CASE DetachCard(r)
  <2>1. PICK c \in Card : \E b \in on[c] :
          /\ on' = [on EXCEPT ![c] = @ \ {b}]
          /\ Once(r, {q \in Request : req[q].card = c})
    BY <1>1 DEF DetachCard
  <2>2. UNCHANGED <<item, byHand, ladder>>
    BY <1>1 DEF DetachCard
  <2>3. TypedStore' /\ Grow(item, item')
    <3>1. on' \in [Card -> SUBSET Board]
      BY <2>1 DEF IInv, TypedStore
    <3>2. QED
      BY <2>2, <3>1 DEF IInv, TypedStore, Blank, Grow
  <2>4. QED
    BY <2>1, <2>3, OnceKeeps
<1>2. CASE SetPriorityLadder(r)
  <2>1. PICK b \in Board, levels \in Ladder : ladder' = [ladder EXCEPT ![b] = levels]
    BY <1>2 DEF SetPriorityLadder
  <2>2. Once(r, Request) /\ UNCHANGED <<item, byHand, on>>
    BY <1>2 DEF SetPriorityLadder
  <2>3. TypedStore' /\ Grow(item, item')
    <3>1. ladder' \in [Board -> Ladder]
      BY <2>1 DEF IInv, TypedStore
    <3>2. QED
      BY <2>2, <3>1 DEF IInv, TypedStore, Blank, Grow
  <2>4. QED
    BY <2>2, <2>3, OnceKeeps
<1>3. CASE EditInNoteboard(r)
  <2>1. PICK c \in Card : \E ask \in Ask[c] : Put([card |-> c, ask |-> ask, given |-> Keep])
    BY <1>3 DEF EditInNoteboard
  <2>2. PICK ask \in Ask[c] : Put([card |-> c, ask |-> ask, given |-> Keep])
    BY <2>1
  <2>3. Once(r, {}) /\ UNCHANGED <<on, ladder>>
    BY <1>3 DEF EditInNoteboard
  <2> DEFINE edit == [card |-> c, ask |-> ask, given |-> Keep]
  <2>4. edit.card \in Card /\ edit.ask \in Patch /\ edit.given \in Ceiling \cup {Keep}
    BY AskTyped
  <2> HIDE DEF edit
  <2>5. Put(edit)
    BY <2>2 DEF edit
  <2>6. TypedStore' /\ Grow(item, item')
    BY <2>3, <2>4, <2>5, PutKeeps
  <2>7. QED
    BY <2>3, <2>6, OnceKeeps
<1>4. QED
  BY <1>1, <1>2, <1>3

LEMMA FailInv == ASSUME IInv, NEW r \in Request, Fail(r) PROVE IInv'
<1>1. IsOpen(req[r]) /\ Becomes(r, Finished(req[r], "failed")) /\ UNCHANGED <<item, byHand, on, ladder>>
  BY DEF Fail, Open, IsOpen
<1>2. req[r] \in ReqRecord /\ Sound(req[r], item) /\ item \in [Card -> Item] /\ Blank(item)
  BY DEF IInv, TypedStore
<1>3. Finished(req[r], "failed") \in ReqRecord /\ Sound(Finished(req[r], "failed"), item)
  BY <1>1, <1>2, FinishedSound
<1>4. QED
  BY <1>1, <1>3, SameStore, OneMoves

LEMMA StopInv == ASSUME IInv, Stop PROVE IInv'
<1>1. TypedStore' /\ item' = item
  BY SameStore DEF Stop
<1>2. ASSUME NEW r \in Request PROVE req'[r] \in ReqRecord /\ Sound(req'[r], item')
  <2>1. req'[r] = Closed("failed") \/ req'[r] = req[r]
    BY DEF Stop
  <2>2. req[r] \in ReqRecord /\ Sound(req[r], item')
    BY <1>1 DEF IInv
  <2>3. QED
    BY <2>1, <2>2, ClosedSound
<1>3. req' = [r \in Request |-> req'[r]]
  BY DEF Stop
<1>4. QED
  BY <1>1, <1>2, <1>3 DEF IInv

LEMMA StepInv == IInv /\ [Next]_vars => IInv'
<1> SUFFICES ASSUME IInv, [Next]_vars PROVE IInv'
  OBVIOUS
<1>1. CASE UNCHANGED vars
  BY <1>1 DEF vars, IInv, TypedStore, Blank, Sound, ReadsTruly, Retags
<1>2. CASE Stop
  BY <1>2, StopInv
<1>3. ASSUME NEW r \in Request,
             \/ BeginPatch(r) \/ BeginAttach(r) \/ BeginCreate(r) \/ BeginTags(r)
             \/ ReadItem(r) \/ ReadBoards(r) \/ ReadLadder(r) \/ ReadTags(r)
             \/ WriteItem(r) \/ CreateItem(r) \/ AttachRow(r)
             \/ DetachCard(r) \/ SetPriorityLadder(r) \/ EditInNoteboard(r)
             \/ Fail(r)
      PROVE  IInv'
  BY <1>3, BeginPatchInv, BeginAttachInv, BeginCreateInv, BeginTagsInv, ReadItemInv,
     ReadBoardsInv, ReadLadderInv, ReadTagsInv, WriteItemInv, CreateItemInv, AttachRowInv,
     OthersInv, FailInv
<1>4. QED
  BY <1>1, <1>2, <1>3 DEF Next, Idle

LEMMA InitInv == Init => IInv
<1> SUFFICES ASSUME Init PROVE IInv
  OBVIOUS
<1>1. PICK before \in [Card -> UNION {Before[c] : c \in Card}] :
        /\ \A c \in Card : before[c] \in Before[c]
        /\ item = [c \in Card |-> before[c].item]
        /\ on = [c \in Card |-> before[c].on]
  BY DEF Init
<1>2. \A c \in Card : before[c] \in [item : Item, on : SUBSET Board]
  BY <1>1, ItemAssumption
<1>3. item \in [Card -> Item] /\ on \in [Card -> SUBSET Board]
  BY <1>1, <1>2
<1>4. Blank(item)
  BY <1>1, ItemAssumption DEF Blank
<1>5. byHand \in [Card -> BOOLEAN] /\ ladder \in [Board -> Ladder]
  BY DEF Init
<1>6. req = [r \in Request |-> Closed("new")]
  BY DEF Init
<1>7. \A r \in Request : req[r] \in ReqRecord /\ Sound(req[r], item)
  BY <1>6, ClosedSound
<1>8. req \in [Request -> ReqRecord]
  BY <1>6, <1>7
<1>9. QED
  BY <1>3, <1>4, <1>5, <1>7, <1>8 DEF IInv, TypedStore

-----------------------------------------------------------------------------
(* Theorems *)

LEMMA AlwaysSound == Spec => []IInv
BY InitInv, StepInv, PTL DEF Spec

\* Every reachable state is well formed, and an open request names a card.
THEOREM TypeCorrect == Spec => []TypeOK
BY AlwaysSound, OldInv, PTL

\* The item of a card changes only by a write of its item: of a request or in noteboard.
LEMMA WhoWrites ==
  ASSUME IInv, [Next]_vars, ~UNCHANGED <<item, byHand>>
  PROVE  \/ \E s \in Request : WriteItem(s) /\ ~Refused(req[s]) /\ Put(req[s])
         \/ \E s \in Request : CreateItem(s)
         \/ \E s \in Request : EditInNoteboard(s)
<1>1. ~UNCHANGED vars /\ ~Stop /\ ~Idle
  BY DEF vars, Stop, Idle
<1>2. PICK s \in Request :
             \/ BeginPatch(s) \/ BeginAttach(s) \/ BeginCreate(s) \/ BeginTags(s)
             \/ ReadItem(s) \/ ReadBoards(s) \/ ReadLadder(s) \/ ReadTags(s)
             \/ WriteItem(s) \/ CreateItem(s) \/ AttachRow(s)
             \/ DetachCard(s) \/ SetPriorityLadder(s) \/ EditInNoteboard(s)
             \/ Fail(s)
  BY <1>1 DEF Next
<1>3. ~(BeginPatch(s) \/ BeginAttach(s) \/ BeginCreate(s) \/ BeginTags(s))
  BY DEF BeginPatch, BeginAttach, BeginCreate, BeginTags, Begin
<1>4. ~(ReadItem(s) \/ ReadBoards(s) \/ ReadLadder(s) \/ ReadTags(s))
  BY DEF ReadItem, ReadBoards, ReadLadder, ReadTags
<1>5. ~(AttachRow(s) \/ DetachCard(s) \/ SetPriorityLadder(s) \/ Fail(s))
  BY DEF AttachRow, DetachCard, SetPriorityLadder, Fail
<1>6. WriteItem(s) => ~Refused(req[s]) /\ Put(req[s])
  BY DEF WriteItem
<1>7. QED
  BY <1>2, <1>3, <1>4, <1>5, <1>6

\* An item rewritten field by field, in tags and version alone.
LEMMA Rewritten ==
  ASSUME NEW it \in Item, NEW kept \in SUBSET Tag, NEW v \in Nat
  PROVE  [it EXCEPT !.tags = kept, !.version = v]
           = [priority |-> it.priority, ceiling |-> it.ceiling, tags |-> kept, version |-> v]
<1> DEFINE x == [it EXCEPT !.tags = kept, !.version = v]
           y == [priority |-> it.priority, ceiling |-> it.ceiling, tags |-> kept, version |-> v]
<1>1. x \in Item
  <2>1. [it EXCEPT !.tags = kept] \in Item
    BY DEF Item
  <2>2. QED
    BY <2>1 DEF Item
<1>2. y \in Item
  BY DEF Item
<1>3. x.priority = y.priority /\ x.ceiling = y.ceiling /\ x.tags = y.tags /\ x.version = y.version
  BY DEF Item
<1> HIDE DEF x, y
<1>4. x = y
  BY <1>1, <1>2, <1>3 DEF Item
<1>5. QED
  BY <1>4 DEF x, y

LEMMA BulkWrites ==
  ASSUME IInv, NEW r \in Open, WriteItem(r), ~Refused(req[r]), req[r].op = "bulk"
  PROVE  LET it == item[req[r].card]
         IN Patched(it, req[r]) =
              [it EXCEPT !.tags = IF req[r].adding THEN @ \cup req[r].named ELSE @ \ req[r].named,
                         !.version = @ + 1]
<1> DEFINE q == req[r]
           it == item[q.card]
           kept == IF q.adding THEN it.tags \cup q.named ELSE it.tags \ q.named
<1>1. q.stage = "write" /\ IsOpen(q) /\ r \in Request
  BY DEF Open, IsOpen, WriteItem
<1>2. it \in Item /\ ReadsTruly(q, item) /\ Retags(q, item)
  BY <1>1, Known
<1>3. q.match # 0 /\ q.match = q.read.version /\ q.ask = Retagged(q) /\ q.given = Keep
  BY <1>1, <1>2 DEF Retags
<1>4. q.read = it
  BY <1>2, <1>3 DEF Refused, ReadsTruly
<1>5. q.ask = [priority |-> Keep, ceiling |-> Keep, tags |-> kept]
  BY <1>3, <1>4 DEF Retagged, Nothing
<1>6. kept \in SUBSET Tag /\ kept # Keep
  <2>1. kept \in SUBSET Tag
    BY <1>1, <1>2 DEF Item, IInv, ReqRecord
  <2>2. QED
    BY <2>1, ItemAssumption
<1>7. Patched(it, q) = [priority |-> it.priority, ceiling |-> it.ceiling, tags |-> kept,
                        version |-> it.version + 1]
  BY <1>3, <1>5, <1>6 DEF Patched, Named
<1>8. [it EXCEPT !.tags = kept, !.version = it.version + 1]
        = [priority |-> it.priority, ceiling |-> it.ceiling, tags |-> kept,
           version |-> it.version + 1]
  <2>1. it.version + 1 \in Nat
    BY <1>2 DEF Item
  <2> HIDE DEF kept, it
  <2>2. QED
    BY <1>2, <1>6, <2>1, Rewritten
<1>9. Patched(it, q) = [it EXCEPT !.tags = kept, !.version = it.version + 1]
  BY <1>7, <1>8
<1>10. QED
  BY <1>9 DEF kept

\* Whatever was written since it read the card, a bulk command changes the tags it names
\* and no other, and nothing else of the item.
THEOREM BulkTagsKept == Spec => TagsOfOthersSurvive
<1> DEFINE P == \A r \in Open : req[r].op = "bulk" /\ req[r].stage = "write" =>
       LET c == req[r].card
           named == req[r].named
       IN item'[c] # item[c] /\ req'[r] # req[r] =>
            item'[c] = [item[c] EXCEPT
                          !.tags = IF req[r].adding THEN @ \cup named ELSE @ \ named,
                          !.version = @ + 1]
<1>1. ASSUME IInv, [Next]_vars PROVE P
  <2> SUFFICES ASSUME NEW r \in Open, req[r].op = "bulk", req[r].stage = "write",
                      item'[req[r].card] # item[req[r].card], req'[r] # req[r]
               PROVE  item'[req[r].card] =
                        [item[req[r].card] EXCEPT
                          !.tags = IF req[r].adding THEN @ \cup req[r].named ELSE @ \ req[r].named,
                          !.version = @ + 1]
    BY Zenon
  <2>1. r \in Request /\ req[r].card \in Card /\ item \in [Card -> Item] /\ req \in [Request -> ReqRecord]
    BY <1>1, Known DEF Open, IsOpen, IInv, TypedStore
  <2>2. CASE \E s \in Request : WriteItem(s) /\ ~Refused(req[s]) /\ Put(req[s])
    <3>1. PICK s \in Request : WriteItem(s) /\ ~Refused(req[s]) /\ Put(req[s])
      BY <2>2
    <3>2. s = r
      BY <2>1, <3>1 DEF WriteItem, Becomes
    <3>3. item'[req[r].card] = Patched(item[req[r].card], req[r])
      BY <2>1, <3>1, <3>2 DEF Put
    <3>4. QED
      BY <1>1, <3>1, <3>2, <3>3, BulkWrites
  <2>3. CASE \E s \in Request : CreateItem(s)
    BY <2>1, <2>3 DEF CreateItem, Becomes
  <2>4. CASE \E s \in Request : EditInNoteboard(s)
    <3>1. PICK s \in Request : EditInNoteboard(s)
      BY <2>4
    <3>2. NextToSend(s) /\ Crossing({}, s, Closed("done"))
      BY <3>1 DEF EditInNoteboard, Once
    <3>3. s # r
      BY <3>2 DEF NextToSend, Open
    <3>4. QED
      BY <2>1, <3>2, <3>3 DEF Crossing
  <2>5. QED
    BY <1>1, <2>2, <2>3, <2>4, WhoWrites
<1>2. IInv /\ [Next]_vars => [P]_vars
  BY <1>1
<1>3. QED
  BY <1>2, AlwaysSound, PTL DEF Spec, TagsOfOthersSurvive

\* A default replaces a ceiling that was set by hand only where the request named no
\* version and the item has moved since it read it.
LEMMA HandLost ==
  ASSUME IInv, NEW s \in Request, IsOpen(req[s]), Put(req[s]), ~Refused(req[s]),
         NEW c \in Card, byHand[c], ~byHand'[c], item[c].ceiling \notin Offered \cup {None}
  PROVE  s \in Open /\ req[s].card = c /\ req[s].match = 0 /\ req[s].read.version < item[c].version
<1> DEFINE q == req[s]
<1>1. /\ q \in ReqRecord /\ q.card \in Card /\ item[q.card] \in Item
      /\ ReadsTruly(q, item) /\ Concludes(q)
  BY Known
<1>2. byHand \in [Card -> BOOLEAN]
  BY DEF IInv, TypedStore
<1>3. byHand' = [byHand EXCEPT ![q.card] = q.given = Keep /\ (q.ask.ceiling # Keep \/ byHand[q.card])]
  BY DEF Put
<1>4. q.card = c
  BY <1>2, <1>3
<1>5. q.given # Keep
  BY <1>2, <1>3, <1>4
<1>6. q.read.ceiling \in Offered \cup {None} /\ q.match <= q.read.version
  BY <1>1, <1>5 DEF Concludes
<1>7. q.read.version # item[c].version
  BY <1>1, <1>4, <1>6 DEF ReadsTruly
<1>8. q.read.version \in Nat /\ q.match \in Nat /\ item[c].version \in Nat
  BY <1>1, <1>4 DEF ReqRecord, Item
<1>9. q.read.version < item[c].version
  BY <1>1, <1>4, <1>7, <1>8 DEF ReadsTruly
<1>10. q.match = 0
  BY <1>4, <1>6, <1>8, <1>9 DEF Refused
<1>11. QED
  BY <1>4, <1>9, <1>10 DEF Open, IsOpen

\* A ceiling that was set by hand to a number of nobody's is replaced by a default only
\* by a request that named no version and had read the item before.
THEOREM HandSetKept == Spec => HandSetSurvives
<1> DEFINE P == \A c \in Card :
       /\ byHand[c] /\ ~byHand'[c]
       /\ item[c].ceiling \notin Offered \cup {None}
       => \E r \in Open : /\ req[r].card = c /\ req[r].match = 0
                          /\ req[r].read.version < item[c].version
<1>1. ASSUME IInv, [Next]_vars PROVE P
  <2> SUFFICES ASSUME NEW c \in Card, byHand[c], ~byHand'[c],
                      item[c].ceiling \notin Offered \cup {None}
               PROVE  \E r \in Open : /\ req[r].card = c /\ req[r].match = 0
                                      /\ req[r].read.version < item[c].version
    OBVIOUS
  <2>1. CASE \E s \in Request : WriteItem(s) /\ ~Refused(req[s]) /\ Put(req[s])
    <3>1. PICK s \in Request : WriteItem(s) /\ ~Refused(req[s]) /\ Put(req[s])
      BY <2>1
    <3>2. IsOpen(req[s])
      BY <3>1 DEF WriteItem, IsOpen
    <3>3. QED
      BY <1>1, <3>1, <3>2, HandLost
  <2>2. CASE \E s \in Request : CreateItem(s)
    <3>1. PICK s \in Request : CreateItem(s)
      BY <2>2
    <3>2. IsOpen(req[s]) /\ Put(req[s]) /\ req[s].op = "create"
      BY <3>1 DEF CreateItem, IsOpen
    <3>3. ~Refused(req[s])
      BY <1>1, <3>2, Known DEF Concludes, Refused
    <3>4. QED
      BY <1>1, <3>2, <3>3, HandLost
  <2>3. CASE \E s \in Request : EditInNoteboard(s)
    <3>1. PICK s \in Request, k \in Card : \E ask \in Ask[k] :
            Put([card |-> k, ask |-> ask, given |-> Keep])
      BY <2>3 DEF EditInNoteboard
    <3>2. PICK ask \in Ask[k] : Put([card |-> k, ask |-> ask, given |-> Keep])
      BY <3>1
    <3>3. byHand' = [byHand EXCEPT ![k] = Keep = Keep /\ (ask.ceiling # Keep \/ byHand[k])]
      BY <3>2 DEF Put
    <3>4. byHand \in [Card -> BOOLEAN]
      BY <1>1 DEF IInv, TypedStore
    <3>5. byHand'[c]
      BY <3>3, <3>4
    <3>6. QED
      BY <3>5
  <2>4. ~UNCHANGED <<item, byHand>>
    OBVIOUS
  <2>5. QED
    BY <1>1, <2>1, <2>2, <2>3, <2>4, WhoWrites
<1>2. IInv /\ [Next]_vars => [P]_vars
  BY <1>1
<1>3. QED
  BY <1>2, AlwaysSound, PTL DEF Spec, HandSetSurvives

-----------------------------------------------------------------------------
(* The rule, and what a request has learnt of it *)

\* The lowest default that these ladders give a priority on these boards.
LowestIn(rungs, boards, p) ==
  LET offers == {rungs[b][p] : b \in {x \in boards : p # Unranked /\ rungs[x][p] # None}}
  IN IF offers = {} THEN None ELSE CHOOSE a \in offers : \A x \in offers : a <= x

RuledIn(rungs, it, boards, p) ==
  IF /\ LowestIn(rungs, boards, p) # None
     /\ it.ceiling = None \/ it.ceiling = LowestIn(rungs, boards, it.priority)
  THEN LowestIn(rungs, boards, p) ELSE it.ceiling

\* The boards whose ladders decide for a request, and the priority they are asked about.
Deciding(q, placed) == IF q.op = "create" THEN {q.board} ELSE placed[q.card]
NewRank(q) == IF q.op = "attach" THEN q.read.priority ELSE q.ask.priority

\* The rule decides the ceiling, and not the client.
Decides(q) ==
  \/ q.op = "attach"
  \/ q.op \in {"patch", "create"} /\ q.ask.priority # Keep /\ q.ask.ceiling = Keep

\* What a request has learnt of these ladders, a board at a time, and what it will write.
Weighs(q, rungs, boards) ==
  /\ q.stage \in {"item", "boards", "new rung", "old rung"} => Decides(q)
  /\ q.op = "attach" =>
       /\ q.match = 0 /\ q.ask.ceiling = Keep
       /\ q.stage \in {"boards", "new rung", "old rung"} => q.read.ceiling = None
  /\ q.stage \in {"item", "row", "boards"} /\ q.op # "create" => q.lowest = None
  /\ q.op = "create" =>
       /\ q.stage \notin {"item", "boards"}
       /\ q.read = NoItem /\ (Decides(q) \/ q.given = Keep)
  /\ q.stage \in {"new rung", "old rung"} =>
       /\ q.boards = boards /\ q.left \subseteq boards
       /\ q.lowest = LowestIn(rungs, boards \ q.left, RankSought(q))
  /\ q.stage = "old rung" =>
       /\ q.read.ceiling # None
       /\ q.offer # None /\ q.offer = LowestIn(rungs, boards, NewRank(q))
  /\ q.stage = "write" /\ Decides(q) =>
       /\ q.match <= q.read.version
       /\ Named(q.given, q.read.ceiling) = RuledIn(rungs, q.read, boards, NewRank(q))

Weighed(q, rungs, placed) ==
  IsOpen(q) /\ ~q.crossed => Weighs(q, rungs, Deciding(q, placed))

\* Only a creation is about an item that is not there.
Stands(q, items) == IsOpen(q) /\ q.op # "create" => items[q.card].version # 0

\* A creation that has yet to write its item; no two are about the same card.
Making(q) == IsOpen(q) /\ q.op = "create" /\ q.stage # "row"

Apart ==
  \A r, s \in Request : r # s /\ Making(req[r]) /\ Making(req[s]) => req[r].card # req[s].card

Weighing ==
  /\ \A r \in Request : Weighed(req[r], ladder, on)
  /\ \A r \in Request : Stands(req[r], item)
  /\ Apart

Follows(p, q) == Making(q) => Making(p) /\ q.card = p.card

-----------------------------------------------------------------------------
(* The lowest of the defaults *)

LEMMA LowestSame ==
  /\ \A boards, p : LowestOffer(boards, p) = LowestIn(ladder, boards, p)
  /\ \A it, boards, p : RuledCeiling(it, boards, p) = RuledIn(ladder, it, boards, p)
<1>1. \A boards, p : LowestOffer(boards, p) = LowestIn(ladder, boards, p)
  BY DEF LowestOffer, Offers, LowestIn
<1>2. QED
  BY <1>1 DEF RuledCeiling, RuledIn

LEMMA LowestOfNone == \A rungs, p : LowestIn(rungs, {}, p) = None
BY DEF LowestIn

LEMMA LowestUnranked == \A rungs, boards : LowestIn(rungs, boards, Unranked) = None
BY DEF LowestIn

\* A set of natural numbers has a smallest member: it is where a least counterexample is.
LEMMA Smallest ==
  ASSUME NEW S \in SUBSET Nat, S # {}
  PROVE  \E m \in S : \A n \in S : m <= n
<1> DEFINE less == {p \in Nat \X Nat : p[1] < p[2]}
<1>1. IsWellFoundedOn(less, Nat)
  BY NatLessThanWellFounded DEF OpToRel
<1>2. PICK m \in S : \A n \in S : <<n, m>> \notin less
  BY <1>1, WFMin
<1>3. ASSUME NEW n \in S PROVE m <= n
  <2>1. n \in Nat /\ m \in Nat /\ <<n, m>> \in Nat \X Nat
    OBVIOUS
  <2>2. <<n, m>>[1] = n /\ <<n, m>>[2] = m
    OBVIOUS
  <2>3. ~(n < m)
    BY <1>2, <2>1, <2>2, Zenon
  <2>4. QED
    BY <2>1, <2>3
<1>4. QED
  BY <1>3, Zenon

\* What the lowest default is: one of the defaults, and none is lower.
LEMMA LowestIs ==
  ASSUME NEW rungs \in [Board -> Ladder], NEW boards \in SUBSET Board, NEW p \in Rank,
         NEW a \in Amount,
         \E b \in boards : rungs[b][p] = a,
         \A b \in boards : rungs[b][p] # None => a <= rungs[b][p]
  PROVE  LowestIn(rungs, boards, p) = a
<1> DEFINE offers == {rungs[b][p] : b \in {x \in boards : p # Unranked /\ rungs[x][p] # None}}
<1>1. a \in offers
  BY ItemAssumption
<1>2. \A x \in offers : a <= x
  OBVIOUS
<1>3. \A x \in offers : x \in Nat
  <2>1. \A b \in boards : rungs[b][p] \in Ceiling
    BY ItemAssumption
  <2>2. QED
    BY <2>1, ItemAssumption DEF Ceiling
<1>4. LowestIn(rungs, boards, p) = CHOOSE x \in offers : \A y \in offers : x <= y
  BY <1>1 DEF LowestIn
<1>5. a \in Nat
  BY ItemAssumption
<1> HIDE DEF offers
<1>6. \A x \in offers : (\A y \in offers : x <= y) => x = a
  BY <1>1, <1>2, <1>3, <1>5
<1>7. QED
  BY <1>1, <1>2, <1>4, <1>6

LEMMA LowestKnown ==
  ASSUME NEW rungs \in [Board -> Ladder], NEW boards \in SUBSET Board, NEW p \in Rank
  PROVE  LET a == LowestIn(rungs, boards, p)
         IN \/ a = None /\ \A b \in boards : rungs[b][p] = None
            \/ /\ a \in Amount /\ \E b \in boards : rungs[b][p] = a
               /\ \A b \in boards : rungs[b][p] # None => a <= rungs[b][p]
<1> DEFINE offers == {rungs[b][p] : b \in {x \in boards : p # Unranked /\ rungs[x][p] # None}}
<1>1. \A b \in boards : rungs[b][p] \in Ceiling
  BY ItemAssumption
<1>2. offers \in SUBSET Amount /\ offers \in SUBSET Nat
  <2>1. \A x \in offers : x \in Amount
    BY <1>1 DEF Ceiling
  <2>2. QED
    BY <2>1, ItemAssumption
<1>3. CASE offers = {}
  <2>1. \A b \in boards : rungs[b][p] = None
    BY <1>3, ItemAssumption
  <2>2. QED
    BY <1>3, <2>1 DEF LowestIn
<1>4. CASE offers # {}
  <2>1. PICK a \in offers : \A x \in offers : a <= x
    BY <1>2, <1>4, Smallest
  <2>2. PICK b \in boards : a = rungs[b][p]
    OBVIOUS
  <2>3. \A x \in boards : rungs[x][p] # None => a <= rungs[x][p]
    BY <2>1, ItemAssumption
  <2>4. a \in Amount
    BY <1>2
  <2> HIDE DEF offers
  <2>5. LowestIn(rungs, boards, p) = a
    BY <2>2, <2>3, <2>4, LowestIs
  <2>6. QED
    BY <2>2, <2>3, <2>4, <2>5
<1>5. QED
  BY <1>3, <1>4

\* Reading one ladder more.
LEMMA LowestGrows ==
  ASSUME NEW rungs \in [Board -> Ladder], NEW boards \in SUBSET Board, NEW b \in Board,
         NEW p \in Priority
  PROVE  LowestIn(rungs, boards \cup {b}, p)
           = Lower(LowestIn(rungs, boards, p), IF p = Unranked THEN None ELSE rungs[b][p])
<1>1. CASE p = Unranked
  BY <1>1, LowestUnranked DEF Lower
<1>2. CASE p # Unranked
  <2>1. p \in Rank
    BY <1>2 DEF Priority
  <2>2. rungs[b][p] \in Ceiling
    BY <2>1, ItemAssumption
  <2> DEFINE a == LowestIn(rungs, boards, p)
             more == boards \cup {b}
             low == Lower(a, rungs[b][p])
  <2>3. \/ a = None /\ \A x \in boards : rungs[x][p] = None
        \/ /\ a \in Amount /\ \E x \in boards : rungs[x][p] = a
           /\ \A x \in boards : rungs[x][p] # None => a <= rungs[x][p]
    BY <2>1, LowestKnown
  <2>4. \/ LowestIn(rungs, more, p) = None /\ \A x \in more : rungs[x][p] = None
        \/ /\ LowestIn(rungs, more, p) \in Amount /\ \E x \in more : rungs[x][p] = LowestIn(rungs, more, p)
           /\ \A x \in more : rungs[x][p] # None => LowestIn(rungs, more, p) <= rungs[x][p]
    BY <2>1, LowestKnown
  <2> HIDE DEF a
  <2>5. CASE low = None
    <3>1. a = None /\ rungs[b][p] = None
      BY <2>2, <2>3, <2>5, ItemAssumption DEF Lower
    <3>2. \A x \in more : rungs[x][p] = None
      BY <2>3, <3>1, ItemAssumption
    <3>3. LowestIn(rungs, more, p) = None
      BY <2>4, <3>2, ItemAssumption
    <3>4. QED
      BY <1>2, <2>5, <3>3 DEF a
  <2>6. CASE low # None
    <3>1. low \in Amount /\ \E x \in more : rungs[x][p] = low
      BY <2>2, <2>3, <2>6 DEF Lower, Ceiling
    <3>2. \A x \in boards : rungs[x][p] \in Ceiling
      BY <2>1, ItemAssumption
    <3>3. \A x \in more : rungs[x][p] # None => low <= rungs[x][p]
      <4>1. SUFFICES ASSUME NEW x \in more, rungs[x][p] # None PROVE low <= rungs[x][p]
        OBVIOUS
      <4>2. rungs[x][p] \in Nat
        BY <2>2, <3>2, <4>1, ItemAssumption DEF Ceiling
      <4>3. rungs[b][p] # None => rungs[b][p] \in Nat
        BY <2>2, ItemAssumption DEF Ceiling
      <4>4. a # None => a \in Nat
        BY <2>3, ItemAssumption
      <4>5. CASE x = b
        BY <4>1, <4>2, <4>3, <4>4, <4>5 DEF Lower
      <4>6. CASE x \in boards
        <5>1. a \in Nat /\ a # None /\ a <= rungs[x][p]
          BY <2>3, <4>1, <4>4, <4>6, ItemAssumption
        <5>2. QED
          BY <4>2, <4>3, <5>1 DEF Lower
      <4>7. QED
        BY <4>5, <4>6
    <3>4. more \in SUBSET Board
      OBVIOUS
    <3> HIDE DEF more, low
    <3>5. LowestIn(rungs, more, p) = low
      BY <2>1, <3>1, <3>3, <3>4, LowestIs
    <3>6. QED
      BY <1>2, <3>5 DEF more, low, a
  <2>7. QED
    BY <2>5, <2>6
<1>3. QED
  BY <1>1, <1>2

-----------------------------------------------------------------------------
\* Once every ladder of a round is read, it is known what the rule says, or the
\* second round begins.
LEMMA OnceReadWeighs ==
  ASSUME NEW q \in ReqRecord, Concludes(q), q.stage \in {"new rung", "old rung"},
         NEW rungs, NEW boards \in SUBSET Board, Weighs(q, rungs, boards)
  PROVE  /\ IsOpen(OnceRead(q)) => /\ Weighs(OnceRead(q), rungs, boards)
                                   /\ OnceRead(q).crossed = q.crossed
                                   /\ OnceRead(q).op = q.op /\ OnceRead(q).card = q.card
                                   /\ OnceRead(q).board = q.board
         /\ OnceRead(q).stage = "done" =>
              q.op = "attach" /\ RuledIn(rungs, q.read, boards, q.read.priority) = q.read.ceiling
<1> DEFINE rule == RuledIn(rungs, q.read, boards, NewRank(q))
           g(a) == [q EXCEPT !.stage = "write", !.given = a]
           Fine(x) ==
             /\ IsOpen(x) => /\ Weighs(x, rungs, boards)
                             /\ x.crossed = q.crossed /\ x.op = q.op /\ x.card = q.card
                             /\ x.board = q.board
             /\ x.stage = "done" => q.op = "attach" /\ rule = q.read.ceiling
<1>1. Decides(q) /\ q.match <= q.read.version
  BY DEF Weighs, Concludes
<1>2. q.boards = boards /\ q.lowest = LowestIn(rungs, boards \ q.left, RankSought(q))
  BY DEF Weighs
<1>3. Keep \notin Ceiling /\ q.lowest \in Ceiling /\ q.offer \in Ceiling /\ None \in Ceiling
  BY ItemAssumption DEF ReqRecord, Ceiling
<1>4. ASSUME NEW a \in Ceiling \cup {Keep}, Named(a, q.read.ceiling) = rule,
             (q.op = "attach" /\ a = Keep) \/ Give(q, a) = g(a)
      PROVE  Fine(Give(q, a))
  <2>1. CASE q.op = "attach" /\ a = Keep
    <3>1. Give(q, a) = Closed("done")
      BY <2>1 DEF Give
    <3>2. rule = q.read.ceiling
      BY <1>4, <2>1 DEF Named
    <3>3. ~IsOpen(Closed("done"))
      BY DEF IsOpen, Closed
    <3>4. QED
      BY <2>1, <3>1, <3>2, <3>3
  <2>2. CASE Give(q, a) = g(a)
    <3>1. /\ g(a).stage = "write" /\ g(a).given = a /\ g(a).op = q.op /\ g(a).card = q.card
          /\ g(a).board = q.board /\ g(a).crossed = q.crossed /\ g(a).match = q.match
          /\ g(a).read = q.read /\ g(a).ask = q.ask
      BY DEF ReqRecord
    <3> HIDE DEF g
    <3>2. Decides(g(a)) /\ NewRank(g(a)) = NewRank(q)
      BY <1>1, <3>1 DEF Decides, NewRank
    <3>3. Weighs(g(a), rungs, boards)
      BY <1>1, <1>4, <3>1, <3>2 DEF Weighs
    <3>4. QED
      BY <2>2, <3>1, <3>3
  <2>3. QED
    BY <1>4, <2>1, <2>2
<1>5. Give(q, Keep) = g(Keep) \/ q.op = "attach"
  BY DEF Give
<1>6. \A a \in Ceiling : Give(q, a) = g(a)
  BY <1>3 DEF Give
<1>7. q.op = "attach" => rule = RuledIn(rungs, q.read, boards, q.read.priority)
  BY DEF NewRank
<1>8. SUFFICES Fine(OnceRead(q))
  BY <1>7
<1> HIDE DEF rule, g
<1>9. CASE q.left # {}
  <2>1. OnceRead(q) = q
    BY <1>9 DEF OnceRead
  <2>2. q.stage # "done"
    OBVIOUS
  <2>3. QED
    BY <2>1, <2>2
<1> HIDE DEF Fine
<1>10. CASE q.left = {} /\ q.stage = "old rung"
  <2>1. /\ q.read.ceiling # None /\ q.offer # None
        /\ q.offer = LowestIn(rungs, boards, NewRank(q))
    BY <1>10 DEF Weighs
  <2>2. q.op # "attach" /\ RankSought(q) = q.read.priority
    BY <1>10, <2>1 DEF Weighs, RankSought
  <2>3. q.lowest = LowestIn(rungs, boards, q.read.priority)
    <3>1. boards \ q.left = boards
      BY <1>10
    <3>2. QED
      BY <1>2, <2>2, <3>1
  <2>4. CASE q.lowest # None /\ q.lowest = q.read.ceiling
    <3>1. OnceRead(q) = Give(q, q.offer)
      BY <1>10, <2>4 DEF OnceRead
    <3>2. Named(q.offer, q.read.ceiling) = rule
      BY <1>3, <2>1, <2>3, <2>4 DEF Named, RuledIn, rule
    <3>3. QED
      BY <1>3, <1>4, <1>6, <3>1, <3>2
  <2>5. CASE ~(q.lowest # None /\ q.lowest = q.read.ceiling)
    <3>1. OnceRead(q) = Give(q, Keep)
      BY <1>10, <2>5 DEF OnceRead
    <3>2. Named(Keep, q.read.ceiling) = rule
      BY <2>1, <2>3, <2>5 DEF Named, RuledIn, rule
    <3>3. QED
      BY <1>4, <1>5, <3>1, <3>2
  <2>6. QED
    BY <2>4, <2>5
<1>11. CASE q.left = {} /\ q.stage = "new rung"
  <2>1. RankSought(q) = NewRank(q)
    BY <1>11 DEF RankSought, NewRank
  <2>2. q.lowest = LowestIn(rungs, boards, NewRank(q))
    <3>1. boards \ q.left = boards
      BY <1>11
    <3>2. QED
      BY <1>2, <2>1, <3>1
  <2>3. CASE q.lowest = None
    <3>1. OnceRead(q) = Give(q, Keep)
      BY <1>11, <2>3 DEF OnceRead
    <3>2. Named(Keep, q.read.ceiling) = rule
      BY <2>2, <2>3 DEF Named, RuledIn, rule
    <3>3. QED
      BY <1>4, <1>5, <3>1, <3>2
  <2>4. CASE q.lowest # None /\ q.read.ceiling = None
    <3>1. OnceRead(q) = Give(q, q.lowest)
      BY <1>11, <2>4 DEF OnceRead
    <3>2. Named(q.lowest, q.read.ceiling) = rule
      BY <1>3, <2>2, <2>4 DEF Named, RuledIn, rule
    <3>3. QED
      BY <1>3, <1>4, <1>6, <3>1, <3>2
  <2>5. CASE q.lowest # None /\ q.read.ceiling # None
    <3> DEFINE old == [q EXCEPT !.stage = "old rung", !.offer = q.lowest, !.left = q.boards,
                                !.lowest = None]
    <3>1. OnceRead(q) = old
      BY <1>11, <2>5 DEF OnceRead
    <3>2. /\ old.stage = "old rung" /\ old.offer = q.lowest /\ old.left = q.boards
          /\ old.lowest = None /\ old.boards = q.boards /\ old.op = q.op /\ old.card = q.card
          /\ old.board = q.board /\ old.crossed = q.crossed /\ old.match = q.match
          /\ old.read = q.read /\ old.ask = q.ask
      BY DEF ReqRecord
    <3> HIDE DEF old
    <3>3. Decides(old) /\ NewRank(old) = NewRank(q)
      BY <1>1, <3>2 DEF Decides, NewRank
    <3>4. q.op # "attach" /\ q.op # "create"
      <4>1. q.op = "attach" => q.read.ceiling = None
        BY <1>11 DEF Weighs
      <4>2. q.op = "create" => q.read = NoItem
        BY DEF Weighs
      <4>3. NoItem.ceiling = None
        BY DEF NoItem
      <4>4. QED
        BY <2>5, <4>1, <4>2, <4>3
    <3>5. old.lowest = LowestIn(rungs, boards \ old.left, RankSought(old))
      <4>1. boards \ old.left = {}
        BY <1>2, <3>2
      <4>2. QED
        BY <3>2, <4>1, LowestOfNone
    <3>6. Weighs(old, rungs, boards)
      BY <1>2, <2>2, <2>5, <3>2, <3>3, <3>4, <3>5 DEF Weighs
    <3>7. QED
      BY <3>1, <3>2, <3>6 DEF Fine
  <2>6. QED
    BY <2>3, <2>4, <2>5
<1>12. QED
  BY <1>9, <1>10, <1>11

Full == IInv /\ Weighing

\* One request moves on, and some others may be crossed by it.
LEMMA OneWeighs ==
  ASSUME Full, NEW others, NEW r \in Request, NEW q \in ReqRecord,
         Becomes(r, q) \/ Crossing(others, r, q), TypedStore', Grow(item, item'),
         \A p \in Open \ {r} :
           ~(p \in others /\ Crossing(others, r, q)) =>
             ladder' = ladder /\ on'[req[p].card] = on[req[p].card],
         Weighed(q, ladder', on'), Stands(q, item'),
         \A p \in Request \ {r} : Making(q) /\ Making(req[p]) => q.card # req[p].card
  PROVE  Weighing'
<1>1. item \in [Card -> Item] /\ item' \in [Card -> Item] /\ req \in [Request -> ReqRecord]
  BY DEF Full, IInv, TypedStore
<1>2. req'[r] = q /\ req' = [p \in Request |-> req'[p]]
  BY <1>1 DEF Becomes, Crossing
<1>3. ASSUME NEW p \in Request \ {r}
      PROVE  /\ Weighed(req'[p], ladder', on') /\ Stands(req'[p], item')
             /\ Making(req'[p]) => Making(req[p]) /\ req'[p].card = req[p].card
  <2> DEFINE x == req[p]
             y == [x EXCEPT !.crossed = TRUE]
  <2>1. x \in ReqRecord /\ Weighed(x, ladder, on) /\ Stands(x, item)
    BY <1>1 DEF Full, Weighing
  <2>2. IsOpen(x) => x.card \in Card
    BY Known DEF Full
  <2>3. Stands(x, item')
    BY <1>1, <2>1, <2>2 DEF Stands, Grow, Item
  <2>4. CASE req'[p] = x /\ (~IsOpen(x) \/ (ladder' = ladder /\ on'[x.card] = on[x.card]))
    <3>1. Weighed(x, ladder', on')
      BY <2>1, <2>4 DEF Weighed, Deciding
    <3>2. QED
      BY <2>3, <2>4, <3>1
  <2>5. CASE req'[p] = y
    <3>1. /\ y.crossed = TRUE /\ y.stage = x.stage /\ y.op = x.op /\ y.card = x.card
      BY <2>1 DEF ReqRecord
    <3>2. Weighed(y, ladder', on') /\ Stands(y, item')
      BY <2>3, <3>1 DEF Weighed, Stands, IsOpen
    <3>3. Making(y) => Making(x) /\ y.card = x.card
      BY <3>1 DEF Making, IsOpen
    <3>4. QED
      BY <2>5, <3>2, <3>3
  <2>6. p \in Open <=> IsOpen(x)
    BY DEF Open, IsOpen
  <2>7. CASE Becomes(r, q) /\ ~Crossing(others, r, q)
    <3>1. req'[p] = x
      BY <1>1, <2>7 DEF Becomes
    <3>2. QED
      BY <2>4, <2>6, <2>7, <3>1
  <2>8. CASE Crossing(others, r, q)
    <3>1. req'[p] = IF p \in others \cap Open THEN y ELSE x
      BY <2>8 DEF Crossing
    <3>2. QED
      BY <2>4, <2>5, <2>6, <2>8, <3>1
  <2>9. QED
    BY <2>7, <2>8
<1>4. ASSUME NEW p \in Request PROVE Weighed(req'[p], ladder', on') /\ Stands(req'[p], item')
  BY <1>2, <1>3
<1>5. ASSUME NEW p \in Request, NEW s \in Request, p # s, Making(req'[p]), Making(req'[s])
      PROVE  req'[p].card # req'[s].card
  <2>1. CASE p = r
    BY <1>2, <1>3, <1>5, <2>1
  <2>2. CASE s = r
    BY <1>2, <1>3, <1>5, <2>2
  <2>3. CASE p # r /\ s # r
    BY <1>3, <1>5, <2>3 DEF Full, Weighing, Apart
  <2>4. QED
    BY <2>1, <2>2, <2>3
<1>6. QED
  BY <1>4, <1>5 DEF Weighing, Apart

\* A request that goes on with what it was making is making nothing else.
LEMMA StillApart ==
  ASSUME Full, NEW r \in Request, NEW q, Making(q) => Making(req[r]) /\ q.card = req[r].card
  PROVE  \A p \in Request \ {r} : Making(q) /\ Making(req[p]) => q.card # req[p].card
BY DEF Full, Weighing, Apart

\* One request moves on, and the boards and ladders stay as they are.
LEMMA Onward ==
  ASSUME Full, NEW r \in Request, NEW q \in ReqRecord, Becomes(r, q), UNCHANGED <<on, ladder>>,
         TypedStore', Grow(item, item'), Weighed(q, ladder, on), Stands(q, item'),
         Making(q) => Making(req[r]) /\ q.card = req[r].card
  PROVE  Weighing'
<1>1. \A p \in Request \ {r} : Making(q) /\ Making(req[p]) => q.card # req[p].card
  BY StillApart
<1>2. ladder' = ladder /\ on' = on
  OBVIOUS
<1>3. Weighed(q, ladder', on')
  BY <1>2
<1>4. QED
  BY <1>1, <1>2, <1>3, OneWeighs

\* A request that is over, or whose next card is still to be read, has weighed nothing.
LEMMA ClosedWeighs ==
  ASSUME NEW stage \in {"new", "done", "failed"}, NEW rungs, NEW placed, NEW items
  PROVE  /\ Weighed(Closed(stage), rungs, placed) /\ Stands(Closed(stage), items)
         /\ ~Making(Closed(stage))
BY DEF Weighed, Stands, Making, IsOpen, Closed

LEMMA FinishedWeighs ==
  ASSUME NEW q \in ReqRecord, IsOpen(q), NEW items, Retags(q, items), Concludes(q),
         NEW stage \in {"done", "failed"}, NEW rungs, NEW placed
  PROVE  /\ Weighed(Finished(q, stage), rungs, placed) /\ Stands(Finished(q, stage), items)
         /\ ~Making(Finished(q, stage))
<1>1. CASE q.rest = <<>>
  BY <1>1, ClosedWeighs DEF Finished
<1>2. CASE q.rest # <<>>
  <2> DEFINE next == Finished(q, stage)
  <2>1. next = [Closed("tags") EXCEPT !.op = "bulk", !.card = Head(q.rest),
                         !.rest = Tail(q.rest), !.named = q.named, !.adding = q.adding]
    BY <1>2 DEF Finished
  <2>2. next.op = "bulk" /\ next.stage = "tags" /\ next.card = Head(q.rest)
    BY <2>1 DEF Closed
  <2>3. q.op = "bulk" /\ q.rest \in Seq(Card)
    BY <1>2 DEF Concludes, ReqRecord
  <2>4. items[q.rest[1]].version # 0 /\ Head(q.rest) = q.rest[1]
    BY <1>2, <2>3 DEF Retags
  <2> HIDE DEF next
  <2>5. Weighed(next, rungs, placed) /\ Stands(next, items) /\ ~Making(next)
    BY <2>2, <2>4 DEF Weighed, Weighs, Stands, Making, Decides
  <2>6. QED
    BY <2>5 DEF next
<1>3. QED
  BY <1>1, <1>2

-----------------------------------------------------------------------------
LEMMA BeginPatchWeighs == ASSUME Full, NEW r \in Request, BeginPatch(r) PROVE Weighing'
<1>1. PICK c \in Card : \E ask \in Ask[c], match \in {0, item[c].version} :
        /\ Exists(c)
        /\ Begin(r, [Closed(IF ask.priority # Keep /\ ask.ceiling = Keep THEN "item" ELSE "write")
                    EXCEPT !.op = "patch", !.card = c, !.ask = ask, !.match = match])
  BY DEF BeginPatch
<1>2. PICK ask \in Ask[c], match \in {0, item[c].version} :
        /\ Exists(c)
        /\ Begin(r, [Closed(IF ask.priority # Keep /\ ask.ceiling = Keep THEN "item" ELSE "write")
                    EXCEPT !.op = "patch", !.card = c, !.ask = ask, !.match = match])
  BY <1>1
<1> DEFINE stage == IF ask.priority # Keep /\ ask.ceiling = Keep THEN "item" ELSE "write"
           q == [Closed(stage) EXCEPT !.op = "patch", !.card = c, !.ask = ask, !.match = match]
<1>3. /\ item \in [Card -> Item]
      /\ q.stage = stage /\ q.op = "patch" /\ q.card = c /\ q.ask = ask /\ q.lowest = None
  BY DEF Closed, Full, IInv, TypedStore
<1>4. match \in Nat /\ ask \in Patch
  BY <1>3, AskTyped DEF Item
<1>5. q \in ReqRecord
  <2>1. Closed(stage) \in ReqRecord
    BY ClosedTyped DEF Stages
  <2>2. QED
    BY <1>4, <2>1 DEF ReqRecord
<1>6. Becomes(r, q) /\ UNCHANGED <<item, byHand, on, ladder>>
  BY <1>2 DEF Begin, Becomes
<1> HIDE DEF q
<1>7. Weighed(q, ladder, on)
  BY <1>3 DEF Weighed, Weighs, Decides
<1>8. Stands(q, item') /\ ~Making(q)
  BY <1>2, <1>3, <1>6 DEF Stands, Making, Exists
<1>9. QED
  BY <1>5, <1>6, <1>7, <1>8, SameStore, Onward DEF Full

LEMMA BeginAttachWeighs == ASSUME Full, NEW r \in Request, BeginAttach(r) PROVE Weighing'
<1>1. PICK c \in Card, b \in Board :
        /\ Exists(c)
        /\ Begin(r, [Closed("item") EXCEPT !.op = "attach", !.card = c, !.board = b])
  BY DEF BeginAttach
<1> DEFINE q == [Closed("item") EXCEPT !.op = "attach", !.card = c, !.board = b]
<1>2. q.stage = "item" /\ q.op = "attach" /\ q.card = c /\ q.match = 0 /\ q.lowest = None
      /\ q.ask.ceiling = Keep
  BY DEF Closed, Nothing
<1>3. q \in ReqRecord
  <2>1. Closed("item") \in ReqRecord
    BY ClosedTyped DEF Stages
  <2>2. QED
    BY <2>1 DEF ReqRecord
<1>4. Becomes(r, q) /\ UNCHANGED <<item, byHand, on, ladder>>
  BY <1>1 DEF Begin, Becomes
<1> HIDE DEF q
<1>5. Weighed(q, ladder, on)
  BY <1>2 DEF Weighed, Weighs, Decides
<1>6. Stands(q, item') /\ ~Making(q)
  BY <1>1, <1>2, <1>4 DEF Stands, Making, Exists
<1>7. QED
  BY <1>3, <1>4, <1>5, <1>6, SameStore, Onward DEF Full

LEMMA BeginCreateWeighs == ASSUME Full, NEW r \in Request, BeginCreate(r) PROVE Weighing'
<1> DEFINE asked(c, b, ask) ==
             [Closed("write") EXCEPT !.op = "create", !.card = c, !.board = b, !.ask = ask]
           q(c, b, ask) ==
             IF ask.priority # Keep /\ ask.ceiling = Keep
             THEN [asked(c, b, ask) EXCEPT !.stage = "new rung", !.boards = {b}, !.left = {b}]
             ELSE asked(c, b, ask)
<1>1. PICK c \in Card, b \in Board : \E ask \in Ask[c] :
        (\A p \in Open : req[p].card # c) /\ Begin(r, q(c, b, ask))
  BY DEF BeginCreate
<1>2. PICK ask \in Ask[c] : (\A p \in Open : req[p].card # c) /\ Begin(r, q(c, b, ask))
  BY <1>1
<1> DEFINE x == q(c, b, ask)
<1>3. ask \in Patch
  BY AskTyped
<1>4. /\ x.op = "create" /\ x.card = c /\ x.board = b /\ x.ask = ask /\ x.read = NoItem
      /\ x.given = Keep /\ x.lowest = None
      /\ IF ask.priority # Keep /\ ask.ceiling = Keep
         THEN x.stage = "new rung" /\ x.boards = {b} /\ x.left = {b}
         ELSE x.stage = "write"
  BY DEF Closed
<1>5. x \in ReqRecord
  <2>1. Closed("write") \in ReqRecord /\ "new rung" \in Stages
    BY ClosedTyped DEF Stages
  <2>2. asked(c, b, ask) \in ReqRecord
    BY <1>3, <2>1 DEF ReqRecord
  <2>3. QED
    BY <2>1, <2>2 DEF ReqRecord
<1>6. Becomes(r, x) /\ UNCHANGED <<item, byHand, on, ladder>>
  BY <1>2 DEF Begin, Becomes
<1> HIDE DEF x, q
<1>7. Weighs(x, ladder, {b})
  <2>1. {b} \ {b} = {}
    OBVIOUS
  <2>2. QED
    BY <1>4, <2>1, LowestOfNone DEF Weighs, Decides
<1>8. Weighed(x, ladder', on') /\ Stands(x, item')
  BY <1>4, <1>6, <1>7 DEF Weighed, Deciding, Stands
<1>9. \A p \in Request \ {r} : Making(x) /\ Making(req[p]) => x.card # req[p].card
  BY <1>2, <1>4 DEF Making, IsOpen, Open
<1>10. TypedStore' /\ Grow(item, item') /\ ladder' = ladder /\ on' = on
  BY <1>6, SameStore DEF Full
<1>11. QED
  BY <1>5, <1>6, <1>8, <1>9, <1>10, OneWeighs

LEMMA BeginTagsWeighs == ASSUME Full, NEW r \in Request, BeginTags(r) PROVE Weighing'
<1>1. PICK cards \in Bulk, change \in TagChange :
        /\ \A i \in DOMAIN cards : Exists(cards[i])
        /\ Begin(r, [Closed("tags") EXCEPT !.op = "bulk", !.card = Head(cards), !.rest = Tail(cards),
                                           !.named = change.named, !.adding = change.adding])
  BY DEF BeginTags
<1> DEFINE q == [Closed("tags") EXCEPT !.op = "bulk", !.card = Head(cards), !.rest = Tail(cards),
                                       !.named = change.named, !.adding = change.adding]
<1>2. cards \in Seq(Card) /\ cards # <<>> /\ change \in [named : SUBSET Tag, adding : BOOLEAN]
  BY ItemAssumption
<1>3. Head(cards) \in Card /\ item[Head(cards)].version # 0 /\ Tail(cards) \in Seq(Card)
  BY <1>1, <1>2 DEF Exists
<1>4. q.stage = "tags" /\ q.op = "bulk" /\ q.card = Head(cards)
  BY DEF Closed
<1>5. q \in ReqRecord
  <2>1. Closed("tags") \in ReqRecord
    BY ClosedTyped DEF Stages
  <2>2. QED
    BY <1>2, <1>3, <2>1 DEF ReqRecord
<1>6. Becomes(r, q) /\ UNCHANGED <<item, byHand, on, ladder>>
  BY <1>1 DEF Begin, Becomes
<1> HIDE DEF q
<1>7. Weighed(q, ladder, on)
  BY <1>4 DEF Weighed, Weighs, Decides
<1>8. Stands(q, item') /\ ~Making(q)
  BY <1>3, <1>4, <1>6 DEF Stands, Making
<1>9. QED
  BY <1>5, <1>6, <1>7, <1>8, SameStore, Onward DEF Full

LEMMA ReadItemWeighs == ASSUME Full, NEW r \in Request, ReadItem(r) PROVE Weighing'
<1> DEFINE p == req[r]
           stage == IF p.op = "attach" THEN "row"
                    ELSE IF p.ask.priority = Unranked THEN "write" ELSE "boards"
           q == [p EXCEPT !.read = item[p.card], !.stage = stage]
<1>1. IsOpen(p) /\ p.stage = "item" /\ r \in Request
  BY DEF ReadItem, IsOpen
<1>2. /\ p \in ReqRecord /\ p.card \in Card /\ item[p.card] \in Item
      /\ ReadsTruly(p, item) /\ Concludes(p) /\ Retags(p, item)
      /\ Weighed(p, ladder, on) /\ Stands(p, item)
  BY <1>1, Known DEF Full, Weighing
<1>3. q \in ReqRecord
  BY <1>2 DEF ReqRecord, Stages
<1>4. /\ q.stage = stage /\ q.read = item[p.card] /\ q.op = p.op /\ q.ask = p.ask
      /\ q.card = p.card /\ q.board = p.board /\ q.match = p.match /\ q.given = p.given
      /\ q.crossed = p.crossed /\ q.lowest = p.lowest
  BY <1>2 DEF ReqRecord
<1>5. Becomes(r, q) /\ UNCHANGED <<item, byHand, on, ladder>>
  BY DEF ReadItem
<1>6. stage \in {"row", "write", "boards"} /\ (stage = "row" <=> p.op = "attach")
      /\ (stage = "write" => p.ask.priority = Unranked) /\ p.given = Keep
  BY <1>1, <1>2 DEF Concludes
<1> HIDE DEF q, stage
<1>7. Weighed(q, ladder, on)
  <2> SUFFICES ASSUME ~p.crossed PROVE Weighs(q, ladder, Deciding(q, on))
    BY <1>4 DEF Weighed
  <2>1. Weighs(p, ladder, Deciding(p, on))
    BY <1>1, <1>2 DEF Weighed
  <2>2. Decides(p) /\ p.op # "create"
    <3>1. Decides(p)
      BY <1>1, <2>1 DEF Weighs
    <3>2. p.op # "create"
      BY <1>1, <2>1 DEF Weighs
    <3>3. QED
      BY <3>1, <3>2
  <2>3. Decides(q)
    BY <1>4, <2>2 DEF Decides
  <2>4. q.stage = "write" =>
          /\ q.match <= q.read.version
          /\ Named(q.given, q.read.ceiling)
               = RuledIn(ladder, q.read, Deciding(q, on), NewRank(q))
    <3>1. q.stage = "write" => NewRank(q) = Unranked
      BY <1>4, <1>6 DEF NewRank
    <3>2. q.match <= q.read.version
      BY <1>2, <1>4 DEF ReadsTruly
    <3>3. QED
      BY <1>4, <1>6, <3>1, <3>2, LowestUnranked DEF Named, RuledIn
  <2>5. /\ q.op = "attach" => q.match = 0 /\ q.ask.ceiling = Keep /\ q.stage = "row"
        /\ q.lowest = None
    BY <1>1, <1>4, <1>6, <2>1, <2>2 DEF Weighs
  <2>6. QED
    BY <1>4, <1>6, <2>2, <2>3, <2>4, <2>5 DEF Weighs
<1>8. Stands(q, item')
  BY <1>1, <1>2, <1>4, <1>5 DEF Stands, IsOpen
<1>9. Making(q) => Making(p) /\ q.card = p.card
  BY <1>1, <1>4 DEF Making
<1>10. QED
  BY <1>3, <1>5, <1>7, <1>8, <1>9, SameStore, Onward DEF Full


LEMMA OnceReadFields ==
  ASSUME NEW q \in ReqRecord, IsOpen(OnceRead(q)), q.stage \in {"new rung", "old rung"}
  PROVE  /\ OnceRead(q).crossed = q.crossed /\ OnceRead(q).op = q.op
         /\ OnceRead(q).card = q.card /\ OnceRead(q).board = q.board
         /\ OnceRead(q).stage # "row"
<1> DEFINE g(a) == [q EXCEPT !.stage = "write", !.given = a]
           old == [q EXCEPT !.stage = "old rung", !.offer = q.lowest, !.left = q.boards,
                            !.lowest = None]
<1>1. ~IsOpen(Closed("done"))
  BY DEF IsOpen, Closed
<1>2. \A a : Give(q, a) \in {g(a), Closed("done")}
  BY DEF Give
<1>3. \A a : /\ g(a).crossed = q.crossed /\ g(a).op = q.op /\ g(a).card = q.card
             /\ g(a).board = q.board /\ g(a).stage = "write"
  BY DEF ReqRecord
<1>4. /\ old.crossed = q.crossed /\ old.op = q.op /\ old.card = q.card
      /\ old.board = q.board /\ old.stage = "old rung"
  BY DEF ReqRecord
<1>5. OnceRead(q) = q \/ OnceRead(q) = old \/ \E a : OnceRead(q) = Give(q, a)
  BY DEF OnceRead
<1> HIDE DEF g, old
<1>6. QED
  BY <1>1, <1>2, <1>3, <1>4, <1>5

\* A round of ladders that request r goes on with or begins: q, or what follows it.
Round(r, q) ==
  /\ q.stage \in {"new rung", "old rung"}
  /\ Sound(q, item) /\ Weighed(q, ladder, on) /\ Stands(q, item)
  /\ q.op = req[r].op /\ q.card = req[r].card
  /\ q.read = req[r].read /\ q.crossed = req[r].crossed
  /\ IsOpen(req[r]) /\ req[r].stage # "row"
  /\ Becomes(r, OnceRead(q)) /\ UNCHANGED <<item, byHand, on, ladder>>

LEMMA RoundWeighs ==
  ASSUME Full, NEW r \in Request, NEW q \in ReqRecord, Round(r, q)
  PROVE  Weighing'
<1> DEFINE x == OnceRead(q)
<1>1. x \in ReqRecord
  BY OnceReadSound DEF Round
<1>2. IsOpen(q) /\ ReadsTruly(q, item) /\ Concludes(q) /\ q.card \in Card
  BY DEF Round, Sound, IsOpen, ReadsTruly
<1>3. IsOpen(x) => /\ x.crossed = q.crossed /\ x.op = q.op /\ x.card = q.card
                   /\ x.board = q.board /\ x.stage # "row"
  BY OnceReadFields DEF Round
<1>4. Concludes(q) /\ q.op \in {"create"} => q.board \in Board
  BY DEF Concludes
<1>5. Deciding(q, on) \in SUBSET Board
  BY <1>2, <1>4 DEF Deciding, Full, IInv, TypedStore
<1>6. Weighed(x, ladder, on)
  <2> SUFFICES ASSUME IsOpen(x), ~x.crossed PROVE Weighs(x, ladder, Deciding(x, on))
    BY DEF Weighed
  <2>1. Weighs(q, ladder, Deciding(q, on))
    BY <1>2, <1>3 DEF Round, Weighed
  <2>2. Weighs(x, ladder, Deciding(q, on))
    BY <1>2, <1>5, <2>1, OnceReadWeighs DEF Round
  <2>3. Deciding(x, on) = Deciding(q, on)
    BY <1>3 DEF Deciding
  <2>4. QED
    BY <2>2, <2>3
<1>7. Stands(x, item')
  BY <1>2, <1>3 DEF Round, Stands
<1>8. Making(x) => Making(req[r]) /\ x.card = req[r].card
  BY <1>3 DEF Round, Making
<1> HIDE DEF x
<1>9. Becomes(r, x)
  BY DEF Round, x
<1>10. UNCHANGED <<item, byHand, on, ladder>>
  BY DEF Round
<1>11. QED
  BY <1>1, <1>6, <1>7, <1>8, <1>9, <1>10, SameStore, Onward DEF Full

LEMMA BoardsRound ==
  ASSUME Full, NEW r \in Request, ReadBoards(r)
  PROVE  \E q \in ReqRecord : Round(r, q)
<1> DEFINE p == req[r]
           boards == on[p.card]
           q == [p EXCEPT !.stage = "new rung", !.boards = boards, !.left = boards]
<1>1. IsOpen(p) /\ p.stage = "boards"
  BY DEF ReadBoards, IsOpen
<1>2. /\ p \in ReqRecord /\ boards \in SUBSET Board
      /\ ReadsTruly(p, item) /\ Concludes(p) /\ Retags(p, item)
      /\ Weighed(p, ladder, on) /\ Stands(p, item)
  BY <1>1, Known DEF Full, Weighing
<1>3. q \in ReqRecord
  BY <1>2 DEF ReqRecord, Stages
<1>4. /\ q.stage = "new rung" /\ q.boards = boards /\ q.left = boards
      /\ q.read = p.read /\ q.op = p.op /\ q.ask = p.ask /\ q.rest = p.rest
      /\ q.card = p.card /\ q.board = p.board /\ q.match = p.match /\ q.given = p.given
      /\ q.lowest = p.lowest /\ q.crossed = p.crossed
  BY <1>2 DEF ReqRecord
<1>5. Becomes(r, OnceRead(q)) /\ UNCHANGED <<item, byHand, on, ladder>>
  BY DEF ReadBoards
<1>6. p.op # "bulk"
  BY <1>1, <1>2 DEF Retags
<1> HIDE DEF q
<1>7. Sound(q, item)
  <2>1. Concludes(q)
    BY <1>1, <1>2, <1>4 DEF Concludes
  <2>2. ReadsTruly(q, item) /\ Retags(q, item)
    BY <1>2, <1>4, <1>6 DEF ReadsTruly, Retags
  <2>3. QED
    BY <2>1, <2>2 DEF Sound
<1>8. Weighed(q, ladder, on)
  <2> SUFFICES ASSUME ~p.crossed PROVE Weighs(q, ladder, Deciding(q, on))
    BY <1>4 DEF Weighed
  <2>1. Weighs(p, ladder, Deciding(p, on))
    BY <1>1, <1>2 DEF Weighed
  <2>2. p.op # "create" /\ Decides(p) /\ p.lowest = None
    BY <1>1, <2>1 DEF Weighs
  <2>3. p.op = "attach" => p.match = 0 /\ p.ask.ceiling = Keep /\ p.read.ceiling = None
    BY <1>1, <2>1 DEF Weighs
  <2>4. Deciding(q, on) = boards /\ Decides(q)
    BY <1>4, <2>2 DEF Deciding, Decides
  <2>5. boards \ q.left = {}
    BY <1>4
  <2> HIDE DEF boards
  <2>6. QED
    BY <1>4, <2>2, <2>3, <2>4, <2>5, LowestOfNone DEF Weighs
<1>9. Stands(q, item) /\ q.op = p.op /\ q.card = p.card
  BY <1>1, <1>2, <1>4 DEF Stands
<1>10. QED
  BY <1>1, <1>3, <1>4, <1>5, <1>7, <1>8, <1>9 DEF Round

LEMMA LadderRound ==
  ASSUME Full, NEW r \in Request, ReadLadder(r)
  PROVE  \E q \in ReqRecord : Round(r, q)
<1> DEFINE p == req[r]
<1>1. IsOpen(p) /\ p.stage \in {"new rung", "old rung"}
  BY DEF ReadLadder, IsOpen
<1>2. /\ p \in ReqRecord /\ on[p.card] \in SUBSET Board
      /\ ReadsTruly(p, item) /\ Concludes(p) /\ Retags(p, item)
      /\ Weighed(p, ladder, on) /\ Stands(p, item)
  BY <1>1, Known DEF Full, Weighing
<1>3. PICK b \in p.left :
        Becomes(r, OnceRead([p EXCEPT !.left = @ \ {b},
                               !.lowest = Lower(@, DefaultFor(b, RankSought(p)))]))
  BY DEF ReadLadder
<1> DEFINE sought == RankSought(p)
           default == DefaultFor(b, sought)
           low == Lower(p.lowest, default)
           q == [p EXCEPT !.left = p.left \ {b}, !.lowest = low]
<1>4. sought \in Priority
  BY <1>1, <1>2 DEF RankSought, Concludes, ReqRecord, Item, Patch
<1>5. b \in Board
  BY <1>2 DEF ReqRecord
<1>6. default \in Offered \cup {None} /\ default \in Ceiling
  BY <1>4, <1>5, DefaultOffered DEF Full
<1>7. p.lowest \in Offered \cup {None} /\ p.lowest \in Ceiling
  BY <1>2 DEF Concludes, ReqRecord
<1>8. low \in Offered \cup {None} /\ low \in Ceiling
  BY <1>6, <1>7, LowerOfTwo
<1>9. Becomes(r, OnceRead(q))
  BY <1>3
<1> HIDE DEF low
<1>10. q \in ReqRecord
  BY <1>1, <1>2, <1>8 DEF ReqRecord
<1>11. /\ q.stage = p.stage /\ q.boards = p.boards /\ q.left = p.left \ {b}
       /\ q.read = p.read /\ q.op = p.op /\ q.ask = p.ask /\ q.rest = p.rest
       /\ q.card = p.card /\ q.board = p.board /\ q.match = p.match /\ q.given = p.given
       /\ q.lowest = low /\ q.offer = p.offer /\ q.crossed = p.crossed
  BY <1>2 DEF ReqRecord
<1>12. p.op # "bulk"
  BY <1>1, <1>2 DEF Retags
<1> HIDE DEF q
<1>13. Sound(q, item)
  <2>1. Concludes(q)
    BY <1>1, <1>2, <1>8, <1>11 DEF Concludes
  <2>2. ReadsTruly(q, item) /\ Retags(q, item)
    BY <1>2, <1>11, <1>12 DEF ReadsTruly, Retags
  <2>3. QED
    BY <2>1, <2>2 DEF Sound
<1>14. Weighed(q, ladder, on)
  <2> DEFINE boards == Deciding(p, on)
  <2> SUFFICES ASSUME ~p.crossed PROVE Weighs(q, ladder, boards)
    BY <1>11 DEF Weighed, Deciding
  <2>1. Weighs(p, ladder, boards)
    BY <1>1, <1>2 DEF Weighed
  <2>2. /\ p.boards = boards /\ p.left \subseteq boards
        /\ p.lowest = LowestIn(ladder, boards \ p.left, sought)
    BY <1>1, <2>1 DEF Weighs
  <2>3. ladder \in [Board -> Ladder]
    BY DEF Full, IInv, TypedStore
  <2>4. p.boards \in SUBSET Board /\ boards \ (p.left \ {b}) = (boards \ p.left) \cup {b}
    BY <1>2, <2>2 DEF ReqRecord
  <2>5. default = IF sought = Unranked THEN None ELSE ladder[b][sought]
    BY DEF DefaultFor
  <2>6. boards \ p.left \in SUBSET Board
    BY <2>2, <2>4
  <2> HIDE DEF boards, default, sought
  <2>7. low = LowestIn(ladder, boards \ q.left, sought)
    <3>1. LowestIn(ladder, (boards \ p.left) \cup {b}, sought)
            = Lower(LowestIn(ladder, boards \ p.left, sought),
                    IF sought = Unranked THEN None ELSE ladder[b][sought])
      BY <1>4, <1>5, <2>3, <2>6, LowestGrows
    <3>2. QED
      BY <1>11, <2>2, <2>4, <2>5, <3>1 DEF low
  <2>8. RankSought(q) = sought /\ NewRank(q) = NewRank(p) /\ (Decides(q) <=> Decides(p))
    BY <1>11 DEF RankSought, NewRank, Decides, sought
  <2>9. p.op = "attach" => p.match = 0 /\ p.ask.ceiling = Keep /\ p.read.ceiling = None
    BY <1>1, <2>1 DEF Weighs
  <2>10. p.op = "create" => p.read = NoItem
    BY <2>1 DEF Weighs
  <2>11. p.stage = "old rung" => /\ p.read.ceiling # None
                                 /\ p.offer # None /\ p.offer = LowestIn(ladder, boards, NewRank(p))
    BY <2>1 DEF Weighs
  <2>12. Decides(p)
    BY <1>1, <2>1 DEF Weighs
  <2>13. QED
    BY <1>1, <1>11, <2>2, <2>7, <2>8, <2>9, <2>10, <2>11, <2>12 DEF Weighs
<1>15. Stands(q, item) /\ q.op = p.op /\ q.card = p.card /\ p.stage # "row"
  BY <1>1, <1>2, <1>11 DEF Stands
<1>16. q.stage \in {"new rung", "old rung"} /\ UNCHANGED <<item, byHand, on, ladder>>
  BY <1>1, <1>11 DEF ReadLadder
<1>17. QED
  BY <1>1, <1>9, <1>10, <1>11, <1>13, <1>14, <1>15, <1>16 DEF Round

LEMMA ReadTagsWeighs == ASSUME Full, NEW r \in Request, ReadTags(r) PROVE Weighing'
<1> DEFINE p == req[r]
<1>1. IsOpen(p) /\ p.stage = "tags"
  BY DEF ReadTags, IsOpen
<1>2. p \in ReqRecord /\ p.card \in Card /\ Concludes(p) /\ Stands(p, item)
  BY <1>1, Known DEF Full, Weighing
<1>3. p.op = "bulk"
  BY <1>1, <1>2 DEF Concludes
<1>4. IInv'
  BY ReadTagsInv DEF Full
<1>5. req' = [req EXCEPT ![r] = req'[r]] /\ UNCHANGED <<item, byHand, on, ladder>>
  <2>1. \E x : req' = [req EXCEPT ![r] = x]
    BY DEF ReadTags, Becomes
  <2>2. req \in [Request -> ReqRecord]
    BY DEF Full, IInv
  <2>3. UNCHANGED <<item, byHand, on, ladder>>
    BY DEF ReadTags
  <2>4. QED
    BY <2>1, <2>2, <2>3
<1>6. req'[r] \in ReqRecord
  BY <1>4 DEF IInv
<1>7. PICK q \in ReqRecord : q = req'[r]
  BY <1>6
<1>8. q.op = "bulk" /\ q.card = p.card /\ q.stage = "write"
  BY <1>2, <1>3, <1>7 DEF ReadTags, Becomes, ReqRecord, Full, IInv
<1>9. Becomes(r, q)
  BY <1>5, <1>7 DEF Becomes
<1>10. Weighed(q, ladder, on) /\ Stands(q, item') /\ ~Making(q)
  BY <1>1, <1>2, <1>3, <1>5, <1>8 DEF Weighed, Weighs, Decides, Stands, Making
<1>11. QED
  BY <1>5, <1>9, <1>10, SameStore, Onward DEF Full

LEMMA WriteItemWeighs == ASSUME Full, NEW r \in Request, WriteItem(r) PROVE Weighing'
<1> DEFINE p == req[r]
<1>1. IsOpen(p) /\ p.stage = "write"
  BY DEF WriteItem, IsOpen
<1>2. p \in ReqRecord /\ p.card \in Card /\ Sound(p, item) /\ Concludes(p)
  BY <1>1, Known DEF Full, IInv
<1>3. /\ item \in [Card -> Item] /\ Blank(item)
      /\ p.ask \in Patch /\ p.given \in Ceiling \cup {Keep}
  BY <1>2 DEF Full, IInv, TypedStore, ReqRecord
<1>4. PICK stage \in {"done", "failed"} : Becomes(r, Finished(p, stage))
  BY DEF WriteItem
<1>5. UNCHANGED <<on, ladder>> /\ (UNCHANGED <<item, byHand>> \/ Put(p))
  BY DEF WriteItem
<1>6. TypedStore' /\ Grow(item, item')
  <2>1. CASE UNCHANGED <<item, byHand>>
    BY <1>5, <2>1, SameStore DEF Full
  <2>2. CASE Put(p)
    BY <1>2, <1>3, <1>5, <2>2, PutKeeps DEF Full
  <2>3. QED
    BY <1>5, <2>1, <2>2
<1>7. item' \in [Card -> Item] /\ Blank(item')
  BY <1>6 DEF TypedStore
<1>8. Sound(p, item')
  BY <1>2, <1>3, <1>6, <1>7, SoundStays
<1>9. Retags(p, item')
  BY <1>1, <1>8 DEF Sound
<1> DEFINE q == Finished(p, stage)
<1>10. q \in ReqRecord
  BY <1>1, <1>2, <1>7, <1>8, FinishedSound
<1>11. Weighed(q, ladder, on) /\ Stands(q, item') /\ ~Making(q)
  BY <1>1, <1>2, <1>9, FinishedWeighs
<1> HIDE DEF q
<1>12. Becomes(r, q)
  BY <1>4 DEF q
<1>13. QED
  BY <1>5, <1>6, <1>10, <1>11, <1>12, Onward

LEMMA CreateItemWeighs == ASSUME Full, NEW r \in Request, CreateItem(r) PROVE Weighing'
<1> DEFINE p == req[r]
           q == [p EXCEPT !.stage = "row"]
<1>1. IsOpen(p) /\ p.stage = "write" /\ p.op = "create"
  BY DEF CreateItem, IsOpen
<1>2. p \in ReqRecord /\ p.card \in Card /\ Weighed(p, ladder, on)
  BY <1>1, Known DEF Full, Weighing
<1>3. p.ask \in Patch /\ p.given \in Ceiling \cup {Keep}
  BY <1>2 DEF ReqRecord
<1>4. Becomes(r, q) /\ Put(p) /\ UNCHANGED <<on, ladder>>
  BY DEF CreateItem
<1>5. TypedStore' /\ Grow(item, item')
  BY <1>2, <1>3, <1>4, PutKeeps DEF Full
<1>6. q \in ReqRecord
  BY <1>2 DEF ReqRecord, Stages
<1>7. /\ q.stage = "row" /\ q.op = "create" /\ q.read = p.read /\ q.given = p.given
      /\ q.ask = p.ask /\ q.board = p.board /\ q.crossed = p.crossed
  BY <1>1, <1>2 DEF ReqRecord
<1> HIDE DEF q
<1>8. Weighed(q, ladder, on)
  <2>1. Decides(q) <=> Decides(p)
    BY <1>1, <1>7 DEF Decides
  <2>2. ~p.crossed => p.read = NoItem /\ (Decides(p) \/ p.given = Keep)
    BY <1>1, <1>2 DEF Weighed, Weighs
  <2>3. QED
    BY <1>7, <2>1, <2>2 DEF Weighed, Weighs
<1>9. Stands(q, item') /\ ~Making(q)
  BY <1>7 DEF Stands, Making
<1>10. QED
  BY <1>4, <1>5, <1>6, <1>8, <1>9, Onward

LEMMA AttachRowWeighs == ASSUME Full, NEW r \in Request, AttachRow(r) PROVE Weighing'
<1> DEFINE p == req[r]
           q == [p EXCEPT !.stage = "boards"]
           others == {s \in Request \ {r} : req[s].card = p.card}
           next == IF p.op = "create" \/ p.read.priority = Unranked \/ p.read.ceiling # None
                   THEN Closed("done") ELSE q
<1>1. IsOpen(p) /\ p.stage = "row"
  BY DEF AttachRow, IsOpen
<1>2. p \in ReqRecord /\ p.card \in Card /\ Concludes(p) /\ Weighed(p, ladder, on) /\ Stands(p, item)
  BY <1>1, Known DEF Full, Weighing
<1>3. p.board \in Board /\ p.op \in {"attach", "create"}
  BY <1>1, <1>2 DEF Concludes
<1>4. on' = [on EXCEPT ![p.card] = @ \cup {p.board}] /\ UNCHANGED <<item, byHand, ladder>>
  BY DEF AttachRow
<1>5. TypedStore' /\ Grow(item, item')
  <2>1. on' \in [Card -> SUBSET Board]
    BY <1>2, <1>3, <1>4 DEF Full, IInv, TypedStore
  <2>2. QED
    BY <1>4, <2>1 DEF Full, IInv, TypedStore, Blank, Grow
<1>6. Crossing(others, r, next)
  BY DEF AttachRow
<1>7. ASSUME NEW s \in Open \ {r}, s \notin others PROVE ladder' = ladder /\ on'[req[s].card] = on[req[s].card]
  <2>1. s \in Request /\ req[s].card # p.card
    BY <1>7 DEF Open
  <2>2. QED
    BY <1>4, <2>1 DEF Full, IInv, TypedStore
<1>8. /\ next \in ReqRecord /\ Weighed(next, ladder', on') /\ Stands(next, item')
      /\ ~Making(next)
  <2>1. CASE next = Closed("done")
    BY <2>1, ClosedSound, ClosedWeighs
  <2>2. CASE next # Closed("done")
    <3>1. next = q /\ p.op = "attach" /\ p.read.ceiling = None
      BY <1>3, <2>2
    <3>2. q \in ReqRecord
      BY <1>2 DEF ReqRecord, Stages
    <3>3. /\ q.stage = "boards" /\ q.op = p.op /\ q.card = p.card /\ q.read = p.read
          /\ q.match = p.match /\ q.lowest = p.lowest /\ q.crossed = p.crossed
          /\ q.ask = p.ask
      BY <1>2 DEF ReqRecord
    <3> HIDE DEF q
    <3>4. ~p.crossed => p.match = 0 /\ p.lowest = None /\ p.ask.ceiling = Keep
      BY <1>1, <1>2, <3>1 DEF Weighed, Weighs
    <3>5. Weighed(q, ladder', on')
      BY <3>1, <3>3, <3>4 DEF Weighed, Weighs, Decides
    <3>6. Stands(q, item') /\ ~Making(q)
      BY <1>1, <1>2, <1>4, <3>1, <3>3 DEF Stands, Making
    <3>7. QED
      BY <3>1, <3>2, <3>5, <3>6
  <2>3. QED
    BY <2>1, <2>2
<1> HIDE DEF next, others
<1>9. QED
  BY <1>5, <1>6, <1>7, <1>8, OneWeighs

\* What is done in one statement crosses the requests it may disturb.
LEMMA OnceWeighs ==
  ASSUME Full, NEW r \in Request, NEW others, Once(r, others), TypedStore', Grow(item, item'),
         \A p \in Open : p \notin others => ladder' = ladder /\ on'[req[p].card] = on[req[p].card]
  PROVE  Weighing'
<1>1. Crossing(others, r, Closed("done"))
  BY DEF Once
<1>2. /\ Closed("done") \in ReqRecord /\ Weighed(Closed("done"), ladder', on')
      /\ Stands(Closed("done"), item') /\ ~Making(Closed("done"))
  BY ClosedSound, ClosedWeighs
<1>3. QED
  BY <1>1, <1>2, OneWeighs

LEMMA OthersWeigh ==
  ASSUME Full, NEW r \in Request,
         DetachCard(r) \/ SetPriorityLadder(r) \/ EditInNoteboard(r)
  PROVE  Weighing'
<1>1. IInv' /\ TypedStore'
  BY OthersInv DEF Full, IInv
<1>2. CASE DetachCard(r)
  <2>1. PICK c \in Card : \E b \in on[c] :
          /\ on' = [on EXCEPT ![c] = @ \ {b}]
          /\ Once(r, {q \in Request : req[q].card = c})
    BY <1>2 DEF DetachCard
  <2>2. UNCHANGED <<item, byHand, ladder>>
    BY <1>2 DEF DetachCard
  <2> DEFINE others == {q \in Request : req[q].card = c}
  <2>3. ASSUME NEW p \in Open, p \notin others
        PROVE  ladder' = ladder /\ on'[req[p].card] = on[req[p].card]
    <3>1. req[p].card # c
      BY <2>3 DEF Open
    <3>2. QED
      BY <2>1, <2>2, <3>1 DEF Full, IInv, TypedStore
  <2>4. Grow(item, item') /\ Once(r, others)
    BY <2>1, <2>2 DEF Grow
  <2> HIDE DEF others
  <2>5. QED
    BY <1>1, <2>3, <2>4, OnceWeighs
<1>3. CASE SetPriorityLadder(r)
  <2>1. Once(r, Request) /\ UNCHANGED <<item, byHand, on>>
    BY <1>3 DEF SetPriorityLadder
  <2>2. \A p \in Open : p \in Request
    BY DEF Open
  <2>3. Grow(item, item')
    BY <2>1 DEF Grow
  <2>4. QED
    BY <1>1, <2>1, <2>2, <2>3, OnceWeighs
<1>4. CASE EditInNoteboard(r)
  <2>1. PICK c \in Card : \E ask \in Ask[c] : Put([card |-> c, ask |-> ask, given |-> Keep])
    BY <1>4 DEF EditInNoteboard
  <2>2. PICK ask \in Ask[c] : Put([card |-> c, ask |-> ask, given |-> Keep])
    BY <2>1
  <2>3. Once(r, {}) /\ UNCHANGED <<on, ladder>>
    BY <1>4 DEF EditInNoteboard
  <2> DEFINE edit == [card |-> c, ask |-> ask, given |-> Keep]
  <2>4. edit.card \in Card /\ edit.ask \in Patch /\ edit.given \in Ceiling \cup {Keep}
    BY AskTyped
  <2> HIDE DEF edit
  <2>5. Put(edit)
    BY <2>2 DEF edit
  <2>6. TypedStore' /\ Grow(item, item')
    BY <2>3, <2>4, <2>5, PutKeeps DEF Full
  <2>7. \A p \in Open : ladder' = ladder /\ on'[req[p].card] = on[req[p].card]
    BY <2>3
  <2>8. QED
    BY <2>3, <2>6, <2>7, OnceWeighs
<1>5. QED
  BY <1>2, <1>3, <1>4

LEMMA FailWeighs == ASSUME Full, NEW r \in Request, Fail(r) PROVE Weighing'
<1> DEFINE q == Finished(req[r], "failed")
<1>1. IsOpen(req[r]) /\ Becomes(r, q) /\ UNCHANGED <<item, byHand, on, ladder>>
  BY DEF Fail, Open, IsOpen
<1>2. /\ req[r] \in ReqRecord /\ Sound(req[r], item) /\ item \in [Card -> Item] /\ Blank(item)
      /\ Retags(req[r], item) /\ Concludes(req[r])
  BY <1>1 DEF Full, IInv, TypedStore, Sound
<1>3. q \in ReqRecord
  BY <1>1, <1>2, FinishedSound
<1>4. Weighed(q, ladder, on) /\ Stands(q, item) /\ ~Making(q)
  BY <1>1, <1>2, FinishedWeighs
<1> HIDE DEF q
<1>5. Stands(q, item')
  BY <1>1, <1>4
<1>6. QED
  BY <1>1, <1>3, <1>4, <1>5, SameStore, Onward DEF Full

LEMMA StopWeighs == ASSUME Full, Stop PROVE Weighing'
<1>1. UNCHANGED <<item, on, ladder>>
  BY DEF Stop
<1>2. \A r \in Request : req'[r] = Closed("failed") \/ req'[r] = req[r]
  BY DEF Stop
<1>3. \A r \in Request : Weighed(req'[r], ladder, on) /\ Stands(req'[r], item)
  BY <1>2, ClosedWeighs DEF Full, Weighing
<1>4. \A r \in Request : Making(req'[r]) => req'[r] = req[r]
  BY <1>2, ClosedWeighs
<1>5. Apart'
  BY <1>4 DEF Full, Weighing, Apart
<1>6. QED
  BY <1>1, <1>3, <1>5 DEF Weighing

LEMMA StepFull == Full /\ [Next]_vars => Full'
<1> SUFFICES ASSUME Full, [Next]_vars PROVE Weighing'
  BY StepInv DEF Full
<1>1. CASE UNCHANGED vars
  BY <1>1 DEF vars, Full, Weighing, Apart
<1>2. CASE Stop
  BY <1>2, StopWeighs
<1>3. ASSUME NEW r \in Request,
             \/ BeginPatch(r) \/ BeginAttach(r) \/ BeginCreate(r) \/ BeginTags(r)
             \/ ReadItem(r) \/ ReadBoards(r) \/ ReadLadder(r) \/ ReadTags(r)
             \/ WriteItem(r) \/ CreateItem(r) \/ AttachRow(r)
             \/ DetachCard(r) \/ SetPriorityLadder(r) \/ EditInNoteboard(r)
             \/ Fail(r)
      PROVE  Weighing'
  BY <1>3, BeginPatchWeighs, BeginAttachWeighs, BeginCreateWeighs, BeginTagsWeighs,
     ReadItemWeighs, BoardsRound, LadderRound, RoundWeighs, ReadTagsWeighs, WriteItemWeighs,
     CreateItemWeighs, AttachRowWeighs, OthersWeigh, FailWeighs
<1>4. QED
  BY <1>1, <1>2, <1>3 DEF Next, Idle

LEMMA InitFull == Init => Full
<1> SUFFICES ASSUME Init PROVE Weighing
  BY InitInv DEF Full
<1>1. \A r \in Request : req[r] = Closed("new")
  BY DEF Init
<1>2. QED
  BY <1>1, ClosedWeighs DEF Weighing, Apart

LEMMA AlwaysFull == Spec => []Full
BY InitFull, StepFull, PTL DEF Spec

\* A request is answered by what it does itself, and by one of these steps.
LEMMA WhoEnds ==
  ASSUME Full, [Next]_vars, NEW r \in Open, Ends(r)
  PROVE  ReadBoards(r) \/ ReadLadder(r) \/ WriteItem(r) \/ AttachRow(r)
<1>1. r \in Request /\ req \in [Request -> ReqRecord] /\ IsOpen(req[r]) /\ req[r] \in ReqRecord
  BY DEF Open, IsOpen, Full, IInv
<1>2. ~Stop /\ ~UNCHANGED vars
  BY <1>1 DEF Ends, Stop, Closed, vars
<1>3. PICK s \in Request :
             \/ BeginPatch(s) \/ BeginAttach(s) \/ BeginCreate(s) \/ BeginTags(s)
             \/ ReadItem(s) \/ ReadBoards(s) \/ ReadLadder(s) \/ ReadTags(s)
             \/ WriteItem(s) \/ CreateItem(s) \/ AttachRow(s)
             \/ DetachCard(s) \/ SetPriorityLadder(s) \/ EditInNoteboard(s)
             \/ Fail(s)
  BY <1>2 DEF Next, Idle
<1>4. \A others, q : Crossing(others, s, q) /\ s # r => ~Ends(r)
  <2>1. [req[r] EXCEPT !.crossed = TRUE].stage = req[r].stage
    BY <1>1 DEF ReqRecord
  <2>2. QED
    BY <1>1, <2>1 DEF Crossing, Ends
<1>5. \A q : Becomes(s, q) /\ s # r => ~Ends(r)
  BY <1>1 DEF Becomes, Ends
<1>6. s # r => ~NextToSend(r)
  BY <1>1 DEF NextToSend, IsOpen
<1>7. ~NextToSend(r)
  BY <1>1 DEF NextToSend, IsOpen
<1>8. CASE BeginPatch(s) \/ BeginAttach(s) \/ BeginCreate(s) \/ BeginTags(s)
  <2>1. NextToSend(s) /\ \E q : Becomes(s, q)
    BY <1>8 DEF BeginPatch, BeginAttach, BeginCreate, BeginTags, Begin, Becomes
  <2>2. QED
    BY <1>5, <1>7, <2>1
<1>9. CASE DetachCard(s) \/ SetPriorityLadder(s) \/ EditInNoteboard(s)
  <2>1. NextToSend(s) /\ \E others, q : Crossing(others, s, q)
    BY <1>9 DEF DetachCard, SetPriorityLadder, EditInNoteboard, Once
  <2>2. QED
    BY <1>4, <1>7, <2>1
<1>10. CASE ReadItem(s) \/ ReadTags(s) \/ CreateItem(s) \/ Fail(s)
  <2>1. \E q : Becomes(s, q)
    BY <1>10 DEF ReadItem, ReadTags, CreateItem, Fail
  <2>2. s = r
    BY <1>5, <2>1
  <2>3. CASE ReadItem(r)
    BY <1>1, <2>3 DEF ReadItem, Becomes, Ends, ReqRecord
  <2>4. CASE ReadTags(r)
    BY <1>1, <2>4 DEF ReadTags, Becomes, Ends, ReqRecord
  <2>5. CASE CreateItem(r)
    BY <1>1, <2>5 DEF CreateItem, Becomes, Ends, ReqRecord
  <2>6. CASE Fail(r)
    BY <1>1, <2>6 DEF Fail, Becomes, Ends, Finished, Closed
  <2>7. QED
    BY <1>10, <2>2, <2>3, <2>4, <2>5, <2>6
<1>11. CASE ReadBoards(s) \/ ReadLadder(s) \/ WriteItem(s)
  <2>1. \E q : Becomes(s, q)
    BY <1>11 DEF ReadBoards, ReadLadder, WriteItem
  <2>2. QED
    BY <1>5, <1>11, <2>1
<1>12. CASE AttachRow(s)
  <2>1. \E others, q : Crossing(others, s, q)
    BY <1>12 DEF AttachRow
  <2>2. QED
    BY <1>4, <1>12, <2>1
<1>13. QED
  BY <1>3, <1>8, <1>9, <1>10, <1>11, <1>12

\* A round of ladders ends an arrival only where the rule leaves the ceiling alone.
LEMMA RoundEnds ==
  ASSUME Full, NEW r \in Open, ReadBoards(r) \/ ReadLadder(r), Ends(r)
  PROVE  /\ req[r].op = "attach" /\ UNCHANGED <<item, on>>
         /\ ~req[r].crossed =>
              RuledIn(ladder, req[r].read, on[req[r].card], req[r].read.priority)
                = req[r].read.ceiling
<1>1. r \in Request /\ req \in [Request -> ReqRecord]
  BY DEF Open, Full, IInv
<1>2. PICK q \in ReqRecord : Round(r, q)
  BY <1>1, BoardsRound, LadderRound
<1>3. OnceRead(q).stage = "done"
  BY <1>1, <1>2 DEF Round, Becomes, Ends
<1>4. IsOpen(q) /\ Concludes(q) /\ q.card \in Card
  BY <1>2 DEF Round, Sound, IsOpen, ReadsTruly
<1>5. q.op = "attach"
  <2>1. q.stage # "done" /\ \A a : OnceRead(q) = Give(q, a) => q.op = "attach"
    <3>1. \A a : [q EXCEPT !.stage = "write", !.given = a].stage = "write"
      BY DEF ReqRecord
    <3>2. QED
      BY <1>2, <1>3, <3>1 DEF Round, Give
  <2> DEFINE old == [q EXCEPT !.stage = "old rung", !.offer = q.lowest, !.left = q.boards,
                              !.lowest = None]
  <2>2. old.stage = "old rung"
    BY DEF ReqRecord
  <2>3. OnceRead(q) = q \/ OnceRead(q) = old \/ \E a : OnceRead(q) = Give(q, a)
    BY DEF OnceRead
  <2> HIDE DEF old
  <2>4. QED
    BY <1>3, <2>1, <2>2, <2>3
<1>6. ASSUME ~req[r].crossed
      PROVE  RuledIn(ladder, q.read, on[q.card], q.read.priority) = q.read.ceiling
  <2>1. Deciding(q, on) = on[q.card] /\ on[q.card] \in SUBSET Board
    BY <1>4, <1>5 DEF Deciding, Full, IInv, TypedStore
  <2>2. Weighs(q, ladder, on[q.card])
    BY <1>2, <1>4, <1>6, <2>1 DEF Round, Weighed
  <2>3. QED
    BY <1>2, <1>3, <1>4, <2>1, <2>2, OnceReadWeighs DEF Round
<1>7. QED
  BY <1>2, <1>5, <1>6 DEF Round

\* What an undisturbed request read of its item is what the item is.
LEMMA ReadIsSo ==
  ASSUME Full, NEW r \in Open, Undisturbed(r),
         req[r].match = 0 \/ (~Refused(req[r]) /\ req[r].match <= req[r].read.version)
  PROVE  req[r].read = item[req[r].card]
<1>1. r \in Request /\ IsOpen(req[r])
  BY DEF Open, IsOpen
<1>2. req[r] \in ReqRecord /\ item[req[r].card] \in Item /\ ReadsTruly(req[r], item)
  BY <1>1, Known DEF Full
<1>3. req[r].read.version \in Nat /\ req[r].match \in Nat /\ item[req[r].card].version \in Nat
  BY <1>2 DEF ReqRecord, Item
<1>4. req[r].read.version = item[req[r].card].version
  BY <1>2, <1>3 DEF Undisturbed, Refused, ReadsTruly
<1>5. QED
  BY <1>2, <1>4 DEF ReadsTruly

\* The write of a request that the rule decides.
LEMMA RuledWrite ==
  ASSUME Full, NEW r \in Open, Undisturbed(r), WriteItem(r), Ends(r), Decides(req[r])
  PROVE  item'[req[r].card].ceiling
           = RuledIn(ladder, item[req[r].card], Deciding(req[r], on), NewRank(req[r]))
<1> DEFINE q == req[r]
           it == item[q.card]
<1>1. r \in Request /\ IsOpen(q) /\ q.stage = "write"
  BY DEF Open, IsOpen, WriteItem
<1>2. /\ q \in ReqRecord /\ q.card \in Card /\ it \in Item /\ Concludes(q)
      /\ Weighed(q, ladder, on) /\ req \in [Request -> ReqRecord] /\ item \in [Card -> Item]
  BY <1>1, Known DEF Full, Weighing, IInv, TypedStore
<1>3. Weighs(q, ladder, Deciding(q, on))
  BY <1>1, <1>2 DEF Weighed, Undisturbed
<1>4. /\ q.match <= q.read.version
      /\ Named(q.given, q.read.ceiling) = RuledIn(ladder, q.read, Deciding(q, on), NewRank(q))
  BY <1>1, <1>3 DEF Weighs
<1>5. q.ask.ceiling = Keep
  BY <1>3 DEF Decides, Weighs
<1>6. ~Refused(q) /\ Put(q)
  <2>1. req'[r] = Finished(q, "failed") => ~Ends(r)
    BY DEF Ends, Finished, Closed
  <2>2. Refused(q) => req'[r] = Finished(q, "failed")
    BY <1>1, <1>2 DEF WriteItem, Becomes
  <2>3. QED
    BY <2>1, <2>2 DEF WriteItem
<1>7. q.read = it
  BY <1>4, <1>6, ReadIsSo
<1>8. item'[q.card] = Patched(it, q)
  BY <1>2, <1>6 DEF Put
<1>9. item'[q.card].ceiling = Named(q.given, it.ceiling)
  BY <1>5, <1>8 DEF Patched, Named
<1>10. QED
  BY <1>4, <1>7, <1>9

LEMMA PatchRuled ==
  ASSUME Full, [Next]_vars, NEW r \in Open, Undisturbed(r), Ends(r), req[r].op = "patch",
         req[r].ask.priority # Keep, req[r].ask.ceiling = Keep
  PROVE  item'[req[r].card].ceiling
           = RuledIn(ladder, item[req[r].card], on[req[r].card], req[r].ask.priority)
<1>1. r \in Request /\ IsOpen(req[r])
  BY DEF Open, IsOpen
<1>2. ~(ReadBoards(r) \/ ReadLadder(r))
  BY RoundEnds
<1>3. ~AttachRow(r)
  BY <1>1, Known DEF AttachRow, Concludes, Full
<1>4. WriteItem(r)
  BY <1>2, <1>3, WhoEnds
<1>5. /\ Decides(req[r]) /\ Deciding(req[r], on) = on[req[r].card]
      /\ NewRank(req[r]) = req[r].ask.priority
  BY DEF Decides, Deciding, NewRank
<1>6. QED
  BY <1>4, <1>5, RuledWrite

LEMMA AttachRuled ==
  ASSUME Full, [Next]_vars, NEW r \in Open, Undisturbed(r), Ends(r), req[r].op = "attach"
  PROVE  item'[req[r].card].ceiling
           = RuledIn(ladder, item[req[r].card], on'[req[r].card], item[req[r].card].priority)
<1> DEFINE q == req[r]
           it == item[q.card]
<1>1. r \in Request /\ IsOpen(q)
  BY DEF Open, IsOpen
<1>2. /\ q \in ReqRecord /\ q.card \in Card /\ it \in Item /\ Weighed(q, ladder, on)
      /\ req \in [Request -> ReqRecord]
  BY <1>1, Known DEF Full, Weighing, IInv
<1>3. q.match = 0
  BY <1>1, <1>2 DEF Weighed, Weighs, Undisturbed
<1>4. q.read = it
  BY <1>3, ReadIsSo
<1>5. CASE ReadBoards(r) \/ ReadLadder(r)
  <2>1. /\ UNCHANGED <<item, on>>
        /\ RuledIn(ladder, q.read, on[q.card], q.read.priority) = q.read.ceiling
    BY <1>5, RoundEnds DEF Undisturbed
  <2>2. QED
    BY <1>4, <2>1
<1>6. CASE WriteItem(r)
  <2>1. /\ Decides(q) /\ Deciding(q, on) = on[q.card]
        /\ NewRank(q) = it.priority
    BY <1>4 DEF Decides, Deciding, NewRank
  <2>2. on' = on
    BY <1>6 DEF WriteItem
  <2>3. QED
    BY <1>6, <2>1, <2>2, RuledWrite
<1>7. CASE AttachRow(r)
  <2>1. item' = item
    BY <1>7 DEF AttachRow
  <2>2. q.read.priority = Unranked \/ q.read.ceiling # None
    <3>1. [q EXCEPT !.stage = "boards"].stage = "boards"
      BY <1>2 DEF ReqRecord
    <3>2. QED
      BY <1>1, <1>7, <3>1 DEF AttachRow, Crossing, Ends
  <2>3. RuledIn(ladder, it, on'[q.card], it.priority) = it.ceiling
    BY <1>4, <2>2, LowestUnranked DEF RuledIn
  <2>4. QED
    BY <2>1, <2>3
<1>8. QED
  BY <1>5, <1>6, <1>7, WhoEnds

LEMMA CreateRuled ==
  ASSUME Full, [Next]_vars, NEW r \in Open, Undisturbed(r), req[r].op = "create",
         req[r].stage = "write", item'[req[r].card] # item[req[r].card], req[r].ask.ceiling = Keep
  PROVE  item'[req[r].card].ceiling
           = LowestIn(ladder, {req[r].board}, item'[req[r].card].priority)
<1> DEFINE q == req[r]
           c == q.card
<1>1. r \in Request /\ IsOpen(q)
  BY DEF Open, IsOpen
<1>2. /\ q \in ReqRecord /\ c \in Card /\ item[c] \in Item /\ Concludes(q)
      /\ Weighed(q, ladder, on) /\ item \in [Card -> Item]
  BY <1>1, Known DEF Full, Weighing, IInv, TypedStore
<1>3. Weighs(q, ladder, {q.board})
  BY <1>1, <1>2 DEF Weighed, Undisturbed, Deciding
<1>4. q.read = NoItem /\ (Decides(q) \/ q.given = Keep)
  BY <1>3 DEF Weighs
<1>5. item[c] = NoItem
  BY <1>2, <1>4, ReadIsSo DEF Concludes
<1>6. item[c].version = 0 /\ item[c].ceiling = None /\ item[c].priority = Unranked
  BY <1>5 DEF NoItem
<1>7. CASE \E s \in Request : WriteItem(s) /\ ~Refused(req[s]) /\ Put(req[s])
  <2>1. PICK s \in Request : WriteItem(s) /\ Put(req[s])
    BY <1>7
  <2>2. req[s].card = c
    BY <1>2, <2>1 DEF Put
  <2>3. item[req[s].card].version # 0
    BY <2>1 DEF Full, Weighing, Stands, IsOpen, WriteItem
  <2>4. QED
    BY <1>6, <2>2, <2>3
<1>8. CASE \E s \in Request : EditInNoteboard(s)
  <2>1. PICK k \in Card : Exists(k) /\ \E ask \in Ask[k] : Put([card |-> k, ask |-> ask, given |-> Keep])
    BY <1>8 DEF EditInNoteboard
  <2>2. k = c
    BY <1>2, <2>1 DEF Put
  <2>3. QED
    BY <1>6, <2>1, <2>2 DEF Exists
<1>9. CASE \E s \in Request : CreateItem(s)
  <2>1. PICK s \in Request : CreateItem(s)
    BY <1>9
  <2>2. req[s].card = c
    BY <1>2, <2>1 DEF CreateItem, Put
  <2>3. Making(req[s]) /\ Making(q)
    BY <1>1, <2>1 DEF CreateItem, Making, IsOpen
  <2>4. s = r
    BY <1>1, <2>2, <2>3 DEF Full, Weighing, Apart
  <2>5. item'[c] = Patched(item[c], q)
    BY <1>2, <2>1, <2>4 DEF CreateItem, Put
  <2>6. /\ item'[c].ceiling = Named(q.given, None)
        /\ item'[c].priority = Named(q.ask.priority, Unranked)
    BY <1>6, <2>5 DEF Patched, Named
  <2>7. CASE Decides(q)
    <3>1. Named(q.given, None) = RuledIn(ladder, NoItem, {q.board}, q.ask.priority)
      BY <1>3, <1>4, <2>7 DEF Weighs, NewRank, NoItem
    <3>2. RuledIn(ladder, NoItem, {q.board}, q.ask.priority) = LowestIn(ladder, {q.board}, q.ask.priority)
      BY DEF RuledIn, NoItem
    <3>3. Named(q.ask.priority, Unranked) = q.ask.priority
      BY <2>7 DEF Decides, Named
    <3>4. QED
      BY <2>6, <3>1, <3>2, <3>3
  <2>8. CASE ~Decides(q)
    <3>1. q.ask.priority = Keep /\ q.given = Keep
      BY <1>4, <2>8 DEF Decides
    <3>2. QED
      BY <2>6, <3>1, LowestUnranked DEF Named
  <2>9. QED
    BY <2>7, <2>8
<1>10. ~UNCHANGED <<item, byHand>> /\ IInv
  BY DEF Full
<1>11. QED
  BY <1>7, <1>8, <1>9, <1>10, WhoWrites

\* A card takes the lowest default any of its boards gives its priority, when it is
\* created, when it arrives without a ceiling, and when its priority changes and its
\* ceiling is none or the default of the rung it leaves: read call by call, that is what
\* is written wherever nothing it was read from changed.
THEOREM RuleFollowed == Spec => CeilingsFollowTheRule
<1> DEFINE P == \A r \in Open :
       LET q == req[r]
           c == q.card
           p == q.ask.priority
       IN Undisturbed(r) =>
            /\ q.op = "patch" /\ p # Keep /\ q.ask.ceiling = Keep /\ Ends(r) =>
                 item'[c].ceiling = RuledCeiling(item[c], on[c], p)
            /\ q.op = "attach" /\ Ends(r) =>
                 item'[c].ceiling = RuledCeiling(item[c], on'[c], item[c].priority)
            /\ q.op = "create" /\ q.stage = "write" /\ item'[c] # item[c] /\ q.ask.ceiling = Keep =>
                 item'[c].ceiling = LowestOffer({q.board}, item'[c].priority)
<1>1. ASSUME Full, [Next]_vars PROVE P
  BY <1>1, LowestSame, PatchRuled, AttachRuled, CreateRuled
<1>2. Full /\ [Next]_vars => [P]_vars
  BY <1>1
<1>3. QED
  BY <1>2, AlwaysFull, PTL DEF Spec, CeilingsFollowTheRule
=============================================================================
