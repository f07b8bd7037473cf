# kanban-store in TLA+

kanban-store keeps boards, columns, the placement of cards in them, an append-only log of what
happened to each card, who is on it, and what follows from all of that: budget clocks, messages,
classification, files. The cards themselves are items of another service, noteboard. This directory
models the parts where its statements can meet in an order nobody wrote down, checks the models with
TLC, and proves the most important results with TLAPS for every size of instance. The reference is
the code; where a document says something else, the last section but one says so.

Lines are given as `file:line` below `src/internal/` unless they begin with another directory.

1. [The system](#the-system) — its parts, their state, and what is hard about them
2. [How the code runs](#how-the-code-runs) — what a step of a model is
3. [The modules](#the-modules) — which models what, and how
4. [The runs](#the-runs) — what each checks, its bounds, its fairness
5. [The proofs](#the-proofs)
6. [Where code and documents differ](#where-code-and-documents-differ)
7. [What is not modelled, and the plan](#what-is-not-modelled-and-the-plan)

## The system

One Go process answers HTTP requests over one SQLite database in WAL mode. Handlers
(`api/`) call the store (`db/`) and, in the middle of their work, other services: noteboard
(the items that cards are), file-store (bytes of files), principal-store (people), multichat (messages),
grant-store (who may open which board), llm-bridge (agents and the vocabulary of classification).

| Component | State | Operations | Interacts with | What is hard |
|---|---|---|---|---|
| **Card placement** (`api/api.go`, `db/db.go`) | `placements`: a card's column on each board; the item's status in noteboard | create, attach, move, detach, hard delete | noteboard before and after the row; the log; arrival defaults | the WIP count and the write are two statements; a creation spans two services and any call may fail |
| **Card log and budget clock** (`api/activity.go`, `db/activity.go`) | `card_events`, append-only; no clock is stored: it is the state of the last event | every handler records one; callers report their own | columns' `budget_clock_state`; every other component appends | each handler derives its event's clock state from events it read earlier, and some of its reads drop their errors; one card is on many boards |
| **Assignments, arrival defaults** (`api/assignments.go`, `api/board_settings.go`, `db/assignment_version.go`) | `card_assignments` | PUT with or without `If-Match`, DELETE, the default of a board, rule or pool on arrival | the log; principal-store | look-then-assign; automatic owners racing; a row whose event failed, and repeats |
| **Board settings** (`db/db.go`) | the row of `boards` and its `updated_at` | PATCH with or without `If-Match`, DELETE | every component reads them | read, merge, write back; a wall clock as a version |
| **Message triggers and deliveries** (`messaging/`, `db/messaging.go`) | `message_triggers`, `message_deliveries`; a goroutine per event | CRUD of triggers; dispatch | every recorded event; multichat | moves, edits, deletions, failures, lost answers and stops beside the dispatch; nothing is taken up again |
| **Time entries** (`api/time_entries.go`) | `time_logged` events, each may supersede one | log, correct, withdraw | the log; both timelines and summaries read it | corrections of one entry at once; a card's and a board's view of one history |
| **Time accounting** (`timeaccounting/`) | none: a walk over one timeline | `Compute`, `BusinessSecondsBetween` | the log, business hours, the priority ladder | late and early events, ties, stops in the middle, short days |
| **Attachments and purge** (`api/attachments.go`, `filestore/`) | `card_attachments`, files in file-store, texts of decisions, the item | upload, remove, purge | file-store, noteboard, classification, the log | one thing in two services; failures, lost answers, stops, a purge beside anything |
| **Classification** (`db/classification.go`) | taxonomies, policies, decisions, reviews, labels, identifiers, all but labels append-only | save or clear a taxonomy, save a policy, publish, review, read labels | placements; llm-bridge's rules | two documents that constrain each other under two `If-Match`es; decisions that outlive their revisions; reviewers racing |
| **Columns** (`db/db.go`, `api/api.go`) | the rows of `columns` | create, edit, reorder, delete | placement, clock, lifecycle and work state read them; a board takes its columns with it, a column its placements | read-merge-write with no version; reorder row by row; a deletion between another request's look and write |
| **Priority ladder, spend ceilings** (`api/priority_default_spend_ceiling.go`) | ladder rows; `auto_hold_at_usd` of the item | replace the ladder; a default ceiling with a priority | noteboard, placements, every board's ladder | item, boards and each ladder are read one by one before the item is written |
| **Bulk commands** (`api/bulk_card_commands.go`) | none | a loop of single requests; tags are read and written back | every handler; noteboard's `If-Match` | a failure in the middle; somebody else's tags between read and write |
| **Principal access** (`api/principal_access.go`, `grantstore/`) | grants in grant-store | every request's check; the grant of a new board | grant-store, principal-store | a board is created before its grant; a card is on boards of different levels |
| **Work state** (`model/work_state_selection.go`) | none: a projection | read | columns, placements | which placement speaks for a card, whoever asks |
| **Tag rules** | a list by version | save, choose | arrival defaults | replaced by version |
| **Tickets** | one per card | save | lifecycle of columns | as board settings |

What makes the modelled ones correct:

* *Placement*: a column respects its limit as far as the check can see; no answered creation leaves an
  item nobody sees; the log replays to the placements; an item's status is that of its last arrival.
* *Log and clock*: the clock is what the last action that decides it meant, so an assignment moves none and an
  unclassified column invents no change; the log's last word on a hold is noteboard's.
* *Assignments*: one automatic owner at most, one event for each change of people that was not broken off, a default
  joins only somebody who came beside it.
* *Settings*: each save is one atomic step or is refused, and a version names one content.
* *Messages*: nothing is sent without a row, twice, or under the wrong column; `sent` is true; every
  match is answered.
* *Time*: an entry's history is a line, every board counts what the card counts, and the figures of the walk
  are the instants they stand for.
* *Files*: live bytes have a row, a removal is told once, and a purge destroys what was there.
* *Classification*: policy and taxonomy fit, labels are the reviews read in order, mean what they meant, and are
  never overwritten unseen.
* *Columns, boards*: a field that was saved stays unless edits overlapped, nothing outlives what it is in, a
  creation is whole or leaves nothing.
* *Items*: a default ceiling is the lowest one the boards give and never replaces one set by hand; tags of others
  survive a bulk command.
* *Access, work state*: both are what the boards of a card say, in whatever order they are read.

## How the code runs

A request is a goroutine; `main` never waits for any. Statements of the store outside a transaction are
atomic by themselves and nothing holds between two of them. So a handler is modelled as a *request* with
a stage, and **each statement of the database and each call of another service is one action**: what lies between
two calls is done with what the handler had read by then. Handlers that do run in one transaction
(`writeImmediately` in `db/classification.go`, `AssignPrincipalToCardIfVersion`) are one action.
Requests that have not begun are alike, so the next one to begin is the least of them (`NextToSend`);
no `SYMMETRY` is declared.

A call may fail: the handler then takes its error path, and what was written before stays. Where the code drops the
error and goes on, so does the model (`ClocksOnFailure`, the second position of `PlanColumn`). A call of another service may
also do its work and lose its answer, where the code would behave differently for it; one that is going to do its work does it
before its caller gives up. A stop of the process ends every open request where it stands; the database and the other
services keep what they had. The modules with a constant `Fallible` say which requests these things may happen to; the theorems hold
for any set of them.

## The modules

| Module | Models | Extends / instances | Proofs |
|---|---|---|---|
| `CardPlacement` | the requests that place cards | | `CardPlacementProofs` |
| `CardTimeline` | one card's log, its clock, its people | | `CardTimelineProofs` |
| `SettingsRegister` | what saving promises: an atomic register | | |
| `BoardSettings` | saves as the code makes them | implements `SettingsRegister` | `BoardsProofs` |
| `MessageDispatch` | triggers, edits, the goroutine of each event | | `MessageDispatchProofs` |
| `Classification` | taxonomies, policies, decisions, reviews, labels | | `ClassificationProofs` |
| `CardFiles` | one card's files, and its purge | | `CardFilesProofs` |
| `ItemEdits` | what is written on noteboard's items: ceilings and tags | | `ItemEditsProofs` |
| `Boards` | boards, grants, columns and rows of cards as they come and go | | `BoardsProofs` |
| `TimeAccounting` | the walk over a timeline, as operators | | |
| `TimeEntries` | time logged on one card, beside reported events | extends `TimeAccounting` | `TimeEntriesProofs` |
| `MC…` | the values each module is checked with | extend their module | |

Operators that begin with `Mut` are a definition as a plausible mistake would have written it. They are
not part of any specification: each property is also checked to fail when one of them stands in for the
definition it follows.

**CardPlacement.** `item` (noteboard's status, or absent), `place` (`placements`), `log` (the events of
placement) and `req`. A creation is `BeginCreate` → `CheckWip` → `CreateItem` → `AttachRow` →
`PatchStatus` → `Record`; a move reads the placement, checks the limit only when the column changes,
writes, re-reads (the row may be gone by then), records and only then patches the status, in the order
of `api.go:1083-1140`. Statements of the requests in `Fallible` may fail. `disturbed` is history: the cards two requests were
about at once; what is promised of a serial history is asked of the other cards only. `Abandon`, `PatchRefused` and `CreateAttachFails` are the error paths: a creation
whose row could not be written leaves its item, as the comment at `api.go:731` says it does.

**CardTimeline.** The same handlers seen from the log of one card: `place`, `people` (`card_assignments`, with who put
them there), noteboard's `held`, `log` and `tick`, the time stamps are taken from: stamps differ and grow, so a
clock that goes back is not in this module. An arrival is `WritePlacement` → `ReadClockForColumn` → `Stamp` → `Record` →
`ListPeople`, and if nobody is there `DateRow` → `FillBlank` → `CarryHistory` → `RecordPeople`, the last three also being how a PUT
or DELETE of an assignment ends. A hold, release or completion is `WriteItem` → `Stamp` → `Record`. `Stamp` and the insert are two steps, as
in `db/activity.go:147-164`, so events may be put in out of their order in time, and an assigned event is dated
with the row's `created_at`, which is taken before the row is written; the latest event is by date.

What the module is about is what `ClockForColumn` (`api/activity.go:47-55`) and the two halves of
`clockStateCarriedForward` (`:86-106`, `CarryHistory` and `CarryPlacement`) read, when, and with which errors. The second answers 500 when
a read fails; the first drops the error, so its reads may give `ClocksOnFailure`. `Abandon` is every other failure, a lost answer and a stop: a request
may end between any two of its steps, and what it wrote stays. That leaves a row with no event, and a repeated PUT that finds the
row (`InsertPerson`) records nothing; or a hold in noteboard with no event.

The histories: `sound`, of an event, says that its state was worked out from a read that succeeded and that nothing was inserted since;
`base`, `seen` and `misread` are how a request knows; `w`, of a row, and `holder` say which request wrote the row or the item's hold;
`crossed` is the pairs of requests about one thing that were open at once (two that hold or release, two that may put somebody on the
card). They say exactly which race or failure a property spares, so that everything else is asked for. `Claim` is the one
transaction of an `If-Match` PUT; its ETag is a digest of the rows, so `seen` is the rows.

**BoardSettings / SettingsRegister.** A save is `ReadBoard` and `WriteBoard`, the second under
`WHERE updated_at = ?`. `NextVersion` is `db.go:358-361`: the wall clock, or one more than the old version
when the clock is not later. `Now` is what the clock may answer at any save, in any order. `SettingsRegister` is the promise: each save changes,
in one step, exactly what it names. Under the mapping `value <- row` every `WriteBoard` is an `Accept` and
every other step a refusal or a stutter.

**MessageDispatch.** `trigger`, `delivery`, `event` are the tables, `dispatch` the goroutine
of each event, `received` what multichat has accepted. A move is written (`WriteMove`) and recorded by a later step
(`RecordMoved`, or `FailToRecord`); `move` is where the request put the card, whatever other requests do to it in
between (`Relocate`). `DispatchStep` follows `FireTriggersFor`: boards, candidates, context, claim, send, outcome. The context is loaded once per board before its first
candidate; the placement is read then, long after the event. `Claim` is `INSERT OR IGNORE` on
`(trigger_id, event_id)`. The failure of any statement is an action or a disjunct, and `cutShort`
remembers that a goroutine left something out.

**Classification.** Numbers stand for identifiers, in the order they were handed out; an axis is
what a taxonomy says of it and of its values. `taxonomies`, `policies`, `decisions`, `reviews` are
the append-only tables, so a revision is an index. Every write is one transaction under `BEGIN
IMMEDIATE`; reading a card's labels is two statements (`CardLabels`, `db/classification.go:1099-1123`) and is two steps. `Mode`, `Axis`,
`Fits`, `Chosen` and the like are llm-bridge's rules, as this code calls them; that package is not here,
so they are marked external.

**CardFiles.** For one card: `held` (file-store's copy of each file), `rows` (`card_attachments`),
`sources` (texts of decisions), `item` and `placed`, with any number of uploads, removals and purges,
each of them a chain of calls. A file-store call may do its work and lose the answer. `had` is history: what
the card had when that purge began.

**ItemEdits.** `item` (priority, ceiling, tags and the `updated_at` of each), `on` (the card's boards), `ladder`
and `req`. A PATCH of a priority is `ReadItem` → `ReadBoards` → `ReadLadder` for each board → again for the
priority the card is leaving, if it has a ceiling → `WriteItem`; an attachment reads the item *before* the
row and decides after it, a creation reads the ladder of its one board. A bulk command is a list of cards, each `ReadTags` →
`WriteItem` with `If-Match`, and goes on after a refusal. `Patched` and `Refused` are noteboard's side, external: an item's
version moves with every write and a PATCH with a stale `If-Match` is 412. `byHand` is history: whether
somebody named the ceiling the item has.

**Boards.** `board`, `column`, `place` are the rows, with the foreign keys' cascades (`Drop`); `grant` is
grant-store. Every request but the service token's goes through `Gate` (the grants as they are then) and `Rule`
(`authorizeRequest` on the boards as they are after that). A creation is `CreateBoard` → `GrantBoardAdministration` → `UndoCreate` if the
grant failed or its answer was lost. An edit of a column is `ReadColumn` → `WriteColumn`, and so is each element of a reorder. A column that is created goes
to the end, or, when the query for the end fails unnoticed (`db/db.go:431`), to position 0.
`LevelOnCard` and `Shared` fold over the boards of a card in any order, as the code does over rows that no query sorts.
`creation`, `saved`, `turn` and `tangled` are history: what the creator was told, the last value
saved in each field and whether an edit held an older copy of it (`Holding`), the boards a card was put on one after the
other, and which cards two requests were placing at once. A `Start` is a store in which the foreign keys hold and no row
has moved at an instant to come (`Consistent`): what the schema and the clock leave of earlier requests.

**TimeAccounting, TimeEntries.** An event's id is its place in the log. A timeline is a set of
places: a board's own events and the card-wide ones. `Compute` adds up segments as the walk does; a calendar is
the instant at which each date begins, so that a day may be short or long, and business time walks the working dates
from the one on which a stretch begins. `createTimeEntry` is
`BeginEntry` (validation and the look-up of the entry it replaces, which never changes once written),
`CarryForward` and `RecordEntry`; `Taken` is the unique index. Callers' events have any `occurred_at`,
since nothing checks it.

## The runs

`tlc -config <cfg> <module>` in this directory. A bound is a constant of the module or an MC
module's definition; each is as small as lets the case it is for happen.

| Run | Asks | Instance |
|---|---|---|
| `placement` | how far can a limit be passed, may an answered creation leave an item on no board; and, on cards whose requests came one after another, does the log replay to the placements, is the status that of the last arrival | 3 cards, 2 boards, 3 columns, one limit of 1, 4 requests, 2 in flight, one of which may fail: a column with room for one gets two, a card leaves a board and comes back |
| `timeline` | is the clock what the last action meant, does an assignment leave it alone, is a hold told; do automatic owners, people and arrivals at once leave one owner and a log that counts; whom may a default join | 1 board, a column of no clock state and one of "paused", 2 principals, 3 requests of every kind, 2 in flight, the second to be sent of which may fail anywhere, so that there is something before it and after it: an arrival overtaken by a hold, an event put in late, a hold that is never recorded and the one after it, two claims, a row with no event and the PUT that repeats it, a default beside somebody put on the card |
| `settings_saves` | is each save one atomic step or refused | 3 saves, 3 fields, a deletion, a clock answering 1, 2 or 3 in any order: the smallest in which a version could be used twice |
| `messages` | nothing sent unrecorded, twice or under a wrong column; every match answered | 2 boards, 2 triggers, 1 event, 1 editor, 1 stop, multichat configured or not |
| `classification` | do the documents fit, and do labels and pages mean what they say | 1 card, 1 operation, 1 decision, 2 reviews, 4 documents a taxonomy may be and 4 policies; at most 3 taxonomies, 2 policies and 7 identifiers |
| `card_files` | which bytes may lie about, how often is a removal told, what does a purge leave | 1 file, 2 removals, 2 purges, 1 decision: each pair of them that can meet |
| `time_entries` | which entries count where, and are the walk's sums the instants of each state | 2 boards, 3 requests, 3 events of which 2 reported, instants 0 to 3, a calendar with one short day |
| `item_edits` | which ceiling is written, and do ceilings set by hand and tags of others survive | 2 items, 2 boards, ladders that differ, 3 requests, 2 open, any call failing: a ladder changed between its two readings, a ceiling set between read and write |
| `boards` | what does a failed creation leave and a deletion take; which saved field may be lost; who may do what on a card and which board speaks for it | 2 boards, 2 columns, 1 card, 1 principal, 3 requests, 2 open, one of which may fail, 2 instants |
| `timeline_two_boards` | *fails*: does an assignment move no clock | 2 boards, 3 columns, defaults, no default and an empty pool, 3 requests, one at a time and none failing |
| `messages_off_switch` | *fails*: does a trigger switched off stay off | 1 trigger, 2 editors |
| `time_after_stop` | *fails*: does elapsed time end where the card was stopped | as `time_entries`, with 1 reported event |

Some properties are about histories without overlap (`LogReplaysPlacement`, `StatusFollowsArrivals`, the second half of
`SharedStateIsTheLastMove`); the runs have overlapping requests too, and a history variable says which cards are spared. Those of
`CardTimeline` are asked of every history and spare only the event whose own state was overtaken or misread, or the two requests
that were open together.
What overlap does to them is under "Where code and documents differ".

**Bounds.** Where a property could need a longer run than these, it is either also proved for every size
(next section), or it relates at most as many actors as the instance has: a race of two
writers, a reader between two writes, a step of a request between two of another. What stays
beyond them is said with each result. Every arrival of `timeline` has a default: that an empty pool records a skip, which writes
no row, is in `timeline_two_boards` and in the theorems.

**Fairness.** Only `MessageDispatch` has a liveness property, and only its `FairSpec` has fairness: weak
fairness of each event's goroutine. The code justifies it: nothing in the goroutine waits on another, each
statement returns (the database has a busy timeout) and a send ends with `sendTimeout`
(`messaging/dispatcher.go`). Nothing is assumed of clients or stops: a stop ends the goroutine for good,
and `MatchesAreAnswered` says so by exempting what a stop or a failing statement cut short.

**Deadlock.** It is checked everywhere but in `messages`, `messages_off_switch`, `time_entries` and
`time_after_stop`, where the system stops when its bounded inputs are used up. Elsewhere a step that
stands for a quiet system (`Idle`, a refused request, a stop of the process) keeps it from
being mistaken for one.

## The proofs

Each `…Proofs` module extends its component's and is checked with `tlapm <module>.tla`. All assumptions on
constants are the named ones in the component's module (sets that do not overlap with markers such as
`NoColumn`, limits and bounds that are naturals), and TLC evaluates them in the runs. An invariant is
proved from a stronger, inductive one: *Init* implies it, each action keeps it, it implies the property.

| Module | Theorems | Argument |
|---|---|---|
| `CardPlacementProofs` | `TypeCorrect`, `ClaimsBounded`, `OvershootBounded`, `SerialLimitRespected`, `NoOrphans`, `LogReplays`, `StatusFollows` | That a column holds at most its limit plus the other open requests is not inductive: a request past the check has not written yet. `WipClaimsBounded` counts the cards *in* a column and those *entering* it together. Passing the check adds one to a count whose cards were below the limit and whose entering are at most the other open requests; writing moves one from the second set to the first. With one request in flight the bound is the limit. `ItemInv`: an item that is on no board is between two statements of a creation or a removal, or one of these failed there. `TaleInv`: for a card that nothing disturbed, the log, the rows and the item's status differ by exactly what the stage of its one open request has written and not yet told; a move told is the last one told of its board, so reading the log from its end finds the placement without unfolding any replay |
| `CardTimelineProofs` | `OneOwner`, `TypeCorrect`, `DefaultFills`, `HoldTell`, `ClockFollows`, `AssigningLeavesTheClock`, `PeopleCounted` | Every step has one of six shapes (`Shape`: a request is sent or goes on, writes the hold, puts somebody on, takes somebody off, records, or breaks off), and each invariant is kept by each shape. `ClaimsSawNobody`, `OwnersAgree`: a claim whose snapshot is still the rows has seen nobody on the card, and its one statement compares and writes. `Pairs`, `Fills`: two requests about one thing that are open together are in `crossed`, so whoever is there when a default is about to be written came by a request that was. `HoldsFollowed`: the request that wrote the hold last is about to record it, later than every hold in the log, or has, or broke off. `ReadsHold`, `Follows`: a state read from the log as it still is agrees with it, so adding the event changes no clock it does not decide; adding one that was put in late changes none that is already later. `Balance`: rows and events are counted against each other with the requests that owe one, so a failure moves a request from one side of *owing* to the other and changes no number. `ClockFollows` and `AssigningLeavesTheClock` suppose `OneBoard`: on two boards both fail, as `timeline_two_boards` shows of the second |
| `BoardsProofs`, of `BoardSettings` | `SettingsTypeCorrect`, `HonestVersion`, `ConditionalSaves`, `Implements` | Versions only grow, because `NextVersion` takes the old one plus one when the clock does not move. So equal versions are one row, and an update that finds its version writes over what it read. Hence each save maps to one step of `SettingsRegister` |
| `BoardsProofs`, of `Boards` | `BoardsTypeCorrect`, `CreationsAreWhole`, `NothingOutlives`, `SavedFieldsKept`, `LastMoveIsShared`, `CardLevels` | `BoardsInv`, by what a request can know at each of its statements. *Creations*: until its creator is answered a board has one creating request, and nobody has been told anything of it (`Creators`); once it is gone it stays gone, so who is told "not created" after the undo is told so for good. *Nothing outlives*: a column never changes its board and its id is not used twice, so a column that is still there when a request writes is on the board the request found it on (`Known`). *Fields*: whoever writes a field back either read what is saved of it or was holding the row at the save, which marked the field (`Fresh`). *Last move*: on a card that no two requests placed at once, the one about to write has an instant no row is later than; so of two rows the one put later did not move earlier, and the last turn whose row is there has the latest instant (`Turns`). *Folds*: see below |
| `MessageDispatchProofs` | `TypeCorrect`, `EverySendRecorded`, `AtMostOnce`, `MovesAreNamed` | A goroutine that is sending holds a row that is its own and still `pending`, which no other dispatch can have, since rows are inserted once for a trigger and event; what was received belongs to a row no longer to be sent, or whose trigger is gone. `ColumnInv`: a move's event says what its request wrote, and a row of it names that column or none could be read, in which case it is not sent; `ChoiceInv`: whatever a goroutine is about to send for, and every row, is of a trigger on that board that matched. A deleted trigger never gets a row again |
| `ClassificationProofs` | `PolicyFits`, `LabelsAreReviews`, `CorrectionsSeen`, `PagesTrusted`, `ReviewsAllowed`, `LabelsKeepTheirMeaning`, `TypeCorrect` | `PolicyInv`: each save checks its document against the other one in the transaction that writes it. `LabelInv`: labels and reviews change in one transaction, and a revision of the labels is the number of the last review. A page reads the revision before the labels, so its revision is never later than what it shows. `RulesInv`: identifiers are handed out once, belong to one axis for good and are in every later taxonomy until it is cleared; revisions are only appended; so what a review was checked against under its own revisions never changes |
| `CardFilesProofs` | `TypeCorrect`, `LiveFilesReachable`, `RemovalToldOnce`, `PurgeComplete` | `FilesInv` relates each request's place in its chain to what is already gone: past the deletion of bytes they are not live, past the row it is not there, and only the request that deleted the row goes on to tell |
| `TimeEntriesProofs` | `TypeCorrect`, `LinesOfCorrections`, `BoardsAgree`, `ClockReads`, `BusinessTime` | `EntriesInv`: what an entry replaces is an earlier entry of the same board, and at most one entry replaces it. So replacing is a one-to-one map, and the entries that count are in number those that replace nothing. The figures: an instant belongs to the event that was the last one by then, so segments do not meet and together are what the timeline lived through (`InstantsOf`, `SegmentsCover`); and a running total of the sizes of sets that do not meet is the size of their union (`TotalsKnown`), or else the smallest set it gets wrong would have a smaller one. `BusinessTime` supposes `HoursFitTheirDays` |
| `ItemEditsProofs` | `TypeCorrect`, `BulkTagsKept`, `HandSetKept`, `RuleFollowed` | Every write moves the version of its item, so a request that finds the version it read has read the item there is (`ReadsTruly`). A default is given only to an item whose ceiling, as read, was none or a rung's default (`Concludes`), and a bulk command's list of tags is made of what it read and sent against that version (`Retags`): so what was set in between is either refused or overwritten by a request that named no version. `Weighing`: while nothing crossed, what is lowest so far is `LowestOffer` of the boards already read, so after the last of them it is what the rule says |

Three theorems have a hypothesis beside the specification. `OneBoard`, of two of them, is the one under which the property is
checked. `HoursFitTheirDays` says that on each working date the hours are over when the next date begins. A board may
set hours up to 23:59 (`model/activity.go:462-508`), so it fails only on a day of 23 hours whose hours go on past 23:00: what then
lies beyond midnight is counted of a stretch that began the day before and not of one that begins on it, since the walk
starts at the date of `from` (`Walked`). The calendar of `time_entries` satisfies it.

Every invariant that a run checks is a theorem, for every value of the constants, and so is every action property and the
refinement. Type invariants are checked by the runs of `CardTimeline` and `Classification` and proved of every module with
theorems. `BoardsProofs` extends `Boards` and `BoardSettings` together, which is why no name is declared in both.

Sums, folds and replays over sets and logs are not proved by induction over data, which the prover cannot instantiate:
`PeopleCounted` adds one at a time as the log grows, `LogReplays` looks for the last event that counts, and the figures of
time go through sizes of sets, as above. The two folds of `Boards` are treated alike: the function the fold chooses is known to exist, because
what it should give is defined outright (`LevelAt`, `BestAt`) and satisfies the fold's equation; and whatever satisfies the
equation gives that, or else the smallest set of positions on which it does not would leave a smaller one without its last
position (`PositionsOneByOne`). `LevelAt` and `BestAt` do not mention the order of the positions, so neither does the result.
That the better of two rows is always the same one of them (`BetterOrders`) rests on ids being compared and never equal.

`BoardsInv` was checked as an invariant of the instance of `boards` before it was proved. What the proof asks of the constants beyond
kinds is `Consistent`, and that the boards are finitely many numbers.

Left to TLC: liveness (`MatchesAreAnswered`), which is out of the prover's reach, and the three properties that are false.

## Where code and documents differ

Three runs end in a counterexample, each to a sentence the repository writes about itself.

* **An assignment moves the clock of a card on two boards** (`timeline_two_boards`). `src/README.md:455-461`
  and `api/assignments.go:98-99` say it moves none. `clockStateCarriedForward` (`api/activity.go:86`) takes
  the last event of *any* board, and the event is card-wide: on a card paused on one board and running on the
  other, it copies one clock onto the other. One request at a time is enough.
* **A trigger switched off comes back** (`messages_off_switch`). `src/README.md:876` calls
  `{"enabled": false}` the off switch. `UpdateMessageTrigger` (`db/messaging.go:127`) writes every column from
  a copy read earlier, so an edit of the template that began before it switches the trigger on again.
* **Time recorded after a stop is elapsed time** (`time_after_stop`). `model/timesummary.go:50-51` ends elapsed
  time at the action that stopped the card. `Compute` asks only the *last* event whether it stopped
  (`timeaccounting/timeaccounting.go:99-107`), so an assignment or a note on a finished card adds everything
  since, to elapsed and to neither of its parts.

What follows was met while modelling and is a behaviour of the models too.

*The clock.* The comment of `clockStateForColumn` (`api/activity.go:44-45`) says that moving an unclassified card between
unclassified columns must not invent a change. Its two reads drop their errors (`:48`, `:51`): when the column or the log
cannot be read, a move of a paused card is recorded as running and answered 200. `ReadClockForColumn` has these answers, and such an
event is one whose `sound` is false: `ClockFollowsTheActions` takes it for a change, and holds of everything after it that decides again.

*Placement and log.* `src/README.md:181-183` answers a full column with 409. The count and the write are two
statements (`api/api.go:774-781`), so two requests can fill one place: `placement` shows by exactly how much, and
`SerialLimitRespected` that one at a time never do. Events of two requests may be recorded in the
other order than their writes, so the log replays only a serial history. A clock state read before another event was
recorded is carried past it, and an event stamped before another may be put in after it. "Only the 201 path is an action on the card, so only it lands on the
timeline" (`api/assignments.go:59-61`), but when the event of a row cannot be recorded the answer is 500, and the PUT that is
repeated finds the row, answers 200 and records nothing either: the assignment is never told of, as a removal is
whose event failed (`:118-134`). `LogCountsPeople` says that these are the only ones missing. In the same way a hold stays in noteboard with no
event when the insert fails or noteboard's answer is lost (`api/api.go:884-903`), and the clock runs on, until the next hold or release is carried
through. A default may join a person put on the card between its look and its write
(`api/board_settings.go:300`). The ETag of assignments is a digest of content: a set that was changed and
changed back is the same version.

*Ceilings.* "A ceiling someone set by hand to any other number is left alone"
(`api/priority_default_spend_ceiling.go:20-21`), but a request without `If-Match` decides on the item it read: one set between
that and the write is replaced by the default, on a PATCH and on an attachment, which never sends `If-Match` (`:145`).
`HandSetSurvives` says that this is the only way. A ladder or a placement that changes between two of the readings gives a mixture of both.

*Boards and columns.* "A failed grant undoes the board rather than leaving it orphaned" (`api/api.go:220-222`) holds of a grant that
failed and of one whose answer was lost, which then stays in grant-store for a board that is gone; it does not hold of a
process that stops before the grant, or of an undo that fails. Two edits of a column that overlap lose one (`db/db.go:530-574`). A reorder
names columns of any board, since `reorderColumns` does not compare them with the path's (`api/api.go:454`), though only the path's board is
asked of the caller. An edit of a column that was deleted after it was read is answered 200, since no row count is looked at (`db/db.go:570`).
The move that decides a card's work state is the latest by the clock (`model/work_state_selection.go:22-24`), which is the last one only
if the clock does not go back and the moves did not overlap.

*Messages.* A delivery row stays `pending` when the outcome cannot be written, while the
process runs as well as over a restart (`messaging/dispatcher.go:247`; `src/README.md:903-904` names the restart). For an
event that is not a move, the column of the message is that of rendering time.

*Classification.* Changing a taxonomy "policy first" (`src/README.md:818`) cannot always begin: a policy
may not rule on an axis the taxonomy lacks, and a cleared taxonomy has none (`db/classification.go:561`, `:710`);
sending the old axes archived is the way out. An archived entry may be brought back, and a decision
may be published under old revisions (`src/README.md:800`), or under a taxonomy and a policy that were never
in force together. `CardLabels` reads revision and labels in two statements, though
`classification_page.go:10-11` says such reads must not be; reading the revision first is what makes it
safe, and `AcceptedMeansSeen` is that argument.

*Files.* An upload or a publication that overlaps a purge can leave a file, a row or a text on a purged card
(`api/api.go:995-1011`; `src/README.md:329-334`, `:831-832`). The error of detaching the card everywhere is
ignored (`api.go:1011`), and a retry is answered 404 by noteboard before it gets there, so its placements
may stay (`src/README.md:214`). The event of a file's removal may be recorded before that of its arrival. An
upload whose answer is lost leaves bytes with no row.

*Time.* Business hours are counted from midnight as a duration (`timeaccounting.go:212-215`), so on a
working day on which clocks change they lie an hour beside the wall clock (`src/README.md:694-696`). A time
entry carries the state of the last event when it is recorded, so an event dated earlier but recorded later, or of another
board, can make an entry move the clock (`src/README.md:378` says it moves none). `occurred_at` may be in the
future.

## What is not modelled, and the plan

| Part | Why not, and what is next |
|---|---|
| Tag rules, tickets | next: rules are saved by version like board settings and a ticket in one statement; the rule chosen and a ticket's states are operators on sets |
| Rest of principal access | the routes of links, notes, triggers and searches, which ask the same two questions; administrators; disabled principals |
| Rest of bulk commands | their moves, assignments and holds are the single requests that are modelled; only the loop over them is not |
| Creation of a column at a position, its other fields | one more field of the same row |
| Positions in a column, pinning, card fields | order and wording within a card; nothing decides by them |
| Other clients, configuration, pages, search, links, tags, notes | they read, or write single rows that nothing reads to decide |
| Who may do what, names, limits of lengths | one refusal that may happen to any request |

Every property the runs hold of the modules above is proved, but for liveness; what comes next are models of the parts in
this table, tag rules first.
