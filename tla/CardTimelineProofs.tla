------------------------- MODULE CardTimelineProofs -------------------------
(***************************************************************************)
(* Proofs about CardTimeline, for any number of clients, principals,       *)
(* boards and columns, and any of the requests failing half way.           *)
(*                                                                         *)
(* Every step is of one of six shapes (Shape): a request is sent, moves on *)
(* and leaves people, hold and log alone, writes the item's hold, puts     *)
(* somebody on the card, takes somebody off it, or records an event.  The  *)
(* types (Typed) come with the shapes, and each invariant is kept by each: *)
(*                                                                         *)
(* ReadsHold: a state worked out from the log as it is agrees with it.     *)
(* Pairs: requests about one thing that are open at once are in `crossed`. *)
(* OwnersAgree: a claim was sent by a client that found nobody on the      *)
(* card, and the comparison of the snapshot lets it in on a blank card.    *)
(* Fills: whoever is on the card when an arrival is about to put its       *)
(* default there came by a request that was open beside the arrival.       *)
(* HoldsFollowed: a hold written with no other open beside it is the last  *)
(* the timeline tells of, is about to be, or was broken off untold.        *)
(* Follows: on a card of one board, the clock is what the last event that  *)
(* decides it means, up to an event whose state is not the log's.          *)
(* Balance: the assignments told of and those owed are the people on the   *)
(* card and those taken off it, requests crossing and failing or not.      *)
(***************************************************************************)
EXTENDS CardTimeline, TLAPS, FiniteSetTheorems, WellFoundedInduction

-----------------------------------------------------------------------------
(* The latest event of a timeline *)

\* These definitions read a log l that is given, the one before a step or the one after.
LatestIn(l, S) ==
  CHOOSE i \in S : \A j \in S : l[j].at < l[i].at \/ (l[j].at = l[i].at /\ j <= i)

HistoryIn(l, b) == {i \in DOMAIN l : l[i].board \in {b, CardWide}}
HoldingIn(l) == {i \in DOMAIN l : l[i].kind \in {"card_held", "card_unheld"}}

\* Every event of l occurred by time t.
Timed(l, t) == l \in Seq(Event) /\ t \in Nat /\ \A i \in DOMAIN l : l[i].at \in 1..t

\* A set of natural numbers has a smallest member: it is where a least counterexample is.
LEMMA Smallest ==
  ASSUME NEW S \in SUBSET Nat, S # {}
  PROVE  \E m \in S : \A n \in S : m <= n
<1> DEFINE less == {p \in Nat \X Nat : p[1] < p[2]}
<1>1. IsWellFoundedOn(less, Nat)
  BY NatLessThanWellFounded DEF OpToRel
<1>2. PICK m \in S : \A n \in S : <<n, m>> \notin less
  BY <1>1, WFMin
<1>3. ASSUME NEW n \in S PROVE m <= n
  <2>1. n \in Nat /\ m \in Nat /\ <<n, m>> \in Nat \X Nat
    OBVIOUS
  <2>2. <<n, m>>[1] = n /\ <<n, m>>[2] = m
    OBVIOUS
  <2>3. ~(n < m)
    BY <1>2, <2>1, <2>2, Zenon
  <2>4. QED
    BY <2>1, <2>3
<1>4. QED
  BY <1>3, Zenon

\* So has a bounded one a largest.
LEMMA Largest ==
  ASSUME NEW n \in Nat, NEW S \in SUBSET (1..n), S # {}
  PROVE  \E m \in S : \A i \in S : i <= m
<1> DEFINE T == {k \in Nat : \E i \in S : k = n - i}
<1>1. T \in SUBSET Nat /\ T # {}
  <2>1. PICK i \in S : TRUE
    OBVIOUS
  <2>2. n - i \in T
    OBVIOUS
  <2>3. QED
    BY <2>2
<1>2. PICK k \in T : \A j \in T : k <= j
  BY <1>1, Smallest
<1>3. PICK m \in S : k = n - m
  BY <1>2
<1>4. ASSUME NEW i \in S PROVE i <= m
  <2>1. n - i \in T
    OBVIOUS
  <2>2. n - m <= n - i
    BY <1>2, <1>3, <2>1
  <2>3. QED
    BY <2>2
<1>5. QED
  BY <1>4

\* What is later than all others is the latest.
LEMMA LatestIs ==
  ASSUME NEW l \in Seq(Event), NEW S \in SUBSET DOMAIN l, NEW i \in S,
         \A j \in S : l[j].at < l[i].at \/ (l[j].at = l[i].at /\ j <= i)
  PROVE  LatestIn(l, S) = i
<1> DEFINE Later(k) == \A j \in S : l[j].at < l[k].at \/ (l[j].at = l[k].at /\ j <= k)
<1>1. \A k \in S : k \in Nat /\ l[k].at \in Nat
  <2>1. \A k \in S : k \in Nat /\ l[k] \in Event
    OBVIOUS
  <2>2. QED
    BY <2>1 DEF Event
<1>2. ASSUME NEW k \in S, Later(k) PROVE k = i
  <2>1. l[i].at < l[k].at \/ (l[i].at = l[k].at /\ i <= k)
    BY <1>2
  <2>2. l[k].at < l[i].at \/ (l[k].at = l[i].at /\ k <= i)
    OBVIOUS
  <2>3. QED
    BY <1>1, <2>1, <2>2
<1>3. LatestIn(l, S) = CHOOSE k \in S : Later(k)
  BY DEF LatestIn
<1>4. Later(i)
  OBVIOUS
<1> HIDE DEF Later
<1>5. QED
  BY <1>2, <1>3, <1>4

LEMMA LatestKnown ==
  ASSUME NEW l, NEW t, Timed(l, t), NEW S \in SUBSET DOMAIN l, S # {}
  PROVE  /\ LatestIn(l, S) \in S
         /\ \A j \in S : \/ l[j].at < l[LatestIn(l, S)].at
                         \/ l[j].at = l[LatestIn(l, S)].at /\ j <= LatestIn(l, S)
<1> DEFINE times == {l[i].at : i \in S}
<1>1. t \in Nat /\ times \in SUBSET (1..t) /\ times # {} /\ l \in Seq(Event)
  BY DEF Timed
<1>2. PICK m \in times : \A x \in times : x <= m
  BY <1>1, Largest
<1> DEFINE last == {i \in S : l[i].at = m}
<1>3. last \in SUBSET (1..Len(l)) /\ last # {} /\ Len(l) \in Nat
  BY <1>1
<1>4. PICK i \in last : \A j \in last : j <= i
  BY <1>3, Largest
<1>5. ASSUME NEW j \in S PROVE l[j].at < l[i].at \/ (l[j].at = l[i].at /\ j <= i)
  <2>1. l[j].at <= m /\ l[i].at = m
    BY <1>2
  <2>2. l[j].at \in Nat /\ m \in Nat
    <3>1. \A k \in S : l[k].at \in Nat
      BY <1>1 DEF Timed
    <3>2. PICK k \in S : m = l[k].at
      BY <1>2
    <3>3. QED
      BY <3>1, <3>2
  <2>3. CASE l[j].at = m
    BY <1>4, <2>1, <2>3
  <2>4. CASE l[j].at # m
    BY <2>1, <2>2, <2>4
  <2>5. QED
    BY <2>3, <2>4
<1>6. i \in S
  OBVIOUS
<1> HIDE DEF last, times
<1>7. LatestIn(l, S) = i
  BY <1>1, <1>5, <1>6, LatestIs
<1>8. QED
  BY <1>5, <1>6, <1>7

\* The log with one event more.
LEMMA Appending ==
  ASSUME NEW l, NEW t, Timed(l, t), NEW e \in Event
  PROVE  /\ Append(l, e) \in Seq(Event) /\ DOMAIN Append(l, e) = 1..(Len(l) + 1)
         /\ Len(Append(l, e)) = Len(l) + 1 /\ DOMAIN l = 1..Len(l) /\ Len(l) \in Nat
         /\ Append(l, e)[Len(l) + 1] = e /\ \A i \in DOMAIN l : Append(l, e)[i] = l[i]
BY DEF Timed

\* Where the new event does not belong the latest one stays.
LEMMA LatestStays ==
  ASSUME NEW l, NEW t, Timed(l, t), NEW e \in Event, NEW S \in SUBSET DOMAIN l, S # {}
  PROVE  LatestIn(Append(l, e), S) = LatestIn(l, S)
<1> DEFINE m == Append(l, e)
           i == LatestIn(l, S)
<1>1. /\ m \in Seq(Event) /\ DOMAIN m = 1..(Len(l) + 1) /\ DOMAIN l = 1..Len(l) /\ Len(l) \in Nat
      /\ \A k \in DOMAIN l : m[k] = l[k]
  BY Appending
<1>2. i \in S /\ \A j \in S : l[j].at < l[i].at \/ (l[j].at = l[i].at /\ j <= i)
  BY LatestKnown
<1> HIDE DEF m, i
<1>3. \A j \in S : m[j].at < m[i].at \/ (m[j].at = m[i].at /\ j <= i)
  BY <1>1, <1>2
<1>4. S \in SUBSET DOMAIN m
  BY <1>1
<1>5. LatestIn(m, S) = i
  BY <1>1, <1>2, <1>3, <1>4, LatestIs
<1>6. QED
  BY <1>5 DEF m, i

\* Of the events of S and one that is recorded now, the new one is the latest if
\* none of S occurred after it, and else the latest of S is.
LEMMA LatestOfTwo ==
  ASSUME NEW l, NEW t, Timed(l, t), NEW e \in Event, NEW S \in SUBSET DOMAIN l
  PROVE  LET n == Len(l) + 1
             m == Append(l, e)
         IN /\ n \notin S /\ S \cup {n} \in SUBSET DOMAIN m
            /\ (\A i \in S : l[i].at <= e.at) => LatestIn(m, S \cup {n}) = n
            /\ S # {} /\ ~(\A i \in S : l[i].at <= e.at) =>
                 LatestIn(m, S \cup {n}) = LatestIn(l, S)
<1> DEFINE n == Len(l) + 1
           m == Append(l, e)
           k == LatestIn(l, S)
<1>1. /\ m \in Seq(Event) /\ DOMAIN m = 1..n /\ DOMAIN l = 1..Len(l) /\ n \in Nat
      /\ m[n] = e /\ \A i \in DOMAIN l : m[i] = l[i]
  BY Appending
<1>2. e.at \in Nat /\ \A i \in DOMAIN l : l[i].at \in Nat /\ i < n /\ i \in Nat
  BY <1>1 DEF Timed, Event
<1>3. n \notin S /\ S \cup {n} \in SUBSET DOMAIN m /\ n \in S \cup {n}
  <2>1. Len(l) \in Nat
    BY DEF Timed
  <2>2. QED
    BY <1>1, <1>2, <2>1
<1>4. S # {} => /\ k \in S
                /\ \A j \in S : l[j].at < l[k].at \/ (l[j].at = l[k].at /\ j <= k)
  BY LatestKnown
<1> HIDE DEF m, n, k
<1>5. ASSUME \A i \in S : l[i].at <= e.at PROVE LatestIn(m, S \cup {n}) = n
  <2>1. \A j \in S \cup {n} : m[j].at < m[n].at \/ (m[j].at = m[n].at /\ j <= n)
    BY <1>1, <1>2, <1>5
  <2>2. QED
    BY <1>1, <1>3, <2>1, LatestIs
<1>6. ASSUME S # {}, NEW i \in S, ~(l[i].at <= e.at) PROVE LatestIn(m, S \cup {n}) = k
  <2>1. e.at < l[k].at
    BY <1>2, <1>4, <1>6
  <2>2. k \in S \cup {n} /\ m[k] = l[k] /\ k \in DOMAIN l
    BY <1>1, <1>4, <1>6
  <2>3. \A j \in S \cup {n} : m[j].at < m[k].at \/ (m[j].at = m[k].at /\ j <= k)
    BY <1>1, <1>2, <1>4, <1>6, <2>1, <2>2
  <2>4. QED
    BY <1>1, <1>3, <2>2, <2>3, LatestIs
<1>7. QED
  BY <1>3, <1>5, <1>6 DEF m, n, k

-----------------------------------------------------------------------------
(* The types *)

Row == [by : {"none", "person", "owner", "arrival"}, at : Nat, w : SUBSET Request]
Seen == {<<>>} \cup [Principal -> Row] \cup [Board -> Column \cup {NoColumn}]

Stages ==
  {"new", "done", "failed", "place", "reread", "column", "log", "insert", "item", "people",
   "list", "date", "fill", "carry", "standing", "stamp", "tell"}

\* The stages between a change of the card's people and the event that tells of it.
Telling == {"carry", "standing", "stamp", "tell"}

ReqRecord ==
  [op : {"none", "attach", "move", "detach", "hold", "unhold", "complete", "assign", "claim",
         "unassign"},
   stage : Stages, board : Board \cup {CardWide}, col : Column \cup {NoColumn},
   who : Principal \cup {Nobody, Skipped}, state : ClockState, at : Nat, seen : Seen,
   base : Nat, misread : BOOLEAN]

IsActive(q) == q.stage \notin {"new", "done", "failed"}

\* The time of its event or row is taken.
Dated(q) ==
  \/ q.stage \in {"fill", "insert", "tell"}
  \/ q.stage = "people" /\ q.op = "assign"
  \/ q.stage \in Telling /\ q.op # "unassign" /\ q.who # Skipped

\* A record's fields fit together, when the clock says t.
Fits(q, t) ==
  /\ q.stage \in {"new", "done"} => q.op = "none"
  /\ q.stage = "failed" => q.op \in {"none", "attach", "assign", "claim", "unassign"}
  /\ q.stage = "place" => q.op \in {"attach", "move", "detach"}
  /\ q.stage = "reread" => q.op = "move"
  /\ q.stage = "column" => q.op \in {"attach", "move"}
  /\ q.stage = "item" => q.op \in {"hold", "unhold", "complete"}
  /\ q.stage \in {"log", "insert"} =>
       q.op \in {"attach", "move", "detach", "hold", "unhold", "complete"}
  /\ q.stage = "people" => q.op \in {"assign", "claim", "unassign"}
  /\ q.stage \in {"list", "fill"} => q.op = "attach"
  /\ q.stage = "date" => q.op \in {"attach", "assign"}
  /\ q.stage \in Telling => q.op \in {"attach", "assign", "claim", "unassign"} /\ q.who # Nobody
  /\ q.op \in {"assign", "claim", "unassign"} \/ q.stage \in {"date", "fill"} => q.who \in Principal
  /\ q.op \in {"attach", "move"} /\ q.stage # "failed" => q.col \in Column /\ q.board = BoardOf[q.col]
  /\ q.op = "detach" => q.board \in Board /\ q.col = NoColumn
  /\ q.op \in {"hold", "unhold", "complete"} => q.board = CardWide
  /\ q.stage = "standing" => q.base = 0
  /\ Dated(q) => q.at \in 1..t

StoreTyped ==
  /\ place \in [Board -> Column \cup {NoColumn}]
  /\ people \in [Principal -> Row]
  /\ held \in BOOLEAN
  /\ Timed(log, tick)
  /\ holder \subseteq Request
  /\ crossed \in SUBSET SUBSET Request

Typed ==
  /\ StoreTyped
  /\ req \in [Request -> ReqRecord]
  /\ \A r \in Request : Fits(req[r], tick)

-----------------------------------------------------------------------------
(* What a request has read, in terms of a log and of placements *)

LastClockIn(l, b) ==
  IF HistoryIn(l, b) # {} THEN l[LatestIn(l, HistoryIn(l, b))].state ELSE "running"

StandingIn(places) ==
  IF \E b \in Board : /\ {x \in Board : places[x] # NoColumn} = {b}
                      /\ Classified[places[b]] # Unset
  THEN Classified[places[CHOOSE b \in {x \in Board : places[x] # NoColumn} : TRUE]]
  ELSE "running"

CarriedIn(l, places) ==
  IF l = <<>> THEN StandingIn(places) ELSE l[LatestIn(l, DOMAIN l)].state

\* An arrival in a column that says nothing about the clock.
Unsaying(q) == q.op \in {"attach", "move"} /\ Classified[q.col] = Unset

\* A state worked out from as many events as the log has is what the log says, and one
\* that does not depend on the log is what the request means.
Reads(q, l) ==
  /\ q.base \in Nat /\ q.base <= Len(l)
  /\ q.stage \in {"log", "insert"} =>
       /\ q.op = "detach" => q.state = "stopped"
       /\ q.op \in {"hold", "unhold", "complete"} => q.state = ItemClock(q.op)
       /\ q.op \in {"attach", "move"} /\ ~q.misread /\ Classified[q.col] # Unset =>
            q.state = Classified[q.col]
       /\ Unsaying(q) /\ ~q.misread /\ q.base = Len(l) => q.state = LastClockIn(l, q.board)
  /\ q.stage \in {"stamp", "tell"} /\ q.base = Len(l) => q.state = CarriedIn(l, q.seen)

ReadsHold == \A r \in Request : Reads(req[r], log)

-----------------------------------------------------------------------------
LEMMA InTermsOfTheLog ==
  /\ \A S : Latest(S) = LatestIn(log, S)
  /\ \A b : OnTimeline(b) = HistoryIn(log, b)
  /\ \A b : LastClock(b) = LastClockIn(log, b)
  /\ ClockOfPlacement = StandingIn(place)
  /\ HoldsIn = HoldingIn(log)
<1>1. \A S : Latest(S) = LatestIn(log, S)
  BY DEF Latest, LatestIn
<1>2. \A b : OnTimeline(b) = HistoryIn(log, b)
  BY DEF OnTimeline, HistoryIn
<1>3. \A b : LastClock(b) = LastClockIn(log, b)
  BY <1>1, <1>2 DEF LastClock, LastClockIn
<1>4. ClockOfPlacement = StandingIn(place)
  BY DEF ClockOfPlacement, StandingIn, Placed
<1>5. HoldsIn = HoldingIn(log)
  BY DEF HoldsIn, HoldingIn
<1>6. QED
  BY <1>1, <1>2, <1>3, <1>4, <1>5

LEMMA StandingTyped ==
  ASSUME NEW places \in [Board -> Column \cup {NoColumn}]
  PROVE  StandingIn(places) \in ClockState
<1> DEFINE on == {x \in Board : places[x] # NoColumn}
<1>1. CASE \E b \in Board : on = {b} /\ Classified[places[b]] # Unset
  <2>1. PICK b \in Board : on = {b} /\ Classified[places[b]] # Unset
    BY <1>1
  <2>2. (CHOOSE x \in on : TRUE) = b
    BY <2>1
  <2>3. places[b] \in Column
    BY <2>1
  <2>4. Classified[places[b]] \in ClockState
    BY <2>1, <2>3, TimelineAssumption
  <2>5. QED
    BY <1>1, <2>2, <2>4 DEF StandingIn
<1>2. CASE ~\E b \in Board : on = {b} /\ Classified[places[b]] # Unset
  BY <1>2 DEF StandingIn, ClockState
<1>3. QED
  BY <1>1, <1>2

LEMMA StateOfLatest ==
  ASSUME NEW l, NEW t, Timed(l, t), NEW S \in SUBSET DOMAIN l, S # {}
  PROVE  l[LatestIn(l, S)].state \in ClockState
<1>1. LatestIn(l, S) \in DOMAIN l /\ l \in Seq(Event)
  BY LatestKnown DEF Timed
<1>2. l[LatestIn(l, S)] \in Event
  BY <1>1
<1>3. QED
  BY <1>2 DEF Event

LEMMA ClockTyped ==
  ASSUME Typed
  PROVE  /\ \A b : LastClock(b) \in ClockState
         /\ \A b \in Board, col \in Column :
              ClockForColumn(b, col) \in ClockState /\ ClocksOnFailure(b) \subseteq ClockState
         /\ log # <<>> => log[Latest(DOMAIN log)].state \in ClockState
         /\ ClockOfPlacement \in ClockState
<1>0. Timed(log, tick) /\ place \in [Board -> Column \cup {NoColumn}]
  BY DEF Typed, StoreTyped
<1>1. ASSUME NEW b PROVE LastClock(b) \in ClockState
  <2>1. HistoryIn(log, b) # {} => log[LatestIn(log, HistoryIn(log, b))].state \in ClockState
    <3>1. HistoryIn(log, b) \in SUBSET DOMAIN log
      BY DEF HistoryIn
    <3>2. QED
      BY <1>0, <3>1, StateOfLatest
  <2>2. LastClock(b) = LastClockIn(log, b)
    BY InTermsOfTheLog
  <2>3. QED
    BY <2>1, <2>2 DEF LastClockIn, ClockState
<1>2. ASSUME NEW b \in Board, NEW col \in Column
      PROVE  ClockForColumn(b, col) \in ClockState /\ ClocksOnFailure(b) \subseteq ClockState
  <2>1. Classified[col] # Unset => Classified[col] \in ClockState
    BY TimelineAssumption
  <2>2. "running" \in ClockState
    BY DEF ClockState
  <2>3. QED
    BY <1>1, <2>1, <2>2 DEF ClockForColumn, ClocksOnFailure
<1>3. log # <<>> => log[Latest(DOMAIN log)].state \in ClockState
  <2>1. log # <<>> => DOMAIN log # {}
    BY <1>0 DEF Timed
  <2>2. QED
    BY <1>0, <2>1, StateOfLatest, InTermsOfTheLog
<1>4. ClockOfPlacement \in ClockState
  BY <1>0, StandingTyped, InTermsOfTheLog
<1>5. QED
  BY <1>1, <1>2, <1>3, <1>4

-----------------------------------------------------------------------------
(* The record of a request that takes a step *)

Turn(r, q) == req' = [req EXCEPT ![r] = q]

\* q is the call of p at another stage.
Same(p, q, stage, state, at, seen, base, misread) ==
  /\ q.op = p.op /\ q.board = p.board /\ q.col = p.col /\ q.who = p.who
  /\ q.stage = stage /\ q.state = state /\ q.at = at /\ q.seen = seen
  /\ q.base = base /\ q.misread = misread

\* What each form of writing a request's record makes of it.
LEMMA WritesStage ==
  ASSUME Typed, NEW r \in Request, NEW stage \in Stages,
         Goto(r, stage)
  PROVE  \E q \in ReqRecord :
           Turn(r, q) /\ Same(req[r], q, stage, req[r].state, req[r].at, req[r].seen, req[r].base, req[r].misread)
<1> DEFINE p == req[r]
           q == [p EXCEPT !.stage = stage]
<1>1. req \in [Request -> ReqRecord] /\ p \in ReqRecord
  BY DEF Typed
<1>2. Turn(r, q)
  BY <1>1 DEF Turn, Goto
<1>3. q \in ReqRecord /\ Same(p, q, stage, p.state, p.at, p.seen, p.base, p.misread)
  BY <1>1 DEF ReqRecord, Same
<1>4. QED
  BY <1>2, <1>3

LEMMA WritesStageState ==
  ASSUME Typed, NEW r \in Request, NEW stage \in Stages, NEW state \in ClockState,
         req' = [req EXCEPT ![r].stage = stage, ![r].state = state]
  PROVE  \E q \in ReqRecord :
           Turn(r, q) /\ Same(req[r], q, stage, state, req[r].at, req[r].seen, req[r].base, req[r].misread)
<1> DEFINE p == req[r]
           q == [p EXCEPT !.stage = stage, !.state = state]
<1>1. req \in [Request -> ReqRecord] /\ p \in ReqRecord
  BY DEF Typed
<1>2. Turn(r, q)
  BY <1>1 DEF Turn
<1>3. q \in ReqRecord /\ Same(p, q, stage, state, p.at, p.seen, p.base, p.misread)
  BY <1>1 DEF ReqRecord, Same
<1>4. QED
  BY <1>2, <1>3

LEMMA WritesStateStage ==
  ASSUME Typed, NEW r \in Request, NEW state \in ClockState, NEW stage \in Stages,
         req' = [req EXCEPT ![r].state = state, ![r].stage = stage]
  PROVE  \E q \in ReqRecord :
           Turn(r, q) /\ Same(req[r], q, stage, state, req[r].at, req[r].seen, req[r].base, req[r].misread)
<1> DEFINE p == req[r]
           q == [p EXCEPT !.state = state, !.stage = stage]
<1>1. req \in [Request -> ReqRecord] /\ p \in ReqRecord
  BY DEF Typed
<1>2. Turn(r, q)
  BY <1>1 DEF Turn
<1>3. q \in ReqRecord /\ Same(p, q, stage, state, p.at, p.seen, p.base, p.misread)
  BY <1>1 DEF ReqRecord, Same
<1>4. QED
  BY <1>2, <1>3

LEMMA WritesStateBaseMisreadStage ==
  ASSUME Typed, NEW r \in Request, NEW state \in ClockState, NEW base \in Nat, NEW misread \in BOOLEAN, NEW stage \in Stages,
         req' = [req EXCEPT ![r].state = state, ![r].base = base, ![r].misread = misread, ![r].stage = stage]
  PROVE  \E q \in ReqRecord :
           Turn(r, q) /\ Same(req[r], q, stage, state, req[r].at, req[r].seen, base, misread)
<1> DEFINE p == req[r]
           q == [p EXCEPT !.state = state, !.base = base, !.misread = misread, !.stage = stage]
<1>1. req \in [Request -> ReqRecord] /\ p \in ReqRecord
  BY DEF Typed
<1>2. Turn(r, q)
  BY <1>1 DEF Turn
<1>3. q \in ReqRecord /\ Same(p, q, stage, state, p.at, p.seen, base, misread)
  BY <1>1 DEF ReqRecord, Same
<1>4. QED
  BY <1>2, <1>3

LEMMA WritesAtStage ==
  ASSUME Typed, NEW r \in Request, NEW at \in Nat, NEW stage \in Stages,
         req' = [req EXCEPT ![r].at = at, ![r].stage = stage]
  PROVE  \E q \in ReqRecord :
           Turn(r, q) /\ Same(req[r], q, stage, req[r].state, at, req[r].seen, req[r].base, req[r].misread)
<1> DEFINE p == req[r]
           q == [p EXCEPT !.at = at, !.stage = stage]
<1>1. req \in [Request -> ReqRecord] /\ p \in ReqRecord
  BY DEF Typed
<1>2. Turn(r, q)
  BY <1>1 DEF Turn
<1>3. q \in ReqRecord /\ Same(p, q, stage, p.state, at, p.seen, p.base, p.misread)
  BY <1>1 DEF ReqRecord, Same
<1>4. QED
  BY <1>2, <1>3

LEMMA WritesStageAt ==
  ASSUME Typed, NEW r \in Request, NEW stage \in Stages, NEW at \in Nat,
         req' = [req EXCEPT ![r].stage = stage, ![r].at = at]
  PROVE  \E q \in ReqRecord :
           Turn(r, q) /\ Same(req[r], q, stage, req[r].state, at, req[r].seen, req[r].base, req[r].misread)
<1> DEFINE p == req[r]
           q == [p EXCEPT !.stage = stage, !.at = at]
<1>1. req \in [Request -> ReqRecord] /\ p \in ReqRecord
  BY DEF Typed
<1>2. Turn(r, q)
  BY <1>1 DEF Turn
<1>3. q \in ReqRecord /\ Same(p, q, stage, p.state, at, p.seen, p.base, p.misread)
  BY <1>1 DEF ReqRecord, Same
<1>4. QED
  BY <1>2, <1>3

LEMMA WritesBaseStage ==
  ASSUME Typed, NEW r \in Request, NEW base \in Nat, NEW stage \in Stages,
         req' = [req EXCEPT ![r].base = base, ![r].stage = stage]
  PROVE  \E q \in ReqRecord :
           Turn(r, q) /\ Same(req[r], q, stage, req[r].state, req[r].at, req[r].seen, base, req[r].misread)
<1> DEFINE p == req[r]
           q == [p EXCEPT !.base = base, !.stage = stage]
<1>1. req \in [Request -> ReqRecord] /\ p \in ReqRecord
  BY DEF Typed
<1>2. Turn(r, q)
  BY <1>1 DEF Turn
<1>3. q \in ReqRecord /\ Same(p, q, stage, p.state, p.at, p.seen, base, p.misread)
  BY <1>1 DEF ReqRecord, Same
<1>4. QED
  BY <1>2, <1>3

LEMMA WritesStateBaseStage ==
  ASSUME Typed, NEW r \in Request, NEW state \in ClockState, NEW base \in Nat, NEW stage \in Stages,
         req' = [req EXCEPT ![r].state = state, ![r].base = base, ![r].stage = stage]
  PROVE  \E q \in ReqRecord :
           Turn(r, q) /\ Same(req[r], q, stage, state, req[r].at, req[r].seen, base, req[r].misread)
<1> DEFINE p == req[r]
           q == [p EXCEPT !.state = state, !.base = base, !.stage = stage]
<1>1. req \in [Request -> ReqRecord] /\ p \in ReqRecord
  BY DEF Typed
<1>2. Turn(r, q)
  BY <1>1 DEF Turn
<1>3. q \in ReqRecord /\ Same(p, q, stage, state, p.at, p.seen, base, p.misread)
  BY <1>1 DEF ReqRecord, Same
<1>4. QED
  BY <1>2, <1>3

LEMMA WritesStateSeenStage ==
  ASSUME Typed, NEW r \in Request, NEW state \in ClockState, NEW seen \in Seen, NEW stage \in Stages,
         req' = [req EXCEPT ![r].state = state, ![r].seen = seen, ![r].stage = stage]
  PROVE  \E q \in ReqRecord :
           Turn(r, q) /\ Same(req[r], q, stage, state, req[r].at, seen, req[r].base, req[r].misread)
<1> DEFINE p == req[r]
           q == [p EXCEPT !.state = state, !.seen = seen, !.stage = stage]
<1>1. req \in [Request -> ReqRecord] /\ p \in ReqRecord
  BY DEF Typed
<1>2. Turn(r, q)
  BY <1>1 DEF Turn
<1>3. q \in ReqRecord /\ Same(p, q, stage, state, p.at, seen, p.base, p.misread)
  BY <1>1 DEF ReqRecord, Same
<1>4. QED
  BY <1>2, <1>3

LEMMA BlankIs ==
  /\ Blank \in ReqRecord /\ Fresh \in ReqRecord
  /\ Blank.stage = "done" /\ Blank.op = "none" /\ Fresh.stage = "new" /\ Fresh.op = "none"
  /\ Blank.base = 0 /\ Fresh.base = 0
  /\ ~IsActive(Blank) /\ ~IsActive(Fresh)
  /\ \A t : Fits(Blank, t) /\ Fits(Fresh, t)
  /\ \A l : Len(l) \in Nat => Reads(Blank, l) /\ Reads(Fresh, l)
<1>1. /\ Blank.stage = "done" /\ Blank.op = "none" /\ Fresh.stage = "new" /\ Fresh.op = "none"
      /\ Blank.base = 0 /\ Fresh.base = 0
  BY DEF Blank, Fresh, Sent
<1>2. Blank \in ReqRecord /\ Fresh \in ReqRecord
  BY DEF Blank, Fresh, Sent, ReqRecord, Stages, ClockState, Seen
<1>3. ~IsActive(Blank) /\ ~IsActive(Fresh) /\ \A t : Fits(Blank, t) /\ Fits(Fresh, t)
  BY <1>1 DEF IsActive, Fits, Dated, Telling
<1>4. \A l : Len(l) \in Nat => Reads(Blank, l) /\ Reads(Fresh, l)
  BY <1>1 DEF Reads
<1>5. QED
  BY <1>1, <1>2, <1>3, <1>4

-----------------------------------------------------------------------------
(* The shapes of a step *)

\* It wrote or deleted p's row and its event is not recorded.
Adds(q, p) ==
  q.stage \in Telling \cup {"failed"} /\ q.op \in {"attach", "assign", "claim"} /\ q.who = p
Removes(q, p) == q.stage \in Telling \cup {"failed"} /\ q.op = "unassign" /\ q.who = p

\* The hold is written and the log does not tell of it yet.
Pending(q) == q.op \in Holding /\ q.stage \in {"log", "insert"}

\* It found nobody on the card and is about to put its default there.
Filling(q) == q.op = "attach" /\ q.stage \in {"date", "fill"}

Claiming(q) == q.op = "claim" /\ q.stage = "people"

\* Request r becomes q.
Becomes(r, q) ==
  /\ Turn(r, q) /\ Fits(q, tick') /\ Reads(q, log')
  /\ tick' \in Nat /\ tick <= tick'

Sends(r, q) ==
  /\ req[r].stage = "new"
  /\ UNCHANGED <<place, people, held, log, tick, holder>>
  /\ crossed' = crossed \cup {{s, r} : s \in {s \in Active : Alike(q.op, req[s].op)}}
  /\ q.stage \in {"place", "item", "date", "people"}
  /\ ~Filling(q)
  /\ Claiming(q) => \A p \in Principal : ~On(p) /\ q.seen[p] = Off

\* It goes on with the same operation, or ends.
Continues(r, q) ==
  /\ IsActive(req[r]) /\ (IsActive(q) => q.op = req[r].op)
  /\ UNCHANGED crossed

Moves(r, q) ==
  /\ Continues(r, q)
  /\ UNCHANGED <<people, held, log, holder>>
  /\ place' \in [Board -> Column \cup {NoColumn}]
  /\ ~Claiming(q)
  /\ \A p \in Principal : (Adds(q, p) <=> Adds(req[r], p)) /\ (Removes(q, p) <=> Removes(req[r], p))
  /\ Pending(q) => Pending(req[r])
  /\ Pending(req[r]) =>
       \/ q.stage = "failed"
       \/ q.stage = "insert" /\ q.op = req[r].op /\ \A i \in DOMAIN log : log[i].at < q.at
  /\ Filling(q) => Filling(req[r]) \/ \A p \in Principal : ~On(p)

Holds(r, q) ==
  /\ Continues(r, q)
  /\ UNCHANGED <<place, people, log, tick>>
  /\ req[r].stage = "item" /\ q.stage = "log" /\ q.op = req[r].op
  /\ held' = CASE q.op = "hold" -> TRUE [] q.op = "unhold" -> FALSE [] OTHER -> held
  /\ holder' = IF q.op \in Holding THEN {r} ELSE holder

Inserts(r, q, by) ==
  LET p == req[r].who IN
  /\ Continues(r, q)
  /\ UNCHANGED <<place, held, log, holder>>
  /\ req[r].stage \in {"people", "fill"} /\ req[r].op \in Choosing
  /\ by = "arrival" <=> req[r].stage = "fill"
  /\ by = "owner" => Claiming(req[r]) /\ people = req[r].seen
  /\ q.stage = "carry" /\ q.op = req[r].op /\ q.who = p
  /\ p \in Principal /\ ~On(p)
  /\ \E at \in Nat : people' = [people EXCEPT ![p] = [by |-> by, at |-> at, w |-> {r}]]

TakesOff(r, q) ==
  LET p == req[r].who IN
  /\ Continues(r, q)
  /\ UNCHANGED <<place, held, log, holder>>
  /\ req[r].stage = "people" /\ req[r].op = "unassign"
  /\ q.stage = "carry" /\ q.op = "unassign" /\ q.who = p
  /\ p \in Principal /\ On(p) /\ people' = [people EXCEPT ![p] = Off]

\* The event says what its request has read, if nothing was recorded since.
Sound(e) ==
  e.sound =>
    \/ Decides(e) /\ e.state = Means(e)
    \/ /\ e.kind \in {"card_attached", "card_moved"} /\ ~Decides(e)
       /\ e.board \in Board /\ e.state = LastClockIn(log, e.board)
    \/ /\ e.kind \in {"assigned", "unassigned", "assignment_skipped"}
       /\ e.state = CarriedIn(log, place)

Records(r, q, e) ==
  /\ Continues(r, q)
  /\ UNCHANGED <<place, people, held, tick, holder>>
  /\ log' = Append(log, e) /\ e \in Event /\ e.at \in 1..tick
  /\ q.stage \in {"done", "list"}
  /\ Sound(e)
  /\ \A p \in Principal :
       /\ Adds(req[r], p) <=> e.kind = "assigned" /\ e.who = p
       /\ Removes(req[r], p) <=> e.kind = "unassigned" /\ e.who = p
  /\ e.kind \in {"card_held", "card_unheld"} => Pending(req[r])
  /\ Pending(req[r]) =>
       /\ req[r].stage = "insert" /\ q.stage = "done" /\ e.at = req[r].at
       /\ e.kind = IF req[r].op = "hold" THEN "card_held" ELSE "card_unheld"

Shape(r, q) ==
  \/ Sends(r, q) \/ Moves(r, q) \/ Holds(r, q)
  \/ \E by \in {"person", "owner", "arrival"} : Inserts(r, q, by)
  \/ TakesOff(r, q)
  \/ \E e \in Event : Records(r, q, e)

-----------------------------------------------------------------------------
(* Every step has one of these shapes *)

\* What is known of a request that is at a stage.
LEMMA OpenRequest ==
  ASSUME Typed, ReadsHold, NEW r \in Request
  PROVE  /\ req[r] \in ReqRecord /\ Fits(req[r], tick) /\ Reads(req[r], log)
         /\ tick \in Nat /\ Len(log) \in Nat /\ StoreTyped
         /\ \A i \in DOMAIN log : log[i].at < tick + 1
         /\ Close(r) => Turn(r, Blank)
<1>1. req[r] \in ReqRecord /\ Fits(req[r], tick) /\ Reads(req[r], log) /\ StoreTyped
  BY DEF Typed, ReadsHold
<1>2. tick \in Nat /\ Len(log) \in Nat
  BY <1>1 DEF StoreTyped, Timed
<1>3. ASSUME NEW i \in DOMAIN log PROVE log[i].at < tick + 1
  <2>1. log[i].at \in 1..tick
    BY <1>1 DEF StoreTyped, Timed
  <2>2. QED
    BY <1>2, <2>1
<1>4. Close(r) => Turn(r, Blank)
  BY DEF Close, Turn
<1>5. QED
  BY <1>1, <1>2, <1>3, <1>4

\* A request that owes the log nothing ends.
LEMMA EndMoves ==
  ASSUME Typed, ReadsHold, NEW r \in Request, Close(r), IsActive(req[r]),
         req[r].stage \notin Telling, ~Pending(req[r]),
         UNCHANGED <<place, people, held, log, tick, holder, crossed>>
  PROVE  Becomes(r, Blank) /\ Moves(r, Blank)
<1>1. /\ Turn(r, Blank) /\ tick \in Nat /\ Len(log) \in Nat
      /\ place \in [Board -> Column \cup {NoColumn}]
  BY OpenRequest DEF Typed, StoreTyped
<1>2. Becomes(r, Blank)
  BY <1>1, BlankIs DEF Becomes
<1>3. /\ ~Claiming(Blank) /\ ~Pending(Blank) /\ ~Filling(Blank)
      /\ \A p \in Principal : ~Adds(Blank, p) /\ ~Removes(Blank, p)
  BY BlankIs DEF Claiming, Pending, Filling, Adds, Removes, Telling, Holding
<1>4. \A p \in Principal : ~Adds(req[r], p) /\ ~Removes(req[r], p)
  BY DEF Adds, Removes, IsActive
<1>5. QED
  BY <1>1, <1>2, <1>3, <1>4, BlankIs DEF Moves, Continues

\* A request goes on, and the card's people, its hold and its log are as they were.
LEMMA GoesOn ==
  ASSUME Typed, ReadsHold, NEW r \in Request, NEW q \in ReqRecord, Turn(r, q),
         IsActive(req[r]), IsActive(q), q.op = req[r].op, q.who = req[r].who,
         UNCHANGED <<people, held, log, holder, crossed>>,
         place' \in [Board -> Column \cup {NoColumn}],
         tick' \in Nat, tick <= tick', Fits(q, tick'), Reads(q, log),
         q.stage \in Telling <=>
           (req[r].stage \in Telling \/ (q.stage \in Telling /\ req[r].who = Skipped)),
         ~Claiming(q), Pending(q) => Pending(req[r]),
         Pending(req[r]) => q.stage = "insert" /\ \A i \in DOMAIN log : log[i].at < q.at,
         Filling(q) => Filling(req[r]) \/ \A p \in Principal : ~On(p)
  PROVE  Becomes(r, q) /\ Moves(r, q)
<1>1. Becomes(r, q)
  BY DEF Becomes
<1>2. Skipped \notin Principal
  BY TimelineAssumption
<1>3. \A p \in Principal : (Adds(q, p) <=> Adds(req[r], p)) /\ (Removes(q, p) <=> Removes(req[r], p))
  BY <1>2 DEF Adds, Removes, IsActive
<1>4. QED
  BY <1>1, <1>3 DEF Moves, Continues

\* A request is sent.
LEMMA Opens ==
  ASSUME Typed, ReadsHold, NEW r \in Request, NEW op, NEW q \in ReqRecord, Turn(r, q),
         Open(r, op), q.op = op, q.stage \in {"place", "item", "date", "people"}, q.base = 0,
         op = "claim" => \A p \in Principal : ~On(p) /\ q.seen[p] = Off,
         ~Filling(q), Fits(q, tick)
  PROVE  Becomes(r, q) /\ Sends(r, q)
<1>1. UNCHANGED <<place, people, held, log, tick, holder>> /\ req[r].stage = "new"
  BY DEF Open
<1>2. Reads(q, log)
  BY OpenRequest DEF Reads
<1>3. Becomes(r, q)
  BY <1>1, <1>2, OpenRequest DEF Becomes
<1>4. QED
  BY <1>1, <1>3 DEF Sends, Claiming, Open

LEMMA SentIs ==
  ASSUME NEW op \in {"attach", "move", "detach", "hold", "unhold", "complete", "assign",
                     "claim", "unassign"},
         NEW stage \in Stages, NEW b \in Board \cup {CardWide}, NEW col \in Column \cup {NoColumn},
         NEW who \in Principal \cup {Nobody, Skipped}
  PROVE  LET q == Sent(op, stage, b, col, who) IN
           /\ q \in ReqRecord /\ q.op = op /\ q.stage = stage /\ q.board = b
           /\ q.col = col /\ q.who = who /\ q.base = 0
BY DEF Sent, ReqRecord, ClockState, Seen

LEMMA BeginShape ==
  ASSUME Typed, ReadsHold, NEW r \in Request,
         BeginAttach(r) \/ BeginMove(r) \/ BeginDetach(r) \/ BeginHold(r) \/ BeginAssign(r)
           \/ BeginClaim(r)
  PROVE  \E q \in ReqRecord : Becomes(r, q) /\ Sends(r, q)
<1>0. {"place", "item", "date", "people"} \subseteq Stages
  BY DEF Stages
<1>1. ASSUME NEW op \in {"attach", "move", "detach", "hold", "unhold", "complete", "assign",
                         "unassign"},
             NEW stage \in {"place", "item", "date", "people"}, NEW b \in Board \cup {CardWide},
             NEW col \in Column \cup {NoColumn}, NEW who \in Principal \cup {Nobody, Skipped},
             Begin(r, op, stage, b, col, who),
             stage = "place" <=> op \in {"attach", "move", "detach"},
             stage = "item" <=> op \in {"hold", "unhold", "complete"},
             stage = "date" <=> op = "assign", stage = "people" <=> op = "unassign",
             op \in {"attach", "move"} => col \in Column /\ b = BoardOf[col],
             op = "detach" => b \in Board /\ col = NoColumn,
             op \in {"hold", "unhold", "complete"} => b = CardWide,
             op \in {"assign", "unassign"} => who \in Principal
      PROVE  \E q \in ReqRecord : Becomes(r, q) /\ Sends(r, q)
  <2> DEFINE q == Sent(op, stage, b, col, who)
  <2>1. /\ q \in ReqRecord /\ q.op = op /\ q.stage = stage /\ q.board = b
        /\ q.col = col /\ q.who = who /\ q.base = 0
    <3>1. stage \in Stages
      BY <1>0
    <3>2. QED
      BY <3>1, SentIs
  <2>2. Turn(r, q) /\ Open(r, op)
    BY <1>1 DEF Begin, Turn
  <2> HIDE DEF q
  <2>3. ~Filling(q) /\ op # "claim" /\ ~Dated(q)
    BY <1>1, <2>1 DEF Filling, Dated, Telling
  <2>4. Fits(q, tick)
    <3>1. CASE stage = "place"
      <4>1. op \in {"attach", "move", "detach"}
        BY <1>1, <3>1
      <4>2. QED
        BY <1>1, <2>1, <2>3, <3>1, <4>1 DEF Fits, Telling
    <3>2. CASE stage = "item"
      <4>1. op \in {"hold", "unhold", "complete"}
        BY <1>1, <3>2
      <4>2. QED
        BY <1>1, <2>1, <2>3, <3>2, <4>1 DEF Fits, Telling
    <3>3. CASE stage \in {"date", "people"}
      <4>1. op \in {"assign", "unassign"}
        BY <1>1, <3>3
      <4>2. QED
        BY <1>1, <2>1, <2>3, <3>3, <4>1 DEF Fits, Telling
    <3>4. QED
      BY <3>1, <3>2, <3>3
  <2>5. QED
    BY <2>1, <2>2, <2>3, <2>4, Opens
<1>2. CASE BeginAttach(r)
  <2>0. PICK col \in Column : \E who \in Arrivals[BoardOf[col]] :
          Begin(r, "attach", "place", BoardOf[col], col, who)
    BY <1>2 DEF BeginAttach
  <2>1. PICK who \in Arrivals[BoardOf[col]] :
          Begin(r, "attach", "place", BoardOf[col], col, who)
    BY <2>0
  <2>2. BoardOf[col] \in Board
    BY TimelineAssumption
  <2>3. who \in Principal \cup {Nobody, Skipped}
    BY <2>2, TimelineAssumption
  <2>4. QED
    BY <1>1, <2>1, <2>2, <2>3
<1>3. CASE BeginMove(r)
  <2>1. PICK col \in Column : Begin(r, "move", "place", BoardOf[col], col, Nobody)
    BY <1>3 DEF BeginMove
  <2>2. BoardOf[col] \in Board
    BY TimelineAssumption
  <2>3. QED
    BY <1>1, <2>1, <2>2
<1>4. CASE BeginDetach(r)
  BY <1>1, <1>4 DEF BeginDetach
<1>5. CASE BeginHold(r)
  BY <1>1, <1>5 DEF BeginHold
<1>6. CASE BeginAssign(r)
  BY <1>1, <1>6 DEF BeginAssign
<1>7. CASE BeginClaim(r)
  <2>1. PICK p \in Principal :
          /\ Open(r, "claim")
          /\ req' = [req EXCEPT ![r] =
                       [Sent("claim", "people", CardWide, NoColumn, p) EXCEPT !.seen = people]]
    BY <1>7 DEF BeginClaim
  <2> DEFINE q == [Sent("claim", "people", CardWide, NoColumn, p) EXCEPT !.seen = people]
  <2>2. people \in Seen
    BY DEF Typed, StoreTyped, Seen
  <2>3. /\ q \in ReqRecord /\ q.op = "claim" /\ q.stage = "people" /\ q.seen = people
        /\ q.base = 0 /\ q.who = p
    BY <1>0, <2>2 DEF Sent, ReqRecord, ClockState
  <2>4. Turn(r, q)
    BY <2>1 DEF Turn
  <2> HIDE DEF q
  <2>5. ~Filling(q) /\ ~Dated(q)
    BY <2>3 DEF Filling, Dated, Telling
  <2>6. Fits(q, tick)
    BY <2>3, <2>5 DEF Fits, Telling
  <2>7. \A x \in Principal : ~On(x) /\ q.seen[x] = Off
    BY <1>7, <2>3 DEF BeginClaim, On
  <2>8. QED
    BY <2>1, <2>3, <2>4, <2>5, <2>6, <2>7, Opens
<1>8. QED
  BY <1>2, <1>3, <1>4, <1>5, <1>6, <1>7

LEMMA WritePlacementShape ==
  ASSUME Typed, ReadsHold, NEW r \in Request, WritePlacement(r)
  PROVE  \E q \in ReqRecord : Becomes(r, q) /\ Moves(r, q)
<1> DEFINE p == req[r]
           b == p.board
<1>1. /\ p \in ReqRecord /\ Fits(p, tick) /\ Reads(p, log) /\ tick \in Nat /\ Len(log) \in Nat
      /\ p.stage = "place" /\ UNCHANGED <<people, held, log, tick, holder, crossed>>
      /\ place \in [Board -> Column \cup {NoColumn}]
  BY OpenRequest DEF WritePlacement, At, StoreTyped
<1>2. p.op \in {"attach", "move", "detach"} /\ b \in Board /\ p.col \in Column \cup {NoColumn}
  BY <1>1, TimelineAssumption DEF Fits, ReqRecord
<1>3. IsActive(p) /\ p.stage \notin Telling /\ ~Pending(p) /\ ~Dated(p)
  BY <1>1 DEF IsActive, Telling, Pending, Dated
<1>4. CASE Close(r) /\ UNCHANGED place
  BY <1>1, <1>3, <1>4, EndMoves, BlankIs
<1>5. CASE ~(Close(r) /\ UNCHANGED place)
  <2>1. /\ place' = [place EXCEPT ![b] = p.col]
        /\ IF p.op = "detach"
           THEN req' = [req EXCEPT ![r].stage = "log", ![r].state = "stopped"]
           ELSE Goto(r, IF p.op = "move" THEN "reread" ELSE "column")
    BY <1>5 DEF WritePlacement
  <2>2. place' \in [Board -> Column \cup {NoColumn}]
    BY <1>1, <1>2, <2>1
  <2>3. {"log", "reread", "column"} \subseteq Stages /\ "stopped" \in ClockState
    BY DEF Stages, ClockState
  <2>4. PICK q \in ReqRecord, stage \in {"log", "reread", "column"}, state \in ClockState :
          /\ Turn(r, q) /\ Same(p, q, stage, state, p.at, p.seen, p.base, p.misread)
          /\ stage = "log" => p.op = "detach" /\ state = "stopped"
          /\ stage = "reread" => p.op = "move"
          /\ stage = "column" => p.op = "attach"
    <3>1. CASE p.op = "detach"
      <4>1. \E q \in ReqRecord : Turn(r, q) /\ Same(p, q, "log", "stopped", p.at, p.seen, p.base, p.misread)
        BY <1>1, <2>1, <2>3, <3>1, WritesStageState DEF ReqRecord
      <4>2. QED
        BY <2>3, <3>1, <4>1
    <3>2. CASE p.op = "move"
      <4>1. \E q \in ReqRecord : Turn(r, q) /\ Same(p, q, "reread", p.state, p.at, p.seen, p.base, p.misread)
        BY <1>1, <2>1, <2>3, <3>2, WritesStage DEF ReqRecord
      <4>2. QED
        BY <1>1, <3>2, <4>1 DEF ReqRecord
    <3>3. CASE p.op = "attach"
      <4>1. \E q \in ReqRecord : Turn(r, q) /\ Same(p, q, "column", p.state, p.at, p.seen, p.base, p.misread)
        BY <1>1, <2>1, <2>3, <3>3, WritesStage DEF ReqRecord
      <4>2. QED
        BY <1>1, <3>3, <4>1 DEF ReqRecord
    <3>4. QED
      BY <1>2, <3>1, <3>2, <3>3
  <2>5. /\ q.op = p.op /\ q.who = p.who /\ q.board = b /\ q.col = p.col /\ q.base = p.base
        /\ q.stage = stage /\ q.state = state
    BY <2>4 DEF Same
  <2>6. /\ IsActive(q) /\ q.stage \notin Telling /\ ~Dated(q) /\ ~Claiming(q) /\ ~Pending(q)
        /\ ~Filling(q)
    BY <1>2, <2>4, <2>5 DEF IsActive, Telling, Dated, Claiming, Pending, Filling, Holding
  <2>7. Fits(q, tick)
    BY <1>1, <1>2, <2>4, <2>5, <2>6 DEF Fits
  <2>8. Reads(q, log)
    BY <1>1, <1>2, <2>4, <2>5 DEF Reads, Unsaying
  <2>9. QED
    BY <1>1, <1>3, <2>2, <2>4, <2>5, <2>6, <2>7, <2>8, GoesOn
<1>6. QED
  BY <1>4, <1>5

LEMMA RereadShape ==
  ASSUME Typed, ReadsHold, NEW r \in Request, RereadPlacement(r)
  PROVE  \E q \in ReqRecord : Becomes(r, q) /\ Moves(r, q)
<1> DEFINE p == req[r]
<1>1. /\ p \in ReqRecord /\ Fits(p, tick) /\ Reads(p, log) /\ tick \in Nat /\ Len(log) \in Nat
      /\ p.stage = "reread" /\ UNCHANGED <<place, people, held, log, tick, holder, crossed>>
      /\ place' \in [Board -> Column \cup {NoColumn}]
  BY OpenRequest DEF RereadPlacement, At, StoreTyped
<1>2. p.op = "move" /\ IsActive(p) /\ p.stage \notin Telling /\ ~Pending(p) /\ ~Dated(p)
  BY <1>1 DEF Fits, IsActive, Telling, Pending, Dated
<1>3. CASE Close(r)
  BY <1>1, <1>2, <1>3, EndMoves, BlankIs
<1>4. CASE Goto(r, "column")
  <2>1. "column" \in Stages
    BY DEF Stages
  <2>2. PICK q \in ReqRecord : Turn(r, q) /\ Same(p, q, "column", p.state, p.at, p.seen, p.base, p.misread)
    BY <1>1, <1>4, <2>1, WritesStage DEF ReqRecord
  <2>3. /\ q.op = p.op /\ q.who = p.who /\ q.board = p.board /\ q.col = p.col /\ q.base = p.base
        /\ q.stage = "column"
    BY <2>2 DEF Same
  <2>4. /\ IsActive(q) /\ q.stage \notin Telling /\ ~Dated(q) /\ ~Claiming(q) /\ ~Pending(q)
        /\ ~Filling(q)
    BY <1>2, <2>3 DEF IsActive, Telling, Dated, Claiming, Pending, Filling, Holding
  <2>5. Fits(q, tick) /\ Reads(q, log)
    BY <1>1, <1>2, <2>3, <2>4 DEF Fits, Reads
  <2>6. QED
    BY <1>1, <1>2, <2>2, <2>3, <2>4, <2>5, GoesOn
<1>5. QED
  BY <1>3, <1>4 DEF RereadPlacement

LEMMA ReadClockShape ==
  ASSUME Typed, ReadsHold, NEW r \in Request, ReadClockForColumn(r)
  PROVE  \E q \in ReqRecord : Becomes(r, q) /\ Moves(r, q)
<1> DEFINE p == req[r]
           clock == ClockForColumn(p.board, p.col)
<1>1. /\ p \in ReqRecord /\ Fits(p, tick) /\ Reads(p, log) /\ tick \in Nat /\ Len(log) \in Nat
      /\ p.stage = "column" /\ UNCHANGED <<place, people, held, log, tick, holder, crossed>>
      /\ place' \in [Board -> Column \cup {NoColumn}]
  BY OpenRequest DEF ReadClockForColumn, At, StoreTyped
<1>2. p.op \in {"attach", "move"} /\ p.board \in Board /\ p.col \in Column
  BY <1>1, TimelineAssumption DEF Fits
<1>3. PICK s \in {clock} \cup (IF r \in Fallible THEN ClocksOnFailure(p.board) ELSE {}) :
        req' = [req EXCEPT ![r].state = s, ![r].base = Len(log), ![r].misread = (s # clock),
                           ![r].stage = "log"]
  BY DEF ReadClockForColumn
<1>4. clock \in ClockState /\ s \in ClockState
  BY <1>2, <1>3, ClockTyped
<1>5. PICK m \in BOOLEAN : m <=> s # clock
  OBVIOUS
<1>6. req' = [req EXCEPT ![r].state = s, ![r].base = Len(log), ![r].misread = m, ![r].stage = "log"]
  <2>1. m = (s # clock)
    BY <1>5
  <2>2. QED
    BY <1>3, <2>1
<1> HIDE DEF clock
<1>7. PICK q \in ReqRecord : Turn(r, q) /\ Same(p, q, "log", s, p.at, p.seen, Len(log), m)
  <2>1. "log" \in Stages /\ p.at \in Nat /\ p.seen \in Seen
    BY <1>1 DEF Stages, ReqRecord
  <2> DEFINE n == Len(log)
             stage == "log"
  <2>2. n \in Nat /\ stage \in Stages
    BY <1>1, <2>1
  <2>3. req' = [req EXCEPT ![r].state = s, ![r].base = n, ![r].misread = m, ![r].stage = stage]
    BY <1>6
  <2> HIDE DEF n, stage
  <2>4. \E q \in ReqRecord : Turn(r, q) /\ Same(p, q, stage, s, p.at, p.seen, n, m)
    BY <1>4, <2>1, <2>2, <2>3, WritesStateBaseMisreadStage
  <2>5. QED
    BY <2>4 DEF n, stage
<1>8. /\ q.op = p.op /\ q.who = p.who /\ q.board = p.board /\ q.col = p.col /\ q.base = Len(log)
      /\ q.stage = "log" /\ q.state = s /\ q.misread = m
  BY <1>7 DEF Same
<1>9. /\ IsActive(q) /\ q.stage \notin Telling /\ ~Dated(q) /\ ~Claiming(q) /\ ~Pending(q)
      /\ ~Filling(q)
  BY <1>2, <1>8 DEF IsActive, Telling, Dated, Claiming, Pending, Filling, Holding
<1>10. Fits(q, tick)
  BY <1>1, <1>2, <1>8, <1>9 DEF Fits
<1>11. Reads(q, log)
  <2>1. ~q.misread => q.state = clock
    BY <1>5, <1>8
  <2>2. clock = IF Classified[q.col] # Unset THEN Classified[q.col] ELSE LastClockIn(log, q.board)
    BY <1>8, InTermsOfTheLog DEF clock, ClockForColumn
  <2>3. QED
    BY <1>1, <1>2, <1>8, <2>1, <2>2 DEF Reads, Unsaying
<1>12. /\ IsActive(p) /\ p.stage \notin Telling /\ ~Pending(p)
  BY <1>1 DEF IsActive, Telling, Pending
<1>13. QED
  BY <1>1, <1>7, <1>8, <1>9, <1>10, <1>11, <1>12, GoesOn

LEMMA DateRowShape ==
  ASSUME Typed, ReadsHold, NEW r \in Request, DateRow(r)
  PROVE  \E q \in ReqRecord : Becomes(r, q) /\ Moves(r, q)
<1> DEFINE p == req[r]
           at == tick + 1
           stage == IF p.op = "attach" THEN "fill" ELSE "people"
<1>1. /\ p \in ReqRecord /\ Fits(p, tick) /\ Reads(p, log) /\ tick \in Nat /\ Len(log) \in Nat
      /\ p.stage = "date" /\ tick' = at /\ UNCHANGED <<place, people, held, log, holder, crossed>>
      /\ place' \in [Board -> Column \cup {NoColumn}]
      /\ req' = [req EXCEPT ![r].at = at, ![r].stage = stage]
  BY OpenRequest DEF DateRow, At, StoreTyped
<1>2. /\ p.op \in {"attach", "assign"} /\ p.who \in Principal /\ IsActive(p)
      /\ p.stage \notin Telling /\ ~Pending(p) /\ ~Dated(p)
  BY <1>1 DEF Fits, IsActive, Telling, Pending, Dated
<1>3. /\ at \in Nat /\ at \in 1..at /\ tick <= at /\ stage \in Stages
      /\ stage = "fill" <=> p.op = "attach"
      /\ stage = "people" <=> p.op # "attach"
  BY <1>1 DEF Stages
<1> HIDE DEF at, stage
<1>4. PICK q \in ReqRecord : Turn(r, q) /\ Same(p, q, stage, p.state, at, p.seen, p.base, p.misread)
  BY <1>1, <1>3, WritesAtStage DEF ReqRecord
<1>5. /\ q.op = p.op /\ q.who = p.who /\ q.board = p.board /\ q.col = p.col /\ q.base = p.base
      /\ q.stage = stage /\ q.at = at
  BY <1>4 DEF Same
<1>6. /\ IsActive(q) /\ q.stage \notin Telling /\ ~Claiming(q) /\ ~Pending(q)
      /\ Filling(p) <=> p.op = "attach"
      /\ Filling(q) => p.op = "attach"
  BY <1>1, <1>2, <1>3, <1>5 DEF IsActive, Telling, Claiming, Pending, Filling, Holding
<1>7. Fits(q, at)
  BY <1>1, <1>2, <1>3, <1>5, <1>6 DEF Fits
<1>8. Reads(q, log)
  BY <1>1, <1>3, <1>5 DEF Reads
<1>9. Becomes(r, q) /\ Moves(r, q)
  BY <1>1, <1>2, <1>3, <1>4, <1>5, <1>6, <1>7, <1>8, GoesOn
<1>10. QED
  BY <1>9

LEMMA ListShape ==
  ASSUME Typed, ReadsHold, NEW r \in Request, ListPeople(r)
  PROVE  \E q \in ReqRecord : Becomes(r, q) /\ Moves(r, q)
<1> DEFINE p == req[r]
           stage == IF p.who = Skipped THEN "carry" ELSE "date"
<1>1. /\ p \in ReqRecord /\ Fits(p, tick) /\ Reads(p, log) /\ tick \in Nat /\ Len(log) \in Nat
      /\ p.stage = "list" /\ UNCHANGED <<place, people, held, log, tick, holder, crossed>>
      /\ place' \in [Board -> Column \cup {NoColumn}]
  BY OpenRequest DEF ListPeople, At, StoreTyped
<1>2. /\ p.op = "attach" /\ IsActive(p) /\ p.stage \notin Telling /\ ~Pending(p) /\ ~Dated(p)
  BY <1>1 DEF Fits, IsActive, Telling, Pending, Dated
<1>3. CASE Close(r)
  BY <1>1, <1>2, <1>3, EndMoves, BlankIs
<1>4. CASE p.who # Nobody /\ Goto(r, stage) /\ \A x \in Principal : ~On(x)
  <2>1. /\ stage \in Stages /\ stage \in {"carry", "date"}
        /\ stage = "carry" <=> p.who = Skipped
    BY DEF Stages
  <2>2. p.who \in Principal \cup {Skipped}
    BY <1>1, <1>4 DEF ReqRecord
  <2> HIDE DEF stage
  <2>3. PICK q \in ReqRecord : Turn(r, q) /\ Same(p, q, stage, p.state, p.at, p.seen, p.base, p.misread)
    BY <1>1, <1>4, <2>1, WritesStage DEF ReqRecord
  <2>4. /\ q.op = p.op /\ q.who = p.who /\ q.board = p.board /\ q.col = p.col /\ q.base = p.base
        /\ q.stage = stage
    BY <2>3 DEF Same
  <2>5. /\ IsActive(q) /\ (q.stage \in Telling => p.who = Skipped) /\ ~Dated(q) /\ ~Claiming(q)
        /\ ~Pending(q)
    BY <1>2, <2>1, <2>4 DEF IsActive, Telling, Dated, Claiming, Pending, Holding
  <2>6. Fits(q, tick) /\ Reads(q, log)
    BY <1>1, <1>2, <1>4, <2>1, <2>2, <2>4, <2>5 DEF Fits, Reads, Telling
  <2>7. QED
    BY <1>1, <1>2, <1>4, <2>3, <2>4, <2>5, <2>6, GoesOn
<1>5. QED
  BY <1>3, <1>4 DEF ListPeople

\* What a request that owes the log an event about a principal goes on to.
LEMMA Tellings ==
  ASSUME Typed, ReadsHold, NEW r \in Request, NEW q \in ReqRecord, Turn(r, q),
         req[r].stage \in Telling, q.stage \in Telling,
         q.op = req[r].op, q.who = req[r].who, q.board = req[r].board, q.col = req[r].col,
         UNCHANGED <<place, people, held, log, holder, crossed>>,
         tick' \in Nat, tick <= tick', q.stage = "standing" => q.base = 0, Reads(q, log),
         Dated(q) => q.at \in 1..tick'
  PROVE  Becomes(r, q) /\ Moves(r, q)
<1> DEFINE p == req[r]
<1>1. /\ Fits(p, tick) /\ tick \in Nat /\ place' \in [Board -> Column \cup {NoColumn}]
  BY OpenRequest DEF StoreTyped
<1>2. /\ IsActive(p) /\ IsActive(q) /\ ~Pending(p) /\ ~Pending(q) /\ ~Claiming(q) /\ ~Filling(q)
      /\ p.op \in {"attach", "assign", "claim", "unassign"} /\ p.who # Nobody
  BY <1>1 DEF Fits, Telling, IsActive, Pending, Claiming, Filling
<1>3. Fits(q, tick')
  <2>1. /\ p.op \in {"assign", "claim", "unassign"} => p.who \in Principal
        /\ p.op = "attach" => p.col \in Column /\ p.board = BoardOf[p.col]
    BY <1>1 DEF Fits, Telling
  <2>2. q.stage \in {"carry", "standing", "stamp", "tell"}
    BY DEF Telling
  <2>3. QED
    BY <1>2, <2>1, <2>2 DEF Fits
<1>4. QED
  BY <1>1, <1>2, <1>3, GoesOn

LEMMA UndatedIs ==
  ASSUME NEW r \in Request
  PROVE  /\ Undated(r) \in {"tell", "stamp"}
         /\ Undated(r) = "tell" <=> req[r].who # Skipped /\ req[r].op # "unassign"
BY DEF Undated, PeopleKind

LEMMA CarryHistoryShape ==
  ASSUME Typed, ReadsHold, NEW r \in Request, CarryHistory(r)
  PROVE  \E q \in ReqRecord : Becomes(r, q) /\ Moves(r, q)
<1> DEFINE p == req[r]
<1>1. /\ p \in ReqRecord /\ Fits(p, tick) /\ Reads(p, log) /\ tick \in Nat /\ Len(log) \in Nat
      /\ p.stage = "carry" /\ p.stage \in Telling
      /\ UNCHANGED <<place, people, held, log, tick, holder, crossed>>
  BY OpenRequest DEF CarryHistory, At, Telling
<1>2. Dated(p) <=> p.op # "unassign" /\ p.who # Skipped
  BY <1>1 DEF Dated, Telling
<1>3. CASE log = <<>>
  <2>1. req' = [req EXCEPT ![r].base = 0, ![r].stage = "standing"]
    BY <1>3 DEF CarryHistory
  <2>2. "standing" \in Stages
    BY DEF Stages
  <2>3. PICK q \in ReqRecord : Turn(r, q) /\ Same(p, q, "standing", p.state, p.at, p.seen, 0, p.misread)
    BY <1>1, <2>1, <2>2, WritesBaseStage DEF ReqRecord
  <2>4. /\ q.op = p.op /\ q.who = p.who /\ q.board = p.board /\ q.col = p.col /\ q.base = 0
        /\ q.stage = "standing" /\ q.at = p.at
    BY <2>3 DEF Same
  <2>5. /\ q.stage \in Telling /\ Reads(q, log) /\ (Dated(q) => q.at \in 1..tick)
    BY <1>1, <1>2, <2>4 DEF Telling, Reads, Dated, Fits
  <2>6. QED
    BY <1>1, <2>3, <2>4, <2>5, Tellings
<1>4. CASE log # <<>>
  <2> DEFINE n == Len(log)
             s == log[Latest(DOMAIN log)].state
             stage == Undated(r)
  <2>1. req' = [req EXCEPT ![r].state = s, ![r].base = n, ![r].stage = stage]
    BY <1>4 DEF CarryHistory
  <2>2. n \in Nat /\ s \in ClockState /\ stage \in Stages /\ s = CarriedIn(log, p.seen)
    BY <1>1, <1>4, ClockTyped, UndatedIs, InTermsOfTheLog DEF Stages, CarriedIn
  <2>3. stage \in {"tell", "stamp"} /\ (stage = "tell" <=> p.who # Skipped /\ p.op # "unassign")
    BY UndatedIs
  <2> HIDE DEF n, s, stage
  <2>4. PICK q \in ReqRecord : Turn(r, q) /\ Same(p, q, stage, s, p.at, p.seen, n, p.misread)
    BY <1>1, <2>1, <2>2, WritesStateBaseStage DEF ReqRecord
  <2>5. /\ q.op = p.op /\ q.who = p.who /\ q.board = p.board /\ q.col = p.col /\ q.base = n
        /\ q.stage = stage /\ q.at = p.at /\ q.state = s /\ q.seen = p.seen
    BY <2>4 DEF Same
  <2>6. q.stage \in Telling /\ (Dated(q) => q.at \in 1..tick)
    BY <1>1, <1>2, <2>3, <2>5 DEF Telling, Dated, Fits
  <2>7. Reads(q, log)
    BY <2>2, <2>3, <2>5 DEF Reads, n
  <2>8. QED
    BY <1>1, <2>3, <2>4, <2>5, <2>6, <2>7, Tellings
<1>5. QED
  BY <1>3, <1>4

LEMMA CarryPlacementShape ==
  ASSUME Typed, ReadsHold, NEW r \in Request, CarryPlacement(r)
  PROVE  \E q \in ReqRecord : Becomes(r, q) /\ Moves(r, q)
<1> DEFINE p == req[r]
           s == ClockOfPlacement
           stage == Undated(r)
<1>1. /\ p \in ReqRecord /\ Fits(p, tick) /\ Reads(p, log) /\ tick \in Nat /\ Len(log) \in Nat
      /\ p.stage = "standing" /\ p.stage \in Telling /\ p.base = 0
      /\ UNCHANGED <<place, people, held, log, tick, holder, crossed>>
      /\ place \in Seen /\ Timed(log, tick)
  BY OpenRequest DEF CarryPlacement, At, Telling, Fits, StoreTyped, Seen
<1>2. Dated(p) <=> p.op # "unassign" /\ p.who # Skipped
  BY <1>1 DEF Dated, Telling
<1>3. req' = [req EXCEPT ![r].state = s, ![r].seen = place, ![r].stage = stage]
  BY DEF CarryPlacement
<1>4. s \in ClockState /\ stage \in Stages /\ s = StandingIn(place)
  BY ClockTyped, UndatedIs, InTermsOfTheLog DEF Stages
<1>5. stage \in {"tell", "stamp"} /\ (stage = "tell" <=> p.who # Skipped /\ p.op # "unassign")
  BY UndatedIs
<1> HIDE DEF s, stage
<1>6. PICK q \in ReqRecord : Turn(r, q) /\ Same(p, q, stage, s, p.at, place, p.base, p.misread)
  BY <1>1, <1>3, <1>4, WritesStateSeenStage DEF ReqRecord
<1>7. /\ q.op = p.op /\ q.who = p.who /\ q.board = p.board /\ q.col = p.col /\ q.base = 0
      /\ q.stage = stage /\ q.at = p.at /\ q.state = s /\ q.seen = place
  BY <1>1, <1>6 DEF Same
<1>8. q.stage \in Telling /\ (Dated(q) => q.at \in 1..tick)
  BY <1>1, <1>2, <1>5, <1>7 DEF Telling, Dated, Fits
<1>9. Reads(q, log)
  <2>1. Len(log) = 0 => log = <<>>
    BY <1>1 DEF Timed
  <2>2. QED
    BY <1>1, <1>4, <1>5, <1>7, <2>1 DEF Reads, CarriedIn
<1>10. QED
  BY <1>1, <1>5, <1>6, <1>7, <1>8, <1>9, Tellings

LEMMA StampShape ==
  ASSUME Typed, ReadsHold, NEW r \in Request, Stamp(r)
  PROVE  \E q \in ReqRecord : Becomes(r, q) /\ Moves(r, q)
<1> DEFINE p == req[r]
           at == tick + 1
           stage == IF p.stage = "log" THEN "insert" ELSE "tell"
<1>1. /\ p \in ReqRecord /\ Fits(p, tick) /\ Reads(p, log) /\ tick \in Nat /\ Len(log) \in Nat
      /\ p.stage \in {"log", "stamp"} /\ tick' = at
      /\ UNCHANGED <<place, people, held, log, holder, crossed>>
      /\ place' \in [Board -> Column \cup {NoColumn}]
      /\ req' = [req EXCEPT ![r].at = at, ![r].stage = stage]
      /\ \A i \in DOMAIN log : log[i].at < at
  BY OpenRequest DEF Stamp, StoreTyped
<1>2. /\ at \in Nat /\ at \in 1..at /\ tick <= at /\ stage \in Stages /\ stage \in {"insert", "tell"}
      /\ stage = "insert" <=> p.stage = "log"
  BY <1>1 DEF Stages
<1> HIDE DEF at, stage
<1>3. PICK q \in ReqRecord : Turn(r, q) /\ Same(p, q, stage, p.state, at, p.seen, p.base, p.misread)
  BY <1>1, <1>2, WritesAtStage DEF ReqRecord
<1>4. /\ q.op = p.op /\ q.who = p.who /\ q.board = p.board /\ q.col = p.col /\ q.base = p.base
      /\ q.stage = stage /\ q.at = at /\ q.state = p.state /\ q.seen = p.seen
      /\ q.misread = p.misread
  BY <1>3 DEF Same
<1>5. Reads(q, log)
  BY <1>1, <1>2, <1>4 DEF Reads, Unsaying
<1>6. CASE p.stage = "stamp"
  BY <1>1, <1>2, <1>3, <1>4, <1>5, <1>6, Tellings DEF Telling
<1>7. CASE p.stage = "log"
  <2>1. /\ IsActive(p) /\ IsActive(q) /\ p.stage \notin Telling /\ q.stage \notin Telling
        /\ ~Claiming(q) /\ ~Filling(q) /\ (Pending(p) <=> Pending(q)) /\ q.stage = "insert"
    BY <1>2, <1>4, <1>7 DEF IsActive, Telling, Claiming, Filling, Pending
  <2>2. Fits(q, at)
    BY <1>1, <1>2, <1>4, <1>7, <2>1 DEF Fits
  <2>3. Becomes(r, q) /\ Moves(r, q)
    BY <1>1, <1>2, <1>3, <1>4, <1>5, <2>1, <2>2, GoesOn
  <2>4. QED
    BY <2>3
<1>8. QED
  BY <1>1, <1>6, <1>7

LEMMA AbandonShape ==
  ASSUME Typed, ReadsHold, NEW r \in Request, Abandon(r)
  PROVE  \E q \in ReqRecord : Becomes(r, q) /\ Moves(r, q)
<1> DEFINE p == req[r]
           q == IF Untold(r) THEN Sent(p.op, "failed", CardWide, NoColumn, p.who)
                ELSE Sent("none", "failed", CardWide, NoColumn, Nobody)
<1>1. /\ p \in ReqRecord /\ Fits(p, tick) /\ tick \in Nat /\ Len(log) \in Nat
      /\ UNCHANGED <<place, people, held, log, tick, holder, crossed>>
      /\ place' \in [Board -> Column \cup {NoColumn}]
      /\ Turn(r, q) /\ IsActive(p)
  BY OpenRequest DEF Abandon, StoreTyped, Turn, Active, IsActive
<1>2. Untold(r) <=> p.stage \in Telling /\ p.who \in Principal
  BY DEF Untold, Telling
<1>3. /\ q \in ReqRecord /\ q.stage = "failed" /\ q.board = CardWide /\ q.col = NoColumn /\ q.base = 0
      /\ q.op = IF Untold(r) THEN p.op ELSE "none"
      /\ q.who = IF Untold(r) THEN p.who ELSE Nobody
  BY <1>1 DEF Sent, ReqRecord, ClockState, Seen, Stages
<1> HIDE DEF q
<1>4. Untold(r) => p.op \in {"attach", "assign", "claim", "unassign"}
  BY <1>1, <1>2 DEF Fits
<1>5. ~IsActive(q) /\ ~Dated(q) /\ ~Claiming(q) /\ ~Filling(q) /\ ~Pending(q) /\ q.stage \notin Telling
  BY <1>3 DEF IsActive, Dated, Claiming, Filling, Pending, Telling
<1>6. Fits(q, tick)
  BY <1>2, <1>3, <1>4, <1>5 DEF Fits
<1>7. Reads(q, log)
  BY <1>1, <1>3 DEF Reads
<1>8. ASSUME NEW x \in Principal
      PROVE  (Adds(q, x) <=> Adds(p, x)) /\ (Removes(q, x) <=> Removes(p, x))
  <2>1. CASE Untold(r)
    BY <1>2, <1>3, <2>1 DEF Adds, Removes
  <2>2. CASE ~Untold(r)
    BY <1>1, <1>2, <1>3, <2>2 DEF Adds, Removes, IsActive
  <2>3. QED
    BY <2>1, <2>2
<1>9. Moves(r, q)
  BY <1>1, <1>3, <1>5, <1>8 DEF Moves, Continues
<1>10. Becomes(r, q)
  BY <1>1, <1>6, <1>7 DEF Becomes
<1>11. QED
  BY <1>3, <1>9, <1>10

\* Somebody is put on the card, or was already there and the request ends.
LEMMA InsertShape ==
  ASSUME Typed, ReadsHold, NEW r \in Request, NEW by \in {"person", "owner", "arrival"}, NEW at \in Nat,
         InsertPerson(r, by, at), tick' \in Nat, tick <= tick', at \in 1..tick',
         UNCHANGED <<place, held, log, holder, crossed>>,
         req[r].stage \in {"people", "fill"}, req[r].op \in Choosing,
         by = "arrival" <=> req[r].stage = "fill",
         by = "owner" => Claiming(req[r]) /\ people = req[r].seen
  PROVE  \E q \in ReqRecord : Becomes(r, q) /\ (Moves(r, q) \/ Inserts(r, q, by))
<1> DEFINE p == req[r]
<1>1. /\ p \in ReqRecord /\ Fits(p, tick) /\ Reads(p, log) /\ tick \in Nat /\ Len(log) \in Nat
      /\ place' \in [Board -> Column \cup {NoColumn}]
      /\ Close(r) => Turn(r, Blank)
  BY OpenRequest DEF StoreTyped
<1>2. /\ IsActive(p) /\ p.stage \notin Telling /\ ~Pending(p) /\ p.who \in Principal
      /\ p.op \in {"attach", "assign", "claim"}
  BY <1>1 DEF IsActive, Telling, Pending, Fits, Choosing
<1>3. CASE On(p.who)
  <2>1. Close(r) /\ UNCHANGED people
    BY <1>3 DEF InsertPerson
  <2>2. Becomes(r, Blank)
    BY <1>1, <2>1, BlankIs DEF Becomes
  <2>3. /\ ~Claiming(Blank) /\ ~Pending(Blank) /\ ~Filling(Blank)
        /\ \A x \in Principal : ~Adds(Blank, x) /\ ~Removes(Blank, x)
    BY BlankIs DEF Claiming, Pending, Filling, Adds, Removes, Telling, Holding
  <2>4. \A x \in Principal : ~Adds(p, x) /\ ~Removes(p, x)
    BY <1>2 DEF Adds, Removes, IsActive
  <2>5. Moves(r, Blank)
    BY <1>1, <1>2, <2>1, <2>3, <2>4, BlankIs DEF Moves, Continues
  <2>6. QED
    BY <2>2, <2>5, BlankIs
<1>4. CASE ~On(p.who)
  <2>1. /\ people' = [people EXCEPT ![p.who] = [by |-> by, at |-> at, w |-> {r}]]
        /\ req' = [req EXCEPT ![r].stage = "carry", ![r].at = at]
    BY <1>4 DEF InsertPerson
  <2>2. "carry" \in Stages
    BY DEF Stages
  <2>3. PICK q \in ReqRecord : Turn(r, q) /\ Same(p, q, "carry", p.state, at, p.seen, p.base, p.misread)
    BY <1>1, <2>1, <2>2, WritesStageAt DEF ReqRecord
  <2>4. /\ q.op = p.op /\ q.who = p.who /\ q.board = p.board /\ q.col = p.col /\ q.base = p.base
        /\ q.stage = "carry" /\ q.at = at
    BY <2>3 DEF Same
  <2>5. Fits(q, tick')
    <3>1. p.op = "attach" => p.col \in Column /\ p.board = BoardOf[p.col]
      BY <1>1 DEF Fits
    <3>2. p.who # Nobody
      BY <1>2, TimelineAssumption
    <3>3. QED
      BY <1>2, <2>4, <3>1, <3>2 DEF Fits, Telling
  <2>6. Reads(q, log)
    BY <1>1, <2>4 DEF Reads
  <2>7. Becomes(r, q)
    BY <2>3, <2>5, <2>6 DEF Becomes
  <2>8. Inserts(r, q, by)
    BY <1>2, <1>4, <2>1, <2>4 DEF Inserts, Continues
  <2>9. QED
    BY <2>7, <2>8
<1>5. QED
  BY <1>3, <1>4

LEMMA PeopleShape ==
  ASSUME Typed, ReadsHold, NEW r \in Request, Assign(r) \/ Claim(r) \/ FillBlank(r)
  PROVE  \E q \in ReqRecord :
           Becomes(r, q) /\ (Moves(r, q) \/ \E by \in {"person", "owner", "arrival"} : Inserts(r, q, by))
<1> DEFINE p == req[r]
<1>1. /\ Fits(p, tick) /\ tick \in Nat /\ tick + 1 \in Nat /\ tick + 1 \in 1..(tick + 1)
      /\ p \in ReqRecord /\ tick <= tick + 1 /\ tick <= tick
  BY OpenRequest
<1>2. CASE Assign(r)
  <2>1. /\ p.stage = "people" /\ p.op = "assign" /\ InsertPerson(r, "person", p.at)
        /\ UNCHANGED <<place, held, log, tick, holder, crossed>>
    BY <1>2 DEF Assign, At
  <2>2. p.at \in 1..tick /\ p.at \in Nat
    BY <1>1, <2>1 DEF Fits, Dated
  <2>3. \E q \in ReqRecord : Becomes(r, q) /\ (Moves(r, q) \/ Inserts(r, q, "person"))
    BY <1>1, <2>1, <2>2, InsertShape DEF Choosing
  <2>4. QED
    BY <2>3
<1>3. CASE FillBlank(r)
  <2>1. /\ p.stage = "fill" /\ p.op = "attach" /\ InsertPerson(r, "arrival", p.at)
        /\ UNCHANGED <<place, held, log, tick, holder, crossed>>
    BY <1>1, <1>3 DEF FillBlank, At, Fits
  <2>2. p.at \in 1..tick /\ p.at \in Nat
    BY <1>1, <2>1 DEF Fits, Dated
  <2>3. \E q \in ReqRecord : Becomes(r, q) /\ (Moves(r, q) \/ Inserts(r, q, "arrival"))
    BY <1>1, <2>1, <2>2, InsertShape DEF Choosing
  <2>4. QED
    BY <2>3
<1>4. CASE Claim(r) /\ people # p.seen
  <2>1. /\ p.stage = "people" /\ p.op = "claim" /\ Close(r)
        /\ UNCHANGED <<place, people, held, log, tick, holder, crossed>>
    BY <1>4 DEF Claim, At
  <2>2. IsActive(p) /\ p.stage \notin Telling /\ ~Pending(p)
    BY <2>1 DEF IsActive, Telling, Pending
  <2>3. QED
    BY <2>1, <2>2, EndMoves, BlankIs
<1>5. CASE Claim(r) /\ people = p.seen
  <2>1. /\ p.stage = "people" /\ p.op = "claim" /\ InsertPerson(r, "owner", tick + 1)
        /\ tick' = tick + 1 /\ UNCHANGED <<place, held, log, holder, crossed>>
    BY <1>5 DEF Claim, At
  <2>2. \E q \in ReqRecord : Becomes(r, q) /\ (Moves(r, q) \/ Inserts(r, q, "owner"))
    BY <1>1, <1>5, <2>1, InsertShape DEF Choosing, Claiming
  <2>3. QED
    BY <2>2
<1>6. QED
  BY <1>2, <1>3, <1>4, <1>5

LEMMA UnassignShape ==
  ASSUME Typed, ReadsHold, NEW r \in Request, Unassign(r)
  PROVE  \E q \in ReqRecord : Becomes(r, q) /\ (Moves(r, q) \/ TakesOff(r, q))
<1> DEFINE p == req[r]
<1>1. /\ p \in ReqRecord /\ Fits(p, tick) /\ Reads(p, log) /\ tick \in Nat /\ Len(log) \in Nat
      /\ p.stage = "people" /\ p.op = "unassign"
      /\ UNCHANGED <<place, held, log, tick, holder, crossed>>
  BY OpenRequest DEF Unassign, At
<1>2. IsActive(p) /\ p.stage \notin Telling /\ ~Pending(p) /\ p.who \in Principal
  BY <1>1 DEF IsActive, Telling, Pending, Fits
<1>3. CASE ~On(p.who)
  <2>1. Close(r) /\ UNCHANGED people
    BY <1>3 DEF Unassign
  <2>2. QED
    BY <1>1, <1>2, <2>1, EndMoves, BlankIs
<1>4. CASE On(p.who)
  <2>1. people' = [people EXCEPT ![p.who] = Off] /\ Goto(r, "carry")
    BY <1>4 DEF Unassign
  <2>2. "carry" \in Stages
    BY DEF Stages
  <2>3. PICK q \in ReqRecord : Turn(r, q) /\ Same(p, q, "carry", p.state, p.at, p.seen, p.base, p.misread)
    BY <1>1, <2>1, <2>2, WritesStage DEF ReqRecord
  <2>4. /\ q.op = p.op /\ q.who = p.who /\ q.board = p.board /\ q.col = p.col /\ q.base = p.base
        /\ q.stage = "carry"
    BY <2>3 DEF Same
  <2>5. Fits(q, tick) /\ Reads(q, log)
    <3>1. p.who # Nobody /\ ~Dated(q)
      BY <1>1, <1>2, <2>4, TimelineAssumption DEF Dated
    <3>2. QED
      BY <1>1, <1>2, <2>4, <3>1 DEF Fits, Telling, Reads
  <2>6. Becomes(r, q) /\ TakesOff(r, q)
    BY <1>1, <1>2, <1>4, <2>1, <2>3, <2>4, <2>5 DEF Becomes, TakesOff, Continues
  <2>7. QED
    BY <2>6
<1>5. QED
  BY <1>3, <1>4

LEMMA WriteItemShape ==
  ASSUME Typed, ReadsHold, NEW r \in Request, WriteItem(r)
  PROVE  \E q \in ReqRecord : Becomes(r, q) /\ Holds(r, q)
<1> DEFINE p == req[r]
           s == ItemClock(p.op)
<1>1. /\ p \in ReqRecord /\ Fits(p, tick) /\ Reads(p, log) /\ tick \in Nat /\ Len(log) \in Nat
      /\ p.stage = "item" /\ UNCHANGED <<place, people, log, tick, crossed>>
      /\ req' = [req EXCEPT ![r].state = s, ![r].stage = "log"]
      /\ held' = CASE p.op = "hold" -> TRUE [] p.op = "unhold" -> FALSE [] OTHER -> held
      /\ holder' = IF p.op \in Holding THEN {r} ELSE holder
  BY OpenRequest DEF WriteItem, At
<1>2. p.op \in {"hold", "unhold", "complete"} /\ p.board = CardWide
  BY <1>1 DEF Fits
<1>3. s \in ClockState /\ "log" \in Stages
  BY <1>2 DEF ItemClock, ClockState, Stages
<1> HIDE DEF s
<1>4. PICK q \in ReqRecord : Turn(r, q) /\ Same(p, q, "log", s, p.at, p.seen, p.base, p.misread)
  BY <1>1, <1>3, WritesStateStage DEF ReqRecord
<1>5. /\ q.op = p.op /\ q.who = p.who /\ q.board = p.board /\ q.col = p.col /\ q.base = p.base
      /\ q.stage = "log" /\ q.state = s
  BY <1>4 DEF Same
<1>6. ~Dated(q)
  BY <1>5 DEF Dated, Telling
<1>7. Fits(q, tick)
  BY <1>1, <1>2, <1>5, <1>6 DEF Fits, Telling
<1>8. Reads(q, log)
  BY <1>1, <1>2, <1>5 DEF Reads, Unsaying, s
<1>9. Becomes(r, q)
  BY <1>1, <1>4, <1>7, <1>8 DEF Becomes
<1>10. Holds(r, q)
  BY <1>1, <1>5 DEF Holds, Continues, IsActive
<1>11. QED
  BY <1>9, <1>10

LEMMA RecordShape ==
  ASSUME Typed, ReadsHold, NEW r \in Request, Record(r)
  PROVE  \E q \in ReqRecord, e \in Event : Becomes(r, q) /\ Records(r, q, e)
<1> DEFINE p == req[r]
           sure == /\ ~p.misread
                   /\ p.op \in {"attach", "move"} /\ Classified[p.col] = Unset => p.base = Len(log)
           e == [board |-> p.board, kind |-> EventKind(p.op), col |-> p.col, state |-> p.state,
                 who |-> Nobody, at |-> p.at, sound |-> sure]
           q == IF p.op = "attach" THEN Sent("attach", "list", p.board, p.col, p.who) ELSE Blank
<1>1. /\ p \in ReqRecord /\ Fits(p, tick) /\ Reads(p, log) /\ tick \in Nat /\ Len(log) \in Nat
      /\ p.stage = "insert" /\ Turn(r, q) /\ log' = Append(log, e)
      /\ UNCHANGED <<place, people, held, tick, holder, crossed>>
      /\ Timed(log, tick)
  BY OpenRequest DEF Record, At, Turn, StoreTyped
<1>2. /\ p.op \in {"attach", "move", "detach", "hold", "unhold", "complete"}
      /\ p.at \in 1..tick
      /\ p.op \in {"attach", "move"} => p.col \in Column /\ p.board \in Board /\ p.board = BoardOf[p.col]
      /\ p.op = "detach" => p.board \in Board
  BY <1>1, TimelineAssumption DEF Fits, Dated
<1>3. /\ e.board = p.board /\ e.kind = EventKind(p.op) /\ e.col = p.col /\ e.state = p.state
      /\ e.who = Nobody /\ e.at = p.at /\ (e.sound <=> sure)
  OBVIOUS
<1>4. EventKind(p.op) \in {"card_attached", "card_moved", "card_detached", "card_held", "card_unheld",
                           "card_completed"}
  BY <1>2 DEF EventKind
<1>5. e \in Event
  <2>1. sure \in BOOLEAN
    OBVIOUS
  <2>2. p.board \in Board \cup {CardWide} /\ p.col \in Column \cup {NoColumn} /\ p.state \in ClockState
        /\ p.at \in Nat
    BY <1>1 DEF ReqRecord
  <2> HIDE DEF sure
  <2>3. QED
    BY <1>4, <2>1, <2>2 DEF Event
<1>6. /\ q.stage \in {"done", "list"} /\ q \in ReqRecord /\ (IsActive(q) => q.op = p.op)
      /\ q.base = 0 /\ Fits(q, tick) /\ (p.op # "attach" => q.stage = "done")
  <2>1. CASE p.op = "attach"
    <3>1. "list" \in Stages
      BY DEF Stages
    <3>2. p.board \in Board \cup {CardWide} /\ p.col \in Column \cup {NoColumn}
          /\ p.who \in Principal \cup {Nobody, Skipped}
      BY <1>1 DEF ReqRecord
    <3>3. /\ q \in ReqRecord /\ q.op = "attach" /\ q.stage = "list" /\ q.board = p.board
          /\ q.col = p.col /\ q.base = 0
      BY <2>1, <3>1, <3>2, SentIs
    <3> HIDE DEF q
    <3>4. ~Dated(q)
      BY <3>3 DEF Dated, Telling
    <3>5. Fits(q, tick)
      BY <1>2, <2>1, <3>3, <3>4 DEF Fits, Telling
    <3>6. QED
      BY <2>1, <3>3, <3>5
  <2>2. CASE p.op # "attach"
    BY <2>2, BlankIs
  <2>3. QED
    BY <2>1, <2>2
<1> HIDE DEF q
<1>7. Sound(e)
  <2> SUFFICES ASSUME e.sound PROVE Sound(e)
    BY DEF Sound
  <2>1. ~p.misread /\ (p.op \in {"attach", "move"} /\ Classified[p.col] = Unset => p.base = Len(log))
    BY <1>3
  <2> HIDE DEF e
  <2>2. CASE p.op \in {"attach", "move"}
    <3>1. e.kind \in {"card_attached", "card_moved"}
      BY <1>3, <2>2 DEF EventKind
    <3>2. CASE Classified[p.col] # Unset
      <4>1. Decides(e) /\ Means(e) = Classified[p.col]
        BY <1>3, <3>1, <3>2 DEF Decides, Means
      <4>2. p.state = Classified[p.col]
        BY <1>1, <2>1, <2>2, <3>2 DEF Reads
      <4>3. QED
        BY <1>3, <4>1, <4>2 DEF Sound
    <3>3. CASE Classified[p.col] = Unset
      <4>1. ~Decides(e)
        BY <1>3, <3>1, <3>3 DEF Decides
      <4>2. p.state = LastClockIn(log, p.board)
        BY <1>1, <2>1, <2>2, <3>3 DEF Reads, Unsaying
      <4>3. QED
        BY <1>2, <1>3, <2>2, <3>1, <4>1, <4>2 DEF Sound
    <3>4. QED
      BY <3>2, <3>3
  <2>3. CASE p.op = "detach"
    <3>1. e.kind = "card_detached" /\ p.state = "stopped"
      BY <1>1, <1>3, <2>3 DEF EventKind, Reads
    <3>2. QED
      BY <1>3, <3>1 DEF Sound, Decides, Means
  <2>4. CASE p.op \in {"hold", "unhold", "complete"}
    <3>1. p.state = ItemClock(p.op)
      BY <1>1, <2>4 DEF Reads
    <3>2. Decides(e) /\ Means(e) = ItemClock(p.op)
      BY <1>3, <2>4 DEF Decides, Means, EventKind, ItemClock
    <3>3. QED
      BY <1>3, <3>1, <3>2 DEF Sound
  <2>5. QED
    BY <1>2, <2>2, <2>3, <2>4
<1> HIDE DEF e
<1>8. Reads(q, log')
  <2>1. Len(log') = Len(log) + 1
    BY <1>1, <1>5, Appending
  <2>2. QED
    BY <1>1, <1>6, <2>1 DEF Reads
<1>9. Becomes(r, q)
  BY <1>1, <1>6, <1>8 DEF Becomes
<1>10. ASSUME NEW x \in Principal
       PROVE  /\ Adds(p, x) <=> e.kind = "assigned" /\ e.who = x
              /\ Removes(p, x) <=> e.kind = "unassigned" /\ e.who = x
  BY <1>1, <1>3, <1>4 DEF Adds, Removes, Telling
<1>11. /\ e.kind \in {"card_held", "card_unheld"} => Pending(p)
       /\ Pending(p) => e.kind = IF p.op = "hold" THEN "card_held" ELSE "card_unheld"
  BY <1>1, <1>2, <1>3 DEF EventKind, Pending, Holding
<1>12. Pending(p) => q.stage = "done"
  BY <1>6 DEF Pending, Holding
<1>13. Records(r, q, e)
  BY <1>1, <1>2, <1>3, <1>5, <1>6, <1>7, <1>10, <1>11, <1>12 DEF Records, Continues, IsActive
<1>14. QED
  BY <1>5, <1>6, <1>9, <1>13

LEMMA RecordPeopleShape ==
  ASSUME Typed, ReadsHold, NEW r \in Request, RecordPeople(r)
  PROVE  \E q \in ReqRecord, e \in Event : Becomes(r, q) /\ Records(r, q, e)
<1> DEFINE p == req[r]
           sure == p.base = Len(log) /\ (log = <<>> => p.seen = place)
           e == [board |-> IF p.who = Skipped THEN p.board ELSE CardWide, kind |-> PeopleKind(r),
                 col |-> NoColumn, state |-> p.state,
                 who |-> IF p.who = Skipped THEN Nobody ELSE p.who, at |-> p.at, sound |-> sure]
<1>1. /\ p \in ReqRecord /\ Fits(p, tick) /\ Reads(p, log) /\ tick \in Nat /\ Len(log) \in Nat
      /\ p.stage = "tell" /\ Turn(r, Blank) /\ log' = Append(log, e)
      /\ UNCHANGED <<place, people, held, tick, holder, crossed>>
      /\ Timed(log, tick)
  BY OpenRequest DEF RecordPeople, At, StoreTyped
<1>2. /\ p.op \in {"attach", "assign", "claim", "unassign"} /\ p.who \in Principal \cup {Skipped}
      /\ p.op = "unassign" => p.who \in Principal
      /\ p.at \in 1..tick
  BY <1>1 DEF Fits, Dated, Telling, ReqRecord
<1>3. /\ e.board = IF p.who = Skipped THEN p.board ELSE CardWide
      /\ e.kind = PeopleKind(r) /\ e.col = NoColumn /\ e.state = p.state
      /\ e.who = IF p.who = Skipped THEN Nobody ELSE p.who
      /\ e.at = p.at /\ (e.sound <=> sure)
  OBVIOUS
<1>4. PeopleKind(r) \in {"assigned", "unassigned", "assignment_skipped"}
  BY DEF PeopleKind
<1>5. e \in Event
  <2>1. sure \in BOOLEAN
    OBVIOUS
  <2>2. p.board \in Board \cup {CardWide} /\ p.state \in ClockState /\ p.at \in Nat
        /\ (p.who # Skipped => p.who \in Principal)
    BY <1>1, <1>2 DEF ReqRecord
  <2> HIDE DEF sure
  <2>3. QED
    BY <1>4, <2>1, <2>2 DEF Event
<1>6. Sound(e)
  <2> SUFFICES ASSUME e.sound PROVE Sound(e)
    BY DEF Sound
  <2>1. p.base = Len(log) /\ (log = <<>> => p.seen = place)
    BY <1>3
  <2>2. p.state = CarriedIn(log, p.seen)
    BY <1>1, <2>1 DEF Reads
  <2>3. p.state = CarriedIn(log, place)
    BY <2>1, <2>2 DEF CarriedIn
  <2> HIDE DEF e
  <2>4. QED
    BY <1>3, <1>4, <2>3 DEF Sound
<1> HIDE DEF e
<1>7. Becomes(r, Blank)
  <2>1. Len(log') = Len(log) + 1
    BY <1>1, <1>5, Appending
  <2>2. QED
    BY <1>1, <2>1, BlankIs DEF Becomes
<1>8. ASSUME NEW x \in Principal
      PROVE  /\ Adds(p, x) <=> e.kind = "assigned" /\ e.who = x
             /\ Removes(p, x) <=> e.kind = "unassigned" /\ e.who = x
  <2>1. x # Skipped /\ x # Nobody
    BY TimelineAssumption
  <2>2. CASE p.who = Skipped
    BY <1>1, <1>2, <1>3, <2>1, <2>2 DEF Adds, Removes
  <2>3. CASE p.who # Skipped
    <3>1. e.kind = IF p.op = "unassign" THEN "unassigned" ELSE "assigned"
      BY <1>3, <2>3 DEF PeopleKind
    <3>2. QED
      BY <1>1, <1>2, <1>3, <2>3, <3>1 DEF Adds, Removes, Telling
  <2>4. QED
    BY <2>2, <2>3
<1>9. ~Pending(p) /\ e.kind \notin {"card_held", "card_unheld"} /\ IsActive(p)
  BY <1>1, <1>3, <1>4 DEF Pending, IsActive
<1>10. Records(r, Blank, e)
  BY <1>1, <1>2, <1>3, <1>5, <1>6, <1>8, <1>9, BlankIs DEF Records, Continues
<1>11. QED
  BY <1>5, <1>7, <1>10, BlankIs

\* Every step of the handlers and of their clients has a shape.
LEMMA NextShape ==
  ASSUME Typed, ReadsHold, Next
  PROVE  UNCHANGED vars \/ \E r \in Request, q \in ReqRecord : Becomes(r, q) /\ Shape(r, q)
<1>1. CASE Idle
  BY <1>1 DEF Idle
<1>2. ASSUME NEW r \in Request,
             BeginAttach(r) \/ BeginMove(r) \/ BeginDetach(r) \/ BeginHold(r) \/ BeginAssign(r)
               \/ BeginClaim(r)
      PROVE  \E q \in ReqRecord : Becomes(r, q) /\ Shape(r, q)
  BY <1>2, BeginShape DEF Shape
<1>3. ASSUME NEW r \in Request,
             WritePlacement(r) \/ RereadPlacement(r) \/ ReadClockForColumn(r) \/ DateRow(r)
               \/ ListPeople(r) \/ CarryHistory(r) \/ CarryPlacement(r) \/ Stamp(r) \/ Abandon(r)
      PROVE  \E q \in ReqRecord : Becomes(r, q) /\ Shape(r, q)
  BY <1>3, WritePlacementShape, RereadShape, ReadClockShape, DateRowShape, ListShape,
     CarryHistoryShape, CarryPlacementShape, StampShape, AbandonShape DEF Shape
<1>4. ASSUME NEW r \in Request,
             WriteItem(r) \/ Assign(r) \/ Claim(r) \/ FillBlank(r) \/ Unassign(r)
      PROVE  \E q \in ReqRecord : Becomes(r, q) /\ Shape(r, q)
  BY <1>4, WriteItemShape, PeopleShape, UnassignShape DEF Shape
<1>5. ASSUME NEW r \in Request, Record(r) \/ RecordPeople(r)
      PROVE  \E q \in ReqRecord : Becomes(r, q) /\ Shape(r, q)
  BY <1>5, RecordShape, RecordPeopleShape DEF Shape
<1>6. QED
  BY <1>1, <1>2, <1>3, <1>4, <1>5 DEF Next

-----------------------------------------------------------------------------
(* The types, and what requests have read *)

LEMMA Others ==
  ASSUME Typed, NEW r \in Request, NEW q \in ReqRecord, Turn(r, q)
  PROVE  /\ req' \in [Request -> ReqRecord] /\ req'[r] = q
         /\ \A s \in Request \ {r} : req'[s] = req[s]
BY DEF Typed, Turn

\* Events that have occurred by a time have occurred by a later one.
LEMMA StillTimed ==
  ASSUME NEW l, NEW t, NEW u \in Nat, Timed(l, t), t <= u
  PROVE  Timed(l, u)
<1>1. \A i \in DOMAIN l : l[i].at \in 1..u
  BY DEF Timed
<1>2. QED
  BY <1>1 DEF Timed

LEMMA TimedAppend ==
  ASSUME NEW l, NEW t, Timed(l, t), NEW e \in Event, e.at \in 1..t
  PROVE  Timed(Append(l, e), t)
<1> DEFINE m == Append(l, e)
<1>1. /\ m \in Seq(Event) /\ DOMAIN m = 1..(Len(l) + 1) /\ DOMAIN l = 1..Len(l) /\ Len(l) \in Nat
      /\ m[Len(l) + 1] = e /\ \A i \in DOMAIN l : m[i] = l[i]
  BY Appending
<1> HIDE DEF m
<1>2. \A i \in DOMAIN m : i \in DOMAIN l \/ i = Len(l) + 1
  BY <1>1
<1>3. \A i \in DOMAIN m : m[i].at \in 1..t
  BY <1>1, <1>2 DEF Timed
<1>4. Timed(m, t)
  BY <1>1, <1>3 DEF Timed
<1>5. QED
  BY <1>4 DEF m

LEMMA StoreKept ==
  ASSUME Typed, NEW r \in Request, NEW q \in ReqRecord, Becomes(r, q), Shape(r, q)
  PROVE  StoreTyped'
<1>1. /\ place \in [Board -> Column \cup {NoColumn}] /\ people \in [Principal -> Row]
      /\ held \in BOOLEAN /\ Timed(log, tick) /\ holder \subseteq Request
      /\ crossed \in SUBSET SUBSET Request
      /\ tick' \in Nat /\ tick <= tick' /\ Timed(log, tick')
  BY StillTimed DEF Typed, StoreTyped, Becomes
<1>2. CASE Sends(r, q)
  <2>1. {{s, r} : s \in {s \in Active : Alike(q.op, req[s].op)}} \in SUBSET SUBSET Request
    BY DEF Active
  <2>2. QED
    BY <1>1, <1>2, <2>1 DEF Sends, StoreTyped
<1>3. CASE Moves(r, q)
  BY <1>1, <1>3 DEF Moves, Continues, StoreTyped
<1>4. CASE Holds(r, q)
  <2>1. held' \in BOOLEAN /\ holder' \subseteq Request
    BY <1>1, <1>4 DEF Holds
  <2>2. QED
    BY <1>1, <1>4, <2>1 DEF Holds, Continues, StoreTyped
<1>5. ASSUME NEW by \in {"person", "owner", "arrival"}, Inserts(r, q, by) PROVE StoreTyped'
  <2>1. PICK at \in Nat :
          people' = [people EXCEPT ![req[r].who] = [by |-> by, at |-> at, w |-> {r}]]
    BY <1>5 DEF Inserts
  <2>2. [by |-> by, at |-> at, w |-> {r}] \in Row
    BY DEF Row
  <2>3. people' \in [Principal -> Row]
    BY <1>1, <2>1, <2>2
  <2>4. QED
    BY <1>1, <1>5, <2>3 DEF Inserts, Continues, StoreTyped
<1>6. CASE TakesOff(r, q)
  <2>1. Off \in Row
    BY DEF Off, Row
  <2>2. people' \in [Principal -> Row]
    BY <1>1, <1>6, <2>1 DEF TakesOff
  <2>3. QED
    BY <1>1, <1>6, <2>2 DEF TakesOff, Continues, StoreTyped
<1>7. ASSUME NEW e \in Event, Records(r, q, e) PROVE StoreTyped'
  <2>1. Timed(log', tick')
    BY <1>1, <1>7, TimedAppend DEF Records
  <2>2. QED
    BY <1>1, <1>7, <2>1 DEF Records, Continues, StoreTyped
<1>8. QED
  BY <1>2, <1>3, <1>4, <1>5, <1>6, <1>7 DEF Shape

\* What the log does in a step.
LEMMA LogGrows ==
  ASSUME Typed, NEW r \in Request, NEW q \in ReqRecord, Shape(r, q)
  PROVE  log' = log \/ (Len(log) \in Nat /\ Len(log') = Len(log) + 1)
<1>1. ASSUME NEW e \in Event, Records(r, q, e)
      PROVE  Len(log) \in Nat /\ Len(log') = Len(log) + 1
  BY <1>1, Appending DEF Records, Typed, StoreTyped
<1>2. QED
  BY <1>1 DEF Shape, Sends, Moves, Holds, Inserts, TakesOff

\* What was read stays true of the log as it was, and says nothing of a longer one.
LEMMA ReadsStay ==
  ASSUME NEW q, NEW l, NEW m, Reads(q, l), Len(l) \in Nat, Len(m) = Len(l) + 1
  PROVE  Reads(q, m)
BY DEF Reads

LEMMA TypedKept ==
  ASSUME Typed, ReadsHold, NEW r \in Request, NEW q \in ReqRecord, Becomes(r, q), Shape(r, q)
  PROVE  Typed' /\ ReadsHold'
<1>1. /\ req' \in [Request -> ReqRecord] /\ req'[r] = q
      /\ \A s \in Request \ {r} : req'[s] = req[s]
      /\ tick \in Nat /\ tick' \in Nat /\ tick <= tick' /\ Fits(q, tick') /\ Reads(q, log')
  BY Others, OpenRequest DEF Becomes
<1>2. ASSUME NEW s \in Request PROVE Fits(req'[s], tick')
  <2>1. CASE s = r
    BY <1>1, <2>1
  <2>2. CASE s # r
    <3>1. Fits(req[s], tick) /\ req'[s] = req[s]
      BY <1>1, <2>2 DEF Typed
    <3>2. req[s].at \in 1..tick => req[s].at \in 1..tick'
      BY <1>1
    <3>3. Fits(req[s], tick')
      BY <3>1, <3>2 DEF Fits
    <3>4. QED
      BY <3>1, <3>3
  <2>3. QED
    BY <2>1, <2>2
<1>3. ASSUME NEW s \in Request PROVE Reads(req'[s], log')
  <2>1. CASE s = r
    BY <1>1, <2>1
  <2>2. CASE s # r
    <3>1. Reads(req[s], log) /\ req'[s] = req[s]
      BY <1>1, <2>2 DEF ReadsHold
    <3>2. QED
      BY <3>1, LogGrows, ReadsStay
  <2>3. QED
    BY <2>1, <2>2
<1>4. QED
  BY <1>1, <1>2, <1>3, StoreKept DEF Typed, ReadsHold

LEMMA InitTyped == Init => Typed /\ ReadsHold
<1> SUFFICES ASSUME Init PROVE Typed /\ ReadsHold
  OBVIOUS
<1>1. log = <<>> /\ tick = 0 /\ Len(log) = 0 /\ DOMAIN log = {}
  BY DEF Init
<1>2. Timed(log, tick)
  BY <1>1 DEF Timed
<1>3. people \in [Principal -> Row]
  BY DEF Init, Off, Row
<1>4. StoreTyped
  BY <1>2, <1>3 DEF Init, StoreTyped
<1>5. req = [r \in Request |-> Fresh]
  BY DEF Init
<1>6. QED
  BY <1>1, <1>4, <1>5, BlankIs DEF Typed, ReadsHold

LEMMA NextTyped == Typed /\ ReadsHold /\ [Next]_vars => Typed' /\ ReadsHold'
<1> SUFFICES ASSUME Typed, ReadsHold, [Next]_vars PROVE Typed' /\ ReadsHold'
  OBVIOUS
<1>1. CASE UNCHANGED vars
  <2>1. UNCHANGED <<place, people, held, log, tick, req, holder, crossed>>
    BY <1>1 DEF vars
  <2>2. StoreTyped'
    BY <2>1 DEF Typed, StoreTyped
  <2>3. QED
    BY <2>1, <2>2 DEF Typed, ReadsHold
<1>2. CASE Next
  BY <1>1, <1>2, NextShape, TypedKept
<1>3. QED
  BY <1>1, <1>2

LEMMA TypeFromTyped == Typed => TypeOK
<1> SUFFICES ASSUME Typed PROVE TypeOK
  OBVIOUS
<1>1. \A p \in Principal : people[p].by \in {"none", "person", "owner", "arrival"}
  BY DEF Typed, StoreTyped, Row
<1>2. log \in Seq(Event) /\ \A i \in DOMAIN log : log[i].at \in 1..tick
  BY DEF Typed, StoreTyped, Timed
<1>3. ASSUME NEW r \in Request, req[r].who = Nobody
      PROVE  req[r].op \notin {"assign", "claim", "unassign"}
  BY <1>3, TimelineAssumption DEF Typed, Fits
<1>4. QED
  BY <1>1, <1>2, <1>3 DEF TypeOK, Typed, StoreTyped

\* Rows, events and requests are of their types throughout, and an event is dated no
\* later than the clock (the tables of db/db.go, the time of db/activity.go).
THEOREM TypeCorrect == Spec => []TypeOK
<1>1. QED
  BY InitTyped, NextTyped, TypeFromTyped, PTL DEF Spec

-----------------------------------------------------------------------------
(* Who is on the card *)

\* A claim under way was sent by somebody who found nobody on the card.
ClaimsSawNobody ==
  \A r \in Request : Claiming(req[r]) => \A p \in Principal : req[r].seen[p] = Off

OwnersAgree ==
  \A p, q \in Principal : people[p].by = "owner" /\ people[q].by = "owner" => p = q

\* Requests about one thing that are open at once are known as such.
Pairs ==
  \A r, s \in Request :
    r # s /\ IsActive(req[r]) /\ IsActive(req[s]) /\ Alike(req[r].op, req[s].op) =>
      {r, s} \in crossed

\* Whoever is there when an arrival goes to put its default on the card came by a
\* request that was open beside it.
Fills ==
  \A r \in Request :
    Filling(req[r]) => \A p \in Principal : people[p] # Off => people[p].w \cup {r} \in crossed

People == ClaimsSawNobody /\ OwnersAgree /\ Pairs /\ Fills

\* The pairs only grow, and all steps but the sending of a request leave them alone.
LEMMA PairsGrow ==
  ASSUME NEW r \in Request, NEW q, Shape(r, q)
  PROVE  crossed \subseteq crossed' /\ (crossed' = crossed \/ Sends(r, q))
BY DEF Shape, Sends, Moves, Holds, Inserts, TakesOff, Records, Continues

LEMMA PairsKept ==
  ASSUME Typed, Pairs, NEW r \in Request, NEW q \in ReqRecord, Becomes(r, q), Shape(r, q)
  PROVE  Pairs'
<1>1. /\ req'[r] = q /\ \A s \in Request \ {r} : req'[s] = req[s]
  BY Others DEF Becomes
<1>2. CASE Sends(r, q)
  <2>1. ASSUME NEW s \in Request, s # r, IsActive(req[s]), Alike(q.op, req[s].op)
        PROVE  {s, r} \in crossed'
    BY <1>2, <2>1 DEF Sends, Active, IsActive
  <2>2. crossed \subseteq crossed'
    BY <1>2 DEF Sends
  <2>3. \A s \in Request : {s, r} = {r, s} /\ (Alike(q.op, req[s].op) <=> Alike(req[s].op, q.op))
    BY DEF Alike
  <2>4. QED
    BY <1>1, <2>1, <2>2, <2>3 DEF Pairs
<1>3. CASE Continues(r, q)
  BY <1>1, <1>3 DEF Pairs, Continues
<1>4. QED
  BY <1>2, <1>3 DEF Shape, Moves, Holds, Inserts, TakesOff, Records

\* Who a row was written for, when one is.
LEMMA NewRow ==
  ASSUME Typed, NEW r, NEW q, NEW by, Inserts(r, q, by)
  PROVE  /\ req[r].who \in Principal /\ people[req[r].who] = Off
         /\ people'[req[r].who].by = by /\ people'[req[r].who].w = {r}
         /\ \A x \in Principal \ {req[r].who} : people'[x] = people[x]
<1>1. people \in [Principal -> Row] /\ req[r].who \in Principal /\ people[req[r].who] = Off
  BY DEF Typed, StoreTyped, Inserts, On
<1>2. PICK at \in Nat :
        people' = [people EXCEPT ![req[r].who] = [by |-> by, at |-> at, w |-> {r}]]
  BY DEF Inserts
<1>3. QED
  BY <1>1, <1>2

LEMMA RowGone ==
  ASSUME Typed, NEW r, NEW q, TakesOff(r, q)
  PROVE  /\ req[r].who \in Principal /\ people[req[r].who] # Off /\ people'[req[r].who] = Off
         /\ \A x \in Principal \ {req[r].who} : people'[x] = people[x]
BY DEF TakesOff, Typed, StoreTyped, On

LEMMA PeopleKept ==
  ASSUME Typed, People, NEW r \in Request, NEW q \in ReqRecord, Becomes(r, q), Shape(r, q)
  PROVE  People'
<1>1. /\ req'[r] = q /\ \A s \in Request \ {r} : req'[s] = req[s]
      /\ crossed \subseteq crossed' /\ Pairs'
  BY Others, PairsGrow, PairsKept DEF Becomes, People
<1>2. CASE Sends(r, q)
  <2>1. people' = people /\ ~Filling(q) /\ (Claiming(q) => \A p \in Principal : q.seen[p] = Off)
    BY <1>2 DEF Sends
  <2>2. ClaimsSawNobody' /\ OwnersAgree' /\ Fills'
    BY <1>1, <2>1 DEF People, ClaimsSawNobody, OwnersAgree, Fills
  <2>3. QED
    BY <1>1, <2>2 DEF People
<1>3. CASE Moves(r, q)
  <2>1. /\ people' = people /\ ~Claiming(q)
        /\ Filling(q) => Filling(req[r]) \/ \A p \in Principal : people[p] = Off
    BY <1>3 DEF Moves, On
  <2>2. ClaimsSawNobody' /\ OwnersAgree' /\ Fills'
    BY <1>1, <2>1 DEF People, ClaimsSawNobody, OwnersAgree, Fills
  <2>3. QED
    BY <1>1, <2>2 DEF People
<1>4. CASE Holds(r, q) \/ \E e \in Event : Records(r, q, e)
  <2>1. people' = people /\ ~Claiming(q) /\ ~Filling(q)
    BY <1>4 DEF Holds, Records, Claiming, Filling
  <2>2. ClaimsSawNobody' /\ OwnersAgree' /\ Fills'
    BY <1>1, <2>1 DEF People, ClaimsSawNobody, OwnersAgree, Fills
  <2>3. QED
    BY <1>1, <2>2 DEF People
<1>5. ASSUME NEW by \in {"person", "owner", "arrival"}, Inserts(r, q, by) PROVE People'
  <2> DEFINE p == req[r].who
  <2>1. /\ p \in Principal /\ people[p] = Off /\ people'[p].by = by /\ people'[p].w = {r}
        /\ \A x \in Principal \ {p} : people'[x] = people[x]
    BY <1>5, NewRow
  <2>2. ~Claiming(q) /\ ~Filling(q) /\ crossed' = crossed
    BY <1>5 DEF Inserts, Claiming, Filling, Continues
  <2>3. ClaimsSawNobody'
    BY <1>1, <2>2 DEF People, ClaimsSawNobody
  <2>4. by = "owner" => \A x \in Principal : people[x] = Off
    BY <1>5 DEF Inserts, People, ClaimsSawNobody
  <2>5. OwnersAgree'
    BY <2>1, <2>4 DEF People, OwnersAgree, Off
  <2>6. ASSUME NEW s \in Request, Filling(req'[s]), NEW x \in Principal, people'[x] # Off
        PROVE  people'[x].w \cup {s} \in crossed'
    <3>1. s # r /\ req'[s] = req[s] /\ Filling(req[s])
      BY <1>1, <2>2, <2>6
    <3>2. CASE x # p
      BY <2>1, <2>2, <2>6, <3>1, <3>2 DEF People, Fills
    <3>3. CASE x = p
      <4>1. IsActive(req[r]) /\ req[r].op \in Choosing
        BY <1>5 DEF Inserts, Continues
      <4>2. IsActive(req[s]) /\ req[s].op \in Choosing
        BY <3>1 DEF Filling, IsActive, Choosing
      <4>3. Alike(req[r].op, req[s].op)
        BY <4>1, <4>2 DEF Alike
      <4>4. {r, s} \in crossed
        BY <3>1, <4>1, <4>2, <4>3 DEF People, Pairs
      <4>5. people'[x].w \cup {s} = {r, s}
        BY <2>1, <3>3
      <4>6. QED
        BY <2>2, <4>4, <4>5
    <3>4. QED
      BY <3>2, <3>3
  <2>7. QED
    BY <1>1, <2>3, <2>5, <2>6 DEF People, Fills
<1>6. CASE TakesOff(r, q)
  <2> DEFINE p == req[r].who
  <2>1. /\ p \in Principal /\ people'[p] = Off
        /\ \A x \in Principal \ {p} : people'[x] = people[x]
    BY <1>6, RowGone
  <2>2. ~Claiming(q) /\ ~Filling(q)
    BY <1>6 DEF TakesOff, Claiming, Filling
  <2>3. ClaimsSawNobody' /\ OwnersAgree' /\ Fills'
    BY <1>1, <2>1, <2>2 DEF People, ClaimsSawNobody, OwnersAgree, Fills, Off
  <2>4. QED
    BY <1>1, <2>3 DEF People
<1>7. QED
  BY <1>2, <1>3, <1>4, <1>5, <1>6 DEF Shape

LEMMA InitPeople == Init => People
<1> SUFFICES ASSUME Init PROVE People
  OBVIOUS
<1>1. \A r \in Request : ~IsActive(req[r]) /\ ~Claiming(req[r]) /\ ~Filling(req[r])
  BY BlankIs DEF Init, Claiming, Filling
<1>2. \A p \in Principal : people[p] = Off
  BY DEF Init
<1>3. QED
  BY <1>1, <1>2 DEF People, ClaimsSawNobody, OwnersAgree, Pairs, Fills, Off

LEMMA NextPeople == Typed /\ ReadsHold /\ People /\ [Next]_vars => People'
<1> SUFFICES ASSUME Typed, ReadsHold, People, [Next]_vars PROVE People'
  OBVIOUS
<1>1. CASE UNCHANGED vars
  BY <1>1 DEF vars, People, ClaimsSawNobody, OwnersAgree, Pairs, Fills
<1>2. CASE Next
  BY <1>1, <1>2, NextShape, PeopleKept
<1>3. QED
  BY <1>1, <1>2

LEMMA OneOwnerFromPeople == People => OneAutomaticOwner
<1> SUFFICES ASSUME People PROVE OneAutomaticOwner
  OBVIOUS
<1> DEFINE owners == {p \in Principal : people[p].by = "owner"}
<1>1. CASE owners = {}
  BY <1>1, FS_EmptySet DEF OneAutomaticOwner
<1>2. CASE owners # {}
  <2>1. PICK p \in owners : owners = {p}
    BY <1>2 DEF People, OwnersAgree
  <2>2. Cardinality(owners) = 1
    BY <2>1, FS_Singleton
  <2>3. QED
    BY <2>2 DEF OneAutomaticOwner
<1>3. QED
  BY <1>1, <1>2

\* Owners that claim a free card with If-Match never end up on it together, however
\* many clients race and whichever of their requests fail: db/assignment_version.go
\* compares and inserts in one transaction.
THEOREM OneOwner == Spec => []OneAutomaticOwner
<1>1. QED
  BY InitTyped, NextTyped, InitPeople, NextPeople, OneOwnerFromPeople, PTL DEF Spec

LEMMA DefaultStep ==
  ASSUME Typed, ReadsHold, People, [Next]_vars
  PROVE  \A p \in Principal :
           ~On(p) /\ people'[p].by = "arrival" =>
             \A q \in Principal : On(q) => people[q].w \cup people'[p].w \in crossed
<1> SUFFICES ASSUME NEW p \in Principal, people[p] = Off, people'[p].by = "arrival",
                    NEW x \in Principal, people[x] # Off
             PROVE  people[x].w \cup people'[p].w \in crossed
  BY DEF On
<1>1. people' # people
  BY DEF Off
<1>2. PICK r \in Request, q \in ReqRecord : Becomes(r, q) /\ Shape(r, q)
  BY <1>1, NextShape DEF vars
<1>3. CASE TakesOff(r, q)
  BY <1>3, RowGone DEF Off
<1>4. ASSUME NEW by \in {"person", "owner", "arrival"}, Inserts(r, q, by)
      PROVE  people[x].w \cup people'[p].w \in crossed
  <2>1. p = req[r].who /\ by = "arrival" /\ people'[p].w = {r}
    BY <1>4, NewRow DEF Off
  <2>2. req[r].stage = "fill"
    BY <1>4, <2>1 DEF Inserts
  <2>3. Filling(req[r])
    BY <2>2 DEF Filling, Typed, Fits
  <2>4. QED
    BY <2>1, <2>3 DEF People, Fills
<1>5. QED
  BY <1>1, <1>2, <1>3, <1>4 DEF Shape, Sends, Moves, Holds, Records

\* A default fills a blank (api/board_settings.go, applyAssigneeOnArrival): whoever is
\* on the card already when an arrival adds its default came by a request that was open
\* beside the arrival, between the look at the card and the row.
THEOREM DefaultFills == Spec => DefaultFillsBlank
<1>1. ASSUME Typed, ReadsHold, People, [Next]_vars
      PROVE  \A p \in Principal :
               ~On(p) /\ people'[p].by = "arrival" =>
                 \A q \in Principal : On(q) => people[q].w \cup people'[p].w \in crossed
  BY <1>1, DefaultStep
<1>2. QED
  BY <1>1, InitTyped, NextTyped, InitPeople, NextPeople, PTL DEF Spec, DefaultFillsBlank

-----------------------------------------------------------------------------
(* The hold, and what the timeline says of it *)

HoldTold(l) == HoldingIn(l) # {} /\ l[LatestIn(l, HoldingIn(l))].kind = "card_held"

LEMMA HoldUnmoved ==
  ASSUME NEW l, NEW t, Timed(l, t), NEW e \in Event, e.kind \notin {"card_held", "card_unheld"}
  PROVE  /\ HoldTold(Append(l, e)) <=> HoldTold(l)
         /\ HoldingIn(Append(l, e)) = HoldingIn(l)
         /\ \A i \in HoldingIn(l) : Append(l, e)[i] = l[i]
<1> DEFINE m == Append(l, e)
<1>1. /\ DOMAIN m = 1..(Len(l) + 1) /\ m[Len(l) + 1] = e /\ \A i \in DOMAIN l : m[i] = l[i]
      /\ DOMAIN l = 1..Len(l) /\ Len(l) \in Nat
  BY Appending
<1>2. HoldingIn(m) = HoldingIn(l)
  <2>1. \A i \in DOMAIN m : i \in DOMAIN l \/ i = Len(l) + 1
    BY <1>1
  <2>2. DOMAIN l \subseteq DOMAIN m
    BY <1>1
  <2> HIDE DEF m
  <2>3. QED
    BY <1>1, <2>1, <2>2 DEF HoldingIn
<1>3. HoldingIn(l) \in SUBSET DOMAIN l
  BY DEF HoldingIn
<1>4. HoldingIn(l) # {} => LatestIn(m, HoldingIn(l)) = LatestIn(l, HoldingIn(l))
                           /\ LatestIn(l, HoldingIn(l)) \in DOMAIN l
  BY <1>3, LatestStays, LatestKnown
<1> HIDE DEF m
<1>5. HoldTold(m) <=> HoldTold(l)
  BY <1>1, <1>2, <1>4 DEF HoldTold
<1>6. \A i \in HoldingIn(l) : m[i] = l[i]
  BY <1>1, <1>3
<1>7. QED
  BY <1>2, <1>5, <1>6 DEF m

LEMMA HoldMoved ==
  ASSUME NEW l, NEW t, Timed(l, t), NEW e \in Event, e.kind \in {"card_held", "card_unheld"},
         \A i \in HoldingIn(l) : l[i].at <= e.at
  PROVE  HoldingIn(Append(l, e)) # {} /\ (HoldTold(Append(l, e)) <=> e.kind = "card_held")
<1> DEFINE m == Append(l, e)
           n == Len(l) + 1
           S == HoldingIn(l)
<1>1. /\ DOMAIN m = 1..n /\ m[n] = e /\ n \in DOMAIN m /\ \A i \in DOMAIN l : m[i] = l[i]
      /\ DOMAIN l \subseteq DOMAIN m /\ \A i \in DOMAIN m : i \in DOMAIN l \/ i = n
  BY Appending
<1>2. S \in SUBSET DOMAIN l
  BY DEF HoldingIn
<1>3. LatestIn(m, S \cup {n}) = n
  BY <1>2, LatestOfTwo
<1> HIDE DEF m, n
<1>4. HoldingIn(m) = S \cup {n}
  BY <1>1 DEF HoldingIn
<1>5. HoldTold(m) <=> e.kind = "card_held"
  BY <1>1, <1>3, <1>4 DEF HoldTold
<1>6. QED
  BY <1>4, <1>5 DEF m

Uncrossed(w) == \A pair \in crossed : w \notin pair

\* A hold that was written with no other open beside it is about to be recorded after
\* all that are, or is the last recorded, or its request broke off.
HoldFollowed(w) ==
  /\ Pending(req[w]) \/ req[w].stage \in {"done", "failed"}
  /\ Pending(req[w]) =>
       /\ held <=> req[w].op = "hold"
       /\ req[w].stage = "insert" => \A i \in HoldingIn(log) : log[i].at < req[w].at
  /\ req[w].stage = "done" => HoldingIn(log) # {} /\ (held <=> HoldTold(log))
  /\ \A r \in Request \ {w} : ~Pending(req[r])

HoldsFollowed == \A w \in holder : Uncrossed(w) => HoldFollowed(w)

LEMMA HoldsKept ==
  ASSUME Typed, People, HoldsFollowed, NEW r \in Request, NEW q \in ReqRecord, Becomes(r, q),
         Shape(r, q)
  PROVE  HoldsFollowed'
<1>1. /\ req'[r] = q /\ \A s \in Request \ {r} : req'[s] = req[s]
      /\ crossed \subseteq crossed' /\ holder \subseteq Request
      /\ Timed(log, tick) /\ \A w : Uncrossed(w)' => Uncrossed(w)
  BY Others, PairsGrow DEF Becomes, Typed, StoreTyped, Uncrossed
\* A hold of another request, or of one that only goes on, stays as it was.
<1>2. ASSUME NEW w \in holder, Uncrossed(w)', UNCHANGED <<held, log>>,
             Pending(q) => Pending(req[r]),
             w = r => \/ q.stage = "failed"
                      \/ Pending(q) /\ q.op = req[r].op /\ \A i \in DOMAIN log : log[i].at < q.at
      PROVE  HoldFollowed(w)'
  <2>1. HoldFollowed(w) /\ w \in Request
    BY <1>1, <1>2 DEF HoldsFollowed
  <2>2. HoldingIn(log) \subseteq DOMAIN log
    BY DEF HoldingIn
  <2>3. \A s \in Request \ {w} : ~Pending(req'[s])
    BY <1>1, <1>2, <2>1 DEF HoldFollowed
  <2>4. CASE w # r
    <3>1. req'[w] = req[w]
      BY <1>1, <2>1, <2>4
    <3>2. QED
      BY <1>2, <2>1, <2>3, <3>1 DEF HoldFollowed
  <2>5. CASE w = r /\ q.stage = "failed"
    BY <1>1, <2>3, <2>5 DEF HoldFollowed, Pending
  <2>6. CASE w = r /\ Pending(q) /\ q.op = req[r].op /\ \A i \in DOMAIN log : log[i].at < q.at
    <3>1. Pending(req[w]) /\ (held <=> q.op = "hold") /\ q.stage # "done"
      BY <1>2, <2>1, <2>6 DEF HoldFollowed, Pending
    <3>2. QED
      BY <1>1, <1>2, <2>2, <2>3, <2>6, <3>1 DEF HoldFollowed
  <2>7. QED
    BY <1>2, <2>4, <2>5, <2>6
<1>3. CASE Sends(r, q)
  <2>1. UNCHANGED <<held, log, holder>> /\ ~Pending(q) /\ req[r].stage = "new"
    BY <1>3 DEF Sends, Pending
  <2>2. ASSUME NEW w \in holder, Uncrossed(w)' PROVE w # r
    BY <1>1, <2>1, <2>2 DEF HoldsFollowed, HoldFollowed, Pending
  <2>3. QED
    BY <1>2, <2>1, <2>2 DEF HoldsFollowed
<1>4. CASE Moves(r, q)
  <2>1. /\ UNCHANGED <<held, log, holder>> /\ (Pending(q) => Pending(req[r])) /\ IsActive(req[r])
        /\ Pending(req[r]) =>
             \/ q.stage = "failed"
             \/ q.stage = "insert" /\ q.op = req[r].op /\ \A i \in DOMAIN log : log[i].at < q.at
    BY <1>4 DEF Moves, Continues
  <2>2. ASSUME NEW w \in holder, Uncrossed(w)', w = r
        PROVE  \/ q.stage = "failed"
               \/ Pending(q) /\ q.op = req[r].op /\ \A i \in DOMAIN log : log[i].at < q.at
    <3>1. HoldFollowed(r)
      BY <1>1, <2>2 DEF HoldsFollowed
    <3>2. Pending(req[r])
      BY <2>1, <3>1 DEF HoldFollowed, IsActive
    <3>3. QED
      BY <2>1, <3>2 DEF Pending
  <2>3. QED
    BY <1>2, <2>1, <2>2 DEF HoldsFollowed
<1>5. CASE \/ \E by \in {"person", "owner", "arrival"} : Inserts(r, q, by)
           \/ TakesOff(r, q)
  <2>1. /\ UNCHANGED <<held, log, holder>> /\ ~Pending(q) /\ ~Pending(req[r])
        /\ req[r].stage \notin {"done", "failed"}
    BY <1>5 DEF Inserts, TakesOff, Pending
  <2>2. ASSUME NEW w \in holder, Uncrossed(w)' PROVE w # r
    BY <1>1, <2>1, <2>2 DEF HoldsFollowed, HoldFollowed
  <2>3. QED
    BY <1>2, <2>1, <2>2 DEF HoldsFollowed
<1>6. CASE Holds(r, q) /\ q.op \notin Holding
  <2>1. /\ UNCHANGED log /\ holder' = holder /\ ~Pending(q) /\ ~Pending(req[r]) /\ req[r].stage = "item"
    BY <1>6 DEF Holds, Pending
  <2>2. held' = held
    BY <1>6 DEF Holds, Holding
  <2>3. ASSUME NEW w \in holder, Uncrossed(w)' PROVE w # r
    BY <1>1, <2>1, <2>3 DEF HoldsFollowed, HoldFollowed
  <2>4. QED
    BY <1>2, <2>1, <2>2, <2>3 DEF HoldsFollowed
<1>7. CASE Holds(r, q) /\ q.op \in Holding
  <2>1. /\ holder' = {r} /\ q.stage = "log" /\ q.op = req[r].op /\ IsActive(req[r])
        /\ log' = log /\ req[r].op \in Holding
    BY <1>7 DEF Holds, Continues
  <2>2. held' <=> q.op = "hold"
    BY <1>7 DEF Holds, Holding
  <2>3. ASSUME Uncrossed(r)', NEW s \in Request \ {r} PROVE ~Pending(req'[s])
    <3> SUFFICES ASSUME Pending(req[s]) PROVE FALSE
      BY <1>1
    <3>1. IsActive(req[s]) /\ Alike(req[r].op, req[s].op)
      BY <2>1 DEF Pending, IsActive, Alike
    <3>2. {r, s} \in crossed
      BY <2>1, <3>1 DEF People, Pairs
    <3>3. QED
      BY <1>1, <2>3, <3>2 DEF Uncrossed
  <2>4. Pending(q) /\ q.stage # "insert" /\ q.stage # "done"
    BY <1>7, <2>1 DEF Pending
  <2>5. Uncrossed(r)' => HoldFollowed(r)'
    BY <1>1, <2>2, <2>3, <2>4 DEF HoldFollowed
  <2>6. QED
    BY <2>1, <2>5 DEF HoldsFollowed
<1>8. ASSUME NEW e \in Event, Records(r, q, e) PROVE HoldsFollowed'
  <2>1. /\ UNCHANGED <<held, holder>> /\ log' = Append(log, e) /\ q.stage \in {"done", "list"}
        /\ IsActive(req[r])
        /\ e.kind \in {"card_held", "card_unheld"} => Pending(req[r])
        /\ Pending(req[r]) =>
             /\ req[r].stage = "insert" /\ q.stage = "done" /\ e.at = req[r].at
             /\ e.kind = IF req[r].op = "hold" THEN "card_held" ELSE "card_unheld"
    BY <1>8 DEF Records, Continues
  <2>2. ASSUME NEW w \in holder, Uncrossed(w)' PROVE HoldFollowed(w)'
    <3>1. HoldFollowed(w) /\ w \in Request
      BY <1>1, <2>2 DEF HoldsFollowed
    <3>2. ~Pending(q) /\ \A s \in Request \ {w} : ~Pending(req'[s])
      BY <1>1, <2>1, <3>1 DEF HoldFollowed, Pending
    <3>3. CASE w = r
      <4>1. Pending(req[r])
        BY <2>1, <3>1, <3>3 DEF HoldFollowed, IsActive
      <4>2. /\ e.kind \in {"card_held", "card_unheld"} /\ e.at = req[r].at
            /\ \A i \in HoldingIn(log) : log[i].at < req[r].at
            /\ held <=> req[r].op = "hold"
            /\ e.kind = "card_held" <=> req[r].op = "hold"
        BY <2>1, <3>1, <3>3, <4>1 DEF HoldFollowed
      <4>3. \A i \in HoldingIn(log) : log[i].at <= e.at
        <5>1. e.at \in Nat /\ \A i \in HoldingIn(log) : log[i].at \in Nat
          BY <1>1 DEF Event, HoldingIn, Timed
        <5>2. QED
          BY <4>2, <5>1
      <4>4. HoldingIn(log') # {} /\ (HoldTold(log') <=> e.kind = "card_held")
        BY <1>1, <2>1, <4>2, <4>3, HoldMoved
      <4>5. QED
        BY <1>1, <2>1, <3>2, <3>3, <4>1, <4>2, <4>4 DEF HoldFollowed
    <3>4. CASE w # r
      <4>1. req'[w] = req[w] /\ ~Pending(req[r])
        BY <1>1, <3>1, <3>4 DEF HoldFollowed
      <4>2. e.kind \notin {"card_held", "card_unheld"}
        BY <2>1, <4>1
      <4>3. /\ HoldTold(log') <=> HoldTold(log)
            /\ HoldingIn(log') = HoldingIn(log)
            /\ \A i \in HoldingIn(log) : log'[i] = log[i]
        BY <1>1, <2>1, <4>2, HoldUnmoved
      <4>4. QED
        BY <2>1, <3>1, <3>2, <4>1, <4>3 DEF HoldFollowed
    <3>5. QED
      BY <3>3, <3>4
  <2>3. QED
    BY <2>1, <2>2 DEF HoldsFollowed
<1>9. QED
  BY <1>3, <1>4, <1>5, <1>6, <1>7, <1>8 DEF Shape

LEMMA NextHolds == Typed /\ ReadsHold /\ People /\ HoldsFollowed /\ [Next]_vars => HoldsFollowed'
<1> SUFFICES ASSUME Typed, ReadsHold, People, HoldsFollowed, [Next]_vars PROVE HoldsFollowed'
  OBVIOUS
<1>1. CASE UNCHANGED vars
  BY <1>1 DEF vars, HoldsFollowed, HoldFollowed, Uncrossed
<1>2. CASE Next
  BY <1>1, <1>2, NextShape, HoldsKept
<1>3. QED
  BY <1>1, <1>2

LEMMA HoldFromFollowed == HoldsFollowed => HoldIsTold
<1> SUFFICES ASSUME HoldsFollowed, NEW w \in holder, req[w].stage = "done",
                    \A pair \in crossed : w \notin pair
             PROVE  HoldsIn # {} /\ (held <=> log[Latest(HoldsIn)].kind = "card_held")
  BY DEF HoldIsTold
<1>1. HoldFollowed(w)
  BY DEF HoldsFollowed, Uncrossed
<1>2. HoldingIn(log) # {} /\ (held <=> HoldTold(log))
  BY <1>1 DEF HoldFollowed
<1>3. HoldsIn = HoldingIn(log) /\ Latest(HoldingIn(log)) = LatestIn(log, HoldingIn(log))
  BY InTermsOfTheLog
<1>4. QED
  BY <1>2, <1>3 DEF HoldTold

\* The item's hold is written in noteboard and told of by an event after it
\* (api/api.go, PUT /hold): the last one that was carried through with no other open
\* beside it is the last the timeline tells of, whatever broke off before.
THEOREM HoldTell == Spec => []HoldIsTold
<1>1. Init => HoldsFollowed
  BY DEF Init, HoldsFollowed
<1>2. QED
  BY <1>1, InitTyped, NextTyped, InitPeople, NextPeople, NextHolds, HoldFromFollowed, PTL DEF Spec

-----------------------------------------------------------------------------
(* The clock of a card that is on one board *)

OneBoard == \A b, c \in Board : b = c

TurnsIn(l, b) == {i \in HistoryIn(l, b) : Decides(l[i]) \/ ~l[i].sound}

\* The clock is what the last event that decides it means.
Follows(l, b) ==
  LET k == LatestIn(l, TurnsIn(l, b)) IN
    TurnsIn(l, b) # {} /\ l[k].sound /\ (\A j \in 1..(k - 1) : ~(l[j].at > l[k].at)) =>
      l[LatestIn(l, HistoryIn(l, b))].state = Means(l[k])

LEMMA LatestOfAll ==
  ASSUME NEW l, NEW t, Timed(l, t), NEW e \in Event
  PROVE  LET n == Len(l) + 1
             m == Append(l, e)
             S == DOMAIN l
         IN /\ (\A i \in S : l[i].at <= e.at) => LatestIn(m, S \cup {n}) = n
            /\ S # {} /\ ~(\A i \in S : l[i].at <= e.at) => LatestIn(m, S \cup {n}) = LatestIn(l, S)
BY LatestOfTwo

LEMMA WholeHistory ==
  ASSUME OneBoard, NEW b \in Board, NEW l, NEW t, Timed(l, t)
  PROVE  HistoryIn(l, b) = DOMAIN l
<1>1. \A i \in DOMAIN l : l[i] \in Event
  BY DEF Timed
<1>2. \A i \in DOMAIN l : l[i].board \in {b, CardWide}
  BY <1>1 DEF Event, OneBoard
<1>3. QED
  BY <1>2 DEF HistoryIn

\* An event of a sound state that does not decide carries the clock there is.
LEMMA CarriesOn ==
  ASSUME OneBoard, NEW b \in Board, Timed(log, tick), NEW e \in Event, Sound(e), e.sound,
         ~Decides(e), log # <<>>
  PROVE  e.state = log[LatestIn(log, DOMAIN log)].state
<1>1. HistoryIn(log, b) = DOMAIN log /\ DOMAIN log # {}
  BY WholeHistory DEF Timed
<1>2. CASE e.kind \in {"card_attached", "card_moved"}
  <2>1. e.board = b /\ e.state = LastClockIn(log, b)
    BY <1>2 DEF Sound, OneBoard
  <2>2. QED
    BY <1>1, <2>1 DEF LastClockIn
<1>3. CASE e.kind \notin {"card_attached", "card_moved"}
  BY <1>3 DEF Sound, CarriedIn
<1>4. QED
  BY <1>2, <1>3

LEMMA FollowsOn ==
  ASSUME OneBoard, NEW b \in Board, Timed(log, tick), Follows(log, b), NEW e \in Event, Sound(e)
  PROVE  Follows(Append(log, e), b)
<1> DEFINE n == Len(log) + 1
           m == Append(log, e)
           S == DOMAIN log
           T == TurnsIn(log, b)
           turns == Decides(e) \/ ~e.sound
<1>1. /\ m \in Seq(Event) /\ DOMAIN m = 1..n /\ S = 1..Len(log) /\ n \in Nat /\ Len(log) \in Nat
      /\ m[n] = e /\ (\A i \in S : m[i] = log[i]) /\ n \notin S /\ DOMAIN m = S \cup {n}
  BY Appending
<1>2. HistoryIn(log, b) = S
  BY WholeHistory
<1>3. HistoryIn(m, b) = S \cup {n}
  <2>1. n \in HistoryIn(m, b)
    BY <1>1 DEF HistoryIn, Event, OneBoard
  <2>2. \A i \in S : i \in HistoryIn(m, b)
    BY <1>1, <1>2 DEF HistoryIn
  <2>3. HistoryIn(m, b) \subseteq S \cup {n}
    BY <1>1 DEF HistoryIn
  <2>4. QED
    BY <2>1, <2>2, <2>3
<1>4. T \in SUBSET S /\ n \notin T
  BY <1>1, <1>2 DEF TurnsIn
<1>5. TurnsIn(m, b) = IF turns THEN T \cup {n} ELSE T
  <2> HIDE DEF m, n, S
  <2>1. QED
    BY <1>1, <1>2, <1>3 DEF TurnsIn
<1>6. e.at \in Nat /\ \A i \in S : log[i].at \in Nat
  BY DEF Timed, Event
\* The latest of all the events and of those that turn the clock, before and after.
<1>7. /\ (\A i \in S : log[i].at <= e.at) => LatestIn(m, S \cup {n}) = n
      /\ S # {} /\ ~(\A i \in S : log[i].at <= e.at) => LatestIn(m, S \cup {n}) = LatestIn(log, S)
  BY LatestOfAll
<1>8. /\ (\A i \in T : log[i].at <= e.at) => LatestIn(m, T \cup {n}) = n
      /\ T # {} /\ ~(\A i \in T : log[i].at <= e.at) => LatestIn(m, T \cup {n}) = LatestIn(log, T)
  BY <1>4, LatestOfTwo
<1>9. T # {} => LatestIn(m, T) = LatestIn(log, T) /\ LatestIn(log, T) \in T
  BY <1>4, LatestStays, LatestKnown
<1>10. S # {} => LatestIn(log, S) \in S
  BY LatestKnown
<1>11. T # {} => log # <<>>
  BY <1>4
<1>12. turns /\ e.sound => e.state = Means(e)
  BY DEF Sound, Decides
<1>13. ~turns /\ T # {} => e.state = log[LatestIn(log, S)].state
  BY <1>11, CarriesOn
<1>14. DEFINE k == LatestIn(m, TurnsIn(m, b))
<1> SUFFICES ASSUME TurnsIn(m, b) # {}, m[k].sound, \A j \in 1..(k - 1) : ~(m[j].at > m[k].at)
             PROVE  m[LatestIn(m, S \cup {n})].state = Means(m[k])
  BY <1>3 DEF Follows
<1> HIDE DEF m, n, S, T, turns
<1>15. CASE k = n
  <2>1. turns /\ e.sound
    <3>1. turns
      BY <1>4, <1>5, <1>9, <1>15
    <3>2. QED
      BY <1>1, <1>15, <3>1
  <2>2. \A i \in S : log[i].at <= e.at
    <3>1. ASSUME NEW i \in S PROVE log[i].at <= e.at
      <4>1. i \in 1..(n - 1) /\ m[i] = log[i] /\ m[n] = e
        BY <1>1 DEF n
      <4>2. QED
        BY <1>6, <1>15, <4>1
    <3>2. QED
      BY <3>1
  <2>3. QED
    BY <1>1, <1>7, <1>12, <1>15, <2>1, <2>2
<1>16. CASE k # n
  <2>1. T # {} /\ k = LatestIn(log, T) /\ k \in T /\ k \in S
    <3>1. CASE turns
      <4>1. T # {} /\ ~(\A i \in T : log[i].at <= e.at)
        BY <1>5, <1>8, <1>16, <3>1
      <4>2. QED
        BY <1>4, <1>5, <1>8, <1>9, <3>1, <4>1
    <3>2. CASE ~turns
      BY <1>4, <1>5, <1>9, <3>2
    <3>3. QED
      BY <3>1, <3>2
  <2>2. \A j \in 1..(k - 1) : j \in S /\ m[j] = log[j]
    BY <1>1, <2>1 DEF n
  <2>3. log[LatestIn(log, S)].state = Means(log[k])
    <3>1. log[k].sound /\ \A j \in 1..(k - 1) : ~(log[j].at > log[k].at)
      BY <1>1, <2>1, <2>2
    <3>2. LatestIn(log, TurnsIn(log, b)) = k /\ TurnsIn(log, b) # {}
      BY <2>1 DEF T
    <3>3. QED
      BY <1>2, <3>1, <3>2 DEF Follows
  <2>4. CASE \A i \in S : log[i].at <= e.at
    <3>1. ~turns
      <4>1. \A i \in T : log[i].at <= e.at
        BY <1>4, <2>4
      <4>2. QED
        BY <1>5, <1>8, <1>16, <4>1
    <3>2. QED
      BY <1>1, <1>7, <1>13, <2>1, <2>3, <2>4, <3>1
  <2>5. CASE ~(\A i \in S : log[i].at <= e.at)
    BY <1>1, <1>7, <1>10, <2>1, <2>3, <2>5
  <2>6. QED
    BY <2>4, <2>5
<1>17. QED
  BY <1>15, <1>16

LEMMA FollowsStep ==
  ASSUME OneBoard, Typed, ReadsHold, \A b \in Board : Follows(log, b), [Next]_vars
  PROVE  \A b \in Board : Follows(log', b)
<1>1. CASE log' = log
  BY <1>1
<1>2. CASE log' # log
  <2>1. PICK r \in Request, q \in ReqRecord : Shape(r, q)
    BY <1>2, NextShape DEF vars
  <2>2. PICK e \in Event : Records(r, q, e)
    BY <1>2, <2>1 DEF Shape, Sends, Moves, Holds, Inserts, TakesOff
  <2>3. Sound(e) /\ log' = Append(log, e) /\ Timed(log, tick)
    BY <2>2 DEF Records, Typed, StoreTyped
  <2>4. QED
    BY <2>3, FollowsOn
<1>3. QED
  BY <1>1, <1>2

LEMMA FollowsSays ==
  ASSUME Typed, \A b \in Board : Follows(log, b)
  PROVE  ClockFollowsTheActions
<1> SUFFICES ASSUME NEW b \in Board, Turns(b) # {},
                    log[Latest(Turns(b))].sound, ~Late(Latest(Turns(b)))
             PROVE  Clock(b) = Means(log[Latest(Turns(b))])
  BY DEF ClockFollowsTheActions
<1>1. /\ OnTimeline(b) = HistoryIn(log, b) /\ Turns(b) = TurnsIn(log, b)
      /\ Latest(Turns(b)) = LatestIn(log, TurnsIn(log, b))
      /\ Latest(OnTimeline(b)) = LatestIn(log, HistoryIn(log, b))
  BY InTermsOfTheLog DEF Turns, TurnsIn
<1>2. OnTimeline(b) # {}
  BY DEF Turns
<1>3. QED
  BY <1>1, <1>2 DEF Late, Follows, Clock

\* "Pressing stop parks the work wherever it sits", a classified column decides and the
\* others carry the clock on (api/activity.go): on a card of one board, requests crossing
\* or failing or not, the clock is what the last event that decides it means, up to the
\* next event whose state a failed read or an event in between made up.
THEOREM ClockFollows == OneBoard => (Spec => []ClockFollowsTheActions)
<1> DEFINE Inv == Typed /\ ReadsHold /\ \A b \in Board : Follows(log, b)
<1> SUFFICES ASSUME OneBoard PROVE Spec => []ClockFollowsTheActions
  OBVIOUS
<1>1. Init => Inv
  <2>1. Init => log = <<>>
    BY DEF Init
  <2>2. log = <<>> => \A b \in Board : TurnsIn(log, b) = {}
    BY DEF TurnsIn, HistoryIn
  <2>3. QED
    BY <2>1, <2>2, InitTyped DEF Follows
<1>2. Inv /\ [Next]_vars => Inv'
  BY NextTyped, FollowsStep
<1>3. Inv => ClockFollowsTheActions
  BY FollowsSays
<1>4. QED
  BY <1>1, <1>2, <1>3, PTL DEF Spec

LEMMA AssigningStep ==
  ASSUME OneBoard, Typed, ReadsHold, [Next]_vars,
         Recorded({"assigned", "unassigned", "assignment_skipped"}), log'[Len(log')].sound,
         NEW b \in Board, OnTimeline(b) # {} \/ log = <<>>
  PROVE  Clock(b)' = Clock(b)
<1>0. Timed(log, tick) /\ Len(log) \in Nat
  BY DEF Typed, StoreTyped, Timed
<1>1. log' # log
  BY <1>0 DEF Recorded
<1>2. PICK r \in Request, q \in ReqRecord : Shape(r, q)
  BY <1>1, NextShape DEF vars
<1>3. PICK e \in Event : Records(r, q, e)
  BY <1>1, <1>2 DEF Shape, Sends, Moves, Holds, Inserts, TakesOff
<1> DEFINE n == Len(log) + 1
           S == DOMAIN log
<1>4. /\ log' = Append(log, e) /\ place' = place /\ Sound(e)
  BY <1>3 DEF Records
<1>5. /\ log'[n] = e /\ Len(log') = n /\ DOMAIN log' = 1..n /\ S = 1..Len(log)
      /\ \A i \in S : log'[i] = log[i]
  BY <1>0, <1>4, Appending
<1>6. e.sound /\ e.kind \in {"assigned", "unassigned", "assignment_skipped"}
  BY <1>5 DEF Recorded
<1>7. e.state = CarriedIn(log, place)
  BY <1>4, <1>6 DEF Sound, Decides
<1>8. HistoryIn(log, b) = S /\ HistoryIn(log', b) = S \cup {n}
  <2>1. Timed(log', tick')
    BY NextTyped DEF Typed, StoreTyped
  <2>2. HistoryIn(log', b) = DOMAIN log'
    BY <2>1, WholeHistory
  <2>3. QED
    BY <1>0, <1>5, <2>2, WholeHistory
<1>9. /\ (\A i \in S : log[i].at <= e.at) => LatestIn(log', S \cup {n}) = n
      /\ S # {} /\ ~(\A i \in S : log[i].at <= e.at) => LatestIn(log', S \cup {n}) = LatestIn(log, S)
  BY <1>0, <1>4, LatestOfAll
<1>10. S # {} => LatestIn(log, S) \in S
  BY <1>0, LatestKnown
<1>11. Clock(b) = CarriedIn(log, place)
  <2>1. S = {} <=> log = <<>>
    BY <1>0 DEF Timed
  <2>2. Clock(b) = IF S = {} THEN StandingIn(place) ELSE log[LatestIn(log, S)].state
    BY <1>8, InTermsOfTheLog DEF Clock
  <2>3. QED
    BY <2>1, <2>2 DEF CarriedIn
<1>12. Clock(b)' = log'[LatestIn(log', S \cup {n})].state
  <2>1. OnTimeline(b)' = S \cup {n}
    BY <1>8 DEF OnTimeline, HistoryIn
  <2>2. \A T : Latest(T)' = LatestIn(log', T)
    BY DEF Latest, LatestIn
  <2>3. QED
    BY <2>1, <2>2 DEF Clock
<1>13. CASE \A i \in S : log[i].at <= e.at
  BY <1>5, <1>7, <1>9, <1>11, <1>12, <1>13
<1>14. CASE ~(\A i \in S : log[i].at <= e.at)
  <2>1. S # {} /\ log # <<>>
    BY <1>14
  <2>2. Clock(b)' = log[LatestIn(log, S)].state
    BY <1>5, <1>9, <1>10, <1>12, <1>14, <2>1
  <2>3. QED
    BY <1>11, <2>1, <2>2 DEF CarriedIn
<1>15. QED
  BY <1>13, <1>14

\* Assigning neither starts nor stops the clock where there is one board (api/activity.go,
\* clockStateCarriedForward); on several it may, which the run timeline_two_boards shows.
THEOREM AssigningLeavesTheClock == OneBoard => (Spec => AssigningMovesNoClock)
<1> SUFFICES ASSUME OneBoard PROVE Spec => AssigningMovesNoClock
  OBVIOUS
<1>1. ASSUME Typed, ReadsHold, [Next]_vars
      PROVE  Recorded({"assigned", "unassigned", "assignment_skipped"}) /\ log'[Len(log')].sound =>
               \A b \in Board : OnTimeline(b) # {} \/ log = <<>> => Clock(b)' = Clock(b)
  BY <1>1, AssigningStep
<1>2. QED
  BY <1>1, InitTyped, NextTyped, PTL DEF Spec, AssigningMovesNoClock


-----------------------------------------------------------------------------
(* Each row written or taken off is told of once, or never will be *)

One(x) == IF x THEN 1 ELSE 0


Adders(f, p) == {r \in Request : Adds(f[r], p)}
Removers(f, p) == {r \in Request : Removes(f[r], p)}
EventsIn(l, kind, p) == {i \in DOMAIN l : l[i].kind = kind /\ l[i].who = p}

\* The assignments told of and those yet to be told of are the people on the card and
\* those taken off it.
BalanceOf(p, f, l, rows) ==
  /\ IsFiniteSet(Adders(f, p)) /\ IsFiniteSet(Removers(f, p))
  /\ Cardinality(EventsIn(l, "assigned", p)) + Cardinality(Adders(f, p)) =
       Cardinality(EventsIn(l, "unassigned", p)) + Cardinality(Removers(f, p)) + One(rows[p] # Off)

Balance == \A p \in Principal : BalanceOf(p, req, log, people)

\* A set that may win or lose one member.
LEMMA SetCount ==
  ASSUME NEW S, NEW T, NEW x, IsFiniteSet(S), S \ {x} = T \ {x}
  PROVE  /\ IsFiniteSet(T) /\ Cardinality(S) \in Nat /\ Cardinality(T) \in Nat
         /\ Cardinality(T) + One(x \in S) = Cardinality(S) + One(x \in T)
<1> DEFINE U == S \ {x}
<1>1. /\ IsFiniteSet(U) /\ Cardinality(U) \in Nat /\ Cardinality(S) \in Nat
      /\ Cardinality(U) = IF x \in S THEN Cardinality(S) - 1 ELSE Cardinality(S)
  BY FS_RemoveElement, FS_CardinalityType
<1>2. /\ IsFiniteSet(U \cup {x})
      /\ Cardinality(U \cup {x}) = IF x \in U THEN Cardinality(U) ELSE Cardinality(U) + 1
  BY <1>1, FS_AddElement
<1>3. CASE x \in T
  <2>1. T = U \cup {x} /\ x \notin U
    BY <1>3
  <2> HIDE DEF U
  <2>2. IsFiniteSet(T) /\ Cardinality(T) = Cardinality(U) + 1
    BY <1>2, <2>1
  <2>3. QED
    BY <1>1, <1>3, <2>2 DEF One
<1>4. CASE x \notin T
  <2>1. T = U
    BY <1>4
  <2> HIDE DEF U
  <2>2. IsFiniteSet(T) /\ Cardinality(T) = Cardinality(U)
    BY <1>1, <2>1
  <2>3. QED
    BY <1>1, <1>4, <2>2 DEF One
<1>5. QED
  BY <1>3, <1>4

\* Only the record of r differs, and it is q.
Replaced(f, r, q, g) == g = [f EXCEPT ![r] = q]

LEMMA TellersCount ==
  ASSUME NEW f \in [Request -> ReqRecord], NEW r \in Request, NEW q \in ReqRecord,
         NEW g, Replaced(f, r, q, g), NEW p,
         IsFiniteSet(Adders(f, p)), IsFiniteSet(Removers(f, p))
  PROVE  /\ IsFiniteSet(Adders(g, p)) /\ IsFiniteSet(Removers(g, p))
         /\ Cardinality(Adders(f, p)) \in Nat /\ Cardinality(Adders(g, p)) \in Nat
         /\ Cardinality(Removers(f, p)) \in Nat /\ Cardinality(Removers(g, p)) \in Nat
         /\ Cardinality(Adders(g, p)) + One(Adds(f[r], p)) =
              Cardinality(Adders(f, p)) + One(Adds(q, p))
         /\ Cardinality(Removers(g, p)) + One(Removes(f[r], p)) =
              Cardinality(Removers(f, p)) + One(Removes(q, p))
<1>1. g[r] = q /\ \A s \in Request \ {r} : g[s] = f[s]
  BY DEF Replaced
<1>2. /\ Adders(f, p) \ {r} = Adders(g, p) \ {r}
      /\ r \in Adders(f, p) <=> Adds(f[r], p)
      /\ r \in Adders(g, p) <=> Adds(q, p)
  BY <1>1 DEF Adders
<1>3. /\ Removers(f, p) \ {r} = Removers(g, p) \ {r}
      /\ r \in Removers(f, p) <=> Removes(f[r], p)
      /\ r \in Removers(g, p) <=> Removes(q, p)
  BY <1>1 DEF Removers
<1>4. /\ IsFiniteSet(Adders(g, p)) /\ Cardinality(Adders(f, p)) \in Nat
      /\ Cardinality(Adders(g, p)) \in Nat
      /\ Cardinality(Adders(g, p)) + One(r \in Adders(f, p)) =
           Cardinality(Adders(f, p)) + One(r \in Adders(g, p))
  <2> DEFINE S == Adders(f, p)
             T == Adders(g, p)
  <2>1. IsFiniteSet(S) /\ S \ {r} = T \ {r}
    BY <1>2
  <2> HIDE DEF S, T
  <2>2. /\ IsFiniteSet(T) /\ Cardinality(S) \in Nat /\ Cardinality(T) \in Nat
        /\ Cardinality(T) + One(r \in S) = Cardinality(S) + One(r \in T)
    BY <2>1, SetCount
  <2>3. QED
    BY <2>2 DEF S, T
<1>5. /\ IsFiniteSet(Removers(g, p)) /\ Cardinality(Removers(f, p)) \in Nat
      /\ Cardinality(Removers(g, p)) \in Nat
      /\ Cardinality(Removers(g, p)) + One(r \in Removers(f, p)) =
           Cardinality(Removers(f, p)) + One(r \in Removers(g, p))
  <2> DEFINE S == Removers(f, p)
             T == Removers(g, p)
  <2>1. IsFiniteSet(S) /\ S \ {r} = T \ {r}
    BY <1>3
  <2> HIDE DEF S, T
  <2>2. /\ IsFiniteSet(T) /\ Cardinality(S) \in Nat /\ Cardinality(T) \in Nat
        /\ Cardinality(T) + One(r \in S) = Cardinality(S) + One(r \in T)
    BY <2>1, SetCount
  <2>3. QED
    BY <2>2 DEF S, T
<1>6. QED
  BY <1>2, <1>3, <1>4, <1>5 DEF One

LEMMA EventsCount ==
  ASSUME NEW l, NEW t, Timed(l, t), NEW kind, NEW p
  PROVE  /\ Cardinality(EventsIn(l, kind, p)) \in Nat
         /\ \A e \in Event :
              Cardinality(EventsIn(Append(l, e), kind, p)) =
                Cardinality(EventsIn(l, kind, p)) + One(e.kind = kind /\ e.who = p)
<1>1. l \in Seq(Event) /\ DOMAIN l = 1..Len(l) /\ Len(l) \in Nat
  BY DEF Timed
<1>2. IsFiniteSet(DOMAIN l) /\ EventsIn(l, kind, p) \subseteq DOMAIN l
  BY <1>1, FS_Interval DEF EventsIn
<1>3. IsFiniteSet(EventsIn(l, kind, p)) /\ Cardinality(EventsIn(l, kind, p)) \in Nat
  BY <1>2, FS_Subset, FS_CardinalityType
<1>4. ASSUME NEW e \in Event
      PROVE  Cardinality(EventsIn(Append(l, e), kind, p)) =
                Cardinality(EventsIn(l, kind, p)) + One(e.kind = kind /\ e.who = p)
  <2> DEFINE m == Append(l, e)
             n == Len(l) + 1
  <2>1. /\ DOMAIN m = 1..n /\ m[n] = e /\ n \in DOMAIN m /\ n \notin DOMAIN l
        /\ \A i \in DOMAIN m : i = n \/ (i \in DOMAIN l /\ m[i] = l[i])
        /\ \A i \in DOMAIN l : i \in DOMAIN m
    BY <1>1
  <2> HIDE DEF m, n
  <2>2. EventsIn(l, kind, p) \ {n} = EventsIn(m, kind, p) \ {n}
    BY <2>1 DEF EventsIn
  <2>3. n \notin EventsIn(l, kind, p) /\ (n \in EventsIn(m, kind, p) <=> e.kind = kind /\ e.who = p)
    BY <2>1 DEF EventsIn
  <2>4. /\ Cardinality(EventsIn(m, kind, p)) \in Nat
        /\ Cardinality(EventsIn(m, kind, p)) + One(n \in EventsIn(l, kind, p)) =
             Cardinality(EventsIn(l, kind, p)) + One(n \in EventsIn(m, kind, p))
    BY <1>3, <2>2, SetCount
  <2>5. Cardinality(EventsIn(m, kind, p)) =
          Cardinality(EventsIn(l, kind, p)) + One(e.kind = kind /\ e.who = p)
    BY <2>3, <2>4 DEF One
  <2>6. QED
    BY <2>5 DEF m
<1>5. QED
  BY <1>3, <1>4

\* A step that records nothing keeps the balance when what it owes the log is what it did.
LEMMA BalanceMoves ==
  ASSUME Typed, Balance, NEW r \in Request, NEW q \in ReqRecord, Turn(r, q), UNCHANGED log,
         \A p \in Principal :
           One(Adds(q, p)) + One(Removes(req[r], p)) + One(people[p] # Off) =
             One(Adds(req[r], p)) + One(Removes(q, p)) + One(people'[p] # Off)
  PROVE  Balance'
<1>1. req \in [Request -> ReqRecord] /\ req' = [req EXCEPT ![r] = q] /\ Timed(log, tick)
  BY DEF Typed, StoreTyped, Turn
<1>2. ASSUME NEW p \in Principal PROVE BalanceOf(p, req', log', people')
  <2>1. BalanceOf(p, req, log, people)
    BY DEF Balance
  <2>2. /\ IsFiniteSet(Adders(req', p)) /\ IsFiniteSet(Removers(req', p))
        /\ Cardinality(Adders(req, p)) \in Nat /\ Cardinality(Adders(req', p)) \in Nat
        /\ Cardinality(Removers(req, p)) \in Nat /\ Cardinality(Removers(req', p)) \in Nat
        /\ Cardinality(Adders(req', p)) + One(Adds(req[r], p)) =
             Cardinality(Adders(req, p)) + One(Adds(q, p))
        /\ Cardinality(Removers(req', p)) + One(Removes(req[r], p)) =
             Cardinality(Removers(req, p)) + One(Removes(q, p))
    <3>1. IsFiniteSet(Adders(req, p)) /\ IsFiniteSet(Removers(req, p))
      BY <2>1 DEF BalanceOf
    <3> DEFINE f == req
               g == req'
    <3>2. f \in [Request -> ReqRecord] /\ Replaced(f, r, q, g)
      BY <1>1 DEF Replaced
    <3>3. IsFiniteSet(Adders(f, p)) /\ IsFiniteSet(Removers(f, p))
      BY <3>1
    <3> HIDE DEF f, g
    <3>4. /\ IsFiniteSet(Adders(g, p)) /\ IsFiniteSet(Removers(g, p))
          /\ Cardinality(Adders(f, p)) \in Nat /\ Cardinality(Adders(g, p)) \in Nat
          /\ Cardinality(Removers(f, p)) \in Nat /\ Cardinality(Removers(g, p)) \in Nat
          /\ Cardinality(Adders(g, p)) + One(Adds(f[r], p)) =
               Cardinality(Adders(f, p)) + One(Adds(q, p))
          /\ Cardinality(Removers(g, p)) + One(Removes(f[r], p)) =
               Cardinality(Removers(f, p)) + One(Removes(q, p))
      BY <3>2, <3>3, TellersCount
    <3>5. QED
      BY <3>4 DEF f, g
  <2>3. /\ Cardinality(EventsIn(log, "assigned", p)) \in Nat
        /\ Cardinality(EventsIn(log, "unassigned", p)) \in Nat
    BY <1>1, EventsCount
  <2>4. /\ Cardinality(EventsIn(log, "assigned", p)) + Cardinality(Adders(req, p)) =
             Cardinality(EventsIn(log, "unassigned", p)) + Cardinality(Removers(req, p))
               + One(people[p] # Off)
        /\ One(Adds(q, p)) + One(Removes(req[r], p)) + One(people[p] # Off) =
             One(Adds(req[r], p)) + One(Removes(q, p)) + One(people'[p] # Off)
    BY <2>1 DEF BalanceOf
  <2>5. Cardinality(EventsIn(log, "assigned", p)) + Cardinality(Adders(req', p)) =
          Cardinality(EventsIn(log, "unassigned", p)) + Cardinality(Removers(req', p))
            + One(people'[p] # Off)
    BY <2>2, <2>3, <2>4 DEF One
  <2>6. log' = log
    OBVIOUS
  <2>7. QED
    BY <2>2, <2>5, <2>6 DEF BalanceOf
<1>3. QED
  BY <1>2 DEF Balance

LEMMA BalanceTells ==
  ASSUME Typed, Balance, NEW r \in Request, NEW q \in ReqRecord, Turn(r, q), UNCHANGED people,
         NEW e \in Event, log' = Append(log, e),
         \A p \in Principal :
           /\ ~Adds(q, p) /\ ~Removes(q, p)
           /\ Adds(req[r], p) <=> e.kind = "assigned" /\ e.who = p
           /\ Removes(req[r], p) <=> e.kind = "unassigned" /\ e.who = p
  PROVE  Balance'
<1>1. req \in [Request -> ReqRecord] /\ req' = [req EXCEPT ![r] = q] /\ Timed(log, tick)
  BY DEF Typed, StoreTyped, Turn
<1>2. ASSUME NEW p \in Principal PROVE BalanceOf(p, req', log', people')
  <2>1. BalanceOf(p, req, log, people)
    BY DEF Balance
  <2>2. /\ IsFiniteSet(Adders(req', p)) /\ IsFiniteSet(Removers(req', p))
        /\ Cardinality(Adders(req, p)) \in Nat /\ Cardinality(Adders(req', p)) \in Nat
        /\ Cardinality(Removers(req, p)) \in Nat /\ Cardinality(Removers(req', p)) \in Nat
        /\ Cardinality(Adders(req', p)) + One(Adds(req[r], p)) =
             Cardinality(Adders(req, p)) + One(Adds(q, p))
        /\ Cardinality(Removers(req', p)) + One(Removes(req[r], p)) =
             Cardinality(Removers(req, p)) + One(Removes(q, p))
    <3>1. IsFiniteSet(Adders(req, p)) /\ IsFiniteSet(Removers(req, p))
      BY <2>1 DEF BalanceOf
    <3> DEFINE f == req
               g == req'
    <3>2. f \in [Request -> ReqRecord] /\ Replaced(f, r, q, g)
      BY <1>1 DEF Replaced
    <3>3. IsFiniteSet(Adders(f, p)) /\ IsFiniteSet(Removers(f, p))
      BY <3>1
    <3> HIDE DEF f, g
    <3>4. /\ IsFiniteSet(Adders(g, p)) /\ IsFiniteSet(Removers(g, p))
          /\ Cardinality(Adders(f, p)) \in Nat /\ Cardinality(Adders(g, p)) \in Nat
          /\ Cardinality(Removers(f, p)) \in Nat /\ Cardinality(Removers(g, p)) \in Nat
          /\ Cardinality(Adders(g, p)) + One(Adds(f[r], p)) =
               Cardinality(Adders(f, p)) + One(Adds(q, p))
          /\ Cardinality(Removers(g, p)) + One(Removes(f[r], p)) =
               Cardinality(Removers(f, p)) + One(Removes(q, p))
      BY <3>2, <3>3, TellersCount
    <3>5. QED
      BY <3>4 DEF f, g
  <2>3. /\ Cardinality(EventsIn(log, "assigned", p)) \in Nat
        /\ Cardinality(EventsIn(log, "unassigned", p)) \in Nat
        /\ Cardinality(EventsIn(log', "assigned", p)) =
             Cardinality(EventsIn(log, "assigned", p)) + One(Adds(req[r], p))
        /\ Cardinality(EventsIn(log', "unassigned", p)) =
             Cardinality(EventsIn(log, "unassigned", p)) + One(Removes(req[r], p))
    <3>1. /\ One(Adds(req[r], p)) = One(e.kind = "assigned" /\ e.who = p)
          /\ One(Removes(req[r], p)) = One(e.kind = "unassigned" /\ e.who = p)
      BY DEF One
    <3>2. QED
      BY <1>1, <3>1, EventsCount
  <2>4. /\ Cardinality(EventsIn(log, "assigned", p)) + Cardinality(Adders(req, p)) =
             Cardinality(EventsIn(log, "unassigned", p)) + Cardinality(Removers(req, p))
               + One(people[p] # Off)
        /\ One(Adds(q, p)) = 0 /\ One(Removes(q, p)) = 0
    BY <2>1 DEF BalanceOf, One
  <2>5. Cardinality(EventsIn(log', "assigned", p)) + Cardinality(Adders(req', p)) =
          Cardinality(EventsIn(log', "unassigned", p)) + Cardinality(Removers(req', p))
            + One(people[p] # Off)
    BY <2>2, <2>3, <2>4 DEF One
  <2>6. people' = people
    OBVIOUS
  <2>7. QED
    BY <2>2, <2>5, <2>6 DEF BalanceOf
<1>3. QED
  BY <1>2 DEF Balance

LEMMA QuietTurn ==
  ASSUME Typed, Balance, NEW r \in Request, NEW q \in ReqRecord, Turn(r, q), UNCHANGED <<log, people>>,
         \A p \in Principal : (Adds(q, p) <=> Adds(req[r], p)) /\ (Removes(q, p) <=> Removes(req[r], p))
  PROVE  Balance'
<1>1. ASSUME NEW p \in Principal
      PROVE  One(Adds(q, p)) + One(Removes(req[r], p)) + One(people[p] # Off) =
               One(Adds(req[r], p)) + One(Removes(q, p)) + One(people'[p] # Off)
  <2>1. /\ One(Adds(q, p)) = One(Adds(req[r], p)) /\ One(Removes(q, p)) = One(Removes(req[r], p))
        /\ One(people'[p] # Off) = One(people[p] # Off)
    BY DEF One
  <2>2. QED
    BY <2>1 DEF One
<1>2. QED
  BY <1>1, BalanceMoves
LEMMA BalanceKept ==
  ASSUME Typed, Balance, NEW r \in Request, NEW q \in ReqRecord, Becomes(r, q), Shape(r, q)
  PROVE  Balance'
<1>1. Turn(r, q)
  BY DEF Becomes
<1>2. CASE Sends(r, q)
  <2>1. \A p \in Principal :
          (Adds(q, p) <=> Adds(req[r], p)) /\ (Removes(q, p) <=> Removes(req[r], p))
    BY <1>2 DEF Sends, Adds, Removes, Telling
  <2>2. QED
    BY <1>1, <1>2, <2>1, QuietTurn DEF Sends
<1>3. CASE Moves(r, q)
  BY <1>1, <1>3, QuietTurn DEF Moves
<1>4. CASE Holds(r, q)
  <2>1. \A p \in Principal :
          (Adds(q, p) <=> Adds(req[r], p)) /\ (Removes(q, p) <=> Removes(req[r], p))
    BY <1>4 DEF Holds, Adds, Removes, Telling
  <2>2. QED
    BY <1>1, <1>4, <2>1, QuietTurn DEF Holds
<1>5. ASSUME NEW by \in {"person", "owner", "arrival"}, Inserts(r, q, by)
      PROVE  Balance'
  <2> DEFINE w == req[r].who
  <2>1. /\ people[w] = Off /\ people'[w] # Off
        /\ \A x \in Principal \ {w} : people'[x] = people[x]
    BY <1>5, NewRow DEF Off
  <2>2. /\ req[r].stage \notin Telling \cup {"failed"} /\ q.stage \in Telling
        /\ q.op \in {"attach", "assign", "claim"} /\ q.who = w
    BY <1>5 DEF Inserts, Telling, Choosing
  <2> HIDE DEF w
  <2>3. ASSUME NEW p \in Principal
        PROVE  One(Adds(q, p)) + One(Removes(req[r], p)) + One(people[p] # Off) =
                 One(Adds(req[r], p)) + One(Removes(q, p)) + One(people'[p] # Off)
    <3>1. ~Adds(req[r], p) /\ ~Removes(req[r], p) /\ (Adds(q, p) <=> p = w) /\ ~Removes(q, p)
      BY <2>2 DEF Adds, Removes
    <3>2. CASE p = w
      BY <2>1, <3>1, <3>2 DEF One
    <3>3. CASE p # w
      BY <2>1, <3>1, <3>3 DEF One
    <3>4. QED
      BY <3>2, <3>3
  <2>4. QED
    BY <1>1, <1>5, <2>3, BalanceMoves DEF Inserts
<1>6. CASE TakesOff(r, q)
  <2> DEFINE w == req[r].who
  <2>1. /\ people[w] # Off /\ people'[w] = Off
        /\ \A x \in Principal \ {w} : people'[x] = people[x]
    BY <1>6, RowGone
  <2>2. /\ req[r].stage \notin Telling \cup {"failed"} /\ q.stage \in Telling
        /\ q.op = "unassign" /\ q.who = w
    BY <1>6 DEF TakesOff, Telling
  <2> HIDE DEF w
  <2>3. ASSUME NEW p \in Principal
        PROVE  One(Adds(q, p)) + One(Removes(req[r], p)) + One(people[p] # Off) =
                 One(Adds(req[r], p)) + One(Removes(q, p)) + One(people'[p] # Off)
    <3>1. ~Adds(req[r], p) /\ ~Removes(req[r], p) /\ ~Adds(q, p) /\ (Removes(q, p) <=> p = w)
      BY <2>2 DEF Adds, Removes
    <3>2. CASE p = w
      BY <2>1, <3>1, <3>2 DEF One
    <3>3. CASE p # w
      BY <2>1, <3>1, <3>3 DEF One
    <3>4. QED
      BY <3>2, <3>3
  <2>4. QED
    BY <1>1, <1>6, <2>3, BalanceMoves DEF TakesOff
<1>7. ASSUME NEW e \in Event, Records(r, q, e)
      PROVE  Balance'
  <2>1. \A p \in Principal :
          /\ ~Adds(q, p) /\ ~Removes(q, p)
          /\ Adds(req[r], p) <=> e.kind = "assigned" /\ e.who = p
          /\ Removes(req[r], p) <=> e.kind = "unassigned" /\ e.who = p
    BY <1>7 DEF Records, Adds, Removes, Telling
  <2>2. QED
    BY <1>1, <1>7, <2>1, BalanceTells DEF Records
<1>8. QED
  BY <1>2, <1>3, <1>4, <1>5, <1>6, <1>7 DEF Shape

LEMMA NextBalance == Typed /\ ReadsHold /\ Balance /\ [Next]_vars => Balance'
<1> SUFFICES ASSUME Typed, ReadsHold, Balance, [Next]_vars PROVE Balance'
  OBVIOUS
<1>1. CASE UNCHANGED vars
  BY <1>1 DEF vars, Balance
<1>2. CASE ~UNCHANGED vars
  BY <1>2, NextShape, BalanceKept
<1>3. QED
  BY <1>1, <1>2

LEMMA InitBalance == Init => Balance
<1> SUFFICES ASSUME Init, NEW p \in Principal PROVE BalanceOf(p, req, log, people)
  BY DEF Balance
<1>1. \A r \in Request : req[r].stage = "new"
  BY BlankIs DEF Init
<1>2. Adders(req, p) = {} /\ Removers(req, p) = {}
  BY <1>1 DEF Adders, Removers, Adds, Removes, Telling
<1>3. EventsIn(log, "assigned", p) = {} /\ EventsIn(log, "unassigned", p) = {}
  BY DEF Init, EventsIn
<1>4. people[p] = Off
  BY DEF Init
<1>5. QED
  BY <1>2, <1>3, <1>4, FS_EmptySet DEF BalanceOf, One

LEMMA CountsFromBalance == Typed /\ Balance => LogCountsPeople
<1> SUFFICES ASSUME Typed, Balance, NEW p \in Principal
             PROVE  Cardinality(Events("assigned", p))
                        + Cardinality(Owing({"assign", "claim", "attach"}, p)) =
                      Cardinality(Events("unassigned", p)) + Cardinality(Owing({"unassign"}, p))
                        + (IF On(p) THEN 1 ELSE 0)
  BY DEF LogCountsPeople
<1>1. \A kind : Events(kind, p) = EventsIn(log, kind, p)
  BY DEF Events, EventsIn
<1>2. /\ Owing({"assign", "claim", "attach"}, p) = Adders(req, p)
      /\ Owing({"unassign"}, p) = Removers(req, p)
  BY DEF Owing, Untold, At, Adders, Removers, Adds, Removes, Telling
<1>3. One(people[p] # Off) = IF On(p) THEN 1 ELSE 0
  BY DEF One, On
<1>4. BalanceOf(p, req, log, people)
  BY DEF Balance
<1>5. QED
  BY <1>1, <1>2, <1>3, <1>4 DEF BalanceOf

\* The log holds one assigned for each row written and one unassigned for each taken off, but
\* for the requests that are still to record theirs or broke off before it, however many
\* requests cross and fail (api/assignments.go, api/board_settings.go).
THEOREM PeopleCounted == Spec => []LogCountsPeople
<1>1. QED
  BY InitTyped, NextTyped, InitBalance, NextBalance, CountsFromBalance, PTL DEF Spec
=============================================================================
