------------------------- MODULE TimeEntriesProofs -------------------------
(***************************************************************************)
(* Theorems about TimeEntries: the log stays well formed, histories are    *)
(* lines, a board counts the entries the card counts, and the figures of   *)
(* TimeAccounting are what the card lived through.                         *)
(*                                                                         *)
(* Sums go through sizes.  What each event adds up to is the size of a set *)
(* of instants, no two of those sets meet, and so the running total of any *)
(* set of events is the size of what they cover: the smallest set that it  *)
(* got wrong would have a smaller one.                                     *)
(***************************************************************************)
EXTENDS TimeEntries, FiniteSetTheorems, WellFoundedInduction, TLAPS

Corrections == {i \in DOMAIN log : log[i].supersedes # 0}

\* A correction is a time entry that replaces an earlier one on the same board.
Corrects(i, k) ==
  /\ k \in DOMAIN log /\ k < i
  /\ log[i].kind = "time_logged" /\ log[k].kind = "time_logged"
  /\ log[i].board = log[k].board

OneSuccessor ==
  \A i, j \in DOMAIN log : log[i].supersedes = log[j].supersedes /\ log[i].supersedes # 0 => i = j

\* Some event is the last one, so the clock state that is carried forward is one.
SomeLast == log # <<>> => \E i \in DOMAIN log : Later(log, DOMAIN log, i) = {}

LogInv ==
  /\ log \in Seq(Event)
  /\ \A i \in Corrections : Corrects(i, log[i].supersedes)
  /\ OneSuccessor
  /\ SomeLast

ReqType ==
  req \in [Request -> [stage : {"new", "accepted", "carried", "logged", "refused"},
                       board : Place, seconds : Nat, supersedes : Nat, state : ClockState]]

\* What a request replaces was looked up when it began, and is still there.
ReqInv ==
  \A r \in Request : req[r].stage \in {"accepted", "carried"} /\ req[r].supersedes # 0 =>
    /\ req[r].supersedes \in DOMAIN log
    /\ log[req[r].supersedes].kind = "time_logged"
    /\ req[r].board = log[req[r].supersedes].board

EntriesInv == LogInv /\ ReqType /\ ReqInv /\ now \in Nat

-----------------------------------------------------------------------------
(* The log *)

\* What may be added: a correction of an entry that nothing has replaced.
MayFollow(e) ==
  /\ e \in Event
  /\ e.supersedes # 0 =>
       /\ e.supersedes \in DOMAIN log /\ ~Taken(e.supersedes)
       /\ e.kind = "time_logged" /\ log[e.supersedes].kind = "time_logged"
       /\ e.board = log[e.supersedes].board

\* Adding such an event keeps the log in order.
LEMMA LogGrows ==
  ASSUME LogInv, NEW e, MayFollow(e), log' = Append(log, e)
  PROVE  /\ LogInv'
         /\ DOMAIN log \subseteq DOMAIN log'
         /\ \A i \in DOMAIN log : log'[i] = log[i]
<1>0. PICK n : n = Len(log) + 1
  OBVIOUS
<1>1. /\ log \in Seq(Event) /\ e \in Event
      /\ log' \in Seq(Event) /\ DOMAIN log = 1 .. (n - 1) /\ DOMAIN log' = 1 .. n /\ n \in Nat \ {0}
      /\ \A i \in 1 .. (n - 1) : log'[i] = log[i]
      /\ log'[n] = e
  BY <1>0 DEF LogInv, MayFollow
<1>2. \A i \in DOMAIN log : log[i] \in Event
  BY <1>1
<1>3. (\A i \in Corrections : Corrects(i, log[i].supersedes))'
  <2> SUFFICES ASSUME NEW i \in DOMAIN log', log'[i].supersedes # 0
               PROVE  Corrects(i, log[i].supersedes)'
    BY DEF Corrections
  <2>1. CASE i = n
    BY <1>1, <2>1 DEF MayFollow, Corrects
  <2>2. CASE i # n
    <3>1. i \in Corrections /\ log'[i] = log[i]
      BY <1>1, <2>2 DEF Corrections
    <3>2. Corrects(i, log[i].supersedes)
      BY <3>1 DEF LogInv
    <3>3. QED
      BY <1>1, <3>1, <3>2 DEF Corrects
  <2>3. QED
    BY <2>1, <2>2
<1>4. OneSuccessor'
  <2> SUFFICES ASSUME NEW i \in DOMAIN log', NEW j \in DOMAIN log',
                      log'[i].supersedes = log'[j].supersedes, log'[i].supersedes # 0
               PROVE  i = j
    BY DEF OneSuccessor
  <2>1. CASE i # n /\ j # n
    BY <1>1, <2>1 DEF LogInv, OneSuccessor
  <2>2. CASE i = n /\ j # n
    BY <1>1, <2>2 DEF MayFollow, Taken
  <2>3. CASE i # n /\ j = n
    BY <1>1, <2>3 DEF MayFollow, Taken
  <2>4. QED
    BY <2>1, <2>2, <2>3
<1>5. SomeLast'
  <2>1. CASE log = <<>>
    <3>1. DOMAIN log' = {n}
      BY <1>0, <1>1, <2>1
    <3>2. Later(log, DOMAIN log, n)' = {}
      BY <1>1, <3>1 DEF Later, Before, Event
    <3>3. QED
      BY <3>1, <3>2 DEF SomeLast
  <2>2. CASE log # <<>>
    <3>1. PICK m \in DOMAIN log : Later(log, DOMAIN log, m) = {}
      BY <2>2 DEF LogInv, SomeLast
    <3>2. \A i \in DOMAIN log : ~Before(log, m, i)
      BY <3>1 DEF Later
    <3>3. e.at \in Nat /\ \A i \in DOMAIN log : log[i].at \in Nat
      BY <1>1, <1>2 DEF Event
    <3>4. CASE e.at < log[m].at
      <4>1. \A i \in DOMAIN log' : ~(Before(log, m, i)')
        BY <1>1, <3>2, <3>3, <3>4 DEF Before
      <4>2. QED
        BY <1>1, <4>1 DEF Later, SomeLast
    <3>5. CASE log[m].at <= e.at
      <4>1. \A i \in DOMAIN log' : ~(Before(log, n, i)')
        BY <1>1, <3>2, <3>3, <3>5 DEF Before
      <4>2. Later(log, DOMAIN log, n)' = {} /\ n \in DOMAIN log'
        BY <1>1, <4>1 DEF Later
      <4>3. QED
        BY <4>2 DEF SomeLast
    <3>6. QED
      BY <3>3, <3>4, <3>5
  <2>3. QED
    BY <2>1, <2>2
<1>6. LogInv'
  BY <1>1, <1>3, <1>4, <1>5 DEF LogInv
<1>7. QED
  BY <1>1, <1>6

-----------------------------------------------------------------------------
(* The invariant *)

LEMMA EntriesInit == Init => EntriesInv
<1> SUFFICES ASSUME Init PROVE EntriesInv
  OBVIOUS
<1>1. LogInv
  BY DEF Init, LogInv, Corrections, OneSuccessor, SomeLast
<1>2. ReqType /\ ReqInv /\ now \in Nat
  BY EntriesAssumption DEF Init, ReqType, ReqInv, Blank, Place
<1>3. QED
  BY <1>1, <1>2 DEF EntriesInv

\* A request that another action leaves alone finds what it looked up.
LEMMA RequestsStay ==
  ASSUME EntriesInv, UNCHANGED req, DOMAIN log \subseteq DOMAIN log',
         \A i \in DOMAIN log : log'[i] = log[i]
  PROVE  ReqType' /\ ReqInv'
  BY DEF EntriesInv, ReqType, ReqInv

\* A request that ends looks nothing up again.
LEMMA RequestEnds ==
  ASSUME EntriesInv, NEW r \in Request, NEW stage \in {"logged", "refused"},
         req' = [req EXCEPT ![r] = Blank(stage)], DOMAIN log \subseteq DOMAIN log',
         \A i \in DOMAIN log : log'[i] = log[i]
  PROVE  ReqType' /\ ReqInv'
  BY EntriesAssumption DEF EntriesInv, ReqType, ReqInv, Blank, Place

LEMMA EntriesStep == EntriesInv /\ [Next]_vars => EntriesInv'
<1> SUFFICES ASSUME EntriesInv, [Next]_vars PROVE EntriesInv'
  OBVIOUS
<1>0. LogInv /\ ReqType /\ ReqInv /\ now \in Nat
  BY DEF EntriesInv
<1>1. ASSUME UNCHANGED log PROVE LogInv'
  BY <1>0, <1>1 DEF LogInv, Corrections, Corrects, OneSuccessor, SomeLast, Later, Before
<1>2. CASE Tick \/ UNCHANGED vars
  BY <1>0, <1>1, <1>2, RequestsStay DEF Tick, vars, EntriesInv
<1>3. ASSUME NEW b \in ReportBoard \cup {CardWide}, NEW state \in ClockState,
             NEW at \in 0 .. MaxInstant, RecordCardEvent(b, state, at)
      PROVE  EntriesInv'
  <2> DEFINE e == [kind |-> "reported", board |-> b, state |-> state, at |-> at,
                   seconds |-> 0, supersedes |-> 0]
  <2>1. b \in Place /\ at \in Nat
    BY EntriesAssumption DEF Place
  <2>2. MayFollow(e)
    BY <2>1 DEF MayFollow, Event
  <2>3. log' = Append(log, e) /\ UNCHANGED <<now, req>>
    BY <1>3 DEF RecordCardEvent
  <2> HIDE DEF e
  <2>4. QED
    BY <1>0, <2>2, <2>3, LogGrows, RequestsStay DEF EntriesInv
<1>4. ASSUME NEW r \in Request, NEW b \in Place, NEW seconds \in Seconds, NEW i \in 0 .. Len(log),
             BeginEntry(r, b, seconds, i)
      PROVE  EntriesInv'
  <2> DEFINE new == [stage |-> "accepted", board |-> BoardOfEntry(b, i), seconds |-> seconds,
                     supersedes |-> i, state |-> Unmoved]
  <2>1. log \in Seq(Event) /\ seconds \in Nat /\ i \in Nat
    BY <1>0, EntriesAssumption DEF LogInv
  <2>2. BoardOfEntry(b, i) \in Place
    <3>1. CASE i = 0
      BY <3>1 DEF BoardOfEntry
    <3>2. CASE i # 0
      <4>1. i \in DOMAIN log
        BY <1>4, <3>2 DEF BeginEntry
      <4>2. log[i] \in Event
        BY <2>1, <4>1
      <4>3. QED
        BY <3>2, <4>2 DEF BoardOfEntry, Event
    <3>3. QED
      BY <3>1, <3>2
  <2>3. new \in [stage : {"new", "accepted", "carried", "logged", "refused"},
                 board : Place, seconds : Nat, supersedes : Nat, state : ClockState]
    BY <2>1, <2>2, EntriesAssumption
  <2>4. i # 0 => i \in DOMAIN log /\ log[i].kind = "time_logged" /\ new.board = log[i].board
    BY <1>4 DEF BeginEntry, BoardOfEntry
  <2>5. new.supersedes = i
    OBVIOUS
  <2>6. req' = [req EXCEPT ![r] = new] /\ UNCHANGED <<log, now>>
    BY <1>4 DEF BeginEntry
  <2> HIDE DEF new
  <2>7. ReqType' /\ ReqInv'
    BY <1>0, <2>3, <2>4, <2>5, <2>6 DEF ReqType, ReqInv
  <2>8. QED
    BY <1>0, <1>1, <2>6, <2>7 DEF EntriesInv
<1>5. ASSUME NEW r \in Request, CarryForward(r) PROVE EntriesInv'
  <2> DEFINE carried == IF log = <<>> THEN Unmoved ELSE log[Latest(log, DOMAIN log)].state
  <2>1. carried \in ClockState
    <3>1. CASE log = <<>>
      BY <3>1, EntriesAssumption
    <3>2. CASE log # <<>>
      <4>1. Latest(log, DOMAIN log) \in DOMAIN log
        BY <1>0, <3>2 DEF LogInv, SomeLast, Latest
      <4>2. log[Latest(log, DOMAIN log)] \in Event
        BY <1>0, <4>1 DEF LogInv
      <4>3. QED
        BY <3>2, <4>2 DEF Event
    <3>3. QED
      BY <3>1, <3>2
  <2>2. req[r].stage = "accepted" /\ UNCHANGED <<log, now>>
        /\ req' = [req EXCEPT ![r].stage = "carried", ![r].state = carried]
    BY <1>5 DEF CarryForward
  <2> HIDE DEF carried
  <2>3. ReqType' /\ ReqInv'
    BY <1>0, <2>1, <2>2 DEF ReqType, ReqInv
  <2>4. QED
    BY <1>0, <1>1, <2>2, <2>3 DEF EntriesInv
<1>6. ASSUME NEW r \in Request, RecordEntry(r) PROVE EntriesInv'
  <2> DEFINE e == [kind |-> "time_logged", board |-> req[r].board, state |-> req[r].state,
                   at |-> now, seconds |-> req[r].seconds, supersedes |-> req[r].supersedes]
  <2>1. MayFollow(e)
    BY <1>0, <1>6 DEF RecordEntry, MayFollow, Event, ReqType, ReqInv
  <2>2. log' = Append(log, e) /\ now' = now /\ req' = [req EXCEPT ![r] = Blank("logged")]
    BY <1>6 DEF RecordEntry
  <2> HIDE DEF e
  <2>3. QED
    BY <1>0, <2>1, <2>2, LogGrows, RequestEnds DEF EntriesInv
<1>7. ASSUME NEW r \in Request, AlreadyReplaced(r) \/ Fail(r) PROVE EntriesInv'
  <2>1. req' = [req EXCEPT ![r] = Blank("refused")] /\ UNCHANGED <<log, now>>
    BY <1>7 DEF AlreadyReplaced, Fail
  <2>2. QED
    BY <1>0, <1>1, <2>1, RequestEnds DEF EntriesInv
<1>8. QED
  BY <1>2, <1>3, <1>4, <1>5, <1>6, <1>7 DEF Next

LEMMA EntriesInvariant == Spec => []EntriesInv
  BY EntriesInit, EntriesStep, PTL DEF Spec

-----------------------------------------------------------------------------
(* The theorems *)

\* The log and the requests stay well formed, whatever is reported and corrected.
THEOREM TypeCorrect == Spec => []TypeOK
<1>1. EntriesInv => TypeOK
  BY DEF EntriesInv, LogInv, ReqType, TypeOK, Corrections, Corrects
<1>2. QED
  BY <1>1, EntriesInvariant, PTL

\* Each board counts the entries the card counts.
THEOREM BoardsAgree == Spec => []BoardsAgreeWithTheCard
<1>1. ASSUME EntriesInv PROVE BoardsAgreeWithTheCard
  <2> SUFFICES ASSUME NEW b \in Board
               PROVE  ActiveEntries(log, Timeline(b))
                        = ActiveEntries(log, Timeline(CardWide)) \cap Timeline(b)
    BY DEF BoardsAgreeWithTheCard
  <2>1. b # CardWide
    BY EntriesAssumption
  <2>2. Timeline(CardWide) = DOMAIN log /\ Timeline(b) \subseteq DOMAIN log
    BY DEF Timeline
  <2>3. ASSUME NEW i \in Timeline(b), NEW j \in DOMAIN log, log[j].supersedes = i
        PROVE  j \in Timeline(b)
    <3>1. log \in Seq(Event) /\ i # 0
      BY <1>1, <2>2 DEF EntriesInv, LogInv
    <3>2. Corrects(j, i)
      BY <1>1, <2>3, <3>1 DEF EntriesInv, LogInv, Corrections
    <3>3. QED
      BY <2>1, <3>2 DEF Corrects, Timeline
  <2>4. QED
    BY <2>2, <2>3 DEF ActiveEntries, Superseded
<1>2. QED
  BY <1>1, EntriesInvariant, PTL

\* What a timeline counts is as many as the entries somebody logged: each
\* correction takes the place of exactly one entry on that timeline.
LEMMA OneForEach ==
  ASSUME EntriesInv, NEW b \in Place
  PROVE  Cardinality(ActiveEntries(log, Timeline(b)))
           = Cardinality({i \in Timeline(b) : log[i].kind = "time_logged" /\ log[i].supersedes = 0})
<1> DEFINE T == Timeline(b)
           entries == {i \in T : log[i].kind = "time_logged"}
           logged == {i \in entries : log[i].supersedes = 0}
           corrections == {i \in entries : log[i].supersedes # 0}
           replaced == entries \cap Superseded(log, T)
           f == [i \in corrections |-> log[i].supersedes]
<1>1. T \subseteq DOMAIN log /\ log \in Seq(Event)
  BY DEF Timeline, EntriesInv, LogInv
<1>2. IsFiniteSet(entries)
  <2>1. DOMAIN log = 1 .. Len(log) /\ Len(log) \in Nat
    BY <1>1
  <2>2. IsFiniteSet(1 .. Len(log))
    BY <2>1, FS_Interval
  <2>3. entries \in SUBSET (1 .. Len(log))
    BY <1>1, <2>1
  <2>4. QED
    BY <2>2, <2>3, FS_Subset
<1>3. ASSUME NEW j \in T, log[j].supersedes # 0
      PROVE  j \in corrections /\ log[j].supersedes \in replaced
  <2>1. Corrects(j, log[j].supersedes)
    BY <1>1, <1>3 DEF EntriesInv, LogInv, Corrections
  <2>2. log[j].supersedes \in T
    BY <1>1, <2>1 DEF Corrects, Timeline
  <2>3. QED
    BY <1>3, <2>1, <2>2 DEF Corrects, Superseded
<1>4. f \in Surjection(corrections, replaced)
  <2>1. f \in [corrections -> replaced]
    BY <1>3
  <2>2. ASSUME NEW k \in replaced PROVE \E i \in corrections : f[i] = k
    <3>1. PICK j \in T : log[j].supersedes = k
      BY DEF Superseded
    <3>2. k # 0
      BY <1>1
    <3>3. QED
      BY <1>3, <3>1, <3>2
  <2>3. QED
    BY <2>1, <2>2 DEF Surjection
<1>5. f \in Injection(corrections, replaced)
  <2>1. \A i, j \in corrections : f[i] = f[j] => i = j
    BY <1>1 DEF EntriesInv, LogInv, OneSuccessor
  <2>2. f \in [corrections -> replaced]
    BY <1>4 DEF Surjection
  <2>3. QED
    BY <2>1, <2>2 DEF Injection, IsInjective
<1> HIDE DEF f
<1>6. IsFiniteSet(corrections) /\ corrections \in SUBSET entries
  BY <1>2, FS_Subset
<1>7. Cardinality(replaced) = Cardinality(corrections)
  BY <1>4, <1>5, <1>6, FS_Surjection
<1>8. Cardinality(entries \ replaced) = Cardinality(entries) - Cardinality(replaced)
  <2>1. entries \cap replaced = replaced
    OBVIOUS
  <2> HIDE DEF entries, replaced
  <2>2. Cardinality(entries \ replaced) = Cardinality(entries) - Cardinality(entries \cap replaced)
    BY <1>2, FS_Difference
  <2>3. QED
    BY <2>1, <2>2
<1>9. Cardinality(logged) = Cardinality(entries) - Cardinality(corrections)
  <2>1. entries \cap corrections = corrections /\ logged = entries \ corrections
    OBVIOUS
  <2> HIDE DEF entries, corrections, logged
  <2>2. Cardinality(entries \ corrections) = Cardinality(entries) - Cardinality(entries \cap corrections)
    BY <1>2, FS_Difference
  <2>3. QED
    BY <2>1, <2>2
<1>10. ActiveEntries(log, T) = entries \ replaced
  BY DEF ActiveEntries
<1>11. logged = {i \in T : log[i].kind = "time_logged" /\ log[i].supersedes = 0}
  OBVIOUS
<1>12. QED
  BY <1>7, <1>8, <1>9, <1>10, <1>11

\* No entry is replaced twice, and of each that was logged one version counts.
THEOREM LinesOfCorrections == Spec => []HistoriesAreLines
<1>1. EntriesInv => HistoriesAreLines
  BY OneForEach DEF EntriesInv, LogInv, OneSuccessor, HistoriesAreLines
<1>2. QED
  BY <1>1, EntriesInvariant, PTL

-----------------------------------------------------------------------------
(* Sums *)

\* A set of natural numbers has a smallest member: it is where a least counterexample is.
LEMMA Smallest ==
  ASSUME NEW S \in SUBSET Nat, S # {}
  PROVE  \E m \in S : \A n \in S : m <= n
<1> DEFINE less == {p \in Nat \X Nat : p[1] < p[2]}
<1>1. IsWellFoundedOn(less, Nat)
  BY NatLessThanWellFounded DEF OpToRel
<1>2. PICK m \in S : \A n \in S : <<n, m>> \notin less
  BY <1>1, WFMin
<1>3. ASSUME NEW n \in S PROVE m <= n
  <2>1. n \in Nat /\ m \in Nat /\ <<n, m>> \in Nat \X Nat
    OBVIOUS
  <2>2. <<n, m>>[1] = n /\ <<n, m>>[2] = m
    OBVIOUS
  <2>3. ~(n < m)
    BY <1>2, <2>1, <2>2, Zenon
  <2>4. QED
    BY <2>1, <2>3
<1>4. QED
  BY <1>3, Zenon

\* The instants that the members of s account for.
Covered(A, s) == UNION {A[i] : i \in s}

\* Every member accounts for finitely many instants, and no two for the same one.
Apart(A, S) ==
  /\ \A i \in S : IsFiniteSet(A[i])
  /\ \A i, j \in S : i # j => A[i] \cap A[j] = {}

\* H is a running total of the sizes, one member after the other.
Totals(A, S, H) ==
  H = [s \in SUBSET S |->
         IF s = {} THEN 0
         ELSE Cardinality(A[CHOOSE x \in s : TRUE]) + H[s \ {CHOOSE x \in s : TRUE}]]

LEMMA CoveredFinite ==
  ASSUME NEW S, IsFiniteSet(S), NEW A, Apart(A, S)
  PROVE  IsFiniteSet(Covered(A, S)) /\ Cardinality(Covered(A, S)) \in Nat
<1> DEFINE parts == {A[i] : i \in S}
<1>1. IsFiniteSet(parts)
  <2> DEFINE f == [i \in S |-> A[i]]
  <2>1. f \in Surjection(S, parts)
    BY DEF Surjection
  <2>2. QED
    <3> HIDE DEF f, parts
    <3>1. QED
      BY <2>1, FS_Surjection
<1>2. \A P \in parts : IsFiniteSet(P)
  BY DEF Apart
<1> HIDE DEF parts
<1>3. IsFiniteSet(UNION parts)
  BY <1>1, <1>2, FS_UNION
<1>4. IsFiniteSet(Covered(A, S))
  BY <1>3 DEF parts, Covered
<1>5. QED
  BY <1>4, FS_CardinalityType

LEMMA CoveredOneMore ==
  ASSUME NEW S, IsFiniteSet(S), NEW A, Apart(A, S), NEW s \in SUBSET S, NEW x \in s
  PROVE  Cardinality(Covered(A, s)) = Cardinality(A[x]) + Cardinality(Covered(A, s \ {x}))
<1> DEFINE rest == Covered(A, s \ {x})
<1>1. IsFiniteSet(s \ {x}) /\ Apart(A, s \ {x})
  BY FS_Subset DEF Apart
<1>2. IsFiniteSet(rest) /\ Cardinality(rest) \in Nat
  BY <1>1, CoveredFinite
<1>3. IsFiniteSet(A[x]) /\ Cardinality(A[x]) \in Nat
  BY FS_CardinalityType DEF Apart
<1>4. A[x] \cap rest = {}
  BY DEF Apart, Covered
<1>5. Covered(A, s) = A[x] \cup rest
  BY DEF Covered
<1> HIDE DEF rest
<1>6. Cardinality(A[x] \cup rest) = Cardinality(A[x]) + Cardinality(rest) - Cardinality(A[x] \cap rest)
  BY <1>2, <1>3, FS_Union
<1>7. Cardinality(A[x] \cap rest) = 0
  BY <1>4, FS_EmptySet
<1>8. QED
  BY <1>2, <1>3, <1>5, <1>6, <1>7 DEF rest

\* The sizes of what is covered are such a total.
LEMMA TotalsExist ==
  ASSUME NEW S, IsFiniteSet(S), NEW A, Apart(A, S)
  PROVE  \E H : Totals(A, S, H)
<1> DEFINE H == [s \in SUBSET S |-> Cardinality(Covered(A, s))]
<1>1. ASSUME NEW s \in SUBSET S
      PROVE  H[s] = IF s = {} THEN 0
                    ELSE Cardinality(A[CHOOSE x \in s : TRUE]) + H[s \ {CHOOSE x \in s : TRUE}]
  <2>1. CASE s = {}
    <3>1. Covered(A, s) = {}
      BY <2>1 DEF Covered
    <3>2. QED
      BY <2>1, <3>1, FS_EmptySet
  <2>2. CASE s # {}
    <3>1. PICK x : x = CHOOSE y \in s : TRUE
      OBVIOUS
    <3>2. x \in s
      BY <2>2, <3>1
    <3>3. H[s \ {x}] = Cardinality(Covered(A, s \ {x}))
      OBVIOUS
    <3>4. Cardinality(Covered(A, s)) = Cardinality(A[x]) + Cardinality(Covered(A, s \ {x}))
      BY <3>2, CoveredOneMore
    <3>5. QED
      BY <2>2, <3>1, <3>3, <3>4
  <2>3. QED
    BY <2>1, <2>2
<1>2. H = [s \in SUBSET S |-> H[s]]
  OBVIOUS
<1> HIDE DEF H
<1>3. Totals(A, S, H)
  BY <1>1, <1>2 DEF Totals
<1>4. QED
  BY <1>3

\* Nothing else is: the smallest set that it gets wrong has a smaller one.
LEMMA TotalsKnown ==
  ASSUME NEW S, IsFiniteSet(S), NEW A, Apart(A, S), NEW H, Totals(A, S, H)
  PROVE  H[S] = Cardinality(Covered(A, S))
<1> DEFINE Wrong == {s \in SUBSET S : H[s] # Cardinality(Covered(A, s))}
           sizes == {Cardinality(s) : s \in Wrong}
<1>1. \A s \in SUBSET S : IsFiniteSet(s) /\ Cardinality(s) \in Nat
  BY FS_Subset, FS_CardinalityType
<1>2. ASSUME Wrong # {} PROVE FALSE
  <2>1. sizes \in SUBSET Nat /\ sizes # {}
    BY <1>1, <1>2
  <2>2. PICK m \in sizes : \A n \in sizes : m <= n
    <3> HIDE DEF sizes
    <3>1. QED
      BY <2>1, Smallest
  <2>3. PICK s \in Wrong : m = Cardinality(s)
    OBVIOUS
  <2>4. \A t \in SUBSET S : Cardinality(t) < Cardinality(s) => H[t] = Cardinality(Covered(A, t))
    BY <1>1, <2>2, <2>3
  <2>5. CASE s = {}
    <3>1. Covered(A, s) = {}
      BY <2>5 DEF Covered
    <3>2. H[s] = 0
      BY <2>5 DEF Totals
    <3>3. QED
      BY <3>1, <3>2, FS_EmptySet
  <2>6. CASE s # {}
    <3>1. PICK x : x = CHOOSE y \in s : TRUE
      OBVIOUS
    <3>2. x \in s
      BY <2>6, <3>1
    <3>3. H[s] = Cardinality(A[x]) + H[s \ {x}]
      BY <2>6, <3>1 DEF Totals
    <3>4. Cardinality(s \ {x}) < Cardinality(s)
      <4>1. Cardinality(s \ {x}) = Cardinality(s) - 1
        BY <1>1, <3>2, FS_RemoveElement
      <4>2. QED
        BY <1>1, <4>1
    <3>5. H[s \ {x}] = Cardinality(Covered(A, s \ {x}))
      BY <2>4, <3>4
    <3>6. Cardinality(Covered(A, s)) = Cardinality(A[x]) + Cardinality(Covered(A, s \ {x}))
      BY <3>2, CoveredOneMore
    <3>7. QED
      BY <3>3, <3>5, <3>6
  <2>7. QED
    BY <2>5, <2>6
<1>3. QED
  BY <1>2

-----------------------------------------------------------------------------
(* The walk *)

\* Some events of the log, each of which happened at an instant.
Events(T) ==
  /\ T \in SUBSET Nat /\ IsFiniteSet(T) /\ T # {}
  /\ \A i \in T : log[i].at \in Nat

LEMMA LeastOf ==
  ASSUME NEW S \in SUBSET Nat, S # {}
  PROVE  Min(S) \in S /\ \A n \in S : Min(S) <= n
BY Smallest, Zenon DEF Min

\* The later of two instants.
LEMMA LaterOfTwo ==
  ASSUME NEW a \in Int, NEW b \in Int
  PROVE  Max({a, b}) = IF a <= b THEN b ELSE a
<1>1. PICK m \in {a, b} : \A y \in {a, b} : m >= y
  <2>1. CASE a <= b
    <3>1. \A y \in {a, b} : b >= y
      BY <2>1
    <3>2. QED
      BY <3>1
  <2>2. CASE ~(a <= b)
    <3>1. \A y \in {a, b} : a >= y
      BY <2>2
    <3>2. QED
      BY <3>1
  <2>3. QED
    BY <2>1, <2>2
<1>2. Max({a, b}) \in {a, b} /\ \A y \in {a, b} : Max({a, b}) >= y
  BY <1>1, Zenon DEF Max
<1>3. QED
  BY <1>2

\* Events are in a line, and one of them is the last.
LEMMA LatestIsLast ==
  ASSUME NEW T, Events(T)
  PROVE  /\ Latest(log, T) \in T /\ Later(log, T, Latest(log, T)) = {}
         /\ \A i \in T : Later(log, T, i) = {} => i = Latest(log, T)
         /\ \A i \in T : log[i].at <= log[Latest(log, T)].at
<1> DEFINE after == [i \in T |-> Later(log, T, i)]
           counts == {Cardinality(after[i]) : i \in T}
<1>1. \A i \in T : IsFiniteSet(after[i]) /\ Cardinality(after[i]) \in Nat
  <2>1. ASSUME NEW i \in T PROVE after[i] \in SUBSET T
    BY DEF Later
  <2>2. IsFiniteSet(T)
    BY DEF Events
  <2> HIDE DEF after
  <2>3. QED
    BY <2>1, <2>2, FS_Subset, FS_CardinalityType
<1>2. counts \in SUBSET Nat /\ counts # {}
  <2> HIDE DEF after
  <2>1. QED
    BY <1>1 DEF Events
<1>3. PICK m \in counts : \A n \in counts : m <= n
  <2> HIDE DEF counts
  <2>1. QED
    BY <1>2, Smallest
<1>4. PICK i \in T : m = Cardinality(after[i])
  OBVIOUS
<1>5. ASSUME NEW j \in after[i] PROVE FALSE
  <2>1. j \in T /\ Before(log, i, j)
    BY DEF Later
  <2>2. after[j] \in SUBSET after[i] /\ j \notin after[j]
    <3>1. after[j] = Later(log, T, j) /\ after[i] = Later(log, T, i)
      BY <2>1
    <3>2. ~Before(log, j, j)
      <4>1. j \in Nat /\ log[j].at \in Nat
        BY <2>1 DEF Events
      <4>2. QED
        BY <4>1 DEF Before
    <3>3. ASSUME NEW k \in T, Before(log, j, k) PROVE Before(log, i, k)
      <4>1. /\ i \in Nat /\ j \in Nat /\ k \in Nat
            /\ log[i].at \in Nat /\ log[j].at \in Nat /\ log[k].at \in Nat
        BY <2>1 DEF Events
      <4>2. QED
        BY <2>1, <3>3, <4>1 DEF Before
    <3>4. QED
      BY <3>1, <3>2, <3>3 DEF Later
  <2>3. Cardinality(after[j]) < Cardinality(after[i])
    <3> HIDE DEF after
    <3>1. after[j] # after[i]
      BY <2>2
    <3>2. IsFiniteSet(after[i])
      BY <1>1
    <3>3. Cardinality(after[j]) <= Cardinality(after[i]) /\ (Cardinality(after[j]) = Cardinality(after[i]) => after[j] = after[i])
      BY <2>2, <3>2, FS_Subset
    <3>4. QED
      BY <1>1, <2>1, <3>1, <3>3
  <2>4. QED
    BY <1>1, <1>3, <1>4, <2>1, <2>3
<1>6. Later(log, T, i) = {}
  BY <1>5
<1>7. Latest(log, T) \in T /\ Later(log, T, Latest(log, T)) = {}
  BY <1>6, Zenon DEF Latest
<1>8. ASSUME NEW j \in T, NEW k \in T, Later(log, T, k) = {}
      PROVE  log[j].at <= log[k].at /\ (Later(log, T, j) = {} => j = k)
  <2>1. ~Before(log, k, j)
    BY <1>8 DEF Later
  <2>2. Later(log, T, j) = {} => ~Before(log, j, k)
    BY DEF Later
  <2>3. QED
    BY <2>1, <2>2 DEF Before, Events
<1>9. QED
  BY <1>7, <1>8

-----------------------------------------------------------------------------
(* Segments *)

\* The instants that belong to an event, and to no other.
Segments(T) == [i \in T |-> log[i].at .. (SegmentEnd(log, T, i, now) - 1)]

\* A segment ends where the next event is, or where the timeline does.
LEMMA SegmentEnds ==
  ASSUME NEW T, Events(T), now \in Nat, NEW i \in T
  PROVE  /\ SegmentEnd(log, T, i, now) \in Nat
         /\ log[i].at <= SegmentEnd(log, T, i, now)
         /\ \A j \in T : Before(log, i, j) => SegmentEnd(log, T, i, now) <= log[j].at
         /\ Later(log, T, i) # {} =>
              \E j \in T : Before(log, i, j) /\ SegmentEnd(log, T, i, now) = log[j].at
<1>0. log[i].at \in Nat
  BY DEF Events
<1>1. CASE Later(log, T, i) # {}
  <2> DEFINE S == {log[j].at : j \in Later(log, T, i)}
  <2>1. S \in SUBSET Nat /\ S # {}
    BY <1>1 DEF Later, Events
  <2>2. Min(S) \in S /\ \A n \in S : Min(S) <= n
    <3> HIDE DEF S
    <3>1. QED
      BY <2>1, LeastOf
  <2>3. SegmentEnd(log, T, i, now) = Min(S)
    BY <1>1 DEF SegmentEnd
  <2>4. PICK j \in Later(log, T, i) : Min(S) = log[j].at
    BY <2>2
  <2>5. j \in T /\ Before(log, i, j) /\ log[j].at \in Nat /\ log[i].at <= log[j].at
    BY <1>0 DEF Later, Events, Before
  <2>6. \A k \in T : Before(log, i, k) => Min(S) <= log[k].at
    BY <2>2 DEF Later
  <2> HIDE DEF S
  <2>7. QED
    BY <2>3, <2>4, <2>5, <2>6
<1>2. CASE Later(log, T, i) = {}
  <2>1. SegmentEnd(log, T, i, now) =
          IF log[i].state = "stopped" THEN log[i].at ELSE Max({now, log[i].at})
    BY <1>2 DEF SegmentEnd
  <2>2. Max({now, log[i].at}) \in Nat /\ log[i].at <= Max({now, log[i].at})
    BY <1>0, LaterOfTwo
  <2>3. \A j \in T : ~Before(log, i, j)
    BY <1>2 DEF Later
  <2>4. QED
    BY <1>0, <1>2, <2>1, <2>2, <2>3
<1>3. QED
  BY <1>1, <1>2

\* The instants before t, seen from t.
Upto(T, t) == {j \in T : log[j].at <= t}

LEMMA UptoEvents ==
  ASSUME NEW T, Events(T), NEW t, Upto(T, t) # {}
  PROVE  Events(Upto(T, t))
<1>1. Upto(T, t) \in SUBSET T
  BY DEF Upto
<1>2. IsFiniteSet(Upto(T, t))
  BY <1>1, FS_Subset DEF Events
<1>3. QED
  BY <1>1, <1>2 DEF Events

\* A timeline ends where the segment of its last event does.
LEMMA EndsWithTheLast ==
  ASSUME NEW T, Events(T), now \in Nat
  PROVE  /\ LastAt(T) = log[Latest(log, T)].at
         /\ Ends(T) = SegmentEnd(log, T, Latest(log, T), now)
<1> DEFINE last == Latest(log, T)
           ats == {log[j].at : j \in T}
<1>1. /\ last \in T /\ Later(log, T, last) = {}
      /\ \A i \in T : log[i].at <= log[last].at
  BY LatestIsLast
<1> HIDE DEF last
<1>2. \A i \in T : log[i].at \in Nat
  BY DEF Events
<1>3. \A y \in ats : log[last].at >= y
  BY <1>1, <1>2
<1>4. log[last].at \in ats
  BY <1>1
<1>5. Max(ats) \in ats /\ \A y \in ats : Max(ats) >= y
  <2> HIDE DEF ats
  <2>1. QED
    BY <1>3, <1>4, Zenon DEF Max
<1>6. Max(ats) = log[last].at
  BY <1>1, <1>2, <1>3, <1>4, <1>5
<1>7. LastAt(T) = log[last].at
  BY <1>6 DEF LastAt
<1>8. {j \in T : log[j].at <= LastAt(T)} = T
  BY <1>1, <1>7
<1>9. StateAt(T, LastAt(T)) = log[last].state
  BY <1>8 DEF StateAt, last
<1>10. QED
  BY <1>1, <1>7, <1>9 DEF Ends, SegmentEnd, last

\* An instant belongs to the event that was the last one by then, and only the
\* instants a timeline has lived through belong to any.
LEMMA InstantsOf ==
  ASSUME NEW T, Events(T), now \in Nat, NEW i \in T, NEW t \in Int
  PROVE  t \in Segments(T)[i] <=> t \in Lived(T) /\ Latest(log, Upto(T, t)) = i
<1> DEFINE last == Latest(log, T)
           past == Upto(T, t)
           from == log[i].at
           to == SegmentEnd(log, T, i, now)
           ats == {log[j].at : j \in T}
<1>1. /\ to \in Nat /\ from <= to
      /\ \A j \in T : Before(log, i, j) => to <= log[j].at
      /\ Later(log, T, i) # {} => \E j \in T : Before(log, i, j) /\ to = log[j].at
  BY SegmentEnds
<1>2. /\ last \in T /\ Later(log, T, last) = {}
      /\ \A j \in T : Later(log, T, j) = {} => j = last
      /\ \A j \in T : log[j].at <= log[last].at
  BY LatestIsLast
<1>3. Ends(T) = SegmentEnd(log, T, last, now)
  BY EndsWithTheLast
<1>4. Ends(T) \in Nat /\ log[last].at <= Ends(T)
  BY <1>2, <1>3, SegmentEnds
<1>5. \A j \in T : j \in Nat /\ log[j].at \in Nat
  BY DEF Events
<1>6. Begins(T) \in Nat /\ (\E j \in T : Begins(T) = log[j].at) /\ \A j \in T : Begins(T) <= log[j].at
  <2>1. ats \in SUBSET Nat /\ ats # {}
    BY <1>5 DEF Events
  <2>2. Min(ats) \in ats /\ \A n \in ats : Min(ats) <= n
    <3> HIDE DEF ats
    <3>1. QED
      BY <2>1, LeastOf
  <2>3. QED
    BY <1>5, <2>2 DEF Begins
<1>7. t \in Segments(T)[i] <=> from <= t /\ t < to
  BY <1>1, <1>5 DEF Segments
<1>8. t \in Lived(T) <=> Begins(T) <= t /\ t < Ends(T)
  BY <1>4, <1>6 DEF Lived
<1> HIDE DEF last
<1>9. ASSUME from <= t, t < to
      PROVE  t \in Lived(T) /\ Latest(log, past) = i
  <2>1. i \in past
    BY <1>9 DEF Upto
  <2>2. Events(past)
    BY <2>1, UptoEvents
  <2>3. \A j \in T : Before(log, i, j) => ~(log[j].at <= t)
    BY <1>1, <1>5, <1>9
  <2>4. Later(log, past, i) = {}
    BY <2>3 DEF Later, Upto
  <2>5. Latest(log, past) = i
    <3> HIDE DEF past
    <3>1. QED
      BY <2>1, <2>2, <2>4, LatestIsLast
  <2>6. Begins(T) <= t
    BY <1>5, <1>6, <1>9
  <2>7. t < Ends(T)
    <3>1. CASE Later(log, T, i) # {}
      BY <1>1, <1>2, <1>4, <1>5, <1>9, <3>1
    <3>2. CASE Later(log, T, i) = {}
      BY <1>2, <1>3, <1>9, <3>2
    <3>3. QED
      BY <3>1, <3>2
  <2>8. QED
    BY <1>8, <2>5, <2>6, <2>7
<1>10. ASSUME t \in Lived(T), Latest(log, past) = i
       PROVE  from <= t /\ t < to
  <2>1. PICK j \in T : log[j].at <= t
    BY <1>6, <1>8, <1>10
  <2>2. Events(past)
    BY <2>1, UptoEvents DEF Upto
  <2>3. i \in past /\ Later(log, past, i) = {}
    <3> HIDE DEF past
    <3>1. QED
      BY <1>10, <2>2, LatestIsLast
  <2>4. from <= t
    BY <2>3 DEF Upto
  <2>5. t < to
    <3>1. CASE Later(log, T, i) # {}
      <4>1. PICK k \in T : Before(log, i, k) /\ to = log[k].at
        BY <1>1, <3>1
      <4>2. k \notin past
        BY <2>3, <4>1 DEF Later
      <4>3. QED
        BY <1>5, <4>1, <4>2 DEF Upto
    <3>2. CASE Later(log, T, i) = {}
      BY <1>2, <1>3, <1>8, <1>10, <3>2
    <3>3. QED
      BY <3>1, <3>2
  <2>6. QED
    BY <2>4, <2>5
<1>11. QED
  BY <1>7, <1>9, <1>10

\* The state at an instant is the one of the event it belongs to.
LEMMA StateThen ==
  ASSUME NEW T, NEW t
  PROVE  StateAt(T, t) = log[Latest(log, Upto(T, t))].state
BY DEF StateAt, Upto

\* Some event happened by any instant the timeline lived through.
LEMMA SomeEventThen ==
  ASSUME NEW T, Events(T), now \in Nat, NEW t \in Lived(T)
  PROVE  t \in Int /\ Latest(log, Upto(T, t)) \in T
<1> DEFINE ats == {log[j].at : j \in T}
<1>1. \A j \in T : log[j].at \in Nat
  BY DEF Events
<1>2. \E j \in T : Begins(T) = log[j].at
  <2>1. ats \in SUBSET Nat /\ ats # {}
    BY <1>1 DEF Events
  <2>2. Min(ats) \in ats
    <3> HIDE DEF ats
    <3>1. QED
      BY <2>1, LeastOf
  <2>3. QED
    BY <2>2 DEF Begins
<1>3. t \in Int /\ Begins(T) <= t
  BY DEF Lived
<1>4. Upto(T, t) # {}
  BY <1>2, <1>3 DEF Upto
<1>5. Latest(log, Upto(T, t)) \in Upto(T, t)
  BY <1>4, UptoEvents, LatestIsLast
<1>6. QED
  BY <1>3, <1>5 DEF Upto

\* The events of a state.
In(T, state) == {i \in T : log[i].state = state}

\* Together the segments are what the timeline lived through, and those of a
\* state the instants at which the card was in it.
LEMMA SegmentsCover ==
  ASSUME NEW T, Events(T), now \in Nat
  PROVE  /\ \A i \in T : Segments(T)[i] \in SUBSET Int
         /\ Covered(Segments(T), T) = Lived(T)
         /\ \A state : Covered(Segments(T), In(T, state)) = {t \in Lived(T) : StateAt(T, t) = state}
<1>1. ASSUME NEW i \in T PROVE Segments(T)[i] \in SUBSET Int
  BY SegmentEnds DEF Segments
<1>2. ASSUME NEW i \in T, NEW t \in Segments(T)[i]
      PROVE  t \in Lived(T) /\ StateAt(T, t) = log[i].state
  BY <1>1, <1>2, InstantsOf, StateThen
<1>3. ASSUME NEW t \in Lived(T)
      PROVE  \E i \in T : t \in Segments(T)[i] /\ StateAt(T, t) = log[i].state
  BY <1>3, SomeEventThen, InstantsOf, StateThen
<1>4. Covered(Segments(T), T) = Lived(T)
  BY <1>2, <1>3 DEF Covered
<1>5. ASSUME NEW state
      PROVE  Covered(Segments(T), In(T, state)) = {t \in Lived(T) : StateAt(T, t) = state}
  <2>1. ASSUME NEW t \in Lived(T), StateAt(T, t) = state
        PROVE  \E i \in In(T, state) : t \in Segments(T)[i]
    BY <1>3, <2>1 DEF In
  <2>2. ASSUME NEW i \in In(T, state), NEW t \in Segments(T)[i]
        PROVE  t \in Lived(T) /\ StateAt(T, t) = state
    BY <1>2, <2>2 DEF In
  <2>3. QED
    BY <2>1, <2>2 DEF Covered
<1>6. QED
  BY <1>1, <1>4, <1>5

\* No instant belongs to two events.
LEMMA SegmentsApart ==
  ASSUME NEW T, Events(T), now \in Nat, NEW S \in SUBSET T
  PROVE  /\ Apart(Segments(T), S)
         /\ \A i \in S : Cardinality(Segments(T)[i]) = SegmentEnd(log, T, i, now) - log[i].at
<1>1. ASSUME NEW i \in S
      PROVE  /\ IsFiniteSet(Segments(T)[i])
             /\ Cardinality(Segments(T)[i]) = SegmentEnd(log, T, i, now) - log[i].at
  <2>1. PICK to : to = SegmentEnd(log, T, i, now)
    OBVIOUS
  <2>2. PICK from : from = log[i].at
    OBVIOUS
  <2>3. to \in Nat /\ from \in Nat /\ from <= to
    BY <2>1, <2>2, SegmentEnds DEF Events
  <2>4. Segments(T)[i] = from .. (to - 1)
    BY <2>1, <2>2 DEF Segments
  <2>5. IsFiniteSet(from .. (to - 1)) /\ Cardinality(from .. (to - 1)) = to - from
    <3>1. PICK last \in Int : last = to - 1
      BY <2>3
    <3>2. /\ IsFiniteSet(from .. last)
          /\ Cardinality(from .. last) = IF from > last THEN 0 ELSE last - from + 1
      BY <2>3, FS_Interval
    <3>3. QED
      BY <2>3, <3>1, <3>2
  <2>6. QED
    BY <2>1, <2>2, <2>4, <2>5
<1>2. ASSUME NEW i \in S, NEW j \in S, i # j PROVE Segments(T)[i] \cap Segments(T)[j] = {}
  <2>1. ASSUME NEW t \in Segments(T)[i], t \in Segments(T)[j] PROVE FALSE
    <3>1. t \in Int
      BY SegmentsCover
    <3>2. Latest(log, Upto(T, t)) = i /\ Latest(log, Upto(T, t)) = j
      BY <2>1, <3>1, InstantsOf
    <3>3. QED
      BY <1>2, <3>2
  <2>2. QED
    BY <2>1
<1>3. QED
  BY <1>1, <1>2 DEF Apart

-----------------------------------------------------------------------------
(* The wall clock *)

\* What MapThenSumSet computes of the lengths of segments.
SecondsOf(T, S, H) ==
  H = [s \in SUBSET S |->
         IF s = {} THEN 0
         ELSE (SegmentEnd(log, T, CHOOSE x \in s : TRUE, now) - log[CHOOSE x \in s : TRUE].at)
              + H[s \ {CHOOSE x \in s : TRUE}]]

LEMMA SecondsAdded ==
  ASSUME NEW T, Events(T), now \in Nat, NEW S \in SUBSET T
  PROVE  (CHOOSE H : SecondsOf(T, S, H))[S] = Cardinality(Covered(Segments(T), S))
<1> DEFINE A == Segments(T)
<1>1. /\ Apart(A, S) /\ IsFiniteSet(S)
      /\ \A i \in S : Cardinality(A[i]) = SegmentEnd(log, T, i, now) - log[i].at
  BY SegmentsApart, FS_Subset DEF Events
<1> HIDE DEF A
<1>2. ASSUME NEW H PROVE SecondsOf(T, S, H) <=> Totals(A, S, H)
  <2>1. ASSUME NEW s \in SUBSET S, s # {}
        PROVE  Cardinality(A[CHOOSE x \in s : TRUE]) =
                 SegmentEnd(log, T, CHOOSE x \in s : TRUE, now) - log[CHOOSE x \in s : TRUE].at
    <3>1. (CHOOSE x \in s : TRUE) \in S
      BY <2>1
    <3>2. QED
      BY <1>1, <3>1
  <2>2. QED
    BY <2>1 DEF SecondsOf, Totals
<1>3. \E H : SecondsOf(T, S, H)
  BY <1>1, <1>2, TotalsExist
<1>4. SecondsOf(T, S, CHOOSE H : SecondsOf(T, S, H))
  BY <1>3, Zenon
<1>5. Totals(A, S, CHOOSE H : SecondsOf(T, S, H))
  BY <1>2, <1>4
<1>6. QED
  BY <1>1, <1>5, TotalsKnown DEF A

LEMMA SecondsComputed ==
  ASSUME NEW T, T # {}
  PROVE  /\ Compute(log, T, now).elapsed = (CHOOSE H : SecondsOf(T, T, H))[T]
         /\ Compute(log, T, now).budget =
              (CHOOSE H : SecondsOf(T, In(T, "running"), H))[In(T, "running")]
         /\ Compute(log, T, now).waiting =
              (CHOOSE H : SecondsOf(T, In(T, "paused"), H))[In(T, "paused")]
<1>1. Compute(log, T, now).elapsed = (CHOOSE H : SecondsOf(T, T, H))[T]
  BY DEF Compute, MapThenSumSet, MapThenFoldSet, SecondsOf
<1>2. Compute(log, T, now).budget =
        (CHOOSE H : SecondsOf(T, In(T, "running"), H))[In(T, "running")]
  BY DEF Compute, MapThenSumSet, MapThenFoldSet, SecondsOf, In
<1>3. Compute(log, T, now).waiting =
        (CHOOSE H : SecondsOf(T, In(T, "paused"), H))[In(T, "paused")]
  BY DEF Compute, MapThenSumSet, MapThenFoldSet, SecondsOf, In
<1>4. QED
  BY <1>1, <1>2, <1>3

\* Every timeline that has events is one.
LEMMA TimelinesAreEvents ==
  ASSUME EntriesInv, NEW b \in Told
  PROVE  Events(Timeline(b)) /\ now \in Nat
<1>1. log \in Seq(Event) /\ now \in Nat
  BY DEF EntriesInv, LogInv
<1>2. DOMAIN log = 1 .. Len(log) /\ Len(log) \in Nat /\ \A i \in DOMAIN log : log[i] \in Event
  BY <1>1
<1>3. Timeline(b) \in SUBSET DOMAIN log /\ Timeline(b) # {}
  BY DEF Timeline, Told
<1>4. IsFiniteSet(DOMAIN log)
  BY <1>2, FS_Interval
<1>5. IsFiniteSet(Timeline(b))
  BY <1>3, <1>4, FS_Subset
<1>6. \A i \in DOMAIN log : log[i].at \in Nat
  BY <1>2 DEF Event
<1>7. QED
  BY <1>1, <1>2, <1>3, <1>5, <1>6 DEF Events

\* Elapsed, budget and waiting time are the instants the card lived through, ran
\* in and waited in (timeaccounting.go:30-31).
THEOREM ClockReads == Spec => []ClockReadsTheLog
<1>1. EntriesInv => ClockReadsTheLog
  <2> SUFFICES ASSUME EntriesInv, NEW b \in Told
               PROVE  LET T == Timeline(b)
                          figures == Compute(log, T, now)
                          spent(state) == {t \in Lived(T) : StateAt(T, t) = state}
                      IN  /\ figures.elapsed = Cardinality(Lived(T))
                          /\ figures.budget = Cardinality(spent("running"))
                          /\ figures.waiting = Cardinality(spent("paused"))
    BY DEF ClockReadsTheLog
  <2> DEFINE T == Timeline(b)
  <2>1. Events(T) /\ now \in Nat /\ T # {}
    BY TimelinesAreEvents DEF Told
  <2> HIDE DEF T
  <2>2. /\ Compute(log, T, now).elapsed = (CHOOSE H : SecondsOf(T, T, H))[T]
        /\ Compute(log, T, now).budget =
             (CHOOSE H : SecondsOf(T, In(T, "running"), H))[In(T, "running")]
        /\ Compute(log, T, now).waiting =
             (CHOOSE H : SecondsOf(T, In(T, "paused"), H))[In(T, "paused")]
    BY <2>1, SecondsComputed
  <2>3. \A S \in SUBSET T :
          (CHOOSE H : SecondsOf(T, S, H))[S] = Cardinality(Covered(Segments(T), S))
    BY <2>1, SecondsAdded
  <2>4. T \in SUBSET T /\ In(T, "running") \in SUBSET T /\ In(T, "paused") \in SUBSET T
    BY DEF In
  <2>5. /\ Covered(Segments(T), T) = Lived(T)
        /\ \A state : Covered(Segments(T), In(T, state)) = {t \in Lived(T) : StateAt(T, t) = state}
    BY <2>1, SegmentsCover
  <2>6. Compute(log, T, now).elapsed = Cardinality(Lived(T))
    BY <2>2, <2>3, <2>4, <2>5
  <2>7. Compute(log, T, now).budget = Cardinality({t \in Lived(T) : StateAt(T, t) = "running"})
    BY <2>2, <2>3, <2>4, <2>5
  <2>8. Compute(log, T, now).waiting = Cardinality({t \in Lived(T) : StateAt(T, t) = "paused"})
    BY <2>2, <2>3, <2>4, <2>5
  <2>9. QED
    BY <2>6, <2>7, <2>8 DEF T
<1>2. QED
  BY <1>1, EntriesInvariant, PTL

-----------------------------------------------------------------------------
(* The working week *)

Hours(date) == Midnight[date] + Start .. Midnight[date] + End - 1

LEMMA EarlierOfTwo ==
  ASSUME NEW a \in Int, NEW b \in Int
  PROVE  Min({a, b}) = IF a <= b THEN a ELSE b
<1>1. PICK m \in {a, b} : \A y \in {a, b} : m <= y
  <2>1. CASE a <= b
    <3>1. \A y \in {a, b} : a <= y
      BY <2>1
    <3>2. QED
      BY <3>1
  <2>2. CASE ~(a <= b)
    <3>1. \A y \in {a, b} : b <= y
      BY <2>2
    <3>2. QED
      BY <3>1
  <2>3. QED
    BY <2>1, <2>2
<1>2. Min({a, b}) \in {a, b} /\ \A y \in {a, b} : Min({a, b}) <= y
  BY <1>1, Zenon DEF Min
<1>3. QED
  BY <1>2

\* How many instants there are between two.
LEMMA InstantsBetween ==
  ASSUME NEW a \in Int, NEW b \in Int
  PROVE  /\ IsFiniteSet(a .. (b - 1))
         /\ Cardinality(a .. (b - 1)) = IF a < b THEN b - a ELSE 0
<1>1. PICK last \in Int : last = b - 1
  OBVIOUS
<1>2. /\ IsFiniteSet(a .. last)
      /\ Cardinality(a .. last) = IF a > last THEN 0 ELSE last - a + 1
  BY FS_Interval
<1>3. QED
  BY <1>1, <1>2

LEMMA DatesBegin ==
  ASSUME NEW date \in WorkingDates
  PROVE  Midnight[date] \in Nat /\ Start \in Nat /\ End \in Nat
BY CalendarAssumption

\* A window is as long as what it shares with the hours of its date.
LEMMA WindowIsShared ==
  ASSUME NEW from \in Nat, NEW to \in Nat, NEW date \in WorkingDates
  PROVE  /\ IsFiniteSet((from .. (to - 1)) \cap Hours(date))
         /\ Cardinality((from .. (to - 1)) \cap Hours(date)) = Window(from, to, date)
<1>1. PICK opens \in Int : opens = Midnight[date] + Start
  BY DatesBegin
<1>2. PICK closes \in Int : closes = Midnight[date] + End
  BY DatesBegin
<1>3. PICK a \in Int : a = IF from <= opens THEN opens ELSE from
  OBVIOUS
<1>4. PICK b \in Int : b = IF to <= closes THEN to ELSE closes
  OBVIOUS
<1>5. (from .. (to - 1)) \cap Hours(date) = a .. (b - 1)
  <2>1. Hours(date) = opens .. (closes - 1)
    BY <1>1, <1>2, DatesBegin DEF Hours
  <2>2. ASSUME NEW t \in Int
        PROVE  t \in (from .. (to - 1)) \cap (opens .. (closes - 1)) <=> t \in a .. (b - 1)
    <3>1. t \in (from .. (to - 1)) <=> from <= t /\ t < to
      OBVIOUS
    <3>2. t \in (opens .. (closes - 1)) <=> opens <= t /\ t < closes
      OBVIOUS
    <3>3. t \in a .. (b - 1) <=> a <= t /\ t < b
      OBVIOUS
    <3>4. a <= t /\ t < b <=> from <= t /\ t < to /\ opens <= t /\ t < closes
      BY <1>3, <1>4
    <3>5. QED
      BY <3>1, <3>2, <3>3, <3>4
  <2>3. from .. (to - 1) \in SUBSET Int /\ a .. (b - 1) \in SUBSET Int
    OBVIOUS
  <2>4. QED
    BY <2>1, <2>2, <2>3
<1>6. Max({from, opens}) = a /\ Min({to, closes}) = b
  BY <1>3, <1>4, LaterOfTwo, EarlierOfTwo
<1>7. Window(from, to, date) = Max({0, b - a})
  BY <1>1, <1>2, <1>6 DEF Window
<1>8. Max({0, b - a}) = IF 0 <= b - a THEN b - a ELSE 0
  <2>1. PICK c \in Int : c = b - a
    OBVIOUS
  <2>2. Max({0, c}) = IF 0 <= c THEN c ELSE 0
    BY LaterOfTwo
  <2>3. QED
    BY <2>1, <2>2
<1>9. IsFiniteSet(a .. (b - 1)) /\ Cardinality(a .. (b - 1)) = IF a < b THEN b - a ELSE 0
  BY InstantsBetween
<1>10. (IF 0 <= b - a THEN b - a ELSE 0) = (IF a < b THEN b - a ELSE 0)
  OBVIOUS
<1>11. QED
  BY <1>5, <1>7, <1>8, <1>9, <1>10

\* What MapThenSumSet computes of the windows.
WindowsOf(from, to, H) ==
  H = [s \in SUBSET Walked(from) |->
         IF s = {} THEN 0
         ELSE Window(from, to, CHOOSE x \in s : TRUE) + H[s \ {CHOOSE x \in s : TRUE}]]

\* The windows of two instants are the time at work between them.
LEMMA WorkBetween ==
  ASSUME HoursFitTheirDays, NEW from \in Nat, NEW to \in Nat
  PROVE  BusinessSecondsBetween(from, to) = Cardinality((from .. (to - 1)) \cap AtWork)
<1> DEFINE D == Walked(from)
           A == [date \in D |-> (from .. (to - 1)) \cap Hours(date)]
<1>1. D \in SUBSET WorkingDates /\ IsFiniteSet(D)
  BY CalendarAssumption, FS_Subset DEF Walked
<1>2. ASSUME NEW date \in D
      PROVE  IsFiniteSet(A[date]) /\ Cardinality(A[date]) = Window(from, to, date)
  BY <1>1, WindowIsShared
<1>3. ASSUME NEW d \in WorkingDates, NEW e \in WorkingDates, d # e PROVE Hours(d) \cap Hours(e) = {}
  <2>1. Midnight[d] \in Nat /\ Midnight[e] \in Nat /\ Start \in Nat /\ End \in Nat
    BY DatesBegin
  <2>2. d \in DOMAIN Midnight /\ e \in DOMAIN Midnight
    BY CalendarAssumption
  <2>3. /\ Midnight[e] < Midnight[d] \/ Midnight[d] + End <= Midnight[e]
        /\ Midnight[d] < Midnight[e] \/ Midnight[e] + End <= Midnight[d]
    BY <1>3, <2>2 DEF HoursFitTheirDays
  <2>4. QED
    BY <2>1, <2>3 DEF Hours
<1>4. ASSUME NEW date \in WorkingDates, date \notin D
      PROVE  (from .. (to - 1)) \cap Hours(date) = {}
  <2>1. PICK d \in DOMAIN Midnight : Midnight[d] <= from /\ ~(Midnight[d] <= Midnight[date])
    BY <1>4 DEF Walked
  <2>2. Midnight[d] \in Nat /\ Midnight[date] \in Nat /\ Start \in Nat /\ End \in Nat
    BY CalendarAssumption
  <2>3. Midnight[d] < Midnight[date] \/ Midnight[date] + End <= Midnight[d]
    BY <2>1, <2>2 DEF HoursFitTheirDays
  <2>4. QED
    BY <2>1, <2>2, <2>3 DEF Hours
<1>5. Covered(A, D) = (from .. (to - 1)) \cap AtWork
  <2>1. AtWork = UNION {Hours(date) : date \in WorkingDates}
    BY DEF AtWork, Hours
  <2>2. ASSUME NEW t \in (from .. (to - 1)) \cap AtWork PROVE \E date \in D : t \in A[date]
    <3>1. PICK date \in WorkingDates : t \in Hours(date)
      BY <2>1
    <3>2. date \in D
      BY <1>4, <3>1
    <3>3. QED
      BY <3>1, <3>2
  <2>3. ASSUME NEW date \in D, NEW t \in A[date] PROVE t \in (from .. (to - 1)) \cap AtWork
    BY <1>1, <2>1
  <2> HIDE DEF A
  <2>4. QED
    BY <2>2, <2>3 DEF Covered
<1>6. \A d, e \in D : d # e => A[d] \cap A[e] = {}
  BY <1>1, <1>3
<1> HIDE DEF A
<1>7. Apart(A, D)
  BY <1>2, <1>6 DEF Apart
<1>8. ASSUME NEW H PROVE WindowsOf(from, to, H) <=> Totals(A, D, H)
  <2>1. ASSUME NEW s \in SUBSET D, s # {}
        PROVE  Cardinality(A[CHOOSE x \in s : TRUE]) = Window(from, to, CHOOSE x \in s : TRUE)
    <3>1. (CHOOSE x \in s : TRUE) \in D
      BY <2>1
    <3>2. QED
      BY <1>2, <3>1
  <2> HIDE DEF D
  <2>2. QED
    BY <2>1 DEF WindowsOf, Totals, D
<1>9. BusinessSecondsBetween(from, to) = (CHOOSE H : WindowsOf(from, to, H))[Walked(from)]
  BY DEF BusinessSecondsBetween, MapThenSumSet, MapThenFoldSet, WindowsOf
<1> HIDE DEF D
<1>10. \E H : WindowsOf(from, to, H)
  BY <1>1, <1>7, <1>8, TotalsExist
<1>11. WindowsOf(from, to, CHOOSE H : WindowsOf(from, to, H))
  BY <1>10, Zenon
<1>12. Totals(A, D, CHOOSE H : WindowsOf(from, to, H))
  BY <1>8, <1>11
<1>13. QED
  BY <1>1, <1>5, <1>7, <1>9, <1>12, TotalsKnown DEF D

\* The part of each segment that is at work.
Worked(T) == [i \in T |-> Segments(T)[i] \cap AtWork]

LEMMA WorkedApart ==
  ASSUME HoursFitTheirDays, NEW T, Events(T), now \in Nat, NEW S \in SUBSET T
  PROVE  /\ Apart(Worked(T), S)
         /\ \A i \in S : Cardinality(Worked(T)[i]) =
              BusinessSecondsBetween(log[i].at, SegmentEnd(log, T, i, now))
         /\ Covered(Worked(T), S) = Covered(Segments(T), S) \cap AtWork
<1>1. Apart(Segments(T), S)
  BY SegmentsApart
<1>2. \A i \in S : Worked(T)[i] = Segments(T)[i] \cap AtWork
  BY DEF Worked
<1>3. ASSUME NEW i \in S PROVE IsFiniteSet(Worked(T)[i])
  <2>1. IsFiniteSet(Segments(T)[i])
    BY <1>1 DEF Apart
  <2>2. Worked(T)[i] \in SUBSET Segments(T)[i]
    BY <1>2
  <2>3. QED
    BY <2>1, <2>2, FS_Subset
<1>4. \A i, j \in S : i # j => Worked(T)[i] \cap Worked(T)[j] = {}
  BY <1>1, <1>2 DEF Apart
<1>5. ASSUME NEW i \in S
      PROVE  Cardinality(Worked(T)[i]) = BusinessSecondsBetween(log[i].at, SegmentEnd(log, T, i, now))
  <2>1. PICK from \in Nat : from = log[i].at
    BY DEF Events
  <2>2. PICK to \in Nat : to = SegmentEnd(log, T, i, now)
    BY SegmentEnds
  <2>3. Segments(T)[i] = from .. (to - 1)
    BY <2>1, <2>2 DEF Segments
  <2>4. BusinessSecondsBetween(from, to) = Cardinality((from .. (to - 1)) \cap AtWork)
    BY WorkBetween
  <2>5. QED
    BY <1>2, <2>1, <2>2, <2>3, <2>4
<1>6. Covered(Worked(T), S) = Covered(Segments(T), S) \cap AtWork
  BY <1>2 DEF Covered
<1>7. QED
  BY <1>3, <1>4, <1>5, <1>6 DEF Apart

\* What MapThenSumSet computes of the business time of segments.
BusinessOf(T, S, H) ==
  H = [s \in SUBSET S |->
         IF s = {} THEN 0
         ELSE BusinessSecondsBetween(log[CHOOSE x \in s : TRUE].at,
                                     SegmentEnd(log, T, CHOOSE x \in s : TRUE, now))
              + H[s \ {CHOOSE x \in s : TRUE}]]

LEMMA BusinessAdded ==
  ASSUME HoursFitTheirDays, NEW T, Events(T), now \in Nat, NEW S \in SUBSET T
  PROVE  (CHOOSE H : BusinessOf(T, S, H))[S] = Cardinality(Covered(Segments(T), S) \cap AtWork)
<1> DEFINE A == Worked(T)
<1>1. /\ Apart(A, S) /\ IsFiniteSet(S)
      /\ \A i \in S : Cardinality(A[i]) =
           BusinessSecondsBetween(log[i].at, SegmentEnd(log, T, i, now))
      /\ Covered(A, S) = Covered(Segments(T), S) \cap AtWork
  BY WorkedApart, FS_Subset DEF Events
<1> HIDE DEF A
<1>2. ASSUME NEW H PROVE BusinessOf(T, S, H) <=> Totals(A, S, H)
  <2>1. ASSUME NEW s \in SUBSET S, s # {}
        PROVE  Cardinality(A[CHOOSE x \in s : TRUE]) =
                 BusinessSecondsBetween(log[CHOOSE x \in s : TRUE].at,
                                        SegmentEnd(log, T, CHOOSE x \in s : TRUE, now))
    <3>1. (CHOOSE x \in s : TRUE) \in S
      BY <2>1
    <3>2. QED
      BY <1>1, <3>1
  <2>2. QED
    BY <2>1 DEF BusinessOf, Totals
<1>3. \E H : BusinessOf(T, S, H)
  BY <1>1, <1>2, TotalsExist
<1>4. BusinessOf(T, S, CHOOSE H : BusinessOf(T, S, H))
  BY <1>3, Zenon
<1>5. Totals(A, S, CHOOSE H : BusinessOf(T, S, H))
  BY <1>2, <1>4
<1>6. QED
  BY <1>1, <1>5, TotalsKnown

LEMMA BusinessComputed ==
  ASSUME NEW T, T # {}
  PROVE  /\ Compute(log, T, now).business = (CHOOSE H : BusinessOf(T, T, H))[T]
         /\ Compute(log, T, now).businessBudget =
              (CHOOSE H : BusinessOf(T, In(T, "running"), H))[In(T, "running")]
<1>1. Compute(log, T, now).business = (CHOOSE H : BusinessOf(T, T, H))[T]
  BY DEF Compute, MapThenSumSet, MapThenFoldSet, BusinessOf
<1>2. Compute(log, T, now).businessBudget =
        (CHOOSE H : BusinessOf(T, In(T, "running"), H))[In(T, "running")]
  BY DEF Compute, MapThenSumSet, MapThenFoldSet, BusinessOf, In
<1>3. QED
  BY <1>1, <1>2

\* Where the working hours of each date are over before the next date begins, business time is the time at
\* work that the card lived through, and its budget the part it ran in
\* (timeaccounting.go:177-231).
THEOREM BusinessTime == HoursFitTheirDays => (Spec => []BusinessTimeIsTimeAtWork)
<1> SUFFICES ASSUME HoursFitTheirDays PROVE Spec => []BusinessTimeIsTimeAtWork
  OBVIOUS
<1>1. EntriesInv => BusinessTimeIsTimeAtWork
  <2> SUFFICES ASSUME EntriesInv, NEW b \in Told
               PROVE  LET T == Timeline(b)
                          figures == Compute(log, T, now)
                          worked == Lived(T) \cap AtWork
                      IN  /\ figures.business = Cardinality(worked)
                          /\ figures.businessBudget =
                               Cardinality({t \in worked : StateAt(T, t) = "running"})
    BY DEF BusinessTimeIsTimeAtWork
  <2> DEFINE T == Timeline(b)
  <2>1. Events(T) /\ now \in Nat /\ T # {}
    BY TimelinesAreEvents DEF Told
  <2> HIDE DEF T
  <2>2. /\ Compute(log, T, now).business = (CHOOSE H : BusinessOf(T, T, H))[T]
        /\ Compute(log, T, now).businessBudget =
             (CHOOSE H : BusinessOf(T, In(T, "running"), H))[In(T, "running")]
    BY <2>1, BusinessComputed
  <2>3. \A S \in SUBSET T : (CHOOSE H : BusinessOf(T, S, H))[S] =
          Cardinality(Covered(Segments(T), S) \cap AtWork)
    BY <2>1, BusinessAdded
  <2>4. T \in SUBSET T /\ In(T, "running") \in SUBSET T
    BY DEF In
  <2>5. /\ Covered(Segments(T), T) = Lived(T)
        /\ Covered(Segments(T), In(T, "running")) = {t \in Lived(T) : StateAt(T, t) = "running"}
    BY <2>1, SegmentsCover
  <2>6. {t \in Lived(T) : StateAt(T, t) = "running"} \cap AtWork =
          {t \in Lived(T) \cap AtWork : StateAt(T, t) = "running"}
    OBVIOUS
  <2>7. Compute(log, T, now).business = Cardinality(Lived(T) \cap AtWork)
    BY <2>2, <2>3, <2>4, <2>5
  <2>8. Compute(log, T, now).businessBudget =
          Cardinality({t \in Lived(T) \cap AtWork : StateAt(T, t) = "running"})
    BY <2>2, <2>3, <2>4, <2>5, <2>6
  <2>9. QED
    BY <2>7, <2>8 DEF T
<1>2. QED
  BY <1>1, EntriesInvariant, PTL
=============================================================================
