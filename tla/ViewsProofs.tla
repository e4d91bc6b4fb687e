------------------------------ MODULE ViewsProofs ------------------------------
(***************************************************************************)
(* The views a plugin keeps, proved for any readers, keys, pages, changes  *)
(* and mishaps: the types of what is kept, that a reader's view is the one *)
(* there is until the reader leaves it, that none is left unread, that no  *)
(* row of it goes back, and that it is the store's once all is heard.      *)
(***************************************************************************)
EXTENDS Views, Integers, FiniteSetTheorems, SequenceTheorems, WellFoundedInduction, TLAPS

-----------------------------------------------------------------------------
(* The least and the greatest of naturals. *)

\* Every set of naturals that is not empty has a least member.
LEMMA LeastExists ==
  ASSUME NEW S \in SUBSET Nat, S # {}
  PROVE  \E x \in S : \A y \in S : x <= y
<1>1. PICK x \in S : \A y \in S : ~(<<y, x>> \in OpToRel(<, Nat))
  BY WFMin, NatLessThanWellFounded, Zenon
<1>2. \A y \in S : ~(y < x)
  BY <1>1, Zenon DEF OpToRel
<1>3. \A y \in S : x <= y
  BY <1>2
<1>. QED BY <1>3

\* Min is the least of a set of naturals.
LEMMA MinIsLeast ==
  ASSUME NEW S \in SUBSET Nat, S # {}
  PROVE  Min(S) \in S /\ \A y \in S : Min(S) <= y
  BY LeastExists DEF Min

\* Max is the greatest of a bounded set of naturals.
LEMMA MaxIsGreatest ==
  ASSUME NEW n \in Nat, NEW S \in SUBSET (0..n), S # {}
  PROVE  Max(S) \in S /\ \A y \in S : Max(S) >= y
<1>. DEFINE T == {m \in 0..n : n - m \in S}
<1>1. PICK m \in S : TRUE
  OBVIOUS
<1>2. n - m \in T
  BY n - (n - m) = m
<1>3. T \in SUBSET Nat /\ T # {}
  BY <1>2
<1>4. PICK t \in T : \A u \in T : t <= u
  BY <1>3, LeastExists
<1>5. t \in 0..n /\ n - t \in S
  OBVIOUS
<1>6. ASSUME NEW y \in S PROVE n - t >= y
  <2>1. n - y \in T
    BY n - (n - y) = y
  <2>2. t <= n - y
    BY <2>1, <1>4
  <2>. QED BY <2>2, <1>5
<1>. QED BY <1>5, <1>6 DEF Max

-----------------------------------------------------------------------------
\* Which steps change what.
LEMMA Footprint ==
    ASSUME [Next]_vars
    PROVE  /\ UNCHANGED log \/ (\E k \in Keys : Change(k))
           /\ UNCHANGED on \/ (\E s \in Streams : Break(s) \/ ReadFails(s) \/ SeeBreak(s))
                \/ (\E by \in Streams \cup {"first"} : Subscribe(by)) \/ (\E v \in Made : Unsubscribe(v))
           /\ UNCHANGED up
                \/ (\E s \in Streams : Break(s) \/ ReadFails(s) \/ SeeBreak(s) \/ OpenStream(s))
           /\ UNCHANGED queue \/ (\E k \in Keys : Change(k))
                \/ (\E s \in Streams : Break(s) \/ ReadFails(s) \/ SeeBreak(s) \/ HearLost(s) \/ HearChange(s))
           /\ UNCHANGED phase \/ (\E r \in Readers : Ask(r))
                \/ (\E s \in Streams : OpenStream(s) \/ Resumed(s) \/ ReadFails(s) \/ SeeBreak(s))
           /\ UNCHANGED again \/ (\E s \in Streams : OpenStream(s))
           /\ UNCHANGED rereads
                \/ (\E s \in Streams : OpenStream(s) \/ ReadAgain(s) \/ ReadFails(s) \/ SeeBreak(s) \/ HearLost(s))
           /\ UNCHANGED job \/ (\E r \in Readers : Ask(r)) \/ StreamOpen \/ Opened \/ OpenFails
                \/ (\E by \in Streams \cup {"first"} : Subscribe(by) \/ Answer(by))
                \/ (\E s \in Streams : ReadAgain(s) \/ ReadOver(s) \/ ReadFails(s))
           /\ UNCHANGED made \/ (\E r \in Readers : Ask(r))
           /\ UNCHANGED <<bySelector, byId>> \/ Opened \/ (\E v \in Made : Drop(v))
           /\ UNCHANGED shared \/ (\E r \in Readers : Ask(r) \/ Leave(r)) \/ Opened
                \/ (\E s \in Streams : ReadAgain(s) \/ ReadOver(s) \/ HearChange(s))
           /\ UNCHANGED leaving \/ (\E v \in Made : Drop(v) \/ Unsubscribe(v))
           /\ UNCHANGED <<reader, of>> \/ (\E r \in Readers : Ask(r) \/ Handed(r) \/ Leave(r))
                \/ Opened \/ OpenFails
           /\ UNCHANGED left \/ (\E k \in Keys : Change(k)) \/ (\E s \in Streams : Break(s) \/ ReadFails(s))
                \/ OpenFails
<1> USE DEF sidecarVars, streamVars, tableVars, readerVars
<1>1. CASE \E k \in Keys : Change(k)
  BY <1>1 DEF Change
<1>2. CASE \E s \in Streams : Break(s)
  BY <1>2 DEF Break
<1>3. CASE \E s \in Streams : ReadFails(s) \/ SeeBreak(s)
  BY <1>3 DEF ReadFails, SeeBreak, Closed
<1>4. CASE \E s \in Streams : OpenStream(s) \/ Resumed(s)
  BY <1>4 DEF OpenStream, Resumed
<1>5. CASE \E s \in Streams : ReadAgain(s) \/ ReadOver(s)
  BY <1>5 DEF ReadAgain, ReadOver
<1>6. CASE \E s \in Streams : HearLost(s) \/ HearChange(s)
  BY <1>6 DEF HearLost, HearChange
<1>7. CASE \E r \in Readers : Ask(r)
  BY <1>7 DEF Ask
<1>8. CASE \E r \in Readers : Handed(r) \/ Leave(r)
  BY <1>8 DEF Handed, Leave
<1>9. CASE Reads
  BY <1>9 DEF Reads, Subscribe, Answer
<1>10. CASE StreamOpen \/ OpenFails
  BY <1>10 DEF StreamOpen, OpenFails
<1>11. CASE Opened
  BY <1>11 DEF Opened
<1>12. CASE Lingering
  BY <1>12 DEF Lingering, Drop, Unsubscribe
<1>13. CASE UNCHANGED vars
  BY <1>13 DEF vars
<1> QED BY <1>1, <1>2, <1>3, <1>4, <1>5, <1>6, <1>7, <1>8, <1>9, <1>10, <1>11, <1>12, <1>13
        DEF Next, Opens, Runs

-----------------------------------------------------------------------------
(* Types. *)

\* What each variable may hold, part by part.
SidecarTyped ==
    /\ log \in Seq(Keys) /\ Len(log) <= MaxLog
    /\ on \in [Made -> Streams \cup {None}]
    /\ up \in [Streams -> BOOLEAN]
    /\ queue \in [Streams -> Seq([number : Numbers, views : SUBSET Made])]

StreamTyped ==
    /\ phase \in [Streams -> {"none", "closed", "reopened", "hearing"}]
    /\ again \in [Streams -> BOOLEAN] /\ rereads \in [Streams -> SUBSET Made]

JobTyped == job \in [Streams \cup {"first"} -> Jobs \cup {None}]

TableTyped ==
    /\ made \in 0 .. MaxViews /\ bySelector \in Made \cup {None} /\ byId \subseteq Made
    /\ leaving \subseteq Made

SharedTyped ==
    /\ shared \in [Made -> Shared]
    /\ \A v \in Made : shared[v].ready => shared[v].held = <<>>

ReaderTyped ==
    /\ reader \in [Readers -> {"away", "opens", "waits", "reads"}]
    /\ of \in [Readers -> Made \cup {None}]

LeftTyped == left \in [Mishaps -> Nat]

Parts ==
    /\ SidecarTyped /\ StreamTyped /\ JobTyped /\ TableTyped /\ SharedTyped /\ ReaderTyped /\ LeftTyped

\* The parts are the whole.
LEMMA PartsWhole == TypeOK <=> Parts
BY DEF TypeOK, Parts, SidecarTyped, StreamTyped, JobTyped, TableTyped, SharedTyped, ReaderTyped, LeftTyped

\* Numbers are naturals with 0 among them.
LEMMA NumbersAre ==
    /\ MaxLog \in Nat /\ MaxViews \in Nat \ {0}
    /\ Numbers \subseteq Nat /\ 0 \in Numbers /\ Made \subseteq Nat
BY ViewsAssumption DEF ViewsAssumption, Numbers, Made

\* Nothing is none of what there may be.
LEMMA NoneIsNot == None \notin Jobs /\ None \notin Made /\ None \notin Streams /\ None \notin Readers
BY NumbersAre, ViewsAssumption DEF ViewsAssumption

\* The number of a key's last change.
LEMMA LatestIsNumber ==
    ASSUME SidecarTyped, NEW k \in Keys
    PROVE  Latest(k) \in Numbers
<1> DEFINE S == {0} \cup {i \in 1 .. Len(log) : log[i] = k}
<1>1. Len(log) \in Nat /\ S \in SUBSET (0 .. Len(log)) /\ S # {}
  BY LenProperties DEF SidecarTyped
<1> HIDE DEF S
<1>2. Max(S) \in S
  BY <1>1, MaxIsGreatest
<1>3. Max(S) \in Numbers
  <2>1. Len(log) <= MaxLog
    BY DEF SidecarTyped
  <2>2. Max(S) \in 0 .. Len(log)
    BY <1>1, <1>2
  <2>3. \A n \in 0 .. Len(log) : n \in 0 .. MaxLog
    BY <1>1, <2>1, NumbersAre
  <2> QED BY <2>2, <2>3 DEF Numbers
<1> QED BY <1>3 DEF Latest, S

\* What a read and what was held make is rows.
LEMMA AfterIsRows ==
    ASSUME NEW rows \in [Keys -> Numbers], NEW held \in Seq(Numbers), NEW watermark \in Numbers
    PROVE  After(rows, held, watermark) \in [Keys -> Numbers]
<1> SUFFICES ASSUME NEW k \in Keys
             PROVE  LET heard == {i \in 1 .. Len(held) : held[i] > watermark /\ log[held[i]] = k}
                    IN  (IF heard = {} THEN rows[k] ELSE held[Max(heard)]) \in Numbers
  BY DEF After
<1> DEFINE heard == {i \in 1 .. Len(held) : held[i] > watermark /\ log[held[i]] = k}
<1>1. CASE heard = {}
  BY <1>1
<1>2. CASE heard # {}
  <2>1. Len(held) \in Nat /\ heard \in SUBSET (0 .. Len(held)) /\ heard \subseteq 1 .. Len(held)
    BY LenProperties
  <2> HIDE DEF heard
  <2>2. Max(heard) \in 1 .. Len(held)
    BY <1>2, <2>1, MaxIsGreatest
  <2>3. held[Max(heard)] \in Numbers
    BY <2>2, ElementOfSeq
  <2> QED BY <1>2, <2>3 DEF heard
<1> QED BY <1>1, <1>2

\* A view once read is a view, ready, with nothing held.
LEMMA FreshIsShared ==
    ASSUME SharedTyped, NEW j \in Jobs
    PROVE  /\ Fresh(j) \in Shared
           /\ Fresh(j).ready /\ Fresh(j).held = <<>> /\ Fresh(j).readers = shared[j.view].readers
           /\ Fresh(j).rows = After(j.rows, shared[j.view].held, j.watermark)
           /\ Fresh(j).watermark = j.watermark
<1>1. shared[j.view] \in Shared /\ j.rows \in [Keys -> Numbers] /\ j.watermark \in Numbers
  BY DEF SharedTyped, Jobs
<1>2. shared[j.view].held \in Seq(Numbers)
  BY <1>1 DEF Shared
<1> DEFINE A == After(j.rows, shared[j.view].held, j.watermark)
<1>3. A \in [Keys -> Numbers]
  BY <1>1, <1>2, AfterIsRows
<1>4. <<>> \in Seq(Numbers)
  BY EmptySeq
<1>5. Fresh(j) = [shared[j.view] EXCEPT !.rows = A, !.watermark = j.watermark, !.ready = TRUE, !.held = <<>>]
  BY DEF Fresh
<1> HIDE DEF A
<1>6. /\ Fresh(j) \in Shared
      /\ Fresh(j).ready /\ Fresh(j).held = <<>> /\ Fresh(j).readers = shared[j.view].readers
      /\ Fresh(j).rows = A /\ Fresh(j).watermark = j.watermark
  BY <1>1, <1>3, <1>4, <1>5 DEF Shared
<1> QED BY <1>6 DEF A

\* A step keeps the types of what the sidecar has.
LEMMA SidecarTypedStep ==
    ASSUME Parts, [Next]_vars
    PROVE  SidecarTyped'
<1> DEFINE D == [number : Numbers, views : SUBSET Made]
<1> USE DEF Parts, SidecarTyped
<1>1. log' \in Seq(Keys) /\ Len(log') <= MaxLog
  <2>1. CASE UNCHANGED log
    BY <2>1
  <2>2. ASSUME NEW k \in Keys, Change(k) PROVE log' \in Seq(Keys) /\ Len(log') <= MaxLog
    <3>1. log' = Append(log, k) /\ Len(log) < MaxLog
      BY <2>2 DEF Change
    <3> QED BY <3>1, AppendProperties, LenProperties, ViewsAssumption DEF ViewsAssumption
  <2> QED BY Footprint, <2>1, <2>2
<1>2. on' \in [Made -> Streams \cup {None}]
  <2>1. CASE \E s \in Streams : Break(s) \/ ReadFails(s) \/ SeeBreak(s)
    BY <2>1 DEF Break, ReadFails, SeeBreak, Closed
  <2>2. ASSUME NEW by \in Streams \cup {"first"}, Subscribe(by) PROVE on' \in [Made -> Streams \cup {None}]
    BY <2>2 DEF Subscribe
  <2>3. CASE \E v \in Made : Unsubscribe(v)
    BY <2>3 DEF Unsubscribe
  <2> QED BY Footprint, <2>1, <2>2, <2>3
<1>3. up' \in [Streams -> BOOLEAN]
  BY Footprint DEF Break, ReadFails, SeeBreak, Closed, OpenStream
<1>4. queue' \in [Streams -> Seq(D)]
  <2>1. ASSUME NEW k \in Keys, Change(k) PROVE queue' \in [Streams -> Seq(D)]
    <3> DEFINE Named(s) == {v \in Made : on[v] = s}
               Sent(s) == IF up[s] /\ Named(s) # {}
                          THEN Append(queue[s], [number |-> Len(log) + 1, views |-> Named(s)]) ELSE queue[s]
    <3>1. Len(log) + 1 \in Numbers
      BY <2>1, LenProperties, ViewsAssumption DEF ViewsAssumption, Change, Numbers
    <3>2. \A s \in Streams : [number |-> Len(log) + 1, views |-> Named(s)] \in D
      BY <3>1
    <3>3. \A s \in Streams : Sent(s) \in Seq(D)
      BY <3>2, AppendProperties
    <3>4. Lost \in D
      BY NumbersAre DEF Lost
    <3>5. \A s \in Streams : Append(queue[s], Lost) \in Seq(D)
      BY <3>4, AppendProperties
    <3>6. \/ queue' = [s \in Streams |-> Sent(s)]
          \/ \E s \in Streams :
                queue' = [t \in Streams |-> IF t = s THEN Append(queue[s], Lost) ELSE Sent(t)]
      BY <2>1 DEF Change
    <3> HIDE DEF Sent
    <3> QED BY <3>3, <3>5, <3>6
  <2>2. ASSUME NEW s \in Streams, Break(s) PROVE queue' \in [Streams -> Seq(D)]
    <3>1. PICK n \in 0 .. Len(queue[s]) : queue' = [queue EXCEPT ![s] = SubSeq(queue[s], 1, n)]
      BY <2>2 DEF Break
    <3>2. SubSeq(queue[s], 1, n) \in Seq(D)
      <4>0. queue[s] \in Seq(D)
        OBVIOUS
      <4> HIDE DEF D
      <4>1. Len(queue[s]) \in Nat
        BY <4>0, LenProperties
      <4>2. n \in Int /\ n <= Len(queue[s]) /\ \A i \in 1 .. n : queue[s][i] \in D
        BY <4>0, <4>1, ElementOfSeq
      <4> QED BY <4>0, <4>1, <4>2, SubSeqProperties
    <3> QED BY <3>1, <3>2
  <2>3. CASE \E s \in Streams : ReadFails(s) \/ SeeBreak(s)
    <3>1. <<>> \in Seq(D)
      BY EmptySeq
    <3> QED BY <2>3, <3>1 DEF ReadFails, SeeBreak, Closed
  <2>4. ASSUME NEW s \in Streams, HearLost(s) \/ HearChange(s) PROVE queue' \in [Streams -> Seq(D)]
    <3>1. queue[s] \in Seq(D) /\ queue[s] # <<>> /\ queue' = [queue EXCEPT ![s] = Tail(queue[s])]
      BY <2>4 DEF HearLost, HearChange, Hearing
    <3>2. Tail(queue[s]) \in Seq(D)
      BY <3>1, HeadTailProperties
    <3> QED BY <3>1, <3>2
  <2> QED BY Footprint, <2>1, <2>2, <2>3, <2>4
<1> QED BY <1>1, <1>2, <1>3, <1>4

\* A step keeps the types of the streams.
LEMMA StreamTypedStep ==
    ASSUME Parts, [Next]_vars
    PROVE  StreamTyped'
<1> USE DEF Parts, StreamTyped
<1>1. phase' \in [Streams -> {"none", "closed", "reopened", "hearing"}]
  BY Footprint DEF Ask, OpenStream, Resumed, ReadFails, SeeBreak, Closed
<1>2. again' \in [Streams -> BOOLEAN]
  BY Footprint DEF OpenStream
<1>3. rereads' \in [Streams -> SUBSET Made]
  <2>1. CASE UNCHANGED rereads
    BY <2>1
  <2>2. ASSUME NEW s \in Streams, OpenStream(s) \/ ReadAgain(s) \/ ReadFails(s) \/ SeeBreak(s) \/ HearLost(s)
        PROVE  rereads' \in [Streams -> SUBSET Made]
    <3>1. PICK S \in SUBSET Made : rereads' = [rereads EXCEPT ![s] = S]
      BY <2>2 DEF OpenStream, ReadAgain, ReadFails, SeeBreak, Closed, HearLost, TableTyped
    <3> QED BY <3>1
  <2> QED BY Footprint, <2>1, <2>2
<1> QED BY <1>1, <1>2, <1>3

\* A read begun is a read.
LEMMA ReadingIsJob ==
    ASSUME NEW v \in Made, NEW at \in {"stream", "subscribe", "pages"}
    PROVE  Reading(v, at) \in Jobs
BY NumbersAre DEF Reading, Jobs, Unread

\* The view to read again is the earliest made.
LEMMA NextIsMade ==
    ASSUME Parts, NEW s \in Streams, rereads[s] # {}
    PROVE  Min(rereads[s]) \in Made
<1>1. rereads[s] \in SUBSET Nat /\ rereads[s] \subseteq Made
  BY NumbersAre DEF Parts, StreamTyped
<1> QED BY <1>1, MinIsLeast

\* One that goes on is one still.
LEMMA GoesOn ==
    ASSUME Parts, NEW by \in Streams \cup {"first"}, job[by] # None, NEW at \in {"stream", "subscribe", "pages"}
    PROVE  [job[by] EXCEPT !.at = at] \in Jobs
<1>1. job[by] \in Jobs
  BY DEF Parts, JobTyped
<1> QED BY <1>1 DEF Jobs

\* A read answered is one still, of the same view.
LEMMA AnsweredIsJob ==
    ASSUME Parts, NEW by \in Streams \cup {"first"}, Answer(by)
    PROVE  \E j \in Jobs : j.view = job[by].view /\ job' = [job EXCEPT ![by] = j]
<1>1. job[by] \in Jobs
  BY DEF Answer, Parts, JobTyped
<1>2. PICK page \in job[by].pages :
        job' = [job EXCEPT ![by] =
                   [job[by] EXCEPT !.pages = job[by].pages \ {page},
                                   !.rows = [k \in Keys |-> IF k \in page THEN Latest(k) ELSE job[by].rows[k]],
                                   !.watermark = Len(log)]]
  <2>1. PICK page \in job[by].pages :
          job' = [job EXCEPT ![by].pages = @ \ {page},
                             ![by].rows = [k \in Keys |-> IF k \in page THEN Latest(k) ELSE @[k]],
                             ![by].watermark = Len(log)]
    BY DEF Answer
  <2>2. job \in [Streams \cup {"first"} -> Jobs \cup {None}]
    BY DEF Parts, JobTyped
  <2> QED BY <1>1, <2>1, <2>2 DEF Jobs
<1> DEFINE R == [k \in Keys |-> IF k \in page THEN Latest(k) ELSE job[by].rows[k]]
<1>3. R \in [Keys -> Numbers]
  BY <1>1, LatestIsNumber DEF Jobs, Parts
<1>4. Len(log) \in Numbers
  BY LenProperties, ViewsAssumption DEF Parts, SidecarTyped, Numbers, ViewsAssumption
<1> HIDE DEF R
<1>5. /\ [job[by] EXCEPT !.pages = job[by].pages \ {page}, !.rows = R, !.watermark = Len(log)] \in Jobs
      /\ [job[by] EXCEPT !.pages = job[by].pages \ {page}, !.rows = R, !.watermark = Len(log)].view
            = job[by].view
  BY <1>1, <1>3, <1>4 DEF Jobs
<1> QED BY <1>2, <1>5 DEF R

\* A step keeps the types of the reads under way.
LEMMA JobTypedStep ==
    ASSUME Parts, [Next]_vars
    PROVE  JobTyped'
<1> USE DEF Parts, JobTyped
<1> DEFINE By == Streams \cup {"first"}
<1>1. CASE UNCHANGED job
  BY <1>1
<1>2. ASSUME NEW r \in Readers, Ask(r) PROVE JobTyped'
  <2>1. CASE job' = job
    BY <2>1
  <2>2. CASE job' = [job EXCEPT !["first"] = Reading(made', "stream")] /\ made' = made + 1 /\ made < MaxViews
    <3>1. made' \in Made
      BY <2>2, ViewsAssumption DEF TableTyped, Made, ViewsAssumption
    <3>2. Reading(made', "stream") \in Jobs
      BY <3>1, ReadingIsJob
    <3> QED BY <2>2, <3>2
  <2> QED BY <1>2, <2>1, <2>2 DEF Ask
<1>3. CASE StreamOpen
  <2>1. [job["first"] EXCEPT !.at = "subscribe"] \in Jobs
    BY <1>3, GoesOn DEF StreamOpen, Opening
  <2> QED BY <1>3, <2>1 DEF StreamOpen
<1>4. CASE Opened \/ OpenFails
  BY <1>4 DEF Opened, OpenFails
<1>5. ASSUME NEW by \in By, Subscribe(by) PROVE JobTyped'
  <2>1. [job[by] EXCEPT !.at = "pages"] \in Jobs
    BY <1>5, GoesOn DEF Subscribe
  <2> QED BY <1>5, <2>1 DEF Subscribe
<1>6. ASSUME NEW by \in By, Answer(by) PROVE JobTyped'
  BY <1>6, AnsweredIsJob
<1>7. ASSUME NEW s \in Streams, ReadAgain(s) PROVE JobTyped'
  <2>1. \A at \in {"subscribe", "pages"} : Reading(Min(rereads[s]), at) \in Jobs
    BY <1>7, NextIsMade, ReadingIsJob DEF ReadAgain
  <2> QED BY <1>7, <2>1 DEF ReadAgain
<1>8. CASE \E s \in Streams : ReadOver(s) \/ ReadFails(s)
  BY <1>8 DEF ReadOver, ReadFails
<1> QED BY Footprint, <1>1, <1>2, <1>3, <1>4, <1>5, <1>6, <1>7, <1>8

\* A step keeps the types of the table.
LEMMA TableTypedStep ==
    ASSUME Parts, [Next]_vars
    PROVE  TableTyped'
<1> USE DEF Parts, TableTyped
<1>1. made' \in 0 .. MaxViews
  BY Footprint, ViewsAssumption DEF Ask, ViewsAssumption
<1>2. bySelector' \in Made \cup {None} /\ byId' \subseteq Made
  <2>1. CASE Opened
    <3>1. job["first"] \in Jobs
      BY <2>1 DEF Opened, Whole, JobTyped
    <3> QED BY <2>1, <3>1 DEF Opened, Jobs
  <2>2. CASE \E v \in Made : Drop(v)
    BY <2>2 DEF Drop
  <2> QED BY Footprint, <2>1, <2>2
<1>3. leaving' \subseteq Made
  BY Footprint DEF Drop, Unsubscribe
<1> QED BY <1>1, <1>2, <1>3

-----------------------------------------------------------------------------
(* What readers are given. *)

Holders == {r \in Readers : reader[r] \in {"waits", "reads"}}

\* Deliveries find the view readers do, if any.
Found == byId = (IF bySelector = None THEN {} ELSE {bySelector})

\* A reader was given that one.
Given == \A r \in Holders : bySelector # None /\ of[r] = bySelector

\* While a view is first opened there is none, and one reader opens it.
OneOpens ==
    /\ Opening => bySelector = None
    /\ Opening <=> \E r \in Readers : reader[r] = "opens"
    /\ \A q, r \in Readers : reader[q] = "opens" /\ reader[r] = "opens" => q = r

\* The view counts those it was given to.
Counted == bySelector # None => shared[bySelector].readers = Cardinality(Holders)

Kept == Found /\ Given /\ OneOpens /\ Counted

IInv == Parts /\ Kept

\* Readers are few, and a reader that has the view is one of those counted.
LEMMA HoldersFew ==
    ASSUME IInv
    PROVE  /\ IsFiniteSet(Holders) /\ Cardinality(Holders) \in Nat
           /\ Cardinality(Holders) = 0 <=> Holders = {}
<1>1. IsFiniteSet(Readers) /\ Holders \in SUBSET Readers
  BY ViewsAssumption DEF ViewsAssumption, Holders
<1>2. IsFiniteSet(Holders)
  BY <1>1, FS_Subset
<1> QED BY <1>2, FS_CardinalityType, FS_EmptySet

\* The view a reader has is there, and counts it.
LEMMA HeldIsCounted ==
    ASSUME IInv, NEW r \in Holders
    PROVE  /\ of[r] \in Made /\ of[r] = bySelector /\ ~Opening
           /\ shared[of[r]].readers = Cardinality(Holders) /\ Cardinality(Holders) > 0
<1>1. bySelector # None /\ of[r] = bySelector /\ ~Opening
  BY DEF IInv, Kept, Given, OneOpens
<1>2. bySelector \in Made
  BY <1>1 DEF IInv, Parts, TableTyped
<1>3. shared[bySelector].readers = Cardinality(Holders)
  BY <1>1 DEF IInv, Kept, Counted
<1>4. Cardinality(Holders) # 0 /\ Cardinality(Holders) \in Nat
  BY HoldersFew
<1> QED BY <1>1, <1>2, <1>3, <1>4

\* What a change leaves of a view.
LEMMA TookIsShared ==
    ASSUME NEW v \in Shared, v.ready => v.held = <<>>, NEW number \in Numbers
    PROVE  /\ Took(v, number) \in Shared
           /\ Took(v, number).ready => Took(v, number).held = <<>>
           /\ Took(v, number).readers = v.readers
<1>1. CASE v.ready
  <2>1. v.rows \in [Keys -> Numbers]
    BY DEF Shared
  <2>2. Applied(v.rows, number, v.watermark) \in [Keys -> Numbers]
    BY <2>1 DEF Applied
  <2> DEFINE R == Applied(v.rows, number, v.watermark)
  <2>3. Took(v, number) = [v EXCEPT !.rows = R]
    BY <1>1 DEF Took
  <2> HIDE DEF R
  <2>4. R \in [Keys -> Numbers]
    BY <2>2 DEF R
  <2> QED BY <1>1, <2>3, <2>4 DEF Shared
<1>2. CASE ~v.ready
  <2>1. v.held \in Seq(Numbers)
    BY DEF Shared
  <2>2. Append(v.held, number) \in Seq(Numbers)
    BY <2>1, AppendProperties
  <2> DEFINE H == Append(v.held, number)
  <2>3. Took(v, number) = [v EXCEPT !.held = H]
    BY <1>2 DEF Took
  <2>4. H \in Seq(Numbers)
    BY <2>2
  <2> HIDE DEF H
  <2> QED BY <1>2, <2>3, <2>4 DEF Shared
<1> QED BY <1>1, <1>2

\* Leaving a view, and joining it.
LEMMA LeftIsShared ==
    ASSUME IInv, NEW r \in Readers, Leave(r)
    PROVE  \E w \in Shared : /\ shared' = [shared EXCEPT ![of[r]] = w]
                             /\ w.readers = shared[of[r]].readers - 1
                             /\ w.ready = shared[of[r]].ready /\ w.held = shared[of[r]].held
                             /\ w.rows = shared[of[r]].rows /\ w.watermark = shared[of[r]].watermark
<1> DEFINE v == shared[of[r]]
           L == v.lingering \/ v.readers = 1
           w == [v EXCEPT !.readers = v.readers - 1, !.lingering = L]
<1>1. r \in Holders
  BY DEF Leave, Holders
<1>2. v \in Shared /\ v.readers \in Nat /\ v.readers > 0 /\ of[r] \in Made
  BY <1>1, HeldIsCounted, HoldersFew DEF IInv, Parts, SharedTyped
<1>3. L \in BOOLEAN
  OBVIOUS
<1>4. v.readers - 1 \in Nat
  BY <1>2
<1>5. shared' = [shared EXCEPT ![of[r]] = w]
  BY <1>2 DEF Leave, IInv, Parts, SharedTyped
<1> HIDE DEF L
<1>6. /\ w \in Shared /\ w.readers = v.readers - 1 /\ w.ready = v.ready /\ w.held = v.held
      /\ w.rows = v.rows /\ w.watermark = v.watermark
  BY <1>2, <1>3, <1>4 DEF Shared
<1> QED BY <1>5, <1>6

\* A view a reader joins has one reader more, and is as ready as it was.
LEMMA JoinedIsShared ==
    ASSUME Parts, NEW v \in Made
    PROVE  /\ Joined(shared[v]) \in Shared /\ Joined(shared[v]).readers = shared[v].readers + 1
           /\ Joined(shared[v]).ready = shared[v].ready /\ Joined(shared[v]).held = shared[v].held
           /\ Joined(shared[v]).rows = shared[v].rows /\ Joined(shared[v]).watermark = shared[v].watermark
<1>1. shared[v] \in Shared /\ shared[v].readers + 1 \in Nat
  BY DEF Parts, SharedTyped, Shared
<1>2. Joined(shared[v]) = [shared[v] EXCEPT !.readers = shared[v].readers + 1, !.lingering = FALSE]
  BY <1>1 DEF Joined, Shared
<1> DEFINE n == shared[v].readers + 1
<1> HIDE DEF n
<1>3. Joined(shared[v]) = [shared[v] EXCEPT !.readers = n, !.lingering = FALSE] /\ n \in Nat
  BY <1>1, <1>2 DEF n
<1> QED BY <1>1, <1>3 DEF Shared, n

\* The view being opened.
LEMMA OpenedIsShared ==
    ASSUME Parts, Opened
    PROVE  /\ job["first"] \in Jobs /\ job["first"].view \in Made
           /\ \E w \in Shared : /\ shared' = [shared EXCEPT ![job["first"].view] = w]
                                /\ w.readers = 1 /\ w.ready /\ w.held = <<>>
                                /\ w.rows = After(job["first"].rows, shared[job["first"].view].held,
                                                  job["first"].watermark)
                                /\ w.watermark = job["first"].watermark
<1> DEFINE F == Fresh(job["first"])
           A == After(job["first"].rows, shared[job["first"].view].held, job["first"].watermark)
<1>1. job["first"] \in Jobs /\ job["first"].view \in Made
  BY DEF Opened, Whole, Parts, JobTyped, Jobs
<1>2. F \in Shared /\ F.ready /\ F.held = <<>> /\ F.rows = A /\ F.watermark = job["first"].watermark
  BY <1>1, FreshIsShared DEF Parts
<1>3. shared' = [shared EXCEPT ![job["first"].view] = [F EXCEPT !.readers = 1]]
  BY DEF Opened
<1> HIDE DEF F
<1>4. /\ [F EXCEPT !.readers = 1] \in Shared
      /\ [F EXCEPT !.readers = 1].readers = 1 /\ [F EXCEPT !.readers = 1].ready
      /\ [F EXCEPT !.readers = 1].held = <<>>
      /\ [F EXCEPT !.readers = 1].rows = A /\ [F EXCEPT !.readers = 1].watermark = job["first"].watermark
  <2> HIDE DEF A
  <2> QED BY <1>2 DEF Shared
<1> QED BY <1>1, <1>3, <1>4

\* Steps of streams: types kept, and none counted.
LEMMA StreamsShared ==
    ASSUME Parts, NEW s \in Streams, ReadAgain(s) \/ ReadOver(s) \/ HearChange(s)
    PROVE  SharedTyped' /\ \A v \in Made : shared'[v].readers = shared[v].readers
<1> USE DEF Parts, SharedTyped
<1>1. CASE ReadAgain(s)
  <2> DEFINE v == Min(rereads[s])
  <2>1. v \in Made /\ shared[v] \in Shared
    BY <1>1, NextIsMade DEF ReadAgain
  <2>2. shared' = [shared EXCEPT ![v] = [shared[v] EXCEPT !.ready = FALSE]]
    BY <1>1 DEF ReadAgain
  <2>3. /\ [shared[v] EXCEPT !.ready = FALSE] \in Shared /\ ~[shared[v] EXCEPT !.ready = FALSE].ready
        /\ [shared[v] EXCEPT !.ready = FALSE].readers = shared[v].readers
    BY <2>1 DEF Shared
  <2> HIDE DEF v
  <2> QED BY <2>1, <2>2, <2>3
<1>2. CASE ReadOver(s)
  <2> DEFINE F == Fresh(job[s])
  <2>1. job[s] \in Jobs /\ job[s].view \in Made
    BY <1>2 DEF ReadOver, Whole, JobTyped, Jobs
  <2>2. F \in Shared /\ F.held = <<>> /\ F.readers = shared[job[s].view].readers
    BY <2>1, FreshIsShared
  <2>3. shared' = [shared EXCEPT ![job[s].view] = F]
    BY <1>2 DEF ReadOver
  <2> HIDE DEF F
  <2> QED BY <2>1, <2>2, <2>3
<1>3. CASE HearChange(s)
  <2> DEFINE d == Head(queue[s])
  <2>1. d.number \in Numbers
    <3> DEFINE D == [number : Numbers, views : SUBSET Made]
    <3>1. queue[s] \in Seq(D) /\ queue[s] # <<>>
      BY <1>3 DEF HearChange, Hearing, SidecarTyped
    <3>2. Head(queue[s]) \in D
      BY <3>1, HeadTailProperties
    <3> QED BY <3>2
  <2>2. shared' = [v \in Made |->
            IF v \in d.views \cap byId THEN Took(shared[v], d.number) ELSE shared[v]]
    BY <1>3 DEF HearChange
  <2> HIDE DEF d
  <2>3. \A v \in Made : shared[v] \in Shared /\ (shared[v].ready => shared[v].held = <<>>)
    OBVIOUS
  <2>4. \A v \in Made : /\ Took(shared[v], d.number) \in Shared
                        /\ Took(shared[v], d.number).ready => Took(shared[v], d.number).held = <<>>
                        /\ Took(shared[v], d.number).readers = shared[v].readers
    BY <2>1, <2>3, TookIsShared
  <2> QED BY <2>2, <2>3, <2>4
<1> QED BY <1>1, <1>2, <1>3

\* A step keeps the types of the copies.
LEMMA SharedTypedStep ==
    ASSUME IInv, [Next]_vars
    PROVE  SharedTyped'
<1> USE DEF IInv, Parts, SharedTyped
<1>1. CASE UNCHANGED shared
  BY <1>1
<1>2. ASSUME NEW r \in Readers, Ask(r) PROVE SharedTyped'
  <2>1. CASE bySelector # None /\ shared' = [shared EXCEPT ![bySelector] = Joined(shared[bySelector])]
    BY <2>1, JoinedIsShared DEF TableTyped
  <2>2. CASE UNCHANGED shared
    BY <2>2
  <2> QED BY <1>2, <2>1, <2>2 DEF Ask
<1>3. ASSUME NEW r \in Readers, Leave(r) PROVE SharedTyped'
  <2>1. of[r] \in Made
    BY <1>3, HeldIsCounted DEF Holders, Leave
  <2> QED BY <1>3, <2>1, LeftIsShared
<1>4. CASE Opened
  BY <1>4, OpenedIsShared
<1>5. CASE \E s \in Streams : ReadAgain(s) \/ ReadOver(s) \/ HearChange(s)
  BY <1>5, StreamsShared
<1> QED BY Footprint, <1>1, <1>2, <1>3, <1>4, <1>5

\* A step keeps the types of the readers, and of what remains of the bounds.
LEMMA ReaderTypedStep ==
    ASSUME Parts, [Next]_vars
    PROVE  ReaderTyped'
<1> USE DEF Parts, ReaderTyped
<1>1. ASSUME NEW r \in Readers, Ask(r) \/ Handed(r) \/ Leave(r) PROVE ReaderTyped'
  BY <1>1 DEF Ask, Handed, Leave, TableTyped
<1>2. CASE Opened
  BY <1>2, OpenedIsShared DEF Opened
<1>3. CASE OpenFails
  BY <1>3 DEF OpenFails
<1> QED BY Footprint, <1>1, <1>2, <1>3

\* What is left of each bound is a number.
LEMMA LeftTypedStep ==
    ASSUME Parts, [Next]_vars
    PROVE  LeftTyped'
<1> USE DEF Parts, LeftTyped
<1>1. ASSUME NEW m \in Mishaps, Spend(m) PROVE LeftTyped'
  BY <1>1 DEF Spend
<1>2. (\A s \in Streams : <<"break", s>> \in Mishaps /\ <<"lost", s>> \in Mishaps)
        /\ <<"call", "fails">> \in Mishaps
  BY DEF Mishaps
<1>3. CASE \E k \in Keys : Change(k)
  BY <1>1, <1>2, <1>3 DEF Change
<1>4. CASE \E s \in Streams : Break(s)
  BY <1>1, <1>2, <1>4 DEF Break
<1>5. CASE (\E s \in Streams : ReadFails(s)) \/ OpenFails
  BY <1>1, <1>2, <1>5 DEF ReadFails, OpenFails, Unanswered
<1> QED BY Footprint, <1>3, <1>4, <1>5

\* No step but those of opening a view begins or ends it.
LEMMA OpeningStays ==
    ASSUME Parts, [Next]_vars, \A r \in Readers : ~Ask(r), ~Opened, ~OpenFails
    PROVE  Opening' <=> Opening
<1> USE DEF Opening
<1>1. CASE StreamOpen
  <2>1. [job["first"] EXCEPT !.at = "subscribe"] \in Jobs
    BY <1>1, GoesOn DEF StreamOpen
  <2> QED BY <1>1, <2>1, NoneIsNot DEF StreamOpen, Parts, JobTyped
<1>2. ASSUME NEW by \in Streams \cup {"first"}, Subscribe(by) PROVE Opening' <=> Opening
  <2>1. [job[by] EXCEPT !.at = "pages"] \in Jobs
    BY <1>2, GoesOn DEF Subscribe
  <2>2. job[by] # None /\ job' = [job EXCEPT ![by] = [job[by] EXCEPT !.at = "pages"]]
    BY <1>2 DEF Subscribe
  <2> QED BY <2>1, <2>2, NoneIsNot DEF Parts, JobTyped
<1>3. ASSUME NEW by \in Streams \cup {"first"}, Answer(by) PROVE Opening' <=> Opening
  <2>1. job[by] # None
    BY <1>3 DEF Answer
  <2>2. PICK j \in Jobs : job' = [job EXCEPT ![by] = j]
    BY <1>3, AnsweredIsJob
  <2> QED BY <2>1, <2>2, NoneIsNot DEF Parts, JobTyped
<1>4. ASSUME NEW s \in Streams, ReadAgain(s) \/ ReadOver(s) \/ ReadFails(s) PROVE Opening' <=> Opening
  <2>1. s # "first"
    BY DEF Streams
  <2>2. \E j : job' = [job EXCEPT ![s] = j]
    BY <1>4 DEF ReadAgain, ReadOver, ReadFails
  <2> QED BY <2>1, <2>2 DEF Parts, JobTyped
<1>5. CASE UNCHANGED job
  BY <1>5
<1> QED BY Footprint, <1>1, <1>2, <1>3, <1>4, <1>5

\* A step keeps what readers are given.
LEMMA KeptStep ==
    ASSUME IInv, [Next]_vars
    PROVE  Kept'
<1> USE DEF IInv
<1>1. ASSUME NEW r \in Readers, Ask(r) PROVE Kept'
  <2>1. reader[r] = "away" /\ ~Opening /\ UNCHANGED <<bySelector, byId>>
    BY <1>1 DEF Ask
  <2>2. CASE /\ bySelector # None /\ job' = job
             /\ shared' = [shared EXCEPT ![bySelector] = Joined(shared[bySelector])]
             /\ reader' = [reader EXCEPT ![r] = "waits"] /\ of' = [of EXCEPT ![r] = bySelector]
    <3>1. Holders' = Holders \cup {r} /\ r \notin Holders
      BY <2>1, <2>2 DEF Holders, Parts, ReaderTyped
    <3>2. Cardinality(Holders') = Cardinality(Holders) + 1
      BY <3>1, HoldersFew, FS_AddElement
    <3>3. bySelector \in Made
      BY <2>2 DEF Parts, TableTyped
    <3>4. shared'[bySelector].readers = shared[bySelector].readers + 1
      BY <2>2, <3>3, JoinedIsShared DEF Parts, SharedTyped
    <3>5. Counted'
      BY <2>1, <2>2, <3>2, <3>4 DEF Kept, Counted
    <3>6. Given'
      BY <2>1, <2>2, <3>1 DEF Kept, Given, Holders, Parts, ReaderTyped
    <3>7. OneOpens'
      BY <2>1, <2>2 DEF Kept, OneOpens, Opening, Parts, ReaderTyped
    <3> QED BY <2>1, <3>5, <3>6, <3>7 DEF Kept, Found
  <2>3. CASE /\ bySelector = None /\ made < MaxViews /\ made' = made + 1
             /\ job' = [job EXCEPT !["first"] = Reading(made', "stream")]
             /\ reader' = [reader EXCEPT ![r] = "opens"] /\ UNCHANGED <<shared, of>>
    <3>1. Holders' = Holders
      BY <2>1, <2>3 DEF Holders, Parts, ReaderTyped
    <3>2. Opening'
      <4>1. made' \in Made
        BY <2>3, ViewsAssumption DEF Parts, TableTyped, Made, ViewsAssumption
      <4>2. Reading(made', "stream") \in Jobs
        BY <4>1, ReadingIsJob
      <4> QED BY <2>3, <4>2, ViewsAssumption DEF Opening, Parts, JobTyped, ViewsAssumption
    <3>3. OneOpens'
      BY <2>1, <2>3, <3>2 DEF Kept, OneOpens, Parts, ReaderTyped
    <3>4. Given'
      BY <2>1, <2>3, <3>1 DEF Kept, Given
    <3> QED BY <2>1, <2>3, <3>3, <3>4 DEF Kept, Found, Counted
  <2> QED BY <1>1, <2>2, <2>3 DEF Ask
<1>2. ASSUME NEW r \in Readers, Handed(r) PROVE Kept'
  <2>1. /\ reader[r] = "waits" /\ reader' = [reader EXCEPT ![r] = "reads"]
        /\ UNCHANGED <<job, bySelector, byId, shared, of>>
    BY <1>2 DEF Handed, tableVars
  <2>2. Holders' = Holders
    BY <2>1 DEF Holders, Parts, ReaderTyped
  <2>3. OneOpens'
    BY <2>1 DEF Kept, OneOpens, Opening, Parts, ReaderTyped
  <2> QED BY <2>1, <2>2, <2>3 DEF Kept, Found, Given, Counted
<1>3. ASSUME NEW r \in Readers, Leave(r) PROVE Kept'
  <2>1. /\ reader[r] = "reads" /\ r \in Holders
        /\ reader' = [reader EXCEPT ![r] = "away"] /\ of' = [of EXCEPT ![r] = None]
        /\ UNCHANGED <<job, bySelector, byId>>
    BY <1>3 DEF Leave, tableVars, Holders
  <2>2. Holders' = Holders \ {r}
    BY <2>1 DEF Holders, Parts, ReaderTyped
  <2>3. Cardinality(Holders') = Cardinality(Holders) - 1
    BY <2>1, <2>2, HoldersFew, FS_RemoveElement
  <2>4. of[r] \in Made /\ of[r] = bySelector
    BY <2>1, HeldIsCounted
  <2>5. shared'[bySelector].readers = shared[bySelector].readers - 1
    BY <1>3, <2>4, LeftIsShared DEF Parts, SharedTyped
  <2>6. Counted'
    BY <2>1, <2>3, <2>5 DEF Kept, Counted
  <2>7. Given'
    BY <2>1, <2>2 DEF Kept, Given, Holders, Parts, ReaderTyped
  <2>8. OneOpens'
    BY <2>1 DEF Kept, OneOpens, Opening, Parts, ReaderTyped
  <2> QED BY <2>1, <2>6, <2>7, <2>8 DEF Kept, Found
<1>4. CASE Opened
  <2> DEFINE v == job["first"].view
  <2>1. /\ Opening /\ bySelector' = v /\ byId' = byId \cup {v} /\ job' = [job EXCEPT !["first"] = None]
        /\ reader' = [r \in Readers |-> IF reader[r] = "opens" THEN "reads" ELSE reader[r]]
        /\ of' = [r \in Readers |-> IF reader[r] = "opens" THEN v ELSE of[r]]
    BY <1>4 DEF Opened, Whole, Opening
  <2>2. v \in Made /\ v # None /\ shared'[v].readers = 1
    <3>1. v \in Made /\ shared'[v].readers = 1
      BY <1>4, OpenedIsShared DEF Parts, SharedTyped
    <3> QED BY <3>1, NoneIsNot
  <2>3. bySelector = None /\ Holders = {}
    BY <2>1 DEF Kept, OneOpens, Given
  <2>4. PICK r \in Readers : /\ reader[r] = "opens"
                             /\ \A q \in Readers : reader[q] = "opens" => q = r
    BY <2>1 DEF Kept, OneOpens
  <2>5. Holders' = {r}
    BY <2>1, <2>3, <2>4 DEF Holders
  <2>6. Cardinality(Holders') = 1
    BY <2>5, FS_Singleton
  <2>7. Given' /\ Counted' /\ Found'
    BY <2>1, <2>2, <2>3, <2>4, <2>5, <2>6 DEF Kept, Given, Counted, Found
  <2>8. OneOpens'
    BY <2>1 DEF OneOpens, Opening, Parts, JobTyped
  <2> QED BY <2>7, <2>8 DEF Kept
<1>5. CASE OpenFails
  <2>1. /\ Opening /\ job' = [job EXCEPT !["first"] = None]
        /\ reader' = [r \in Readers |-> IF reader[r] = "opens" THEN "away" ELSE reader[r]]
        /\ UNCHANGED <<bySelector, byId, shared, of>>
    BY <1>5 DEF OpenFails, tableVars
  <2>2. Holders' = Holders
    BY <2>1 DEF Holders
  <2>3. OneOpens'
    BY <2>1 DEF OneOpens, Opening, Parts, JobTyped
  <2> QED BY <2>1, <2>2, <2>3 DEF Kept, Found, Given, Counted
<1>6. ASSUME NEW v \in Made, Drop(v) PROVE Kept'
  <2>1. /\ v \in byId /\ shared[v].readers = 0 /\ bySelector' = None /\ byId' = byId \ {v}
        /\ UNCHANGED <<reader, of, job>>
    BY <1>6 DEF Drop, readerVars
  <2>2. bySelector = v /\ bySelector # None /\ byId = {v}
    BY <2>1 DEF Kept, Found
  <2>3. Holders = {}
    BY <2>1, <2>2, HoldersFew DEF Kept, Counted
  <2>4. Holders' = {} /\ OneOpens'
    BY <2>1, <2>3 DEF Kept, Holders, OneOpens, Opening
  <2> QED BY <2>1, <2>2, <2>4 DEF Kept, Found, Given, Counted
<1>7. ASSUME UNCHANGED <<bySelector, byId, reader, of>>, Opening' <=> Opening,
             bySelector # None => shared'[bySelector].readers = shared[bySelector].readers
      PROVE  Kept'
  <2>1. Holders' = Holders
    BY <1>7 DEF Holders
  <2>2. OneOpens'
    BY <1>7 DEF Kept, OneOpens
  <2> QED BY <1>7, <2>1, <2>2 DEF Kept, Found, Given, Counted
<1>8. ASSUME \A r \in Readers : ~Ask(r) /\ ~Handed(r) /\ ~Leave(r), ~Opened, ~OpenFails,
             \A v \in Made : ~Drop(v)
      PROVE  Kept'
  <2>1. UNCHANGED <<bySelector, byId, reader, of>> /\ (Opening' <=> Opening)
    BY <1>8, Footprint, OpeningStays
  <2>2. bySelector # None => bySelector \in Made
    BY DEF Parts, TableTyped
  <2>3. \A v \in Made : shared'[v].readers = shared[v].readers
    <3>1. CASE UNCHANGED shared
      BY <3>1
    <3>2. CASE \E s \in Streams : ReadAgain(s) \/ ReadOver(s) \/ HearChange(s)
      BY <3>2, StreamsShared
    <3> QED BY <1>8, Footprint, <3>1, <3>2
  <2> QED BY <2>1, <2>2, <2>3, <1>7
<1> QED BY <1>1, <1>2, <1>3, <1>4, <1>5, <1>6, <1>8

-----------------------------------------------------------------------------
(* No view is left unread. *)

\* A stream that reads, hears or has views to read was open.
Begun ==
    \A s \in Streams :
        job[s] # None \/ rereads[s] # {} \/ phase[s] \in {"reopened", "hearing"} => again[s]

Waiting == Begun /\ NoneLeftUnready

\* A stream that reads, hears or waits to read keeps having been open.
LEMMA BegunStep ==
    ASSUME Parts, Begun, [Next]_vars
    PROVE  Begun'
<1> SUFFICES ASSUME NEW s \in Streams,
                    job'[s] # None \/ rereads'[s] # {} \/ phase'[s] \in {"reopened", "hearing"}
             PROVE  again'[s]
  BY DEF Begun
<1> USE DEF Parts, StreamTyped, JobTyped
<1>1. again[s] => again'[s]
  BY Footprint DEF OpenStream
<1>2. job'[s] # None => job[s] # None \/ rereads[s] # {}
  <2>1. ASSUME NEW r \in Readers, Ask(r) PROVE job'[s] = job[s]
    BY <2>1 DEF Ask, Streams
  <2>2. CASE StreamOpen \/ Opened \/ OpenFails
    BY <2>2 DEF StreamOpen, Opened, OpenFails, Streams
  <2>3. ASSUME NEW by \in Streams \cup {"first"}, Subscribe(by) \/ Answer(by), by # s PROVE job'[s] = job[s]
    BY <2>3 DEF Subscribe, Answer
  <2>4. ASSUME Subscribe(s) \/ Answer(s) PROVE job[s] # None
    BY <2>4 DEF Subscribe, Answer
  <2>5. ASSUME NEW t \in Streams, ReadAgain(t) \/ ReadOver(t) \/ ReadFails(t), job'[s] # None
        PROVE  job[s] # None \/ rereads[s] # {}
    BY <2>5 DEF ReadAgain, ReadOver, ReadFails
  <2> QED BY Footprint, <2>1, <2>2, <2>3, <2>4, <2>5
<1>3. rereads'[s] # {} => rereads[s] # {} \/ again'[s] \/ phase[s] = "hearing"
  <2>1. ASSUME NEW t \in Streams, OpenStream(t) \/ HearLost(t)
        PROVE  rereads'[s] = rereads[s] \/ again'[s] \/ phase[s] = "hearing"
    BY <2>1 DEF OpenStream, HearLost, Hearing
  <2>2. ASSUME NEW t \in Streams, ReadAgain(t) \/ ReadFails(t) \/ SeeBreak(t), rereads'[s] # {}
        PROVE  rereads[s] # {}
    BY <2>2 DEF ReadAgain, ReadFails, SeeBreak, Closed
  <2> QED BY Footprint, <2>1, <2>2
<1>4. phase'[s] \in {"reopened", "hearing"} => phase[s] \in {"reopened", "hearing"} \/ again'[s]
  BY Footprint DEF Ask, OpenStream, Resumed, ReadFails, SeeBreak, Closed
<1> QED BY <1>1, <1>2, <1>3, <1>4 DEF Begun

\* What is to be read of the views deliveries find stays so, but for what was read.
LEMMA StaysToBeRead ==
    ASSUME IInv, Begun, [Next]_vars, NEW v \in ComingToBeRead, v \in byId, v \in byId'
    PROVE  v \in ComingToBeRead' \/ shared'[v].ready
<1> USE DEF IInv, Parts
<1>1. ASSUME NEW s \in Streams, v \in rereads[s]
      PROVE  v \in ComingToBeRead' \/ shared'[v].ready
  <2>1. CASE v \in rereads'[s]
    BY <2>1 DEF ComingToBeRead
  <2>2. CASE ReadAgain(s)
    <3>1. CASE v = Min(rereads[s])
      <4>1. job'[s] # None /\ job'[s].view = v
        <5>1. \A at \in {"subscribe", "pages"} : Reading(v, at) \in Jobs
          BY <2>2, <3>1, NextIsMade, ReadingIsJob DEF ReadAgain
        <5>2. \E at \in {"subscribe", "pages"} : job'[s] = Reading(v, at)
          BY <2>2, <3>1 DEF ReadAgain, JobTyped
        <5> QED BY <5>1, <5>2, NoneIsNot DEF Reading
      <4> QED BY <4>1 DEF ComingToBeRead
    <3>2. CASE v # Min(rereads[s])
      BY <1>1, <2>2, <3>2 DEF ComingToBeRead, ReadAgain, StreamTyped
    <3> QED BY <3>1, <3>2
  <2>3. CASE ReadFails(s) \/ SeeBreak(s)
    <3>1. ~up'[s]
      BY <2>3 DEF ReadFails, SeeBreak, Closed, SidecarTyped
    <3>2. again'[s]
      BY <1>1, <2>3 DEF ReadFails, SeeBreak, Begun
    <3> QED BY <3>1, <3>2 DEF ComingToBeRead
  <2>4. CASE OpenStream(s) \/ HearLost(s)
    BY <1>1, <2>4 DEF ComingToBeRead, OpenStream, HearLost, Hearing, Begun, StreamTyped
  <2>5. ASSUME NEW t \in Streams, t # s,
               OpenStream(t) \/ ReadAgain(t) \/ ReadFails(t) \/ SeeBreak(t) \/ HearLost(t)
        PROVE  rereads'[s] = rereads[s]
    BY <2>5 DEF OpenStream, ReadAgain, ReadFails, SeeBreak, Closed, HearLost, StreamTyped
  <2> QED BY <1>1, Footprint, <2>1, <2>2, <2>3, <2>4, <2>5
<1>2. ASSUME NEW s \in Streams, job[s] # None, job[s].view = v
      PROVE  v \in ComingToBeRead' \/ shared'[v].ready
  <2>1. CASE job'[s] = job[s]
    BY <1>2, <2>1 DEF ComingToBeRead
  <2>2. CASE Subscribe(s)
    <3>1. job'[s] = [job[s] EXCEPT !.at = "pages"] /\ job'[s] \in Jobs
      BY <2>2, GoesOn DEF Subscribe, JobTyped
    <3>2. job[s] \in Jobs
      BY <1>2 DEF JobTyped
    <3> QED BY <1>2, <3>1, <3>2, NoneIsNot DEF ComingToBeRead, Jobs
  <2>3. CASE Answer(s)
    <3>1. job'[s] \in Jobs /\ job'[s].view = job[s].view
      <4>1. job[s] \in Jobs
        BY <1>2 DEF JobTyped
      <4>2. job'[s] \in Jobs
        BY <2>3, AnsweredIsJob DEF JobTyped
      <4>3. job'[s].view = job[s].view
        BY <2>3, <4>1, AnsweredIsJob DEF JobTyped
      <4> QED BY <4>2, <4>3
    <3> QED BY <1>2, <3>1, NoneIsNot DEF ComingToBeRead
  <2>4. CASE ReadOver(s)
    <3>1. job[s] \in Jobs /\ job[s].view \in Made
      BY <1>2 DEF JobTyped, Jobs
    <3>2. shared'[v].ready
      BY <1>2, <2>4, <3>1, FreshIsShared DEF ReadOver, SharedTyped
    <3> QED BY <3>2
  <2>5. CASE ReadFails(s)
    <3>1. ~up'[s] /\ again'[s]
      BY <1>2, <2>5 DEF ReadFails, Closed, SidecarTyped, Begun
    <3> QED BY <3>1 DEF ComingToBeRead
  <2>6. ASSUME NEW r \in Readers, Ask(r) PROVE job'[s] = job[s]
    BY <2>6 DEF Ask, Streams, JobTyped
  <2>7. CASE StreamOpen \/ Opened \/ OpenFails
    BY <2>1, <2>7 DEF StreamOpen, Opened, OpenFails, Streams, JobTyped
  <2>8. ASSUME NEW by \in Streams \cup {"first"}, by # s, Subscribe(by) \/ Answer(by) PROVE job'[s] = job[s]
    BY <2>8 DEF Subscribe, Answer, JobTyped
  <2>9. ASSUME NEW t \in Streams, t # s, ReadAgain(t) \/ ReadOver(t) \/ ReadFails(t) PROVE job'[s] = job[s]
    BY <2>9 DEF ReadAgain, ReadOver, ReadFails, JobTyped
  <2>10. ~ReadAgain(s)
    BY <1>2 DEF ReadAgain
  <2> QED BY Footprint, <2>1, <2>2, <2>3, <2>4, <2>5, <2>6, <2>7, <2>8, <2>9, <2>10
<1>3. ASSUME NEW s \in Streams, again[s], ~up[s] \/ phase[s] = "closed"
      PROVE  v \in ComingToBeRead'
  <2>1. again'[s]
    BY <1>3, Footprint DEF OpenStream, StreamTyped
  <2>2. CASE OpenStream(s)
    BY <1>3, <2>2 DEF ComingToBeRead, OpenStream, StreamTyped
  <2>3. CASE ~OpenStream(s)
    <3>1. ~up'[s] \/ phase'[s] = "closed"
      <4>1. ~up[s] => ~up'[s]
        <5>1. CASE UNCHANGED up
          BY <5>1
        <5>2. ASSUME NEW t \in Streams, Break(t) \/ ReadFails(t) \/ SeeBreak(t) PROVE ~up[s] => ~up'[s]
          BY <5>2 DEF Break, ReadFails, SeeBreak, Closed, SidecarTyped
        <5>3. ASSUME NEW t \in Streams, OpenStream(t) PROVE up'[s] = up[s]
          BY <2>3, <5>3 DEF OpenStream, SidecarTyped
        <5> QED BY Footprint, <5>1, <5>2, <5>3
      <4>2. phase[s] = "closed" => phase'[s] = "closed"
        BY <2>3, Footprint DEF Ask, OpenStream, Resumed, ReadFails, SeeBreak, Closed, StreamTyped
      <4> QED BY <1>3, <4>1, <4>2
    <3> QED BY <2>1, <3>1 DEF ComingToBeRead
  <2> QED BY <2>2, <2>3
<1> QED BY <1>1, <1>2, <1>3 DEF ComingToBeRead

\* A view becomes unready, or is found, only to be read, or read.
LEMMA UnreadyIsRead ==
    ASSUME IInv, NoneLeftUnready, [Next]_vars, NEW v \in byId', ~shared'[v].ready, v \notin ComingToBeRead'
    PROVE  v \in byId /\ v \in ComingToBeRead
<1> USE DEF IInv, Parts, SharedTyped
<1>1. v \in byId
  <2>1. CASE Opened
    BY <2>1, OpenedIsShared DEF Opened
  <2>2. CASE UNCHANGED byId \/ \E w \in Made : Drop(w)
    BY <2>2 DEF Drop
  <2> QED BY Footprint, <2>1, <2>2
<1>2. v \in Made
  BY <1>1 DEF TableTyped
<1>3. ~shared[v].ready
  <2>1. ASSUME NEW r \in Readers, Ask(r) PROVE shared'[v].ready = shared[v].ready
    BY <1>2, <2>1, JoinedIsShared DEF Ask, TableTyped
  <2>2. ASSUME NEW r \in Readers, Leave(r) PROVE shared'[v].ready = shared[v].ready
    BY <1>2, <2>2, LeftIsShared DEF Leave
  <2>3. CASE Opened
    BY <1>2, <2>3, OpenedIsShared
  <2>4. ASSUME NEW s \in Streams, ReadAgain(s) PROVE shared'[v] = shared[v]
    <3>1. Min(rereads[s]) \in Made
      BY <2>4, NextIsMade DEF ReadAgain
    <3>2. \A at \in {"subscribe", "pages"} :
             Reading(Min(rereads[s]), at) \in Jobs /\ Reading(Min(rereads[s]), at).view = Min(rereads[s])
      BY <3>1, ReadingIsJob DEF Reading
    <3>3. \E at \in {"subscribe", "pages"} : job'[s] = Reading(Min(rereads[s]), at)
      BY <2>4 DEF ReadAgain, JobTyped
    <3>4. v # Min(rereads[s])
      BY <3>2, <3>3, NoneIsNot DEF ComingToBeRead
    <3> QED BY <1>2, <2>4, <3>1, <3>4 DEF ReadAgain
  <2>5. ASSUME NEW s \in Streams, ReadOver(s) PROVE shared'[v] = shared[v]
    <3>1. job[s] \in Jobs
      BY <2>5 DEF ReadOver, Whole, JobTyped
    <3>2. Fresh(job[s]).ready
      BY <3>1, FreshIsShared
    <3>3. v # job[s].view
      BY <1>2, <2>5, <3>2 DEF ReadOver
    <3> QED BY <1>2, <2>5, <3>3 DEF ReadOver
  <2>6. ASSUME NEW s \in Streams, HearChange(s), shared[v].ready PROVE shared'[v].ready
    <3>1. shared'[v] = shared[v] \/ \E number : shared'[v] = Took(shared[v], number)
      BY <1>2, <2>6 DEF HearChange
    <3>2. \A number : Took(shared[v], number).ready
      BY <1>2, <2>6 DEF Took, Shared
    <3> QED BY <2>6, <3>1, <3>2
  <2> QED BY Footprint, <2>1, <2>2, <2>3, <2>4, <2>5, <2>6
<1> QED BY <1>1, <1>3 DEF NoneLeftUnready

\* A view not ready keeps something that will read it.
LEMMA WaitingStep == IInv /\ Waiting /\ [Next]_vars => Waiting'
<1> SUFFICES ASSUME IInv, Waiting, [Next]_vars PROVE Waiting'
  OBVIOUS
<1>1. Begun'
  BY BegunStep DEF IInv, Waiting
<1>2. ASSUME NEW v \in byId', ~shared'[v].ready PROVE v \in ComingToBeRead'
  BY <1>2, UnreadyIsRead, StaysToBeRead DEF Waiting
<1>3. NoneLeftUnready'
  BY <1>2 DEF NoneLeftUnready
<1> QED BY <1>1, <1>3 DEF Waiting

-----------------------------------------------------------------------------
(* A row never gives way to an earlier one: what that rests on. *)

\* On one of the two streams nothing breaks and nothing is lost, so that no two
\* reads of a view are under way at once.
OneSided == \A b \in Budgets : \E t \in Streams : b[<<"break", t>>] = 0 /\ b[<<"lost", t>>] = 0

Callers == Streams \cup {"first"}

\* Deliveries come in the order of the changes, each of one made.
Ordered ==
    \A t \in Streams : \A i \in 1 .. Len(queue[t]) :
        /\ queue[t][i] = Lost \/ queue[t][i].number \in 1 .. Len(log)
        /\ queue[t][i] # Lost => \A j \in 1 .. i - 1 : queue[t][j].number < queue[t][i].number

\* Rows that say what the store did, up to one change.
Real(l, R, n) == \A k \in Keys : R[k] <= n /\ (R[k] # 0 => l[R[k]] = k)

Written ==
    /\ \A v \in Made :
        /\ Real(log, shared[v].rows, Len(log)) /\ shared[v].watermark <= Len(log)
        /\ \A i \in 1 .. Len(shared[v].held) : shared[v].held[i] \in 1 .. Len(log)
    /\ \A by \in Callers : job[by] # None =>
        /\ job[by].watermark <= Len(log) /\ Real(log, job[by].rows, job[by].watermark)
        /\ job[by].at # "pages" => job[by].pages = Pages

\* A view deliveries do not find yet holds nothing and is not read again.
Unfound(v) ==
    /\ v \notin byId /\ shared[v].held = <<>>
    /\ \A s \in Streams : v \notin rereads[s] /\ (job[s] # None => job[s].view # v)

Unknown ==
    /\ Opening => job["first"].view = made
    /\ \A v \in Made : v > made \/ (Opening /\ v = made) => Unfound(v)

\* On one stream nothing is ever read again.
Still(t) ==
    /\ left[<<"break", t>>] = 0 /\ left[<<"lost", t>>] = 0
    /\ rereads[t] = {} /\ job[t] = None
    /\ again[t] => up[t] /\ phase[t] = "hearing"
    /\ \A i \in 1 .. Len(queue[t]) : queue[t][i] # Lost

Steady == \E t \in Streams : Still(t)

\* A view read again is not ready, and what is answered is no older than it.
Reread ==
    \A s \in Streams : job[s] # None /\ job[s].view \in byId =>
        /\ ~shared[job[s].view].ready
        /\ \A k \in Keys : (\A page \in job[s].pages : k \notin page) =>
              shared[job[s].view].rows[k] <= job[s].rows[k]

\* The deliveries of a view still to come on a stream that are above a watermark.
Due(q, t, v, w) ==
    {q[t][i].number : i \in {j \in 1 .. Len(q[t]) : v \in q[t][j].views /\ q[t][j].number > w}}

\* They are on one stream, the one it is subscribed on, and newer than its rows
\* and what it holds, which is in order.
Fits(q, o, v, R, h, w) ==
    /\ \A t, u \in Streams : Due(q, t, v, w) # {} /\ Due(q, u, v, w) # {} => t = u
    /\ o # None => \A t \in Streams : Due(q, t, v, w) # {} => t = o
    /\ \A t \in Streams : \A n \in Due(q, t, v, w) :
          (\A k \in Keys : R[k] < n) /\ (\A m \in 1 .. Len(h) : h[m] > w => h[m] < n)
    /\ \A m \in 1 .. Len(h) : \A l \in 1 .. m - 1 : h[l] > w /\ h[m] > w => h[l] < h[m]

FitReady ==
    \A v \in byId : shared[v].ready => Fits(queue, on[v], v, shared[v].rows, <<>>, shared[v].watermark)

FitRead ==
    \A by \in Callers : Whole(by) /\ (by = "first" \/ job[by].view \in byId) =>
        Fits(queue, on[job[by].view], job[by].view, job[by].rows, shared[job[by].view].held, job[by].watermark)

Forward == Ordered /\ Written /\ Unknown /\ Steady /\ Reread /\ FitReady /\ FitRead

\* A sequence that is another without some of its first and some of its last.
Part(p, q) == \E m \in Nat : Len(p) + m <= Len(q) /\ \A i \in 1 .. Len(p) : p[i] = q[i + m]

Deliveries == [number : Numbers, views : SUBSET Made]

\* What is sent and not taken only shortens, but for a change.
LEMMA QueuePart ==
    ASSUME Parts, [Next]_vars, \A k \in Keys : ~Change(k), NEW t \in Streams
    PROVE  Part(queue'[t], queue[t])
<1> USE DEF Parts, SidecarTyped
<1>1. queue[t] \in Seq(Deliveries) /\ Len(queue[t]) \in Nat
  BY LenProperties DEF Deliveries
<1>2. CASE queue'[t] = queue[t]
  <2>1. Len(queue'[t]) + 0 <= Len(queue[t]) /\ \A i \in 1 .. Len(queue'[t]) : queue'[t][i] = queue[t][i + 0]
    BY <1>1, <1>2
  <2> QED BY <2>1 DEF Part
<1>3. CASE queue'[t] = <<>>
  <2>1. Len(queue'[t]) = 0
    BY <1>3
  <2>2. Len(queue'[t]) + 0 <= Len(queue[t]) /\ \A i \in 1 .. Len(queue'[t]) : queue'[t][i] = queue[t][i + 0]
    BY <1>1, <2>1
  <2> QED BY <2>2 DEF Part
<1>4. ASSUME NEW n \in 0 .. Len(queue[t]), queue'[t] = SubSeq(queue[t], 1, n) PROVE Part(queue'[t], queue[t])
  <2>1. Len(queue'[t]) = n /\ \A i \in 1 .. n : queue'[t][i] = queue[t][i]
    <3>1. \A i \in 1 .. n : queue[t][i] \in Deliveries
      BY <1>1, ElementOfSeq
    <3> QED BY <1>1, <1>4, <3>1, SubSeqProperties
  <2>2. Len(queue'[t]) + 0 <= Len(queue[t]) /\ \A i \in 1 .. Len(queue'[t]) : queue'[t][i] = queue[t][i + 0]
    BY <1>1, <2>1
  <2> QED BY <2>2 DEF Part
<1>5. CASE queue[t] # <<>> /\ queue'[t] = Tail(queue[t])
  <2>1. Len(queue'[t]) = Len(queue[t]) - 1 /\ \A i \in 1 .. Len(queue'[t]) : queue'[t][i] = queue[t][i + 1]
    BY <1>1, <1>5, HeadTailProperties
  <2>2. Len(queue'[t]) + 1 <= Len(queue[t])
    BY <1>1, <2>1
  <2> QED BY <2>1, <2>2 DEF Part
<1>6. ASSUME NEW s \in Streams, Break(s) PROVE Part(queue'[t], queue[t])
  BY <1>2, <1>4, <1>6 DEF Break
<1>7. ASSUME NEW s \in Streams, ReadFails(s) \/ SeeBreak(s) PROVE Part(queue'[t], queue[t])
  BY <1>2, <1>3, <1>7 DEF ReadFails, SeeBreak, Closed
<1>8. ASSUME NEW s \in Streams, HearLost(s) \/ HearChange(s) PROVE Part(queue'[t], queue[t])
  BY <1>2, <1>5, <1>8 DEF HearLost, HearChange, Hearing
<1> QED BY Footprint, <1>2, <1>6, <1>7, <1>8

\* A change is sent on a stream to those subscribed there, or lost and told of.
LEMMA ChangeSent ==
    ASSUME Parts, NEW k \in Keys, Change(k), NEW t \in Streams
    PROVE  LET named == {v \in Made : on[v] = t}
               e == [number |-> Len(log) + 1, views |-> named]
           IN  /\ ~up[t] \/ named = {} => queue'[t] = queue[t]
               /\ up[t] /\ named # {} =>
                     \/ queue'[t] = Append(queue[t], e)
                     \/ left[<<"lost", t>>] > 0 /\ queue'[t] = Append(queue[t], Lost)
               /\ e \in Deliveries /\ Lost \in Deliveries /\ e # Lost
<1> USE DEF Parts, SidecarTyped
<1> DEFINE named == {v \in Made : on[v] = t}
           e == [number |-> Len(log) + 1, views |-> named]
<1>1. Len(log) \in Nat /\ Len(log) + 1 \in Numbers /\ Len(log) + 1 # 0
  BY LenProperties, ViewsAssumption DEF ViewsAssumption, Change, Numbers
<1>2. e \in Deliveries /\ Lost \in Deliveries /\ e # Lost
  BY <1>1, NumbersAre DEF Deliveries, Lost
<1>3. CASE queue' = [s \in Streams |->
              IF up[s] /\ {v \in Made : on[v] = s} # {}
              THEN Append(queue[s], [number |-> Len(log) + 1, views |-> {v \in Made : on[v] = s}]) ELSE queue[s]]
  BY <1>2, <1>3
<1>4. ASSUME NEW s \in Streams, up[s], {v \in Made : on[v] = s} # {}, Spend(<<"lost", s>>),
             queue' = [u \in Streams |-> IF u = s THEN Append(queue[s], Lost) ELSE
                 IF up[u] /\ {v \in Made : on[v] = u} # {}
                 THEN Append(queue[u], [number |-> Len(log) + 1, views |-> {v \in Made : on[v] = u}]) ELSE queue[u]]
      PROVE  /\ ~up[t] \/ named = {} => queue'[t] = queue[t]
             /\ up[t] /\ named # {} =>
                     \/ queue'[t] = Append(queue[t], e)
                     \/ left[<<"lost", t>>] > 0 /\ queue'[t] = Append(queue[t], Lost)
  BY <1>4 DEF Spend
<1>5. \/ queue' = [s \in Streams |->
              IF up[s] /\ {v \in Made : on[v] = s} # {}
              THEN Append(queue[s], [number |-> Len(log) + 1, views |-> {v \in Made : on[v] = s}]) ELSE queue[s]]
      \/ \E s \in Streams :
            /\ up[s] /\ {v \in Made : on[v] = s} # {} /\ Spend(<<"lost", s>>)
            /\ queue' = [u \in Streams |-> IF u = s THEN Append(queue[s], Lost) ELSE
                 IF up[u] /\ {v \in Made : on[v] = u} # {}
                 THEN Append(queue[u], [number |-> Len(log) + 1, views |-> {v \in Made : on[v] = u}]) ELSE queue[u]]
  BY DEF Change
<1> HIDE DEF e
<1> QED BY <1>2, <1>3, <1>4, <1>5 DEF e

\* The log has what it had, and the change besides.
LEMMA LogGrows ==
    ASSUME Parts, [Next]_vars
    PROVE  /\ Len(log) \in Nat /\ Len(log') \in Nat /\ Len(log) <= Len(log')
           /\ \A i \in 1 .. Len(log) : log'[i] = log[i]
           /\ \A k \in Keys : Change(k) => Len(log') = Len(log) + 1 /\ log'[Len(log) + 1] = k
           /\ (\A k \in Keys : ~Change(k)) => log' = log
<1>1. log \in Seq(Keys) /\ Len(log) \in Nat
  BY LenProperties DEF Parts, SidecarTyped
<1>2. ASSUME NEW k \in Keys, Change(k)
      PROVE  /\ Len(log') = Len(log) + 1 /\ log'[Len(log) + 1] = k
             /\ \A i \in 1 .. Len(log) : log'[i] = log[i]
  BY <1>1, <1>2, AppendProperties DEF Change
<1>3. UNCHANGED log \/ \E k \in Keys : Change(k)
  BY Footprint
<1> QED BY <1>1, <1>2, <1>3

\* Deliveries stay in order.
LEMMA OrderedStep ==
    ASSUME Parts, Ordered, [Next]_vars
    PROVE  Ordered'
<1> USE DEF Ordered
<1> SUFFICES ASSUME NEW t \in Streams, NEW i \in 1 .. Len(queue'[t])
             PROVE  /\ queue'[t][i] = Lost \/ queue'[t][i].number \in 1 .. Len(log')
                    /\ queue'[t][i] # Lost => \A j \in 1 .. i - 1 : queue'[t][j].number < queue'[t][i].number
  OBVIOUS
<1>1. queue[t] \in Seq(Deliveries) /\ Len(queue[t]) \in Nat
  BY LenProperties DEF Deliveries, Parts, SidecarTyped
<1>2. queue' \in [Streams -> Seq(Deliveries)]
  BY SidecarTypedStep DEF SidecarTyped, Deliveries
<1>2a. queue'[t] \in Seq(Deliveries) /\ Len(queue'[t]) \in Nat
  BY <1>2, LenProperties
<1>3. Len(log) \in Nat /\ Len(log') \in Nat /\ Len(log) <= Len(log')
  BY LogGrows
<1>4. CASE \A k \in Keys : ~Change(k)
  <2>1. PICK m \in Nat :
          /\ Len(queue'[t]) + m <= Len(queue[t])
          /\ \A j \in 1 .. Len(queue'[t]) : queue'[t][j] = queue[t][j + m]
    BY <1>4, QueuePart DEF Part
  <2>2. i + m \in 1 .. Len(queue[t]) /\ queue'[t][i] = queue[t][i + m]
    BY <1>1, <1>2a, <2>1
  <2>3. \A j \in 1 .. i - 1 : j + m \in 1 .. (i + m) - 1 /\ queue'[t][j] = queue[t][j + m]
    BY <1>1, <1>2a, <2>1
  <2>4. queue'[t][i] # Lost => \A j \in 1 .. i - 1 : queue'[t][j].number < queue'[t][i].number
    BY <2>2, <2>3
  <2>5. queue'[t][i] = Lost \/ queue'[t][i].number \in 1 .. Len(log)
    BY <2>2
  <2> QED BY <2>4, <2>5, <1>3
<1>5. ASSUME NEW k \in Keys, Change(k)
      PROVE  /\ queue'[t][i] = Lost \/ queue'[t][i].number \in 1 .. Len(log')
             /\ queue'[t][i] # Lost => \A j \in 1 .. i - 1 : queue'[t][j].number < queue'[t][i].number
  <2>1. Len(log') = Len(log) + 1
    BY <1>5, LogGrows
  <2>2. CASE queue'[t] = queue[t]
    BY <1>3, <2>1, <2>2
  <2>3. ASSUME NEW e \in Deliveries, queue'[t] = Append(queue[t], e), e = Lost \/ e.number = Len(log) + 1
        PROVE  /\ queue'[t][i] = Lost \/ queue'[t][i].number \in 1 .. Len(log')
               /\ queue'[t][i] # Lost => \A j \in 1 .. i - 1 : queue'[t][j].number < queue'[t][i].number
    <3>1. /\ Len(queue'[t]) = Len(queue[t]) + 1 /\ queue'[t][Len(queue[t]) + 1] = e
          /\ \A j \in 1 .. Len(queue[t]) : queue'[t][j] = queue[t][j]
      BY <1>1, <2>3, AppendProperties
    <3>2. CASE i \in 1 .. Len(queue[t])
      <4>1. queue'[t][i] = queue[t][i] /\ \A j \in 1 .. i - 1 : j \in 1 .. Len(queue[t]) /\ queue'[t][j] = queue[t][j]
        BY <1>1, <3>1, <3>2
      <4>2. queue[t][i] # Lost => \A j \in 1 .. i - 1 : queue[t][j].number < queue[t][i].number
        BY <3>2
      <4>3. queue[t][i] = Lost \/ queue[t][i].number \in 1 .. Len(log')
        BY <1>3, <2>1, <3>2
      <4> QED BY <4>1, <4>2, <4>3
    <3>3. CASE i = Len(queue[t]) + 1
      <4>1. \A j \in 1 .. i - 1 : queue'[t][j].number < Len(log) + 1
        <5>1. \A j \in 1 .. Len(queue[t]) : queue[t][j] = Lost \/ queue[t][j].number \in 1 .. Len(log)
          OBVIOUS
        <5>2. Lost.number = 0
          BY DEF Lost
        <5>3. \A j \in 1 .. Len(queue[t]) : queue[t][j].number < Len(log) + 1
          BY <1>3, <5>1, <5>2
        <5>4. i - 1 = Len(queue[t])
          BY <1>1, <3>3
        <5> QED BY <3>1, <5>3, <5>4
      <4> QED BY <1>3, <2>1, <2>3, <3>1, <3>3, <4>1
    <3> QED BY <1>1, <3>1, <3>2, <3>3
  <2> QED BY <1>5, <2>2, <2>3, ChangeSent
<1> QED BY <1>4, <1>5

-----------------------------------------------------------------------------
(* What a step makes of a copy and of a read. *)

\* A read that ends: of a view first opened, or read again.
Ends(by) == IF by = "first" THEN Opened ELSE by \in Streams /\ ReadOver(by)

\* What a step makes of a view's copy: it stays, a read of it ends, or a change is heard.
LEMMA CopyStep ==
    ASSUME IInv, [Next]_vars, NEW v \in Made
    PROVE  \/ /\ shared'[v].rows = shared[v].rows /\ shared'[v].watermark = shared[v].watermark
              /\ shared'[v].held = shared[v].held /\ (shared'[v].ready => shared[v].ready)
           \/ \E by \in Callers :
                /\ Ends(by) /\ Whole(by) /\ job[by] \in Jobs /\ job[by].view = v
                /\ shared'[v].rows = After(job[by].rows, shared[v].held, job[by].watermark)
                /\ shared'[v].watermark = job[by].watermark
                /\ shared'[v].held = <<>> /\ shared'[v].ready
           \/ \E s \in Streams :
                /\ HearChange(s) /\ v \in Head(queue[s]).views \cap byId
                /\ shared'[v] = Took(shared[v], Head(queue[s]).number)
<1> USE DEF IInv, Parts, SharedTyped
<1> DEFINE Stays == /\ shared'[v].rows = shared[v].rows /\ shared'[v].watermark = shared[v].watermark
                    /\ shared'[v].held = shared[v].held /\ (shared'[v].ready => shared[v].ready)
<1>1. CASE shared'[v] = shared[v]
  BY <1>1
<1>2. ASSUME NEW r \in Readers, Ask(r) PROVE Stays
  <2>1. CASE bySelector # None /\ shared' = [shared EXCEPT ![bySelector] = Joined(shared[bySelector])]
    BY <1>1, <2>1, JoinedIsShared DEF TableTyped
  <2>2. CASE UNCHANGED shared
    BY <2>2
  <2> QED BY <1>2, <2>1, <2>2 DEF Ask
<1>3. ASSUME NEW r \in Readers, Leave(r) PROVE Stays
  <2>1. of[r] \in Made
    BY <1>3, HeldIsCounted DEF Holders, Leave
  <2> QED BY <1>3, <2>1, LeftIsShared
<1>4. CASE Opened
  <2>1. CASE v = job["first"].view
    <3>1. Ends("first") /\ Whole("first")
      BY <1>4 DEF Ends, Opened
    <3> QED BY <1>4, <2>1, <3>1, OpenedIsShared DEF Callers
  <2>2. CASE v # job["first"].view
    BY <1>4, <2>2, OpenedIsShared
  <2> QED BY <2>1, <2>2
<1>5. ASSUME NEW s \in Streams, ReadAgain(s) PROVE Stays
  <2>1. /\ Min(rereads[s]) \in Made
        /\ shared' = [shared EXCEPT ![Min(rereads[s])] = [shared[Min(rereads[s])] EXCEPT !.ready = FALSE]]
    BY <1>5, NextIsMade DEF ReadAgain
  <2>2. shared[v] \in Shared
    OBVIOUS
  <2>3. shared'[v] = shared[v] \/ shared'[v] = [shared[v] EXCEPT !.ready = FALSE]
    BY <2>1
  <2> QED BY <2>2, <2>3 DEF Shared
<1>6. ASSUME NEW s \in Streams, ReadOver(s)
      PROVE  \/ shared'[v] = shared[v]
             \/ /\ Ends(s) /\ Whole(s) /\ job[s] \in Jobs /\ job[s].view = v
                /\ shared'[v].rows = After(job[s].rows, shared[v].held, job[s].watermark)
                /\ shared'[v].watermark = job[s].watermark
                /\ shared'[v].held = <<>> /\ shared'[v].ready
  <2>1. /\ job[s] \in Jobs /\ job[s].view \in Made /\ Whole(s)
        /\ shared' = [shared EXCEPT ![job[s].view] = Fresh(job[s])]
    BY <1>6 DEF ReadOver, Whole, JobTyped, Jobs
  <2>2. Ends(s)
    BY <1>6 DEF Ends, Streams
  <2> QED BY <2>1, <2>2, FreshIsShared
<1>7. ASSUME NEW s \in Streams, HearChange(s)
      PROVE  \/ shared'[v] = shared[v]
             \/ /\ v \in Head(queue[s]).views \cap byId
                /\ shared'[v] = Took(shared[v], Head(queue[s]).number)
  BY <1>7 DEF HearChange
<1> QED BY Footprint, <1>1, <1>2, <1>3, <1>4, <1>5, <1>6, <1>7 DEF Callers

\* What a page answered makes of a read.
LEMMA AnswerIs ==
    ASSUME Parts, NEW by \in Callers, Answer(by)
    PROVE  /\ job[by] \in Jobs /\ job[by].at = "pages"
           /\ \A c \in Callers \ {by} : job'[c] = job[c]
           /\ job'[by] # None /\ job'[by].view = job[by].view /\ job'[by].at = "pages"
           /\ job'[by].watermark = Len(log)
           /\ \E page \in job[by].pages :
                /\ job'[by].pages = job[by].pages \ {page}
                /\ job'[by].rows = [k \in Keys |-> IF k \in page THEN Latest(k) ELSE job[by].rows[k]]
<1>1. job[by] \in Jobs /\ job[by].at = "pages" /\ job \in [Callers -> Jobs \cup {None}]
  BY DEF Answer, Parts, JobTyped, Callers
<1>2. PICK page \in job[by].pages :
        job' = [job EXCEPT ![by] =
                   [job[by] EXCEPT !.pages = job[by].pages \ {page},
                                   !.rows = [k \in Keys |-> IF k \in page THEN Latest(k) ELSE job[by].rows[k]],
                                   !.watermark = Len(log)]]
  <2>1. PICK page \in job[by].pages :
          job' = [job EXCEPT ![by].pages = @ \ {page},
                             ![by].rows = [k \in Keys |-> IF k \in page THEN Latest(k) ELSE @[k]],
                             ![by].watermark = Len(log)]
    BY DEF Answer
  <2> QED BY <1>1, <2>1 DEF Jobs
<1> DEFINE R == [k \in Keys |-> IF k \in page THEN Latest(k) ELSE job[by].rows[k]]
           j == [job[by] EXCEPT !.pages = job[by].pages \ {page}, !.rows = R, !.watermark = Len(log)]
<1> HIDE DEF R
<1>3. /\ j.view = job[by].view /\ j.at = "pages" /\ j.watermark = Len(log)
      /\ j.pages = job[by].pages \ {page} /\ j.rows = R
  BY <1>1 DEF Jobs
<1>4. job'[by] = j /\ \A c \in Callers \ {by} : job'[c] = job[c]
  BY <1>1, <1>2 DEF R
<1>5. job'[by] # None
  <2>1. \E k \in Jobs : job' = [job EXCEPT ![by] = k]
    BY AnsweredIsJob DEF Callers
  <2> QED BY <1>1, <2>1, NoneIsNot
<1> HIDE DEF j
<1> QED BY <1>1, <1>3, <1>4, <1>5 DEF R

\* A read begun: of a view made for it, or of one to be read again.
Begins(by) ==
    IF by = "first" THEN (\E r \in Readers : Ask(r)) /\ ~Opening /\ made' = made + 1 /\ bySelector = None
    ELSE by \in Streams /\ ReadAgain(by) /\ rereads[by] # {}

NextView(by) == IF by = "first" THEN made' ELSE Min(rereads[by])

\* What a step makes of a read: it stays, goes on, is answered or begins.
LEMMA ReadStep ==
    ASSUME IInv, [Next]_vars, NEW by \in Callers, job'[by] # None
    PROVE  \/ job[by] # None /\ job'[by] = job[by]
           \/ /\ job[by] # None /\ job'[by].view = job[by].view /\ job'[by].pages = job[by].pages
              /\ job'[by].rows = job[by].rows /\ job'[by].watermark = job[by].watermark
              /\ \/ job'[by].at = "pages" /\ job[by].at = "subscribe" /\ Subscribe(by)
                 \/ job'[by].at = "subscribe" /\ job[by].at = "stream" /\ StreamOpen /\ by = "first"
           \/ job[by] # None /\ Answer(by)
           \/ /\ job[by] = None /\ Begins(by) /\ NextView(by) \in Made
              /\ \E at \in {"stream", "subscribe", "pages"} :
                    job'[by] = Reading(NextView(by), at)
<1> USE DEF IInv, Parts, JobTyped, Callers
<1>1. CASE job'[by] = job[by]
  BY <1>1
<1>2. ASSUME NEW r \in Readers, Ask(r), job'[by] # job[by]
      PROVE  /\ job[by] = None /\ Begins(by) /\ NextView(by) \in Made
             /\ job'[by] = Reading(NextView(by), "stream")
  <2>1. by = "first" /\ bySelector = None /\ made < MaxViews /\ made' = made + 1 /\ ~Opening
          /\ job' = [job EXCEPT !["first"] = Reading(made', "stream")]
    BY <1>2 DEF Ask
  <2>2. made' \in Made
    BY <2>1, ViewsAssumption DEF TableTyped, Made, ViewsAssumption
  <2> QED BY <1>2, <2>1, <2>2 DEF Begins, NextView, Opening
<1>3. CASE StreamOpen /\ job'[by] # job[by]
  <2>1. by = "first" /\ job[by] # None /\ job[by].at = "stream" /\ job'[by] = [job[by] EXCEPT !.at = "subscribe"]
    BY <1>3 DEF StreamOpen, Opening
  <2>2. job[by] \in Jobs
    BY <2>1
  <2> QED BY <1>3, <2>1, <2>2 DEF Jobs
<1>4. CASE Opened \/ OpenFails
  BY <1>1, <1>4 DEF Opened, OpenFails
<1>5. ASSUME NEW c \in Callers, Subscribe(c) \/ Answer(c), c # by PROVE job'[by] = job[by]
  BY <1>5 DEF Subscribe, Answer
<1>6. CASE Subscribe(by)
  <2>1. job[by] # None /\ job[by].at = "subscribe" /\ job'[by] = [job[by] EXCEPT !.at = "pages"]
    BY <1>6 DEF Subscribe
  <2>2. job[by] \in Jobs
    BY <2>1
  <2> QED BY <1>6, <2>1, <2>2 DEF Jobs
<1>7. CASE Answer(by)
  BY <1>7 DEF Answer
<1>8. ASSUME NEW s \in Streams, ReadAgain(s), job'[by] # job[by]
      PROVE  /\ job[by] = None /\ Begins(by) /\ NextView(by) \in Made
             /\ \E at \in {"stream", "subscribe", "pages"} : job'[by] = Reading(NextView(by), at)
  <2>1. by = s /\ by # "first" /\ job[by] = None /\ rereads[by] # {}
    BY <1>8 DEF ReadAgain, Streams
  <2>2. Min(rereads[by]) \in Made
    BY <2>1, NextIsMade
  <2>3. job'[by] = Reading(Min(rereads[by]), IF phase[by] = "reopened" THEN "subscribe" ELSE "pages")
    BY <1>8, <2>1 DEF ReadAgain
  <2> QED BY <1>8, <2>1, <2>2, <2>3 DEF Begins, NextView
<1>9. ASSUME NEW s \in Streams, ReadOver(s) \/ ReadFails(s) PROVE job'[by] = job[by] \/ job'[by] = None
  BY <1>9 DEF ReadOver, ReadFails
<1> QED BY Footprint, <1>1, <1>2, <1>3, <1>4, <1>5, <1>6, <1>7, <1>8, <1>9

-----------------------------------------------------------------------------
(* Rows, and what is made of them. *)

\* A row after a read is what was answered, or the last held of it above the watermark.
LEMMA AfterIs ==
    ASSUME NEW rows \in [Keys -> Numbers], NEW held \in Seq(Numbers), NEW watermark \in Numbers, NEW k \in Keys
    PROVE  \/ /\ After(rows, held, watermark)[k] = rows[k]
              /\ \A i \in 1 .. Len(held) : held[i] > watermark => log[held[i]] # k
           \/ \E m \in 1 .. Len(held) :
                /\ After(rows, held, watermark)[k] = held[m] /\ held[m] > watermark /\ log[held[m]] = k
                /\ \A i \in 1 .. Len(held) : held[i] > watermark /\ log[held[i]] = k => i <= m
<1> DEFINE heard == {i \in 1 .. Len(held) : held[i] > watermark /\ log[held[i]] = k}
<1>1. After(rows, held, watermark)[k] = IF heard = {} THEN rows[k] ELSE held[Max(heard)]
  BY DEF After
<1>2. Len(held) \in Nat /\ heard \in SUBSET (0 .. Len(held))
  BY LenProperties
<1>3. heard # {} => Max(heard) \in heard /\ \A i \in heard : Max(heard) >= i
  <2> HIDE DEF heard
  <2> QED BY <1>2, MaxIsGreatest
<1>4. CASE heard = {}
  BY <1>1, <1>4
<1>5. CASE heard # {}
  <2> DEFINE m == Max(heard)
  <2>1. m \in heard /\ \A i \in heard : m >= i
    BY <1>3, <1>5
  <2>2. After(rows, held, watermark)[k] = held[m]
    BY <1>1, <1>5
  <2> HIDE DEF m
  <2>3. m \in 1 .. Len(held) /\ held[m] > watermark /\ log[held[m]] = k
    BY <2>1
  <2>4. \A i \in 1 .. Len(held) : held[i] > watermark /\ log[held[i]] = k => i <= m
    BY <1>2, <2>1
  <2> QED BY <2>2, <2>3, <2>4
<1> QED BY <1>4, <1>5

\* Rows that are the store's stay so.
LEMMA RealGrows ==
    ASSUME Parts, [Next]_vars, NEW R \in [Keys -> Numbers], NEW n \in Numbers, n <= Len(log), Real(log, R, n)
    PROVE  Real(log', R, n) /\ Real(log', R, Len(log'))
<1>1. /\ Len(log) \in Nat /\ Len(log') \in Nat /\ Len(log) <= Len(log')
      /\ \A i \in 1 .. Len(log) : log'[i] = log[i]
  BY LogGrows
<1>2. \A k \in Keys : R[k] \in Nat /\ R[k] <= n /\ (R[k] # 0 => log[R[k]] = k)
  BY NumbersAre DEF Real
<1>3. n \in Nat
  BY NumbersAre
<1> SUFFICES ASSUME NEW k \in Keys PROVE R[k] <= n /\ R[k] <= Len(log') /\ (R[k] # 0 => log'[R[k]] = k)
  BY DEF Real
<1>4. R[k] # 0 => R[k] \in 1 .. Len(log)
  BY <1>1, <1>2, <1>3
<1>5. R[k] <= Len(log')
  BY <1>1, <1>2, <1>3
<1> QED BY <1>1, <1>2, <1>4, <1>5

\* What a read and what was held make is the store's too, and no older than what was read.
LEMMA AfterReal ==
    ASSUME Parts, NEW rows \in [Keys -> Numbers], NEW held \in Seq(Numbers), NEW watermark \in Numbers,
           watermark <= Len(log), Real(log, rows, watermark), \A i \in 1 .. Len(held) : held[i] \in 1 .. Len(log)
    PROVE  /\ Real(log, After(rows, held, watermark), Len(log))
           /\ \A k \in Keys : After(rows, held, watermark)[k] >= rows[k]
<1>1. Len(log) \in Nat /\ watermark \in Nat
  BY LogGrows, LenProperties, NumbersAre DEF Parts, SidecarTyped
<1> SUFFICES ASSUME NEW k \in Keys
             PROVE  /\ After(rows, held, watermark)[k] <= Len(log)
                    /\ After(rows, held, watermark)[k] # 0 => log[After(rows, held, watermark)[k]] = k
                    /\ After(rows, held, watermark)[k] >= rows[k]
  BY DEF Real
<1>2. rows[k] \in Nat /\ rows[k] <= watermark /\ (rows[k] # 0 => log[rows[k]] = k)
  BY NumbersAre DEF Real
<1>3. CASE After(rows, held, watermark)[k] = rows[k]
  BY <1>1, <1>2, <1>3
<1>4. ASSUME NEW m \in 1 .. Len(held), After(rows, held, watermark)[k] = held[m],
             held[m] > watermark, log[held[m]] = k
      PROVE  /\ After(rows, held, watermark)[k] <= Len(log)
             /\ After(rows, held, watermark)[k] # 0 => log[After(rows, held, watermark)[k]] = k
             /\ After(rows, held, watermark)[k] >= rows[k]
  BY <1>1, <1>2, <1>4
<1> QED BY AfterIs, <1>3, <1>4

\* The number of a key's last change is of a change of it, and no other is later.
LEMMA LatestIs ==
    ASSUME Parts, NEW k \in Keys
    PROVE  /\ Latest(k) \in 0 .. Len(log) /\ (Latest(k) # 0 => log[Latest(k)] = k)
           /\ \A i \in 1 .. Len(log) : log[i] = k => i <= Latest(k)
<1> DEFINE S == {0} \cup {i \in 1 .. Len(log) : log[i] = k}
<1>1. Len(log) \in Nat /\ S \in SUBSET (0 .. Len(log)) /\ S # {}
  BY LenProperties DEF Parts, SidecarTyped
<1>2. Max(S) \in S /\ \A y \in S : Max(S) >= y
  <2> HIDE DEF S
  <2> QED BY <1>1, MaxIsGreatest
<1>3. Latest(k) = Max(S)
  BY DEF Latest
<1> DEFINE m == Max(S)
<1> HIDE DEF m
<1>4. Latest(k) = m /\ m \in S /\ \A y \in S : m >= y
  BY <1>2, <1>3 DEF m
<1> QED BY <1>1, <1>4

\* The delivery heard is of a change made.
LEMMA HeardIs ==
    ASSUME Parts, Ordered, NEW s \in Streams, HearChange(s)
    PROVE  /\ queue[s] # <<>> /\ Head(queue[s]) = queue[s][1] /\ 1 \in 1 .. Len(queue[s])
           /\ Head(queue[s]) \in Deliveries /\ Head(queue[s]) # Lost
           /\ Head(queue[s]).number \in 1 .. Len(log) /\ Head(queue[s]).number \in Numbers
           /\ Len(log) \in Nat
<1>1. queue[s] \in Seq(Deliveries) /\ queue[s] # <<>> /\ Head(queue[s]) # Lost
  BY DEF Parts, SidecarTyped, Deliveries, HearChange, Hearing
<1>2. Head(queue[s]) \in Deliveries /\ Head(queue[s]) = queue[s][1] /\ 1 \in 1 .. Len(queue[s])
  BY <1>1, HeadTailProperties, LenProperties
<1>3. Head(queue[s]).number \in 1 .. Len(log)
  BY <1>1, <1>2 DEF Ordered
<1>4. Len(log) \in Nat
  BY LenProperties DEF Parts, SidecarTyped
<1> QED BY <1>1, <1>2, <1>3, <1>4 DEF Deliveries

\* What a change makes of a copy.
LEMMA TookIs ==
    ASSUME NEW v \in Shared, NEW number \in Numbers
    PROVE  /\ Took(v, number).ready = v.ready /\ Took(v, number).watermark = v.watermark
           /\ v.ready => /\ Took(v, number).held = v.held
                         /\ number > v.watermark => Took(v, number).rows = [v.rows EXCEPT ![log[number]] = number]
                         /\ ~(number > v.watermark) => Took(v, number).rows = v.rows
           /\ ~v.ready => Took(v, number).rows = v.rows /\ Took(v, number).held = Append(v.held, number)
<1>1. CASE v.ready
  <2> DEFINE R == Applied(v.rows, number, v.watermark)
  <2>1. Took(v, number) = [v EXCEPT !.rows = R]
    BY <1>1 DEF Took
  <2>2. /\ number > v.watermark => R = [v.rows EXCEPT ![log[number]] = number]
        /\ ~(number > v.watermark) => R = v.rows
    BY DEF Applied
  <2> HIDE DEF R
  <2>3. Took(v, number).ready = v.ready /\ Took(v, number).watermark = v.watermark
           /\ Took(v, number).held = v.held /\ Took(v, number).rows = R
    BY <2>1 DEF Shared
  <2> QED BY <1>1, <2>2, <2>3
<1>2. CASE ~v.ready
  <2> DEFINE H == Append(v.held, number)
  <2>1. Took(v, number) = [v EXCEPT !.held = H]
    BY <1>2 DEF Took
  <2> HIDE DEF H
  <2>2. Took(v, number).ready = v.ready /\ Took(v, number).watermark = v.watermark
           /\ Took(v, number).rows = v.rows /\ Took(v, number).held = H
    BY <2>1 DEF Shared
  <2> QED BY <1>2, <2>2 DEF H
<1> QED BY <1>1, <1>2

-----------------------------------------------------------------------------
(* What is written stays so, and one stream stays still. *)

\* Copies and what is read stay what the store did.
LEMMA WrittenStep ==
    ASSUME IInv, Ordered, Written, [Next]_vars
    PROVE  Written'
<1> USE DEF IInv, Parts
<1>1. /\ Len(log) \in Nat /\ Len(log') \in Nat /\ Len(log) <= Len(log')
      /\ \A i \in 1 .. Len(log) : log'[i] = log[i]
      /\ (\A k \in Keys : ~Change(k)) => log' = log
  BY LogGrows
<1>2. ASSUME NEW v \in Made
      PROVE  /\ Real(log', shared'[v].rows, Len(log')) /\ shared'[v].watermark <= Len(log')
             /\ \A i \in 1 .. Len(shared'[v].held) : shared'[v].held[i] \in 1 .. Len(log')
  <2>1. /\ shared[v] \in Shared /\ shared[v].rows \in [Keys -> Numbers] /\ shared[v].watermark \in Numbers
        /\ shared[v].held \in Seq(Numbers) /\ Len(shared[v].held) \in Nat /\ shared[v].watermark \in Nat
    BY LenProperties, NumbersAre DEF SharedTyped, Shared
  <2>2. /\ Real(log, shared[v].rows, Len(log)) /\ shared[v].watermark <= Len(log)
        /\ \A i \in 1 .. Len(shared[v].held) : shared[v].held[i] \in 1 .. Len(log)
    BY DEF Written
  <2>3. Len(log) \in Numbers
    BY <1>1, ViewsAssumption DEF SidecarTyped, Numbers, ViewsAssumption
  <2>4. CASE /\ shared'[v].rows = shared[v].rows /\ shared'[v].watermark = shared[v].watermark
             /\ shared'[v].held = shared[v].held
    <3>1. Real(log', shared[v].rows, Len(log'))
      BY <1>1, <2>1, <2>2, <2>3, RealGrows
    <3>2. shared[v].watermark <= Len(log')
      BY <1>1, <2>1, <2>2
    <3>3. \A i \in 1 .. Len(shared[v].held) : shared[v].held[i] \in 1 .. Len(log')
      BY <1>1, <2>2
    <3> QED BY <2>4, <3>1, <3>2, <3>3
  <2>5. ASSUME NEW by \in Callers, Ends(by), Whole(by), job[by] \in Jobs,
               shared'[v].rows = After(job[by].rows, shared[v].held, job[by].watermark),
               shared'[v].watermark = job[by].watermark, shared'[v].held = <<>>
        PROVE  /\ Real(log', shared'[v].rows, Len(log')) /\ shared'[v].watermark <= Len(log')
               /\ \A i \in 1 .. Len(shared'[v].held) : shared'[v].held[i] \in 1 .. Len(log')
    <3>1. log' = log
      BY <2>5 DEF Ends, Opened, ReadOver, sidecarVars
    <3>2. /\ job[by].rows \in [Keys -> Numbers] /\ job[by].watermark \in Numbers
          /\ job[by].watermark <= Len(log) /\ Real(log, job[by].rows, job[by].watermark)
      BY <2>5 DEF Whole, Jobs, Written
    <3>3. Real(log, After(job[by].rows, shared[v].held, job[by].watermark), Len(log))
      BY <2>1, <2>2, <3>2, AfterReal
    <3> QED BY <2>5, <3>1, <3>2, <3>3
  <2>6. ASSUME NEW s \in Streams, HearChange(s), shared'[v] = Took(shared[v], Head(queue[s]).number)
        PROVE  /\ Real(log', shared'[v].rows, Len(log')) /\ shared'[v].watermark <= Len(log')
               /\ \A i \in 1 .. Len(shared'[v].held) : shared'[v].held[i] \in 1 .. Len(log')
    <3> DEFINE n == Head(queue[s]).number
    <3>1. log' = log
      BY <2>6 DEF HearChange
    <3>2. n \in 1 .. Len(log) /\ n \in Numbers
      BY <2>6, HeardIs
    <3> DEFINE w == Took(shared[v], n)
    <3>2b. /\ w.watermark = shared[v].watermark
           /\ w.rows = shared[v].rows \/ w.rows = [shared[v].rows EXCEPT ![log[n]] = n]
           /\ w.held = shared[v].held \/ w.held = Append(shared[v].held, n)
      BY <2>1, <3>2, TookIs
    <3>2c. shared'[v] = w
      BY <2>6
    <3> HIDE DEF n, w
    <3>3. shared'[v].watermark = shared[v].watermark
      BY <3>2b, <3>2c
    <3>4. Real(log, shared'[v].rows, Len(log))
      <4>1. shared'[v].rows = shared[v].rows \/ shared'[v].rows = [shared[v].rows EXCEPT ![log[n]] = n]
        BY <3>2b, <3>2c
      <4> SUFFICES ASSUME NEW k \in Keys
                   PROVE  shared'[v].rows[k] <= Len(log) /\ (shared'[v].rows[k] # 0 => log[shared'[v].rows[k]] = k)
        BY DEF Real
      <4>2. shared[v].rows[k] <= Len(log) /\ (shared[v].rows[k] # 0 => log[shared[v].rows[k]] = k)
        BY <2>2 DEF Real
      <4>3. shared'[v].rows[k] = shared[v].rows[k] \/ (k = log[n] /\ shared'[v].rows[k] = n)
        BY <2>1, <4>1
      <4> QED BY <1>1, <3>2, <4>2, <4>3
    <3>5. \A i \in 1 .. Len(shared'[v].held) : shared'[v].held[i] \in 1 .. Len(log)
      <4>1. CASE shared'[v].held = shared[v].held
        BY <2>2, <4>1
      <4>2. CASE shared'[v].held = Append(shared[v].held, n)
        BY <2>1, <2>2, <3>2, <4>2, AppendProperties
      <4> QED BY <3>2b, <3>2c, <4>1, <4>2
    <3> QED BY <2>2, <3>1, <3>3, <3>4, <3>5
  <2> QED BY <2>4, <2>5, <2>6, CopyStep
<1>3. ASSUME NEW by \in Callers, job'[by] # None
      PROVE  /\ job'[by].watermark <= Len(log') /\ Real(log', job'[by].rows, job'[by].watermark)
             /\ job'[by].at # "pages" => job'[by].pages = Pages
  <2>1. job[by] # None => /\ job[by] \in Jobs /\ job[by].rows \in [Keys -> Numbers] /\ job[by].watermark \in Numbers
                          /\ job[by].watermark \in Nat
                          /\ job[by].watermark <= Len(log) /\ Real(log, job[by].rows, job[by].watermark)
                          /\ job[by].at # "pages" => job[by].pages = Pages
    BY NumbersAre DEF JobTyped, Jobs, Written, Callers
  <2>2. job[by] # None => Real(log', job[by].rows, job[by].watermark) /\ job[by].watermark <= Len(log')
    BY <1>1, <2>1, RealGrows
  <2>3. CASE Answer(by)
    <3>1. /\ job[by] \in Jobs /\ job'[by].at = "pages" /\ job'[by].watermark = Len(log) /\ job[by] # None
      BY <2>3, AnswerIs DEF Answer
    <3>2. PICK page \in job[by].pages :
            job'[by].rows = [k \in Keys |-> IF k \in page THEN Latest(k) ELSE job[by].rows[k]]
      BY <2>3, AnswerIs
    <3>3. log' = log
      BY <2>3 DEF Answer, sidecarVars
    <3>4. Real(log, job'[by].rows, Len(log))
      <4> SUFFICES ASSUME NEW k \in Keys
                   PROVE  job'[by].rows[k] <= Len(log) /\ (job'[by].rows[k] # 0 => log[job'[by].rows[k]] = k)
        BY DEF Real
      <4>1. Latest(k) <= Len(log) /\ (Latest(k) # 0 => log[Latest(k)] = k)
        BY <1>1, LatestIs
      <4>2. job[by].rows[k] <= Len(log) /\ (job[by].rows[k] # 0 => log[job[by].rows[k]] = k)
        <5>1. /\ job[by].rows[k] \in Nat /\ job[by].rows[k] <= job[by].watermark
              /\ (job[by].rows[k] # 0 => log[job[by].rows[k]] = k)
          BY <2>1, <3>1, NumbersAre DEF Real
        <5>2. job[by].watermark \in Nat /\ job[by].watermark <= Len(log)
          BY <2>1, <3>1
        <5> QED BY <1>1, <5>1, <5>2
      <4> QED BY <3>2, <4>1, <4>2
    <3> QED BY <1>1, <3>1, <3>3, <3>4
  <2>4. ASSUME NEW v, NEW at, job'[by] = Reading(v, at)
        PROVE  /\ job'[by].watermark <= Len(log') /\ Real(log', job'[by].rows, job'[by].watermark)
               /\ job'[by].pages = Pages
    BY <1>1, <2>4 DEF Reading, Unread, Real
  <2> QED BY <1>3, <2>1, <2>2, <2>3, <2>4, ReadStep
<1> QED BY <1>2, <1>3 DEF Written

\* On the stream where nothing breaks or is lost, nothing is read again.
LEMMA StillStep ==
    ASSUME IInv, Begun, NEW t \in Streams, Still(t), [Next]_vars
    PROVE  Still(t)'
<1> USE DEF IInv, Parts, Still
<1>1. left'[<<"break", t>>] = 0 /\ left'[<<"lost", t>>] = 0
  <2>1. \A m \in Mishaps : left[m] = 0 => left'[m] = 0
    <3>1. ASSUME NEW n \in Mishaps, Spend(n) PROVE \A m \in Mishaps : left[m] = 0 => left'[m] = 0
      BY <3>1 DEF Spend, LeftTyped
    <3>2. (\A s \in Streams : <<"break", s>> \in Mishaps /\ <<"lost", s>> \in Mishaps)
            /\ <<"call", "fails">> \in Mishaps
      BY DEF Mishaps
    <3>3. CASE \E k \in Keys : Change(k)
      BY <3>1, <3>2, <3>3 DEF Change
    <3>4. CASE \E s \in Streams : Break(s)
      BY <3>1, <3>2, <3>4 DEF Break
    <3>5. CASE (\E s \in Streams : ReadFails(s)) \/ OpenFails
      BY <3>1, <3>2, <3>5 DEF ReadFails, OpenFails, Unanswered
    <3> QED BY Footprint, <3>3, <3>4, <3>5
  <2> QED BY <2>1 DEF Mishaps
<1>2. ~ReadAgain(t) /\ ~ReadOver(t) /\ ~ReadFails(t) /\ ~HearLost(t) /\ ~Subscribe(t) /\ ~Answer(t)
  <2>1. ~HearLost(t)
    <3>1. ASSUME HearLost(t) PROVE FALSE
      <4>1. queue[t] \in Seq(Deliveries) /\ queue[t] # <<>> /\ Head(queue[t]) = Lost
        BY <3>1 DEF HearLost, Hearing, SidecarTyped, Deliveries
      <4>2. queue[t][1] = Lost /\ 1 \in 1 .. Len(queue[t])
        BY <4>1, HeadTailProperties, LenProperties
      <4> QED BY <4>2
    <3> QED BY <3>1
  <2> QED BY <2>1 DEF ReadAgain, ReadOver, Whole, ReadFails, Subscribe, Answer
<1>3. ~Break(t) /\ ~SeeBreak(t)
  BY DEF Break, Spend, SeeBreak, Begun
<1>4. rereads'[t] = {}
  <2>1. ASSUME OpenStream(t) PROVE rereads'[t] = {}
    BY <2>1 DEF OpenStream, StreamTyped
  <2>2. ASSUME NEW s \in Streams, s # t, OpenStream(s) \/ ReadAgain(s) \/ ReadFails(s) \/ SeeBreak(s) \/ HearLost(s)
        PROVE  rereads'[t] = rereads[t]
    BY <2>2 DEF OpenStream, ReadAgain, ReadFails, SeeBreak, Closed, HearLost, StreamTyped
  <2> QED BY Footprint, <1>2, <1>3, <2>1, <2>2
<1>5. job'[t] = None
  <2>1. ASSUME job'[t] # None PROVE FALSE
    <3>1. t # "first" /\ t \in Callers
      BY DEF Streams, Callers
    <3> QED BY <1>2, <2>1, <3>1, ReadStep DEF Begins
  <2> QED BY <2>1
<1>6. again'[t] => up'[t] /\ phase'[t] = "hearing"
  <2>1. ASSUME OpenStream(t) PROVE up'[t] /\ phase'[t] = "hearing"
    BY <2>1 DEF OpenStream, StreamTyped, SidecarTyped
  <2>2. ASSUME ~OpenStream(t), again'[t] PROVE up'[t] /\ phase'[t] = "hearing"
    <3>1. again[t]
      BY <2>2, Footprint DEF OpenStream, StreamTyped
    <3>2. up[t] /\ phase[t] = "hearing"
      BY <3>1
    <3>3. up'[t] = up[t]
      <4>1. ASSUME NEW s \in Streams, s # t, Break(s) \/ ReadFails(s) \/ SeeBreak(s) \/ OpenStream(s)
            PROVE  up'[t] = up[t]
        BY <4>1 DEF Break, ReadFails, SeeBreak, Closed, OpenStream, SidecarTyped
      <4> QED BY Footprint, <1>2, <1>3, <2>2, <4>1
    <3>4. phase'[t] = phase[t]
      <4>1. ASSUME NEW s \in Streams, s # t, OpenStream(s) \/ Resumed(s) \/ ReadFails(s) \/ SeeBreak(s)
            PROVE  phase'[t] = phase[t]
        BY <4>1 DEF ReadFails, SeeBreak, Closed, OpenStream, Resumed, StreamTyped
      <4>2. ~Resumed(t)
        BY <3>2 DEF Resumed
      <4>3. ASSUME NEW r \in Readers, Ask(r) PROVE phase'[t] = phase[t]
        BY <3>2, <4>3 DEF Ask, StreamTyped
      <4> QED BY Footprint, <1>2, <1>3, <2>2, <4>1, <4>2, <4>3
    <3> QED BY <3>2, <3>3, <3>4
  <2> QED BY <2>1, <2>2
<1>7. \A i \in 1 .. Len(queue'[t]) : queue'[t][i] # Lost
  <2>0. queue[t] \in Seq(Deliveries) /\ Len(queue[t]) \in Nat
    BY LenProperties DEF SidecarTyped, Deliveries
  <2>1. CASE \A k \in Keys : ~Change(k)
    <3>1. PICK m \in Nat :
            /\ Len(queue'[t]) + m <= Len(queue[t])
            /\ \A i \in 1 .. Len(queue'[t]) : queue'[t][i] = queue[t][i + m]
      BY <2>1, QueuePart DEF Part
    <3>2. Len(queue'[t]) \in Nat
      BY SidecarTypedStep, LenProperties DEF SidecarTyped
    <3>3. \A i \in 1 .. Len(queue'[t]) : i + m \in 1 .. Len(queue[t])
      BY <2>0, <3>1, <3>2
    <3> QED BY <3>1, <3>3
  <2>2. ASSUME NEW k \in Keys, Change(k) PROVE \A i \in 1 .. Len(queue'[t]) : queue'[t][i] # Lost
    <3>1. CASE queue'[t] = queue[t]
      BY <3>1
    <3>2. ASSUME NEW e \in Deliveries, e # Lost, queue'[t] = Append(queue[t], e)
          PROVE  \A i \in 1 .. Len(queue'[t]) : queue'[t][i] # Lost
      BY <2>0, <3>2, AppendProperties
    <3> DEFINE named == {v \in Made : on[v] = t}
               e == [number |-> Len(log) + 1, views |-> named]
    <3>3. e \in Deliveries /\ e # Lost /\ (queue'[t] = queue[t] \/ queue'[t] = Append(queue[t], e))
      BY <2>2, ChangeSent
    <3> HIDE DEF e
    <3> QED BY <3>1, <3>2, <3>3
  <2> QED BY <2>1, <2>2
<1> QED BY <1>1, <1>4, <1>5, <1>6, <1>7

\* And so it is found still again.
LEMMA SteadyStep ==
    ASSUME IInv, Begun, Steady, [Next]_vars
    PROVE  Steady'
BY StillStep DEF Steady

-----------------------------------------------------------------------------
(* A view unknown, and one read again. *)

\* Once it is opened, or not, no view is being opened.
LEMMA OpeningEnds ==
    ASSUME IInv, [Next]_vars, Opening'
    PROVE  ~Opened /\ ~OpenFails /\ (Opening \/ \E r \in Readers : Ask(r))
<1> USE DEF IInv, Parts, JobTyped
<1>1. ~Opened /\ ~OpenFails
  BY DEF Opening, Opened, OpenFails
<1> QED BY <1>1, OpeningStays

\* A view is found once it is opened, and no other.
LEMMA FoundStep ==
    ASSUME IInv, Unknown, [Next]_vars, NEW v \in byId', v \notin byId
    PROVE  Opened /\ Opening /\ job["first"].view = v /\ v = made /\ made' = made
<1>1. Opened
  BY Footprint DEF Drop
<1>2. Opening /\ byId' = byId \cup {job["first"].view} /\ made' = made
  BY <1>1 DEF Opened, Whole, Opening
<1> QED BY <1>1, <1>2 DEF Unknown

\* A view not found yet stays unknown to what reads and hears.
LEMMA UnfoundStays ==
    ASSUME IInv, Unknown, [Next]_vars, NEW v \in Made, Unfound(v), ~(Opened /\ v = made)
    PROVE  Unfound(v)'
<1> USE DEF IInv, Parts
<1>1. v \notin byId'
  BY FoundStep DEF Unfound
<1>2. shared'[v].held = <<>>
  BY CopyStep DEF Unfound
<1>3. ASSUME NEW s \in Streams PROVE v \notin rereads'[s]
  <2>1. ASSUME NEW t \in Streams, OpenStream(t) \/ ReadAgain(t) \/ ReadFails(t) \/ SeeBreak(t) \/ HearLost(t)
        PROVE  rereads'[s] \subseteq rereads[s] \cup byId
    BY <2>1 DEF OpenStream, ReadAgain, ReadFails, SeeBreak, Closed, HearLost, StreamTyped
  <2> QED BY Footprint, <2>1 DEF Unfound
<1>4. ASSUME NEW s \in Streams, job'[s] # None PROVE job'[s].view # v
  <2>1. s \in Callers /\ s # "first"
    BY DEF Callers, Streams
  <2>2. CASE Answer(s)
    BY <1>4, <2>1, <2>2, AnswerIs DEF Unfound, Answer
  <2>3. ASSUME Begins(s), NextView(s) \in Made, NEW at \in {"stream", "subscribe", "pages"},
               job'[s] = Reading(NextView(s), at)
        PROVE  job'[s].view # v
    <3>1. NextView(s) \in rereads[s]
      <4>1. rereads[s] # {} /\ rereads[s] \in SUBSET Nat
        BY <2>1, <2>3, NumbersAre DEF Begins, StreamTyped
      <4> QED BY <2>1, <4>1, MinIsLeast DEF NextView
    <3> QED BY <2>3, <3>1 DEF Reading, Unfound
  <2> QED BY <1>4, <2>1, <2>2, <2>3, ReadStep DEF Unfound
<1> QED BY <1>1, <1>2, <1>3, <1>4 DEF Unfound

\* Views not found yet stay unknown.
LEMMA UnknownStep ==
    ASSUME IInv, Unknown, [Next]_vars
    PROVE  Unknown'
<1> USE DEF IInv, Parts
<1>0. made \in Nat
  BY ViewsAssumption DEF TableTyped, ViewsAssumption
<1>1. ASSUME NEW r \in Readers, Ask(r), made' = made + 1, job' = [job EXCEPT !["first"] = Reading(made', "stream")]
      PROVE  Unknown'
  <2>1. job'["first"].view = made'
    BY <1>1 DEF JobTyped, Reading
  <2>2. ASSUME NEW v \in Made, v > made' \/ v = made' PROVE Unfound(v)'
    <3>1. v > made
      BY <1>0, <1>1, <2>2, NumbersAre
    <3>2. ~Opened
      BY <1>1 DEF Ask, Opened, tableVars, Whole, Opening
    <3> QED BY <3>1, <3>2, UnfoundStays DEF Unknown
  <2> QED BY <2>1, <2>2 DEF Unknown
<1>2. CASE made' = made
  <2>1. ASSUME Opening' PROVE Opening /\ job'["first"].view = made'
    <3>1. job'["first"] # None /\ "first" \in Callers
      BY <2>1 DEF Opening, Callers
    <3>2. ~Begins("first")
      BY <1>0, <1>2 DEF Begins
    <3>3. job["first"] # None /\ job'["first"].view = job["first"].view
      BY <3>1, <3>2, ReadStep, AnswerIs
    <3> QED BY <1>2, <3>3 DEF Opening, Unknown
  <2>2. ASSUME NEW v \in Made, v > made' \/ (Opening' /\ v = made') PROVE Unfound(v)'
    <3>1. Unfound(v)
      BY <1>2, <2>1, <2>2 DEF Unknown
    <3>2. ~(Opened /\ v = made)
      BY <1>0, <1>2, <2>2, OpeningEnds, NumbersAre
    <3> QED BY <3>1, <3>2, UnfoundStays
  <2> QED BY <2>1, <2>2 DEF Unknown
<1>3. made' = made \/ \E r \in Readers : /\ Ask(r) /\ made' = made + 1
                                         /\ job' = [job EXCEPT !["first"] = Reading(made', "stream")]
  BY Footprint DEF Ask
<1> QED BY <1>1, <1>2, <1>3

\* Only one read of a view found is under way.
LEMMA OneReads ==
    ASSUME IInv, Steady, Unknown, NEW by \in Callers, job[by] # None, by = "first" \/ job[by].view \in byId,
           NEW c \in Callers, job[c] # None, job[c].view = job[by].view
    PROVE  c = by
<1>0. Opening => made \in Made
  BY DEF Opening, Unknown, IInv, Parts, JobTyped, Jobs
<1>1. Opening => made \notin byId
  BY <1>0 DEF Unknown, Unfound
<1>2. \E t \in Streams : job[t] = None
  BY DEF Steady, Still
<1>3. Streams = {"own", "role"}
  BY DEF Streams
<1>4. CASE by = "first"
  <2>1. Opening /\ job[by].view = made
    BY <1>4 DEF Opening, Unknown
  <2>2. \A s \in Streams : job[s] # None => job[s].view # made
    BY <1>0, <2>1 DEF Unknown, Unfound
  <2> QED BY <1>4, <2>1, <2>2 DEF Callers
<1>5. CASE by # "first"
  <2>1. c = "first" => FALSE
    BY <1>1, <1>5 DEF Opening, Unknown
  <2> QED BY <1>2, <1>3, <1>5, <2>1 DEF Callers
<1> QED BY <1>4, <1>5

\* A view read again stays unready until it is read, and what is answered no older.
LEMMA RereadStep ==
    ASSUME IInv, Written, Unknown, Steady, Reread, [Next]_vars
    PROVE  Reread'
<1> USE DEF IInv, Parts
<1> DEFINE Unsaid(j, k) == \A page \in j.pages : k \notin page
<1> SUFFICES ASSUME NEW s \in Streams, job'[s] # None, job'[s].view \in byId'
             PROVE  /\ ~shared'[job'[s].view].ready
                    /\ \A k \in Keys : Unsaid(job'[s], k) =>
                          shared'[job'[s].view].rows[k] <= job'[s].rows[k]
  BY DEF Reread
<1> DEFINE v == job'[s].view
<1>0. s \in Callers /\ s # "first"
  BY DEF Callers, Streams
<1>1. ASSUME Answer(s)
      PROVE  /\ ~shared'[v].ready
             /\ \A k \in Keys : Unsaid(job'[s], k) => shared'[v].rows[k] <= job'[s].rows[k]
  <2>1. job[s] # None /\ job[s] \in Jobs /\ v = job[s].view /\ v \in Made /\ UNCHANGED <<shared, byId>>
    BY <1>0, <1>1, AnswerIs DEF Answer, tableVars, Jobs
  <2>2. PICK page \in job[s].pages :
          /\ job'[s].pages = job[s].pages \ {page}
          /\ job'[s].rows = [k \in Keys |-> IF k \in page THEN Latest(k) ELSE job[s].rows[k]]
    BY <1>0, <1>1, AnswerIs
  <2>3. ~shared'[v].ready
    BY <2>1 DEF Reread
  <2>4. ASSUME NEW k \in Keys, Unsaid(job'[s], k) PROVE shared'[v].rows[k] <= job'[s].rows[k]
    <3>1. CASE k \in page
      <4>1. /\ shared[v].rows[k] <= Len(log) /\ (shared[v].rows[k] # 0 => log[shared[v].rows[k]] = k)
            /\ shared[v].rows[k] \in Nat
        <5>1. shared[v].rows \in [Keys -> Numbers]
          BY <2>1 DEF SharedTyped, Shared
        <5> QED BY <2>1, <5>1, NumbersAre DEF Written, Real
      <4>2. Latest(k) \in 0 .. Len(log) /\ \A i \in 1 .. Len(log) : log[i] = k => i <= Latest(k)
        BY LatestIs
      <4>3. Len(log) \in Nat
        BY LogGrows
      <4>4. shared[v].rows[k] <= Latest(k)
        <5> DEFINE n == shared[v].rows[k]
        <5> HIDE DEF n
        <5>1. n \in Nat /\ n <= Len(log) /\ (n # 0 => log[n] = k)
          BY <4>1 DEF n
        <5>2. n <= Latest(k)
          BY <4>2, <4>3, <5>1
        <5> QED BY <5>2 DEF n
      <4> QED BY <2>1, <2>2, <3>1, <4>4
    <3>2. CASE k \notin page
      <4>1. Unsaid(job[s], k)
        BY <2>2, <2>4, <3>2
      <4> QED BY <2>1, <2>2, <3>2, <4>1 DEF Reread
    <3> QED BY <3>1, <3>2
  <2> QED BY <2>3, <2>4
<1>2. ASSUME Begins(s), NextView(s) \in Made, NEW at \in {"stream", "subscribe", "pages"},
               job'[s] = Reading(NextView(s), at)
      PROVE  /\ ~shared'[v].ready
             /\ \A k \in Keys : Unsaid(job'[s], k) => shared'[v].rows[k] <= job'[s].rows[k]
  <2>1. v = Min(rereads[s]) /\ job'[s].pages = Pages
    BY <1>0, <1>2 DEF Reading, NextView
  <2>2. v \in Made /\ shared[v] \in Shared /\ shared' = [shared EXCEPT ![v] = [shared[v] EXCEPT !.ready = FALSE]]
    BY <1>0, <1>2, <2>1 DEF Begins, NextView, ReadAgain, SharedTyped
  <2>3. ~shared'[v].ready
    <3> HIDE DEF v
    <3>1. shared'[v] = [shared[v] EXCEPT !.ready = FALSE]
      BY <2>2 DEF SharedTyped
    <3> QED BY <2>2, <3>1 DEF Shared
  <2>4. \A k \in Keys : ~Unsaid(job'[s], k)
    BY <2>1 DEF Keys
  <2> QED BY <2>3, <2>4
<1>3. ASSUME job[s] # None, v = job[s].view, job'[s].pages = job[s].pages, job'[s].rows = job[s].rows
      PROVE  /\ ~shared'[v].ready
             /\ \A k \in Keys : Unsaid(job'[s], k) => shared'[v].rows[k] <= job'[s].rows[k]
  <2>1. v \in Made
    BY <1>3 DEF JobTyped, Jobs
  <2>2. v \in byId
    <3>1. CASE v \notin byId
      <4>1. Opening /\ v = made
        BY <3>1, FoundStep
      <4>2. Unfound(v)
        BY <2>1, <4>1 DEF Unknown
      <4> QED BY <1>3, <4>2 DEF Unfound
    <3> QED BY <3>1
  <2>3. ~shared[v].ready /\ \A k \in Keys : Unsaid(job[s], k) => shared[v].rows[k] <= job[s].rows[k]
    BY <1>3, <2>2 DEF Reread
  <2>4. CASE shared'[v].rows = shared[v].rows /\ (shared'[v].ready => shared[v].ready)
    BY <1>3, <2>3, <2>4
  <2>5. ASSUME NEW by \in Callers, Ends(by), job[by] # None, job[by].view = v PROVE FALSE
    <3>1. by = s
      BY <1>0, <1>3, <2>2, <2>5, OneReads
    <3>2. job'[s] = None
      BY <1>0, <2>5, <3>1 DEF Ends, ReadOver, JobTyped
    <3> QED BY <3>2
  <2>6. ASSUME NEW c \in Streams, HearChange(c), shared'[v] = Took(shared[v], Head(queue[c]).number)
        PROVE  shared'[v].rows = shared[v].rows /\ (shared'[v].ready => shared[v].ready)
    <3> DEFINE n == Head(queue[c]).number
               w == Took(shared[v], n)
    <3>1. n \in Numbers
      <4>1. queue[c] \in Seq(Deliveries) /\ queue[c] # <<>>
        BY <2>6 DEF SidecarTyped, Deliveries, HearChange, Hearing
      <4>2. Head(queue[c]) \in Deliveries
        BY <4>1, HeadTailProperties
      <4> QED BY <4>2 DEF Deliveries
    <3>2. shared[v] \in Shared
      BY <2>1 DEF SharedTyped
    <3> HIDE DEF n, v
    <3>3. w.ready = shared[v].ready /\ w.rows = shared[v].rows
      BY <2>3, <3>1, <3>2, TookIs
    <3>4. shared'[v] = w
      BY <2>6 DEF n
    <3> HIDE DEF w
    <3> QED BY <3>3, <3>4
  <2>7. \A by \in Callers : Whole(by) => job[by] # None
    BY DEF Whole
  <2> QED BY <2>1, <2>4, <2>5, <2>6, <2>7, CopyStep
<1> QED BY <1>0, <1>1, <1>2, <1>3, ReadStep

-----------------------------------------------------------------------------
(* What is due. *)

\* Part of what is to come has less due.
LEMMA DueShrinks ==
    ASSUME NEW p, NEW q, NEW t, NEW v, NEW w, Len(p[t]) \in Nat, Len(q[t]) \in Nat, Part(p[t], q[t])
    PROVE  Due(p, t, v, w) \subseteq Due(q, t, v, w)
<1>1. PICK m \in Nat : Len(p[t]) + m <= Len(q[t]) /\ \A i \in 1 .. Len(p[t]) : p[t][i] = q[t][i + m]
  BY DEF Part
<1> SUFFICES ASSUME NEW i \in 1 .. Len(p[t]), v \in p[t][i].views, p[t][i].number > w
             PROVE  p[t][i].number \in Due(q, t, v, w)
  BY DEF Due
<1>2. i + m \in 1 .. Len(q[t]) /\ q[t][i + m] = p[t][i]
  BY <1>1
<1> QED BY <1>2 DEF Due

\* What fits goes on fitting as less is due, subscribed or not.
LEMMA FitsLess ==
    ASSUME NEW p, NEW q, NEW o, NEW o1 \in {o, None}, NEW v, NEW R, NEW h, NEW w,
           Fits(q, o, v, R, h, w), \A t \in Streams : Due(p, t, v, w) \subseteq Due(q, t, v, w)
    PROVE  Fits(p, o1, v, R, h, w)
BY DEF Fits

\* And as a change is sent where the view is subscribed.
LEMMA FitsMore ==
    ASSUME NEW p, NEW q, NEW o, NEW v, NEW R \in [Keys -> Nat], NEW h, NEW w, NEW N \in Nat,
           Fits(q, o, v, R, h, w), o # None,
           \A t \in Streams : Due(p, t, v, w) \subseteq Due(q, t, v, w) \cup (IF o = t THEN {N + 1} ELSE {}),
           \A k \in Keys : R[k] <= N, \A m \in 1 .. Len(h) : h[m] \in Nat /\ h[m] <= N
    PROVE  Fits(p, o, v, R, h, w)
<1> USE DEF Fits
<1>1. \A t \in Streams : Due(p, t, v, w) # {} => t = o
  OBVIOUS
<1>2. \A t, u \in Streams : Due(p, t, v, w) # {} /\ Due(p, u, v, w) # {} => t = u
  BY <1>1
<1>3. ASSUME NEW t \in Streams, NEW n \in Due(p, t, v, w)
      PROVE  (\A k \in Keys : R[k] < n) /\ (\A m \in 1 .. Len(h) : h[m] > w => h[m] < n)
  <2>1. CASE n \in Due(q, t, v, w)
    BY <2>1
  <2>2. CASE n = N + 1
    <3>1. \A k \in Keys : R[k] < N + 1
      OBVIOUS
    <3>2. \A m \in 1 .. Len(h) : h[m] < N + 1
      OBVIOUS
    <3> QED BY <2>2, <3>1, <3>2
  <2> QED BY <1>3, <2>1, <2>2
<1> QED BY <1>1, <1>2, <1>3

\* And as a delivery is heard and held.
LEMMA FitsHeld ==
    ASSUME NEW p, NEW q, NEW o, NEW v, NEW R, NEW h \in Seq(Nat), NEW w \in Nat,
           NEW s \in Streams, NEW n \in Nat,
           Fits(q, o, v, R, h, w), \A t \in Streams : Due(p, t, v, w) \subseteq Due(q, t, v, w),
           n > w => n \in Due(q, s, v, w), \A m \in Due(p, s, v, w) : m > n
    PROVE  Fits(p, o, v, R, Append(h, n), w)
<1> DEFINE g == Append(h, n)
<1>1. /\ Len(h) \in Nat /\ Len(g) = Len(h) + 1 /\ g[Len(h) + 1] = n
      /\ \A m \in 1 .. Len(h) : g[m] = h[m]
  BY AppendProperties, LenProperties
<1> HIDE DEF g
<1>2. ASSUME NEW t \in Streams, NEW d \in Due(p, t, v, w), NEW m \in 1 .. Len(g), g[m] > w
      PROVE  g[m] < d
  <2>1. CASE m \in 1 .. Len(h)
    BY <1>1, <1>2, <2>1 DEF Fits
  <2>2. CASE m = Len(h) + 1
    <3>1. n > w /\ g[m] = n
      BY <1>1, <1>2, <2>2
    <3>2. t = s
      BY <3>1 DEF Fits
    <3>3. d > n
      BY <3>2
    <3>4. d \in Due(q, t, v, w)
      OBVIOUS
    <3> QED BY <3>1, <3>3
  <2> QED BY <1>1, <2>1, <2>2
<1>3. ASSUME NEW m \in 1 .. Len(g), NEW l \in 1 .. m - 1, g[l] > w, g[m] > w PROVE g[l] < g[m]
  <2>1. CASE m \in 1 .. Len(h)
    <3>1. l \in 1 .. Len(h)
      BY <1>1, <2>1
    <3> QED BY <1>1, <1>3, <2>1, <3>1 DEF Fits
  <2>2. CASE m = Len(h) + 1
    <3>1. n > w /\ g[m] = n /\ l \in 1 .. Len(h)
      BY <1>1, <1>3, <2>2
    <3>2. n \in Due(q, s, v, w)
      BY <3>1
    <3>3. h[l] < n
      BY <1>1, <1>3, <3>1, <3>2 DEF Fits
    <3> QED BY <1>1, <3>1, <3>3
  <2> QED BY <1>1, <2>1, <2>2
<1>4. \A t, u \in Streams : Due(p, t, v, w) # {} /\ Due(p, u, v, w) # {} => t = u
  BY DEF Fits
<1>5. o # None => \A t \in Streams : Due(p, t, v, w) # {} => t = o
  BY DEF Fits
<1>6. \A t \in Streams : \A d \in Due(p, t, v, w) : \A k \in Keys : R[k] < d
  BY DEF Fits
<1>7. Fits(p, o, v, R, g, w)
  BY <1>2, <1>3, <1>4, <1>5, <1>6 DEF Fits
<1> QED BY <1>7 DEF g

\* And as a delivery is heard and applied.
LEMMA FitsHeard ==
    ASSUME NEW p, NEW q, NEW o, NEW v, NEW R \in [Keys -> Nat], NEW k, NEW w \in Nat,
           NEW s \in Streams, NEW n \in Nat,
           Fits(q, o, v, R, <<>>, w), \A t \in Streams : Due(p, t, v, w) \subseteq Due(q, t, v, w),
           n \in Due(q, s, v, w), \A m \in Due(p, s, v, w) : m > n
    PROVE  Fits(p, o, v, [R EXCEPT ![k] = n], <<>>, w)
<1> DEFINE S == [R EXCEPT ![k] = n]
<1>1. \A l \in Keys : S[l] = R[l] \/ S[l] = n
  OBVIOUS
<1> HIDE DEF S
<1>2. ASSUME NEW t \in Streams, NEW d \in Due(p, t, v, w), NEW l \in Keys PROVE S[l] < d
  <2>1. t = s
    BY <1>2 DEF Fits
  <2>2. n < d /\ R[l] < d
    <3>1. d > n
      BY <1>2, <2>1
    <3>2. R[l] < d
      BY <1>2 DEF Fits
    <3> QED BY <3>1, <3>2
  <2> QED BY <1>1, <2>2
<1>3. Len(<<>>) = 0
  OBVIOUS
<1>4. Fits(p, o, v, S, <<>>, w)
  BY <1>2, <1>3 DEF Fits
<1> QED BY <1>4 DEF S

\* And as a read ends, what was held applied.
LEMMA FitsAfter ==
    ASSUME NEW q, NEW o, NEW v, NEW rows \in [Keys -> Numbers], NEW held \in Seq(Numbers), NEW w \in Numbers,
           Fits(q, o, v, rows, held, w)
    PROVE  Fits(q, o, v, After(rows, held, w), <<>>, w)
<1> DEFINE A == After(rows, held, w)
<1>1. \A k \in Keys : A[k] = rows[k] \/ \E m \in 1 .. Len(held) : A[k] = held[m] /\ held[m] > w
  BY AfterIs
<1> HIDE DEF A
<1>2. \A t \in Streams : \A n \in Due(q, t, v, w) : \A k \in Keys : A[k] < n
  BY <1>1 DEF Fits
<1>3. Len(<<>>) = 0
  OBVIOUS
<1>4. Fits(q, o, v, A, <<>>, w)
  BY <1>2, <1>3 DEF Fits
<1> QED BY <1>4 DEF A

\* Where nothing is due all fits.
LEMMA FitsNothing ==
    ASSUME NEW q, NEW o, NEW v, NEW R, NEW h, NEW w \in Nat, \A t \in Streams : Due(q, t, v, w) = {},
           \A m \in 1 .. Len(h) : h[m] \in Nat /\ h[m] <= w
    PROVE  Fits(q, o, v, R, h, w)
BY DEF Fits

\* What is due is a number above the watermark, of a change made.
LEMMA DueIs ==
    ASSUME Parts, Ordered, NEW t \in Streams, NEW v, NEW w \in Nat
    PROVE  Due(queue, t, v, w) \subseteq {n \in 1 .. Len(log) : n > w}
<1>1. queue[t] \in Seq(Deliveries) /\ Lost.number = 0
  BY DEF Parts, SidecarTyped, Deliveries, Lost
<1> SUFFICES ASSUME NEW i \in 1 .. Len(queue[t]), queue[t][i].number > w
             PROVE  queue[t][i].number \in 1 .. Len(log)
  BY DEF Due
<1>2. queue[t][i] # Lost
  BY <1>1
<1> QED BY <1>2 DEF Ordered

\* As a delivery is heard, those still due are later.
LEMMA HeardDue ==
    ASSUME Parts, Ordered, NEW s \in Streams, HearChange(s), NEW v, NEW w \in Nat
    PROVE  LET n == Head(queue[s]).number
           IN  /\ \A t \in Streams : Due(queue', t, v, w) \subseteq Due(queue, t, v, w)
               /\ \A m \in Due(queue', s, v, w) : m > n
               /\ v \in Head(queue[s]).views /\ n > w => n \in Due(queue, s, v, w)
<1> DEFINE n == Head(queue[s]).number
<1>1. queue[s] \in Seq(Deliveries) /\ queue[s] # <<>> /\ queue \in [Streams -> Seq(Deliveries)]
  BY DEF Parts, SidecarTyped, Deliveries, HearChange, Hearing
<1>2. queue' = [queue EXCEPT ![s] = Tail(queue[s])]
  BY DEF HearChange
<1>3. /\ Len(queue[s]) \in Nat /\ Len(queue'[s]) = Len(queue[s]) - 1
      /\ \A i \in 1 .. Len(queue'[s]) : queue'[s][i] = queue[s][i + 1]
      /\ Head(queue[s]) = queue[s][1] /\ 1 \in 1 .. Len(queue[s])
  BY <1>1, <1>2, HeadTailProperties, LenProperties
<1>4. Part(queue'[s], queue[s]) /\ Len(queue'[s]) \in Nat
  <2>1. Len(queue'[s]) + 1 <= Len(queue[s]) /\ Len(queue'[s]) \in Nat
    BY <1>3
  <2> QED BY <1>3, <2>1 DEF Part
<1>5. ASSUME NEW t \in Streams PROVE Due(queue', t, v, w) \subseteq Due(queue, t, v, w)
  <2>1. CASE t = s
    BY <1>3, <1>4, <2>1, DueShrinks
  <2>2. CASE t # s
    BY <1>1, <1>2, <2>2 DEF Due
  <2> QED BY <2>1, <2>2
<1>6. ASSUME NEW m \in Due(queue', s, v, w) PROVE m > n
  <2>1. PICK i \in 1 .. Len(queue'[s]) : m = queue'[s][i].number /\ queue'[s][i].number > w
    BY <1>6 DEF Due
  <2>2. i + 1 \in 1 .. Len(queue[s]) /\ 1 \in 1 .. (i + 1) - 1 /\ m = queue[s][i + 1].number /\ m > w
    BY <1>3, <2>1
  <2>3. queue[s][i + 1] # Lost
    BY <2>2 DEF Lost
  <2>4. queue[s][1].number < queue[s][i + 1].number
    BY <2>2, <2>3 DEF Ordered
  <2>5. queue[s][1].number \in Nat /\ queue[s][i + 1].number \in Nat
    <3>1. queue[s][1] \in Deliveries /\ queue[s][i + 1] \in Deliveries
      BY <1>1, <1>3, <2>2, ElementOfSeq
    <3> QED BY <3>1, NumbersAre DEF Deliveries
  <2> QED BY <1>3, <2>2, <2>4, <2>5
<1>7. v \in Head(queue[s]).views /\ n > w => n \in Due(queue, s, v, w)
  BY <1>3 DEF Due
<1> QED BY <1>5, <1>6, <1>7

\* A change is due where the view is subscribed, and nowhere else.
LEMMA ChangeDue ==
    ASSUME Parts, NEW k \in Keys, Change(k), NEW t \in Streams, NEW v \in Made, NEW w
    PROVE  Due(queue', t, v, w) \subseteq Due(queue, t, v, w) \cup (IF on[v] = t THEN {Len(log) + 1} ELSE {})
<1> DEFINE named == {x \in Made : on[x] = t}
           e == [number |-> Len(log) + 1, views |-> named]
<1>1. queue[t] \in Seq(Deliveries) /\ Len(queue[t]) \in Nat
  BY LenProperties DEF Parts, SidecarTyped, Deliveries
<1>2. /\ queue'[t] = queue[t] \/ queue'[t] = Append(queue[t], e) \/ queue'[t] = Append(queue[t], Lost)
      /\ e \in Deliveries /\ Lost \in Deliveries
  BY ChangeSent
<1>3. /\ e.number = Len(log) + 1 /\ (v \in e.views => on[v] = t) /\ v \notin Lost.views
  BY DEF Lost
<1> HIDE DEF e
<1>4. CASE queue'[t] = queue[t]
  BY <1>4 DEF Due
<1>5. ASSUME NEW d \in {e, Lost}, queue'[t] = Append(queue[t], d), NEW n \in Due(queue', t, v, w)
      PROVE  n \in Due(queue, t, v, w) \cup (IF on[v] = t THEN {Len(log) + 1} ELSE {})
  <2>1. /\ Len(queue'[t]) = Len(queue[t]) + 1 /\ queue'[t][Len(queue[t]) + 1] = d
        /\ \A i \in 1 .. Len(queue[t]) : queue'[t][i] = queue[t][i]
    BY <1>1, <1>2, <1>5, AppendProperties
  <2>2. PICK i \in 1 .. Len(queue'[t]) :
          v \in queue'[t][i].views /\ queue'[t][i].number > w /\ n = queue'[t][i].number
    BY <1>5 DEF Due
  <2>3. CASE i \in 1 .. Len(queue[t])
    BY <2>1, <2>2, <2>3 DEF Due
  <2>4. CASE i = Len(queue[t]) + 1
    BY <1>3, <2>1, <2>2, <2>4
  <2> QED BY <1>1, <2>1, <2>2, <2>3, <2>4
<1> QED BY <1>2, <1>4, <1>5

-----------------------------------------------------------------------------
(* Rows only go forward. *)

\* What fits goes on fitting in any step that neither subscribes the view nor changes its copy.
LEMMA FitsOn ==
    ASSUME IInv, Ordered, [Next]_vars, NEW v \in Made, NEW R \in [Keys -> Nat], NEW h \in Seq(Nat), NEW w \in Nat,
           Fits(queue, on[v], v, R, h, w), \A k \in Keys : R[k] <= Len(log),
           \A m \in 1 .. Len(h) : h[m] <= Len(log),
           \A by \in Callers : ~(Subscribe(by) /\ job[by].view = v)
    PROVE  Fits(queue', on'[v], v, R, h, w)
<1> USE DEF IInv, Parts
<1>1. ASSUME NEW k \in Keys, Change(k) PROVE Fits(queue', on'[v], v, R, h, w)
  <2>1. on' = on
    BY <1>1 DEF Change
  <2>2. \A t \in Streams :
          Due(queue', t, v, w) \subseteq Due(queue, t, v, w) \cup (IF on[v] = t THEN {Len(log) + 1} ELSE {})
    BY <1>1, ChangeDue
  <2>3. CASE on[v] = None
    <3>1. \A t \in Streams : Due(queue', t, v, w) \subseteq Due(queue, t, v, w)
      BY <2>2, <2>3, NoneIsNot
    <3> QED BY <2>1, <3>1, FitsLess
  <2>4. CASE on[v] # None
    <3>1. Len(log) \in Nat /\ \A m \in 1 .. Len(h) : h[m] \in Nat
      BY LogGrows, LenProperties, ElementOfSeq
    <3>2. Fits(queue', on[v], v, R, h, w)
      BY <2>2, <2>4, <3>1, FitsMore
    <3> QED BY <2>1, <3>2
  <2> QED BY <2>3, <2>4
<1>2. CASE \A k \in Keys : ~Change(k)
  <2>1. \A t \in Streams : Due(queue', t, v, w) \subseteq Due(queue, t, v, w)
    <3> SUFFICES ASSUME NEW t \in Streams PROVE Due(queue', t, v, w) \subseteq Due(queue, t, v, w)
      OBVIOUS
    <3>1. Len(queue[t]) \in Nat /\ Len(queue'[t]) \in Nat
      BY SidecarTypedStep, LenProperties DEF SidecarTyped
    <3> QED BY <1>2, <3>1, QueuePart, DueShrinks
  <2>2. on'[v] \in {on[v], None}
    <3>1. ASSUME NEW s \in Streams, Break(s) \/ ReadFails(s) \/ SeeBreak(s) PROVE on'[v] \in {on[v], None}
      BY <3>1 DEF Break, ReadFails, SeeBreak, Closed
    <3>2. ASSUME NEW by \in Callers, Subscribe(by) PROVE on'[v] = on[v]
      BY <3>2 DEF Subscribe, SidecarTyped
    <3>3. ASSUME NEW u \in Made, Unsubscribe(u) PROVE on'[v] \in {on[v], None}
      BY <3>3 DEF Unsubscribe, SidecarTyped
    <3> QED BY Footprint, <3>1, <3>2, <3>3 DEF Callers
  <2> QED BY <2>1, <2>2, FitsLess
<1> QED BY <1>1, <1>2

\* The rows of a view and what it holds are of changes made.
LEMMA CopyIs ==
    ASSUME IInv, Written, NEW v \in Made
    PROVE  /\ shared[v] \in Shared /\ shared[v].rows \in [Keys -> Numbers] /\ shared[v].rows \in [Keys -> Nat]
           /\ shared[v].watermark \in Numbers /\ shared[v].watermark \in Nat
           /\ shared[v].held \in Seq(Numbers) /\ shared[v].held \in Seq(Nat)
           /\ \A k \in Keys : shared[v].rows[k] <= Len(log)
           /\ \A m \in 1 .. Len(shared[v].held) : shared[v].held[m] \in Nat /\ shared[v].held[m] <= Len(log)
<1>1. /\ shared[v] \in Shared /\ shared[v].rows \in [Keys -> Numbers] /\ shared[v].watermark \in Numbers
      /\ shared[v].held \in Seq(Numbers)
  BY DEF IInv, Parts, SharedTyped, Shared
<1>2. shared[v].rows \in [Keys -> Nat] /\ shared[v].watermark \in Nat
  BY <1>1, NumbersAre
<1>3. shared[v].held \in Seq(Nat)
  <2>1. \A m \in 1 .. Len(shared[v].held) : shared[v].held[m] \in Nat
    BY <1>1, ElementOfSeq, NumbersAre
  <2>2. shared[v].held = [m \in 1 .. Len(shared[v].held) |-> shared[v].held[m]] /\ Len(shared[v].held) \in Nat
    BY <1>1, LenProperties
  <2> QED BY <2>1, <2>2, IsASeq
<1>4. \A k \in Keys : shared[v].rows[k] <= Len(log)
  BY DEF Written, Real
<1>5. Len(log) \in Nat /\ \A m \in 1 .. Len(shared[v].held) : shared[v].held[m] \in 1 .. Len(log)
  BY LenProperties DEF Written, IInv, Parts, SidecarTyped
<1> QED BY <1>1, <1>2, <1>3, <1>4, <1>5

\* And so are those of a read.
LEMMA JobIs ==
    ASSUME IInv, Written, NEW by \in Callers, job[by] # None
    PROVE  /\ job[by] \in Jobs /\ job[by].view \in Made
           /\ job[by].rows \in [Keys -> Numbers] /\ job[by].rows \in [Keys -> Nat]
           /\ job[by].watermark \in Numbers /\ job[by].watermark \in Nat
           /\ \A k \in Keys : job[by].rows[k] <= Len(log)
<1>1. job[by] \in Jobs /\ job[by].view \in Made /\ job[by].rows \in [Keys -> Numbers] /\ job[by].watermark \in Numbers
  BY DEF IInv, Parts, JobTyped, Jobs, Callers
<1>2. job[by].rows \in [Keys -> Nat] /\ job[by].watermark \in Nat
  BY <1>1, NumbersAre
<1>3. job[by].watermark <= Len(log) /\ \A k \in Keys : job[by].rows[k] <= job[by].watermark
  BY DEF Written, Real
<1>4. Len(log) \in Nat
  BY LenProperties DEF IInv, Parts, SidecarTyped
<1> QED BY <1>1, <1>2, <1>3, <1>4

\* A view that is found stays the one its read is of.
LEMMA FoundBefore ==
    ASSUME IInv, Unknown, [Next]_vars, NEW s \in Streams, job[s] # None, job[s].view \in byId'
    PROVE  job[s].view \in byId
<1>1. job[s].view \in Made
  BY DEF IInv, Parts, JobTyped, Jobs
<1> QED BY <1>1, FoundStep DEF Unknown, Unfound

\* A view ready goes on fitting what is due to it.
LEMMA FitReadyStep ==
    ASSUME IInv, Forward, [Next]_vars
    PROVE  FitReady'
<1> USE DEF IInv, Parts, Forward
<1> SUFFICES ASSUME NEW v \in byId', shared'[v].ready
             PROVE  Fits(queue', on'[v], v, shared'[v].rows, <<>>, shared'[v].watermark)
  BY DEF FitReady
<1>0. v \in Made
  BY TableTypedStep DEF TableTyped
<1>1. <<>> \in Seq(Nat) /\ Len(<<>>) = 0
  BY EmptySeq
<1>2. ASSUME NEW by \in Callers, Ends(by), Whole(by), job[by].view = v,
             shared'[v].rows = After(job[by].rows, shared[v].held, job[by].watermark),
             shared'[v].watermark = job[by].watermark
      PROVE  Fits(queue', on'[v], v, shared'[v].rows, <<>>, shared'[v].watermark)
  <2>1. queue' = queue /\ on' = on
    BY <1>2 DEF Ends, Opened, ReadOver, sidecarVars
  <2>2. by = "first" \/ job[by].view \in byId
    BY <1>2, FoundBefore DEF Ends, Whole
  <2>3. Fits(queue, on[v], v, job[by].rows, shared[v].held, job[by].watermark)
    BY <1>2, <2>2 DEF FitRead
  <2>4. job[by].rows \in [Keys -> Numbers] /\ job[by].watermark \in Numbers /\ shared[v].held \in Seq(Numbers)
    BY <1>0, <1>2, JobIs, CopyIs DEF Whole
  <2>5. Fits(queue, on[v], v, After(job[by].rows, shared[v].held, job[by].watermark), <<>>, job[by].watermark)
    BY <2>3, <2>4, FitsAfter
  <2> QED BY <1>2, <2>1, <2>5
<1>3. CASE v \notin byId
  <2>1. Opened /\ job["first"].view = v /\ Ends("first") /\ Whole("first") /\ "first" \in Callers
    BY <1>3, FoundStep DEF Ends, Opened, Callers
  <2>2. /\ shared'[v].rows = After(job["first"].rows, shared[v].held, job["first"].watermark)
        /\ shared'[v].watermark = job["first"].watermark
    BY <1>0, <2>1, OpenedIsShared DEF SharedTyped
  <2> QED BY <1>2, <2>1, <2>2
<1>4. CASE /\ v \in byId /\ shared'[v].rows = shared[v].rows /\ shared'[v].watermark = shared[v].watermark
           /\ shared[v].ready
  <2>1. Fits(queue, on[v], v, shared[v].rows, <<>>, shared[v].watermark)
    BY <1>4 DEF FitReady
  <2>2. \A by \in Callers : ~(Subscribe(by) /\ job[by].view = v)
    <3>1. ASSUME NEW by \in Callers, Subscribe(by), job[by].view = v PROVE FALSE
      <4>1. job[by] # None
        BY <3>1 DEF Subscribe
      <4>2. by # "first"
        BY <1>0, <1>4, <3>1, <4>1 DEF Unknown, Unfound, Opening
      <4> QED BY <1>4, <3>1, <4>1, <4>2 DEF Reread, Callers
    <3> QED BY <3>1
  <2>3. Fits(queue', on'[v], v, shared[v].rows, <<>>, shared[v].watermark)
    <3> DEFINE R == shared[v].rows
               w == shared[v].watermark
               h == <<>>
    <3>1. R \in [Keys -> Nat] /\ w \in Nat /\ \A k \in Keys : R[k] <= Len(log)
      BY <1>0, CopyIs
    <3>2. h \in Seq(Nat) /\ \A m \in 1 .. Len(h) : h[m] <= Len(log)
      BY <1>1
    <3>3. Fits(queue, on[v], v, R, h, w)
      BY <2>1
    <3> HIDE DEF R, w, h
    <3>4. Fits(queue', on'[v], v, R, h, w)
      BY <1>0, <2>2, <3>1, <3>2, <3>3, FitsOn
    <3> QED BY <3>4 DEF R, w, h
  <2> QED BY <1>4, <2>3
<1>5. ASSUME NEW s \in Streams, HearChange(s), v \in Head(queue[s]).views \cap byId,
             shared'[v] = Took(shared[v], Head(queue[s]).number)
      PROVE  Fits(queue', on'[v], v, shared'[v].rows, <<>>, shared'[v].watermark)
  <2> DEFINE n == Head(queue[s]).number
             w == Took(shared[v], n)
  <2>1. n \in Numbers /\ n \in Nat /\ on' = on
    BY <1>5, HeardIs, NumbersAre DEF HearChange
  <2>2. /\ \A t \in Streams : Due(queue', t, v, shared[v].watermark) \subseteq Due(queue, t, v, shared[v].watermark)
        /\ \A m \in Due(queue', s, v, shared[v].watermark) : m > n
        /\ n > shared[v].watermark => n \in Due(queue, s, v, shared[v].watermark)
    BY <1>0, <1>5, CopyIs, HeardDue
  <2>3. shared[v] \in Shared /\ shared[v].rows \in [Keys -> Nat] /\ shared[v].watermark \in Nat
    BY <1>0, CopyIs
  <2>4. shared'[v] = w
    BY <1>5
  <2> HIDE DEF n
  <2>5. /\ w.ready = shared[v].ready /\ w.watermark = shared[v].watermark
        /\ w.ready => /\ n > shared[v].watermark => w.rows = [shared[v].rows EXCEPT ![log[n]] = n]
                      /\ ~(n > shared[v].watermark) => w.rows = shared[v].rows
    BY <2>1, <2>3, TookIs
  <2> HIDE DEF w
  <2>6. w.ready /\ shared[v].ready
    BY <2>4, <2>5
  <2>7. Fits(queue, on[v], v, shared[v].rows, <<>>, shared[v].watermark)
    BY <1>5, <2>6 DEF FitReady
  <2>8. CASE n > shared[v].watermark
    <3>1. Fits(queue', on[v], v, [shared[v].rows EXCEPT ![log[n]] = n], <<>>, shared[v].watermark)
      BY <2>1, <2>2, <2>3, <2>7, <2>8, FitsHeard
    <3> QED BY <2>1, <2>4, <2>5, <2>6, <2>8, <3>1
  <2>9. CASE ~(n > shared[v].watermark)
    <3>1. Fits(queue', on[v], v, shared[v].rows, <<>>, shared[v].watermark)
      BY <2>2, <2>7, FitsLess
    <3> QED BY <2>1, <2>4, <2>5, <2>6, <2>9, <3>1
  <2> QED BY <2>8, <2>9
<1> QED BY <1>0, <1>2, <1>3, <1>4, <1>5, CopyStep

\* And so does one being read, once it is answered whole.
LEMMA FitReadStep ==
    ASSUME IInv, Forward, [Next]_vars
    PROVE  FitRead'
<1> USE DEF IInv, Parts, Forward
<1> SUFFICES ASSUME NEW by \in Callers, Whole(by)', by = "first" \/ job'[by].view \in byId'
             PROVE  Fits(queue', on'[job'[by].view], job'[by].view, job'[by].rows,
                         shared'[job'[by].view].held, job'[by].watermark)
  BY DEF FitRead
<1> DEFINE v == job'[by].view
<1>0. job'[by] # None /\ job'[by].at = "pages" /\ job'[by].pages = {} /\ Pages # {}
  BY ViewsAssumption DEF Whole, ViewsAssumption
<1>1. CASE Answer(by)
  <2>1. job[by] # None /\ v = job[by].view /\ job'[by].watermark = Len(log) /\ UNCHANGED <<queue, shared>>
    BY <1>1, AnswerIs DEF Answer, sidecarVars
  <2>2. v \in Made /\ Len(log) \in Nat
    BY <2>1, JobIs, LogGrows
  <2>3. \A t \in Streams : Due(queue, t, v, Len(log)) = {}
    <3> HIDE DEF v
    <3>1. \A t \in Streams : Due(queue, t, v, Len(log)) \subseteq {n \in 1 .. Len(log) : n > Len(log)}
      BY <2>2, DueIs
    <3> QED BY <2>2, <3>1
  <2>4. \A m \in 1 .. Len(shared[v].held) : shared[v].held[m] \in Nat /\ shared[v].held[m] <= Len(log)
    BY <2>2, CopyIs
  <2>5. Fits(queue, on'[v], v, job'[by].rows, shared[v].held, Len(log))
    <3> HIDE DEF v
    <3> QED BY <2>2, <2>3, <2>4, FitsNothing
  <2> QED BY <2>1, <2>5
<1>2. ASSUME job[by] # None, job'[by] = job[by]
      PROVE  Fits(queue', on'[v], v, job'[by].rows, shared'[v].held, job'[by].watermark)
  <2> DEFINE R == job[by].rows
             w == job[by].watermark
  <2>1. /\ v = job[by].view /\ v \in Made /\ Whole(by) /\ R \in [Keys -> Nat] /\ w \in Nat
        /\ \A k \in Keys : R[k] <= Len(log)
    BY <1>2, <1>0, JobIs DEF Whole
  <2>2. by = "first" \/ job[by].view \in byId
    BY <1>2, FoundBefore DEF Callers
  <2>3. Fits(queue, on[v], v, R, shared[v].held, w)
    BY <2>1, <2>2 DEF FitRead
  <2>4. \A c \in Callers : job[c] # None /\ job[c].view = v => c = by
    BY <1>2, <2>1, <2>2, OneReads
  <2>5. shared[v].held \in Seq(Nat) /\ \A m \in 1 .. Len(shared[v].held) : shared[v].held[m] <= Len(log)
    BY <2>1, CopyIs
  <2>6. CASE shared'[v].held = shared[v].held
    <3>1. \A c \in Callers : ~(Subscribe(c) /\ job[c].view = v)
      BY <2>1, <2>4 DEF Subscribe, Whole
    <3>2. Fits(queue', on'[v], v, R, shared[v].held, w)
      <4> HIDE DEF v, R, w
      <4> QED BY <2>1, <2>3, <2>5, <3>1, FitsOn
    <3> QED BY <1>2, <2>6, <3>2
  <2>7. ASSUME NEW c \in Callers, Ends(c), Whole(c), job[c].view = v PROVE FALSE
    <3>1. c = by
      BY <2>4, <2>7 DEF Whole
    <3> QED BY <1>0, <2>7, <3>1 DEF Ends, Opened, ReadOver, JobTyped
  <2>8. ASSUME NEW s \in Streams, HearChange(s), v \in Head(queue[s]).views \cap byId,
               shared'[v] = Took(shared[v], Head(queue[s]).number)
        PROVE  Fits(queue', on'[v], v, job'[by].rows, shared'[v].held, job'[by].watermark)
    <3> DEFINE n == Head(queue[s]).number
               u == Took(shared[v], n)
    <3>1. n \in Numbers /\ n \in Nat /\ on' = on
      BY <2>8, HeardIs, NumbersAre DEF HearChange
    <3>2. /\ \A t \in Streams : Due(queue', t, v, w) \subseteq Due(queue, t, v, w)
          /\ \A m \in Due(queue', s, v, w) : m > n
          /\ n > w => n \in Due(queue, s, v, w)
      <4> HIDE DEF w, v
      <4> QED BY <2>1, <2>8, HeardDue
    <3>3. by # "first"
      BY <1>2, <2>1, <2>8 DEF Unknown, Unfound, Opening
    <3>4. ~shared[v].ready
      BY <1>2, <2>1, <2>8, <3>3 DEF Reread, Callers
    <3>5. shared[v] \in Shared /\ shared'[v] = u
      BY <2>1, <2>8, CopyIs
    <3> HIDE DEF n, v, w, R
    <3>6. u.held = Append(shared[v].held, n)
      BY <3>1, <3>4, <3>5, TookIs
    <3> HIDE DEF u
    <3>7. Fits(queue', on[v], v, R, Append(shared[v].held, n), w)
      BY <2>1, <2>3, <2>5, <3>1, <3>2, FitsHeld
    <3>8. job'[by].rows = R /\ job'[by].watermark = w
      BY <1>2 DEF R, w
    <3> QED BY <3>1, <3>5, <3>6, <3>7, <3>8
  <2> QED BY <2>1, <2>6, <2>7, <2>8, CopyStep
<1>3. ASSUME job[by] # None, job[by].at # "pages", job'[by].pages = job[by].pages PROVE FALSE
  BY <1>0, <1>3 DEF Written
<1>4. ASSUME NEW x, NEW at, job'[by] = Reading(x, at) PROVE FALSE
  BY <1>0, <1>4 DEF Reading
<1> QED BY <1>0, <1>1, <1>2, <1>3, <1>4, ReadStep

\* Each action keeps all of it.
LEMMA ForwardStep == IInv /\ Begun /\ Forward /\ [Next]_vars => Forward'
BY OrderedStep, WrittenStep, UnknownStep, SteadyStep, RereadStep, FitReadyStep, FitReadStep DEF IInv, Forward

\* At first nothing is read, sent or held.
LEMMA InitForward == OneSided /\ Init => Forward
<1> SUFFICES ASSUME OneSided, Init PROVE Forward
  OBVIOUS
<1> USE DEF Init
<1>1. \A s \in Streams : queue[s] = <<>> /\ Len(queue[s]) = 0
  OBVIOUS
<1>2. Len(log) = 0 /\ \A v \in Made : shared[v] = Blank /\ Len(shared[v].held) = 0
  BY DEF Blank
<1>3. Ordered
  BY <1>1 DEF Ordered
<1>4. Written
  BY <1>2, NumbersAre DEF Written, Real, Blank, Unread, Callers
<1>5. Unknown
  BY <1>2 DEF Unknown, Unfound, Opening, Blank
<1>6. Steady
  <2>1. PICK t \in Streams : left[<<"break", t>>] = 0 /\ left[<<"lost", t>>] = 0
    BY DEF OneSided
  <2>2. rereads[t] = {} /\ job[t] = None /\ ~again[t] /\ Len(queue[t]) = 0
    BY <1>1
  <2>3. \A i \in 1 .. Len(queue[t]) : queue[t][i] # Lost
    BY <2>2
  <2>4. Still(t)
    BY <2>1, <2>2, <2>3, Zenon DEF Still
  <2> QED BY <2>4 DEF Steady
<1>7. Reread /\ FitReady /\ FitRead
  BY DEF Reread, FitReady, FitRead, Whole, Callers
<1> QED BY <1>3, <1>4, <1>5, <1>6, <1>7 DEF Forward

\* No row goes back in a step from there.
LEMMA RowsGoOn ==
    ASSUME IInv, Forward, [Next]_vars, NEW v \in byId \cap byId', NEW k \in Keys
    PROVE  shared'[v].rows[k] >= shared[v].rows[k]
<1> USE DEF IInv, Parts, Forward
<1>1. v \in Made
  BY DEF TableTyped
<1>2. shared[v].rows \in [Keys -> Nat] /\ shared[v].held \in Seq(Numbers) /\ shared[v] \in Shared
  BY <1>1, CopyIs
<1>3. CASE shared'[v].rows = shared[v].rows
  BY <1>2, <1>3
<1>4. ASSUME NEW by \in Callers, Whole(by), Ends(by), job[by].view = v,
             shared'[v].rows = After(job[by].rows, shared[v].held, job[by].watermark)
      PROVE  shared'[v].rows[k] >= shared[v].rows[k]
  <2>1. by # "first"
    BY <1>1, <1>4 DEF Unknown, Unfound, Opening, Whole
  <2>2. job[by].pages = {} /\ job[by] # None
    BY <1>4 DEF Whole
  <2>3. shared[v].rows[k] <= job[by].rows[k]
    BY <1>4, <2>1, <2>2 DEF Reread, Callers
  <2>4. After(job[by].rows, shared[v].held, job[by].watermark)[k] >= job[by].rows[k]
    BY <1>1, <1>2, <2>2, JobIs, AfterReal DEF Written
  <2>5. /\ After(job[by].rows, shared[v].held, job[by].watermark) \in [Keys -> Numbers]
        /\ job[by].rows \in [Keys -> Nat]
    BY <1>2, <2>2, JobIs, AfterIsRows
  <2>6. After(job[by].rows, shared[v].held, job[by].watermark)[k] \in Nat
    BY <2>5, NumbersAre
  <2> QED BY <1>2, <1>4, <2>3, <2>4, <2>5, <2>6
<1>5. ASSUME NEW s \in Streams, HearChange(s), v \in Head(queue[s]).views,
             shared'[v] = Took(shared[v], Head(queue[s]).number)
      PROVE  shared'[v].rows[k] >= shared[v].rows[k]
  <2> DEFINE n == Head(queue[s]).number
             w == Took(shared[v], n)
  <2>1. n \in Numbers /\ n \in Nat
    BY <1>5, HeardIs, NumbersAre
  <2>2. shared[v].watermark \in Nat
    BY <1>1, CopyIs
  <2>3. n > shared[v].watermark => n \in Due(queue, s, v, shared[v].watermark)
    BY <1>5, <2>2, HeardDue
  <2>4. shared'[v] = w
    BY <1>5
  <2> HIDE DEF n
  <2>5. /\ shared[v].ready => /\ n > shared[v].watermark => w.rows = [shared[v].rows EXCEPT ![log[n]] = n]
                              /\ ~(n > shared[v].watermark) => w.rows = shared[v].rows
        /\ ~shared[v].ready => w.rows = shared[v].rows
    BY <1>2, <2>1, TookIs
  <2> HIDE DEF w
  <2>6. CASE shared[v].ready /\ n > shared[v].watermark
    <3>1. Fits(queue, on[v], v, shared[v].rows, <<>>, shared[v].watermark)
      BY <2>6 DEF FitReady
    <3>2. shared[v].rows[k] < n
      BY <2>3, <2>6, <3>1 DEF Fits
    <3>3. w.rows[k] = shared[v].rows[k] \/ w.rows[k] = n
      BY <1>2, <2>5, <2>6
    <3> QED BY <1>2, <2>1, <2>4, <3>2, <3>3
  <2>7. CASE ~(shared[v].ready /\ n > shared[v].watermark)
    BY <1>2, <2>4, <2>5, <2>7
  <2> QED BY <2>6, <2>7
<1> QED BY <1>1, <1>3, <1>4, <1>5, CopyStep

-----------------------------------------------------------------------------
(* A view is the store's: what that rests on. *)

\* The selector's keys are answered in one call.
OnePaged == \A p, q \in Pages : p = q

\* The number of the last change of each key in a log.
Lasts(l) == [k \in Keys |-> Max({0} \cup {i \in 1 .. Len(l) : l[i] = k})]

\* A view dropped is not found, a stream that is up was opened, and a view is
\* subscribed on one that is.
Aside ==
    /\ byId \cap leaving = {} /\ (\A v \in leaving : v <= made) /\ (Opening => made \notin leaving)
    /\ \A s \in Streams : up[s] => again[s]
    /\ \A s \in Streams : phase[s] \in {"none", "closed"} => ~up[s] /\ queue[s] = <<>>
    /\ \A s \in Streams : phase[s] = "none" => ~again[s]
    /\ \A v \in Made : on[v] # None => up[on[v]]

\* A stream that was open is not, and will be opened again.
Wrecked == \E s \in Streams : again[s] /\ (~up[s] \/ phase[s] = "closed")

\* A view is to be read again.
Ahead(v) ==
    \/ Wrecked
    \/ \E s \in Streams : v \in rereads[s] \/ \E i \in 1 .. Len(queue[s]) : queue[s][i] = Lost

\* It is subscribed, or is to be.
Subscribed ==
    \A v \in byId :
        \/ on[v] # None \/ Wrecked
        \/ \E s \in Streams : /\ phase[s] = "reopened"
                              /\ v \in rereads[s] \/ (job[s] # None /\ job[s].view = v /\ job[s].at = "subscribe")

\* The last change of each key is among its rows, or held, or due.
Complete(L, q, v, R, h, w) ==
    \A k \in Keys :
        \/ L[k] = R[k]
        \/ \E m \in 1 .. Len(h) : h[m] = L[k] /\ h[m] > w
        \/ \E t \in Streams : L[k] \in Due(q, t, v, w)

CompleteReady ==
    \A v \in byId : shared[v].ready /\ ~Ahead(v) =>
        Complete(Lasts(log), queue, v, shared[v].rows, <<>>, shared[v].watermark)

CompleteRead ==
    \A s \in Streams : Whole(s) /\ job[s].view \in byId /\ ~Ahead(job[s].view) =>
        Complete(Lasts(log), queue, job[s].view, job[s].rows, shared[job[s].view].held, job[s].watermark)

\* A view first opened, its read whole, is the store's.
CompleteFirst ==
    Opening /\ job["first"].at = "pages" =>
        /\ on[made] # None
        /\ job["first"].pages = {} => \A k \in Keys : job["first"].rows[k] = Lasts(log)[k]

Abreast == Aside /\ Subscribed /\ CompleteReady /\ CompleteRead /\ CompleteFirst

-----------------------------------------------------------------------------

\* The last change of a key is one of it, and none is later.
LEMMA LastsAre ==
    ASSUME NEW l \in Seq(Keys), NEW k \in Keys
    PROVE  /\ Lasts(l)[k] \in 0 .. Len(l) /\ (Lasts(l)[k] # 0 => l[Lasts(l)[k]] = k)
           /\ \A i \in 1 .. Len(l) : l[i] = k => i <= Lasts(l)[k]
<1> DEFINE S == {0} \cup {i \in 1 .. Len(l) : l[i] = k}
           m == Max(S)
<1>1. Len(l) \in Nat /\ S \in SUBSET (0 .. Len(l)) /\ S # {}
  BY LenProperties
<1>2. m \in S /\ \A y \in S : m >= y
  <2> HIDE DEF S
  <2> QED BY <1>1, MaxIsGreatest
<1>3. Lasts(l)[k] = m
  BY DEF Lasts
<1> HIDE DEF m
<1> QED BY <1>1, <1>2, <1>3

\* A change is the last of its key, and of no other.
LEMMA LastsGrow ==
    ASSUME NEW l \in Seq(Keys), NEW c \in Keys, NEW k \in Keys
    PROVE  Lasts(Append(l, c))[k] = IF k = c THEN Len(l) + 1 ELSE Lasts(l)[k]
<1> DEFINE g == Append(l, c)
<1>1. /\ g \in Seq(Keys) /\ Len(l) \in Nat /\ Len(g) = Len(l) + 1 /\ g[Len(l) + 1] = c
      /\ \A i \in 1 .. Len(l) : g[i] = l[i]
  BY AppendProperties, LenProperties
<1> HIDE DEF g
<1> DEFINE a == Lasts(g)[k]
           b == Lasts(l)[k]
<1>2. a \in 0 .. Len(g) /\ (a # 0 => g[a] = k) /\ \A i \in 1 .. Len(g) : g[i] = k => i <= a
  BY <1>1, LastsAre
<1>3. b \in 0 .. Len(l) /\ (b # 0 => l[b] = k) /\ \A i \in 1 .. Len(l) : l[i] = k => i <= b
  BY LastsAre
<1> HIDE DEF a, b
<1>4. CASE k = c
  BY <1>1, <1>2, <1>4 DEF a, g
<1>5. CASE k # c
  <2>1. b # 0 => b <= a
    <3>1. ASSUME b # 0 PROVE b <= a
      <4>1. b \in 1 .. Len(l) /\ b \in 1 .. Len(g) /\ g[b] = k
        BY <1>1, <1>3, <3>1
      <4> QED BY <1>2, <4>1
    <3> QED BY <3>1
  <2>2. a # 0 => a <= b
    <3>1. ASSUME a # 0 PROVE a <= b
      <4>1. a # Len(l) + 1
        BY <1>1, <1>2, <1>5, <3>1
      <4>2. a \in 1 .. Len(l) /\ l[a] = k
        BY <1>1, <1>2, <3>1, <4>1
      <4> QED BY <1>3, <4>2
    <3> QED BY <3>1
  <2>3. a = b
    BY <1>1, <1>2, <1>3, <2>1, <2>2
  <2> QED BY <1>5, <2>3 DEF a, b, g
<1> QED BY <1>4, <1>5

\* They are what the store answers.
LEMMA LastsAreLatest == Lasts(log) = [k \in Keys |-> Latest(k)]
BY DEF Lasts, Latest

\* A stream broken stays so until it is opened again.
LEMMA WreckedStays ==
    ASSUME IInv, Wrecked, [Next]_vars
    PROVE  Wrecked' \/ \E s \in Streams : again[s] /\ OpenStream(s)
<1> USE DEF IInv, Parts
<1>1. PICK s \in Streams : again[s] /\ (~up[s] \/ phase[s] = "closed")
  BY DEF Wrecked
<1> SUFFICES ASSUME ~OpenStream(s) PROVE Wrecked'
  BY <1>1
<1>2. again'[s]
  BY <1>1, Footprint DEF OpenStream, StreamTyped
<1>3. ~up[s] => ~up'[s]
  <2>1. CASE UNCHANGED up
    BY <2>1
  <2>2. ASSUME NEW t \in Streams, Break(t) \/ ReadFails(t) \/ SeeBreak(t) PROVE ~up[s] => ~up'[s]
    BY <2>2 DEF Break, ReadFails, SeeBreak, Closed, SidecarTyped
  <2>3. ASSUME NEW t \in Streams, OpenStream(t) PROVE up'[s] = up[s]
    BY <2>3 DEF OpenStream, SidecarTyped
  <2> QED BY Footprint, <2>1, <2>2, <2>3
<1>4. phase[s] = "closed" => phase'[s] = "closed"
  BY Footprint DEF Ask, OpenStream, Resumed, ReadFails, SeeBreak, Closed, StreamTyped
<1> QED BY <1>1, <1>2, <1>3, <1>4 DEF Wrecked

\* A stream that breaks or is left was open.
LEMMA Wrecks ==
    ASSUME IInv, Begun, Aside, NEW s \in Streams, Break(s) \/ ReadFails(s) \/ SeeBreak(s)
    PROVE  Wrecked'
<1> USE DEF IInv, Parts
<1>1. again[s] /\ again' = again
  BY DEF Break, ReadFails, SeeBreak, Closed, Aside, Begun, streamVars
<1>2. ~up'[s]
  BY DEF Break, ReadFails, SeeBreak, Closed, SidecarTyped
<1> QED BY <1>1, <1>2 DEF Wrecked

\* What is held apart stays so.
LEMMA AsideStep ==
    ASSUME IInv, Begun, Unknown, Aside, [Next]_vars
    PROVE  Aside'
<1> USE DEF IInv, Parts
<1>0. made \in Nat /\ made' \in Nat /\ made <= made'
  BY Footprint, ViewsAssumption DEF TableTyped, ViewsAssumption, Ask
<1>1. byId' \cap leaving' = {} /\ \A v \in leaving' : v <= made'
  <2>1. \A v \in byId \cup leaving : v <= made /\ v <= made' /\ v \in Nat
    <3>1. byId \cup leaving \subseteq Made /\ Made \subseteq Nat
      BY NumbersAre DEF TableTyped
    <3>2. \A v \in byId : ~(v > made)
      BY <3>1 DEF Unknown, Unfound
    <3>3. \A v \in leaving : v <= made
      BY DEF Aside
    <3>4. \A v \in byId \cup leaving : v \in Nat /\ v <= made
      <4> SUFFICES ASSUME NEW v \in byId \cup leaving PROVE v \in Nat /\ v <= made
        OBVIOUS
      <4>1. v \in Nat
        BY <3>1
      <4>2. CASE v \in byId
        <5>1. ~(v > made)
          BY <3>2, <4>2
        <5> QED BY <1>0, <4>1, <5>1
      <4> QED BY <3>3, <4>1, <4>2
    <3> QED BY <1>0, <3>4
  <2>2. CASE \E v \in Made : Drop(v)
    BY <2>1, <2>2 DEF Drop, Aside
  <2>3. CASE Opened
    <3>1. Opening /\ byId' = byId \cup {made} /\ leaving' = leaving
      BY <2>3 DEF Opened, Whole, Opening, Unknown
    <3> QED BY <2>1, <3>1 DEF Aside
  <2>4. ASSUME NEW v \in Made, Unsubscribe(v) PROVE byId' = byId /\ leaving' \subseteq leaving
    BY <2>4 DEF Unsubscribe, tableVars
  <2> QED BY Footprint, <2>1, <2>2, <2>3, <2>4 DEF Aside
<1>2. ASSUME Opening' PROVE made' \notin leaving'
  <2>1. ~Opened /\ ~OpenFails /\ (Opening \/ \E r \in Readers : Ask(r))
    BY <1>2, OpeningEnds
  <2>2. CASE made' = made + 1 /\ leaving' = leaving
    BY <1>0, <2>2, NumbersAre DEF Aside, TableTyped
  <2>3. CASE Opening
    <3>1. \A r \in Readers : ~Ask(r)
      BY <2>3 DEF Ask
    <3>2. \A v \in Made : ~Drop(v)
      BY <2>3 DEF Drop
    <3>3. made' = made /\ leaving' \subseteq leaving
      BY <3>1, <3>2, Footprint DEF Unsubscribe
    <3> QED BY <2>3, <3>3 DEF Aside
  <2>4. ASSUME NEW r \in Readers, Ask(r), ~Opening PROVE made' = made + 1 /\ leaving' = leaving
    BY <1>2, <2>4 DEF Ask, Opening
  <2> QED BY <2>1, <2>2, <2>3, <2>4
<1>3. ASSUME NEW s \in Streams PROVE up'[s] => again'[s]
  <2>1. CASE OpenStream(s)
    BY <2>1 DEF OpenStream, StreamTyped
  <2>2. CASE ~OpenStream(s)
    <3>1. again'[s] = again[s]
      BY <2>2, Footprint DEF OpenStream, StreamTyped
    <3>2. up'[s] => up[s]
      <4>1. ASSUME NEW t \in Streams, Break(t) \/ ReadFails(t) \/ SeeBreak(t) PROVE up'[s] => up[s]
        BY <4>1 DEF Break, ReadFails, SeeBreak, Closed, SidecarTyped
      <4>2. ASSUME NEW t \in Streams, OpenStream(t) PROVE up'[s] => up[s]
        BY <2>2, <4>2 DEF OpenStream, SidecarTyped
      <4> QED BY Footprint, <4>1, <4>2
    <3> QED BY <3>1, <3>2 DEF Aside
  <2> QED BY <2>1, <2>2
<1>4. ASSUME NEW s \in Streams, phase'[s] \in {"none", "closed"} PROVE ~up'[s] /\ queue'[s] = <<>>
  <2>1. CASE ReadFails(s) \/ SeeBreak(s)
    BY <2>1 DEF ReadFails, SeeBreak, Closed, SidecarTyped
  <2>2. CASE ~ReadFails(s) /\ ~SeeBreak(s)
    <3>0. ~OpenStream(s)
      BY <1>4 DEF OpenStream, StreamTyped
    <3>1. phase[s] \in {"none", "closed"}
      BY <1>4, <2>2, <3>0, Footprint DEF Ask, OpenStream, Resumed, ReadFails, SeeBreak, Closed, StreamTyped
    <3>2. ~up[s] /\ queue[s] = <<>>
      BY <3>1 DEF Aside
    <3>3. ~up'[s]
      <4>1. ASSUME NEW t \in Streams, Break(t) \/ ReadFails(t) \/ SeeBreak(t) PROVE ~up'[s]
        BY <3>2, <4>1 DEF Break, ReadFails, SeeBreak, Closed, SidecarTyped
      <4>2. ASSUME NEW t \in Streams, OpenStream(t) PROVE ~up'[s]
        BY <3>0, <3>2, <4>2 DEF OpenStream, SidecarTyped
      <4> QED BY <3>2, <4>1, <4>2, Footprint
    <3>4. queue'[s] = queue[s]
      <4>1. ASSUME NEW k \in Keys, Change(k) PROVE queue'[s] = queue[s]
        BY <3>2, <4>1, ChangeSent
      <4>2. ASSUME NEW t \in Streams, Break(t) \/ ReadFails(t) \/ SeeBreak(t) PROVE queue'[s] = queue[s]
        BY <2>2, <3>2, <4>2 DEF Break, ReadFails, SeeBreak, Closed, SidecarTyped
      <4>3. ASSUME NEW t \in Streams, HearLost(t) \/ HearChange(t) PROVE queue'[s] = queue[s]
        BY <3>2, <4>3 DEF HearLost, HearChange, Hearing, SidecarTyped
      <4> QED BY Footprint, <4>1, <4>2, <4>3
    <3> QED BY <3>2, <3>3, <3>4
  <2> QED BY <2>1, <2>2
<1>5. ASSUME NEW s \in Streams, phase'[s] = "none" PROVE ~again'[s]
  <2>1. phase[s] = "none"
    BY <1>5, Footprint DEF Ask, OpenStream, Resumed, ReadFails, SeeBreak, Closed, StreamTyped
  <2>2. ~OpenStream(s)
    BY <1>5 DEF OpenStream, StreamTyped
  <2> QED BY <2>1, <2>2, Footprint DEF Aside, OpenStream, StreamTyped
<1>6. ASSUME NEW v \in Made, on'[v] # None PROVE up'[on'[v]]
  <2>1. ASSUME NEW s \in Streams, Break(s) \/ ReadFails(s) \/ SeeBreak(s) PROVE up'[on'[v]]
    BY <1>6, <2>1 DEF Break, ReadFails, SeeBreak, Closed, SidecarTyped, Aside
  <2>2. ASSUME NEW by \in Callers, Subscribe(by) PROVE up'[on'[v]]
    BY <1>6, <2>2 DEF Subscribe, SidecarTyped, Aside
  <2>3. ASSUME on'[v] = on[v], \A s \in Streams : ~Break(s) /\ ~ReadFails(s) /\ ~SeeBreak(s) PROVE up'[on'[v]]
    <3>1. on[v] \in Streams /\ up[on[v]] /\ on'[v] = on[v]
      BY <1>6, <2>3 DEF Aside, SidecarTyped
    <3>2. ASSUME NEW s \in Streams, OpenStream(s) PROVE up'[on[v]]
      BY <3>1, <3>2 DEF OpenStream, SidecarTyped
    <3>3. CASE up' = up
      BY <3>1, <3>3
    <3> QED BY Footprint, <2>3, <3>1, <3>2, <3>3
  <2>4. ASSUME NEW u \in Made, Unsubscribe(u) PROVE on'[v] = on[v]
    BY <1>6, <2>4 DEF Unsubscribe, SidecarTyped
  <2> QED BY Footprint, <2>1, <2>2, <2>3, <2>4 DEF Callers
<1> QED BY <1>1, <1>2, <1>3, <1>4, <1>5, <1>6 DEF Aside

-----------------------------------------------------------------------------
(* A view stays subscribed, or is to be. *)

\* A view found stays subscribed, or to be.
LEMMA SubscribedStep ==
    ASSUME IInv, Begun, Forward, Abreast, [Next]_vars
    PROVE  Subscribed'
<1> USE DEF IInv, Parts
<1> SUFFICES ASSUME NEW v \in byId', on'[v] = None, ~Wrecked'
             PROVE  \E s \in Streams : /\ phase'[s] = "reopened"
                                       /\ v \in rereads'[s]
                                           \/ (job'[s] # None /\ job'[s].view = v /\ job'[s].at = "subscribe")
  BY DEF Subscribed
<1>0. v \in Made
  BY TableTypedStep DEF TableTyped
<1>1. \A s \in Streams : ~Break(s) /\ ~ReadFails(s) /\ ~SeeBreak(s)
  BY Wrecks DEF Abreast
<1>2. v \in byId
  <2>1. CASE v \notin byId
    <3>1. Opened /\ Opening /\ v = made /\ job["first"].at = "pages" /\ on' = on
      BY <2>1, FoundStep DEF Forward, Opened, Whole, sidecarVars
    <3> QED BY <3>1, NoneIsNot DEF Abreast, CompleteFirst
  <2> QED BY <2>1
<1>3. on[v] = None
  <2>1. ASSUME NEW by \in Callers, Subscribe(by) PROVE on'[v] = on[v]
    BY <1>0, <2>1, NoneIsNot DEF Subscribe, SidecarTyped
  <2>2. ASSUME NEW u \in Made, Unsubscribe(u) PROVE on'[v] = on[v]
    BY <1>0, <1>2, <2>2 DEF Unsubscribe, SidecarTyped, Abreast, Aside
  <2> QED BY <1>1, Footprint, <2>1, <2>2 DEF Callers
<1>4. CASE Wrecked
  <2>1. PICK s \in Streams : again[s] /\ OpenStream(s)
    BY <1>4, WreckedStays
  <2> QED BY <1>2, <2>1 DEF OpenStream, StreamTyped
<1>5. CASE ~Wrecked
  <2>1. PICK s \in Streams : /\ phase[s] = "reopened"
                             /\ v \in rereads[s] \/ (job[s] # None /\ job[s].view = v /\ job[s].at = "subscribe")
    BY <1>2, <1>3, <1>5 DEF Abreast, Subscribed
  <2>2. s \in Callers /\ s # "first"
    BY DEF Callers, Streams
  <2>3. ~Resumed(s) /\ ~OpenStream(s)
    BY <2>1 DEF Resumed, OpenStream
  <2>4. phase'[s] = "reopened"
    <3>1. ASSUME NEW r \in Readers, Ask(r) PROVE phase'[s] = phase[s]
      BY <2>1, <3>1 DEF Ask, StreamTyped
    <3>2. ASSUME NEW t \in Streams, OpenStream(t) \/ Resumed(t) PROVE phase'[s] = phase[s]
      BY <2>3, <3>2 DEF OpenStream, Resumed, StreamTyped
    <3> QED BY <1>1, <2>1, Footprint, <3>1, <3>2
  <2>5. CASE v \in rereads[s]
    <3>1. CASE ReadAgain(s) /\ v = Min(rereads[s])
      <4>1. job'[s] = Reading(v, "subscribe")
        BY <2>1, <3>1 DEF ReadAgain, JobTyped
      <4>2. Reading(v, "subscribe") \in Jobs
        BY <1>0, ReadingIsJob
      <4>3. Reading(v, "subscribe").view = v /\ Reading(v, "subscribe").at = "subscribe"
        BY DEF Reading
      <4> QED BY <2>4, <4>1, <4>2, <4>3, NoneIsNot
    <3>2. CASE ~(ReadAgain(s) /\ v = Min(rereads[s]))
      <4>1. ASSUME NEW t \in Streams, OpenStream(t) \/ ReadAgain(t) \/ HearLost(t) PROVE v \in rereads'[s]
        BY <1>2, <2>3, <2>5, <3>2, <4>1 DEF OpenStream, ReadAgain, HearLost, StreamTyped
      <4>2. v \in rereads'[s]
        BY <1>1, <2>5, Footprint, <4>1
      <4> QED BY <2>4, <4>2
    <3> QED BY <3>1, <3>2
  <2>6. CASE job[s] # None /\ job[s].view = v /\ job[s].at = "subscribe"
    <3>1. job'[s] = job[s]
      <4>1. ASSUME NEW r \in Readers, Ask(r) PROVE job'[s] = job[s]
        BY <2>2, <4>1 DEF Ask, JobTyped, Callers
      <4>2. CASE StreamOpen \/ Opened \/ OpenFails
        BY <2>2, <4>2 DEF StreamOpen, Opened, OpenFails, JobTyped, Callers
      <4>3. ASSUME NEW by \in Callers, Subscribe(by) \/ Answer(by) PROVE job'[s] = job[s]
        <5>1. by # s
          <6>1. ~Answer(s)
            BY <2>6 DEF Answer
          <6>2. ~Subscribe(s)
            BY <1>0, <1>3, <2>6, NoneIsNot DEF Subscribe, SidecarTyped
          <6> QED BY <4>3, <6>1, <6>2
        <5> QED BY <4>3, <5>1 DEF Subscribe, Answer, JobTyped, Callers
      <4>4. ASSUME NEW t \in Streams, ReadAgain(t) \/ ReadOver(t) PROVE job'[s] = job[s]
        BY <2>6, <4>4 DEF ReadAgain, ReadOver, Whole, JobTyped
      <4> QED BY <1>1, Footprint, <4>1, <4>2, <4>3, <4>4 DEF Callers
    <3> QED BY <2>4, <2>6, <3>1
  <2> QED BY <2>1, <2>5, <2>6
<1> QED BY <1>4, <1>5

-----------------------------------------------------------------------------
(* What is complete stays so: as it is heard, held or read. *)

\* What is to be read again stays so, until its read begins.
LEMMA AheadStays ==
    ASSUME IInv, Begun, Forward, Abreast, [Next]_vars, NEW v \in byId \cap byId', Ahead(v), ~Ahead(v)'
    PROVE  \E s \in Streams : ReadAgain(s) /\ v = Min(rereads[s])
<1> USE DEF IInv, Parts
<1>1. ~Wrecked'
  BY DEF Ahead
<1>2. \A s \in Streams : ~Break(s) /\ ~ReadFails(s) /\ ~SeeBreak(s)
  BY <1>1, Wrecks DEF Abreast
<1>3. \A s \in Streams : v \notin rereads'[s] /\ \A i \in 1 .. Len(queue'[s]) : queue'[s][i] # Lost
  BY DEF Ahead
<1>4. CASE Wrecked
  <2>1. PICK s \in Streams : again[s] /\ OpenStream(s)
    BY <1>1, <1>4, WreckedStays
  <2> QED BY <1>3, <2>1 DEF OpenStream, StreamTyped
<1>5. ASSUME NEW s \in Streams, v \in rereads[s] PROVE ReadAgain(s) /\ v = Min(rereads[s])
  <2>1. ASSUME NEW t \in Streams, OpenStream(t) \/ HearLost(t) PROVE v \in rereads'[s]
    BY <1>5, <2>1 DEF OpenStream, HearLost, StreamTyped, Begun
  <2>2. ASSUME NEW t \in Streams, ReadAgain(t), ~(ReadAgain(s) /\ v = Min(rereads[s])) PROVE v \in rereads'[s]
    BY <1>5, <2>2 DEF ReadAgain, StreamTyped
  <2> QED BY <1>2, <1>3, <1>5, Footprint, <2>1, <2>2
<1>6. ASSUME NEW s \in Streams, NEW i \in 1 .. Len(queue[s]), queue[s][i] = Lost PROVE FALSE
  <2>1. queue[s] \in Seq(Deliveries) /\ Len(queue[s]) \in Nat
    BY LenProperties DEF SidecarTyped, Deliveries
  <2>2. ASSUME NEW e \in Deliveries, queue'[s] = Append(queue[s], e)
        PROVE  queue'[s][i] = Lost /\ i \in 1 .. Len(queue'[s])
    BY <1>6, <2>1, <2>2, AppendProperties
  <2>3. CASE \E k \in Keys : Change(k)
    <3> DEFINE e == [number |-> Len(log) + 1, views |-> {x \in Made : on[x] = s}]
    <3>1. /\ queue'[s] = queue[s] \/ queue'[s] = Append(queue[s], e) \/ queue'[s] = Append(queue[s], Lost)
          /\ e \in Deliveries /\ Lost \in Deliveries
      BY <2>3, ChangeSent
    <3> HIDE DEF e
    <3> QED BY <1>3, <1>6, <2>2, <3>1
  <2>4. ASSUME NEW t \in Streams, HearLost(t) PROVE FALSE
    BY <1>3, <2>4 DEF HearLost, StreamTyped
  <2>5. ASSUME NEW t \in Streams, HearChange(t) PROVE FALSE
    <3>1. CASE t = s
      <4>1. queue[s] # <<>> /\ Head(queue[s]) # Lost /\ queue'[s] = Tail(queue[s])
        BY <2>5, <3>1 DEF HearChange, Hearing, SidecarTyped
      <4>2. /\ Head(queue[s]) = queue[s][1] /\ Len(queue'[s]) = Len(queue[s]) - 1
            /\ \A j \in 1 .. Len(queue'[s]) : queue'[s][j] = queue[s][j + 1]
        BY <2>1, <4>1, HeadTailProperties
      <4>3. i # 1
        BY <1>6, <4>1, <4>2
      <4>4. i - 1 \in 1 .. Len(queue'[s]) /\ (i - 1) + 1 = i
        BY <2>1, <4>2, <4>3
      <4>5. queue'[s][i - 1] = Lost
        BY <1>6, <4>2, <4>4
      <4> QED BY <1>3, <4>4, <4>5
    <3>2. CASE t # s
      BY <1>3, <1>6, <2>5, <3>2 DEF HearChange, SidecarTyped
    <3> QED BY <3>1, <3>2
  <2>6. CASE queue' = queue
    BY <1>3, <1>6, <2>6
  <2> QED BY <1>2, Footprint, <2>3, <2>4, <2>5, <2>6
<1> QED BY <1>4, <1>5, <1>6 DEF Ahead

\* What a read and what was held make is complete where they were.
LEMMA CompleteAfter ==
    ASSUME Parts, NEW q, NEW o, NEW v, NEW rows \in [Keys -> Numbers], NEW held \in Seq(Numbers), NEW w \in Numbers,
           Real(log, rows, w), \A m \in 1 .. Len(held) : held[m] \in 1 .. Len(log),
           Fits(q, o, v, rows, held, w), Complete(Lasts(log), q, v, rows, held, w)
    PROVE  Complete(Lasts(log), q, v, After(rows, held, w), <<>>, w)
<1> DEFINE L == Lasts(log)
           A == After(rows, held, w)
<1> SUFFICES ASSUME NEW k \in Keys PROVE L[k] = A[k] \/ \E t \in Streams : L[k] \in Due(q, t, v, w)
  BY DEF Complete
<1>1. log \in Seq(Keys) /\ Len(log) \in Nat /\ Len(held) \in Nat /\ w \in Nat
  BY LenProperties, NumbersAre DEF Parts, SidecarTyped
<1>2. L[k] \in Nat /\ (L[k] # 0 => log[L[k]] = k) /\ \A i \in 1 .. Len(log) : log[i] = k => i <= L[k]
  BY <1>1, LastsAre
<1>3. rows[k] <= w /\ rows[k] \in Nat
  BY NumbersAre DEF Real
<1>4. \/ L[k] = rows[k]
      \/ \E m \in 1 .. Len(held) : held[m] = L[k] /\ held[m] > w
      \/ \E t \in Streams : L[k] \in Due(q, t, v, w)
  BY DEF Complete
<1>5. CASE /\ A[k] = rows[k]
           /\ \A i \in 1 .. Len(held) : held[i] > w => log[held[i]] # k
  BY <1>1, <1>2, <1>4, <1>5
<1>6. ASSUME NEW m \in 1 .. Len(held), A[k] = held[m], held[m] > w, log[held[m]] = k,
             \A i \in 1 .. Len(held) : held[i] > w /\ log[held[i]] = k => i <= m
      PROVE  L[k] = A[k] \/ \E t \in Streams : L[k] \in Due(q, t, v, w)
  <2> HIDE DEF L, A
  <2>1. held[m] <= L[k] /\ held[m] \in Nat
    BY <1>1, <1>2, <1>6
  <2>2. L[k] # rows[k]
    BY <1>1, <1>3, <1>6, <2>1
  <2>3. ASSUME NEW i \in 1 .. Len(held), held[i] = L[k], held[i] > w PROVE L[k] = held[m]
    <3>1. log[held[i]] = k
      BY <1>1, <1>2, <2>3
    <3>2. i <= m
      BY <1>6, <2>3, <3>1
    <3>3. CASE i < m
      <4>1. i \in 1 .. m - 1
        BY <1>1, <3>3
      <4>2. held[i] < held[m]
        BY <1>6, <2>3, <4>1 DEF Fits
      <4> QED BY <1>2, <2>1, <2>3, <4>2
    <3>4. CASE i = m
      BY <2>3, <3>4
    <3> QED BY <1>1, <3>2, <3>3, <3>4
  <2> QED BY <1>4, <1>6, <2>2, <2>3
<1> QED BY AfterIs, <1>5, <1>6

\* As a delivery is heard, nothing else ceases to be due.
LEMMA HeardOnly ==
    ASSUME Parts, NEW s \in Streams, HearChange(s), NEW t \in Streams, NEW v, NEW w
    PROVE  Due(queue, t, v, w) \subseteq
              Due(queue', t, v, w) \cup (IF v \in Head(queue[s]).views THEN {Head(queue[s]).number} ELSE {})
<1>1. queue[s] \in Seq(Deliveries) /\ queue[s] # <<>> /\ queue \in [Streams -> Seq(Deliveries)]
  BY DEF Parts, SidecarTyped, Deliveries, HearChange, Hearing
<1>2. queue' = [queue EXCEPT ![s] = Tail(queue[s])]
  BY DEF HearChange
<1>3. /\ Len(queue[s]) \in Nat /\ Len(queue'[s]) = Len(queue[s]) - 1
      /\ \A i \in 1 .. Len(queue'[s]) : queue'[s][i] = queue[s][i + 1]
      /\ Head(queue[s]) = queue[s][1]
  BY <1>1, <1>2, HeadTailProperties, LenProperties
<1>4. CASE t # s
  BY <1>1, <1>2, <1>4 DEF Due
<1>5. CASE t = s
  <2> SUFFICES ASSUME NEW i \in 1 .. Len(queue[s]), v \in queue[s][i].views, queue[s][i].number > w
               PROVE  queue[s][i].number \in Due(queue', s, v, w)
                         \cup (IF v \in Head(queue[s]).views THEN {Head(queue[s]).number} ELSE {})
    BY <1>5 DEF Due
  <2>1. CASE i = 1
    BY <1>3, <2>1
  <2>2. CASE i # 1
    <3>1. i - 1 \in 1 .. Len(queue'[s]) /\ (i - 1) + 1 = i
      BY <1>3, <2>2
    <3>2. queue'[s][i - 1] = queue[s][i]
      BY <1>3, <3>1
    <3> QED BY <3>1, <3>2 DEF Due
  <2> QED BY <2>1, <2>2
<1> QED BY <1>4, <1>5

\* What is complete stays so as a change is sent where the view is subscribed.
LEMMA CompleteMore ==
    ASSUME Parts, NEW k \in Keys, Change(k), NEW v \in Made, NEW R, NEW h, NEW w \in Nat, w <= Len(log),
           on[v] # None, up[on[v]], \A s \in Streams : \A i \in 1 .. Len(queue'[s]) : queue'[s][i] # Lost,
           Complete(Lasts(log), queue, v, R, h, w)
    PROVE  Complete(Lasts(log'), queue', v, R, h, w)
<1> DEFINE s == on[v]
           named == {x \in Made : on[x] = s}
           e == [number |-> Len(log) + 1, views |-> named]
<1>1. /\ s \in Streams /\ Len(log) \in Nat /\ log \in Seq(Keys) /\ log' = Append(log, k)
  BY LenProperties DEF Change, Parts, SidecarTyped
<1>2. /\ \A t \in Streams : queue[t] \in Seq(Deliveries) /\ Len(queue[t]) \in Nat
  BY LenProperties DEF Parts, SidecarTyped, Deliveries
<1>3. ASSUME NEW t \in Streams PROVE Due(queue, t, v, w) \subseteq Due(queue', t, v, w)
  <2> DEFINE d == [number |-> Len(log) + 1, views |-> {x \in Made : on[x] = t}]
  <2>1. /\ queue'[t] = queue[t] \/ queue'[t] = Append(queue[t], d) \/ queue'[t] = Append(queue[t], Lost)
        /\ d \in Deliveries /\ Lost \in Deliveries
    BY ChangeSent
  <2> HIDE DEF d
  <2>2. CASE queue'[t] = queue[t]
    BY <2>2 DEF Due
  <2>3. ASSUME NEW c \in Deliveries, queue'[t] = Append(queue[t], c)
        PROVE  Due(queue, t, v, w) \subseteq Due(queue', t, v, w)
    <3>1. /\ Len(queue'[t]) = Len(queue[t]) + 1
          /\ \A i \in 1 .. Len(queue[t]) : queue'[t][i] = queue[t][i] /\ i \in 1 .. Len(queue'[t])
      BY <1>2, <2>3, AppendProperties
    <3> QED BY <3>1 DEF Due
  <2> QED BY <2>1, <2>2, <2>3
<1>4. Len(log) + 1 \in Due(queue', s, v, w)
  <2>1. queue'[s] = Append(queue[s], e) \/ queue'[s] = Append(queue[s], Lost)
    BY <1>1, ChangeSent
  <2>2. e \in Deliveries /\ Lost \in Deliveries
    BY <1>1, ChangeSent
  <2>3. v \in e.views /\ e.number = Len(log) + 1
    OBVIOUS
  <2> HIDE DEF e, s
  <2>4. ASSUME NEW c \in Deliveries, queue'[s] = Append(queue[s], c)
        PROVE  Len(queue[s]) + 1 \in 1 .. Len(queue'[s]) /\ queue'[s][Len(queue[s]) + 1] = c
    BY <1>1, <1>2, <2>4, AppendProperties
  <2>5. queue'[s] = Append(queue[s], e)
    BY <1>1, <2>1, <2>2, <2>4
  <2>6. Len(queue[s]) + 1 \in 1 .. Len(queue'[s]) /\ queue'[s][Len(queue[s]) + 1] = e
    BY <2>2, <2>4, <2>5
  <2>7. e.number > w
    BY <1>1, <2>3
  <2> QED BY <2>3, <2>6, <2>7 DEF Due
<1> SUFFICES ASSUME NEW j \in Keys
             PROVE  \/ Lasts(log')[j] = R[j]
                    \/ \E m \in 1 .. Len(h) : h[m] = Lasts(log')[j] /\ h[m] > w
                    \/ \E t \in Streams : Lasts(log')[j] \in Due(queue', t, v, w)
  BY DEF Complete
<1>5. Lasts(log')[j] = IF j = k THEN Len(log) + 1 ELSE Lasts(log)[j]
  BY <1>1, LastsGrow
<1>6. CASE j = k
  BY <1>1, <1>4, <1>5, <1>6
<1>7. CASE j # k
  BY <1>3, <1>5, <1>7 DEF Complete
<1> QED BY <1>6, <1>7

\* A queue is as it was but for a change, a break, or what is heard.
LEMMA QueueSame ==
    ASSUME [Next]_vars, \A k \in Keys : ~Change(k),
           \A s \in Streams : ~Break(s) /\ ~ReadFails(s) /\ ~SeeBreak(s) /\ ~HearLost(s) /\ ~HearChange(s)
    PROVE  queue' = queue
BY Footprint

\* What is complete stays so in a step that hears nothing of the view.
LEMMA CompleteOn ==
    ASSUME IInv, Begun, Forward, Abreast, [Next]_vars, NEW v \in byId \cap byId',
           ~Ahead(v), ~Ahead(v)', NEW R, NEW h, NEW w \in Nat, w <= Len(log),
           \A s \in Streams : ~(HearChange(s) /\ v \in Head(queue[s]).views),
           \A s \in Streams : ~(job[s] # None /\ job[s].view = v /\ job[s].at = "subscribe"),
           Complete(Lasts(log), queue, v, R, h, w)
    PROVE  Complete(Lasts(log'), queue', v, R, h, w)
<1> USE DEF IInv, Parts
<1>0. v \in Made
  BY DEF TableTyped
<1>1. /\ ~Wrecked' /\ ~Wrecked /\ \A s \in Streams : v \notin rereads[s] /\ v \notin rereads'[s]
      /\ \A s \in Streams : \A i \in 1 .. Len(queue'[s]) : queue'[s][i] # Lost
  BY DEF Ahead
<1>2. \A s \in Streams : ~Break(s) /\ ~ReadFails(s) /\ ~SeeBreak(s)
  BY <1>1, Wrecks DEF Abreast
<1>3. \A s \in Streams : ~HearLost(s)
  BY <1>1 DEF HearLost, StreamTyped
<1>4. ASSUME NEW k \in Keys, Change(k) PROVE Complete(Lasts(log'), queue', v, R, h, w)
  <2>1. on[v] # None /\ up[on[v]]
    <3>1. on[v] # None
      BY <1>1 DEF Abreast, Subscribed
    <3> QED BY <1>0, <3>1 DEF Abreast, Aside
  <2> QED BY <1>0, <1>1, <1>4, <2>1, CompleteMore
<1>5. CASE \A k \in Keys : ~Change(k)
  <2>1. log' = log
    BY <1>5, LogGrows
  <2>2. ASSUME NEW t \in Streams PROVE Due(queue, t, v, w) \subseteq Due(queue', t, v, w)
    <3>1. ASSUME NEW s \in Streams, HearChange(s) PROVE Due(queue, t, v, w) \subseteq Due(queue', t, v, w)
      BY <3>1, HeardOnly
    <3>2. CASE queue' = queue
      BY <3>2
    <3> QED BY <1>2, <1>3, <1>5, QueueSame, <3>1, <3>2
  <2> QED BY <2>1, <2>2 DEF Complete
<1> QED BY <1>4, <1>5

\* And as a delivery is heard and applied.
LEMMA CompleteHeard ==
    ASSUME Parts, Ordered, NEW s \in Streams, HearChange(s), NEW v \in Head(queue[s]).views, NEW o,
           NEW R \in [Keys -> Numbers], NEW w \in Nat, Fits(queue, o, v, R, <<>>, w),
           Complete(Lasts(log), queue, v, R, <<>>, w)
    PROVE  LET n == Head(queue[s]).number
           IN  /\ n > w => Complete(Lasts(log), queue', v, [R EXCEPT ![log[n]] = n], <<>>, w)
               /\ ~(n > w) => Complete(Lasts(log), queue', v, R, <<>>, w)
<1> DEFINE n == Head(queue[s]).number
           L == Lasts(log)
           S == [R EXCEPT ![log[n]] = n]
<1>1. n \in 1 .. Len(log) /\ log \in Seq(Keys) /\ Len(<<>>) = 0 /\ n \in Nat
  <2>1. n \in 1 .. Len(log) /\ Len(log) \in Nat
    BY HeardIs
  <2>2. log \in Seq(Keys)
    BY DEF Parts, SidecarTyped
  <2> QED BY <2>1, <2>2
<1>2. \A t \in Streams : Due(queue, t, v, w) \subseteq Due(queue', t, v, w) \cup {n}
  BY HeardOnly
<1>3. n > w => n \in Due(queue, s, v, w)
  BY HeardDue
<1>4. \A t \in Streams : \A m \in Due(queue, t, v, w) : m > w
  BY DEF Due
<1>5. \A k \in Keys : L[k] = R[k] \/ \E t \in Streams : L[k] \in Due(queue, t, v, w)
  BY <1>1 DEF Complete
<1>6. ASSUME NEW k \in Keys PROVE L[k] \in Nat /\ (L[k] # 0 => log[L[k]] = k) /\ (log[n] = k => n <= L[k])
  BY <1>1, LastsAre
<1>7. ASSUME NEW k \in Keys PROVE S[k] = IF k = log[n] THEN n ELSE R[k]
  OBVIOUS
<1>8. n > w => \A k \in Keys : R[k] < n
  BY <1>3 DEF Fits
<1> HIDE DEF n, L, S
<1>9. ASSUME n > w PROVE Complete(L, queue', v, S, <<>>, w)
  <2> SUFFICES ASSUME NEW k \in Keys, S[k] # L[k] PROVE \E t \in Streams : L[k] \in Due(queue', t, v, w)
    BY DEF Complete
  <2>1. L[k] # n
    BY <1>1, <1>6, <1>7
  <2>2. L[k] # R[k]
    <3>1. R[k] \in Nat /\ R[k] < n
      BY <1>8, <1>9, NumbersAre
    <3> QED BY <1>1, <1>6, <1>7, <3>1
  <2> QED BY <1>2, <1>5, <2>1, <2>2
<1>10. ASSUME ~(n > w) PROVE Complete(L, queue', v, R, <<>>, w)
  <2>1. \A t \in Streams : Due(queue, t, v, w) \subseteq Due(queue', t, v, w)
    BY <1>2, <1>4, <1>10
  <2> QED BY <1>5, <2>1 DEF Complete
<1> QED BY <1>9, <1>10 DEF n, L, S

\* And as it is heard and held.
LEMMA CompleteHeld ==
    ASSUME Parts, Ordered, NEW s \in Streams, HearChange(s), NEW v \in Head(queue[s]).views,
           NEW R, NEW h \in Seq(Nat), NEW w \in Nat, Complete(Lasts(log), queue, v, R, h, w)
    PROVE  Complete(Lasts(log), queue', v, R, Append(h, Head(queue[s]).number), w)
<1> DEFINE n == Head(queue[s]).number
           L == Lasts(log)
           g == Append(h, n)
<1>1. n \in Nat
  BY HeardIs
<1>2. \A t \in Streams : Due(queue, t, v, w) \subseteq Due(queue', t, v, w) \cup {n}
  BY HeardOnly
<1>3. \A t \in Streams : \A m \in Due(queue, t, v, w) : m > w
  BY DEF Due
<1>4. /\ Len(h) \in Nat /\ Len(g) = Len(h) + 1 /\ g[Len(h) + 1] = n /\ \A m \in 1 .. Len(h) : g[m] = h[m]
  BY <1>1, AppendProperties, LenProperties
<1> HIDE DEF n, L, g
<1>5. Complete(L, queue', v, R, g, w)
  <2> SUFFICES ASSUME NEW k \in Keys
               PROVE  \/ L[k] = R[k]
                      \/ \E m \in 1 .. Len(g) : g[m] = L[k] /\ g[m] > w
                      \/ \E t \in Streams : L[k] \in Due(queue', t, v, w)
    BY DEF Complete
  <2>1. \/ L[k] = R[k]
        \/ \E m \in 1 .. Len(h) : h[m] = L[k] /\ h[m] > w
        \/ \E t \in Streams : L[k] \in Due(queue, t, v, w)
    BY DEF Complete, L
  <2>2. ASSUME NEW m \in 1 .. Len(h), h[m] = L[k], h[m] > w
        PROVE  m \in 1 .. Len(g) /\ g[m] = L[k] /\ g[m] > w
    BY <1>4, <2>2
  <2>3. ASSUME NEW t \in Streams, L[k] \in Due(queue, t, v, w), L[k] = n
        PROVE  Len(h) + 1 \in 1 .. Len(g) /\ g[Len(h) + 1] = L[k] /\ g[Len(h) + 1] > w
    BY <1>3, <1>4, <2>3
  <2> QED BY <1>2, <2>1, <2>2, <2>3
<1> QED BY <1>5 DEF n, L, g

-----------------------------------------------------------------------------
(* What is ready, read or first opened stays complete. *)

\* Where nothing was held, the rows are what was answered.
LEMMA AfterNothing ==
    ASSUME NEW R, NEW w, NEW h, Len(h) = 0, NEW k \in Keys
    PROVE  After(R, h, w)[k] = R[k]
<1>1. {i \in 1 .. Len(h) : h[i] > w /\ log[h[i]] = k} = {}
  <2>1. 1 .. Len(h) = {}
    OBVIOUS
  <2> QED BY <2>1
<1> QED BY <1>1 DEF After

\* A view ready stays complete, unless it is to be read again.
LEMMA CompleteReadyStep ==
    ASSUME IInv, Begun, Forward, Abreast, [Next]_vars
    PROVE  CompleteReady'
<1> USE DEF IInv, Parts
<1> SUFFICES ASSUME NEW v \in byId', shared'[v].ready, ~Ahead(v)'
             PROVE  Complete(Lasts(log'), queue', v, shared'[v].rows, <<>>, shared'[v].watermark)
  BY DEF CompleteReady
<1>0. v \in Made
  BY TableTypedStep DEF TableTyped
<1>1. CASE v \notin byId
  <2> DEFINE j == job["first"]
  <2>1. Opened /\ Opening /\ v = made /\ j.view = v /\ Whole("first") /\ UNCHANGED <<log, queue>>
    BY <1>1, FoundStep DEF Forward, Opened, sidecarVars
  <2>2. /\ shared'[v].rows = After(j.rows, shared[v].held, j.watermark)
        /\ shared'[v].watermark = j.watermark
    BY <1>0, <2>1, OpenedIsShared DEF SharedTyped
  <2>3. shared[v].held = <<>> /\ Len(<<>>) = 0
    BY <1>0, <2>1 DEF Forward, Unknown, Unfound
  <2>4. j.rows \in [Keys -> Numbers] /\ j.watermark \in Numbers /\ shared[v].held \in Seq(Numbers)
    BY <1>0, <2>1, JobIs, CopyIs DEF Forward, Whole, Callers
  <2>5. \A k \in Keys : shared'[v].rows[k] = j.rows[k]
    <3> DEFINE R == j.rows
               w == j.watermark
               h == shared[v].held
    <3>1. R \in [Keys -> Numbers] /\ w \in Numbers /\ h \in Seq(Numbers) /\ Len(h) = 0
      BY <2>3, <2>4
    <3>2. shared'[v].rows = After(R, h, w)
      BY <2>2
    <3> HIDE DEF R, w, h
    <3>3. \A k \in Keys : After(R, h, w)[k] = R[k]
      BY <3>1, AfterNothing
    <3> QED BY <3>2, <3>3 DEF R
  <2>6. \A k \in Keys : j.rows[k] = Lasts(log)[k]
    BY <2>1 DEF Abreast, CompleteFirst, Whole
  <2> QED BY <2>1, <2>5, <2>6 DEF Complete
<1>2. ASSUME v \in byId, NEW by \in Callers, Ends(by), Whole(by), job[by].view = v,
             shared'[v].rows = After(job[by].rows, shared[v].held, job[by].watermark),
             shared'[v].watermark = job[by].watermark
      PROVE  Complete(Lasts(log'), queue', v, shared'[v].rows, <<>>, shared'[v].watermark)
  <2> DEFINE R == job[by].rows
             w == job[by].watermark
             h == shared[v].held
  <2>1. by \in Streams /\ ReadOver(by)
    BY <1>0, <1>2 DEF Ends, Forward, Unknown, Unfound, Opening, Whole, Callers
  <2>2. UNCHANGED <<log, queue, up, again, phase, rereads>>
    BY <2>1 DEF ReadOver, sidecarVars, streamVars
  <2>3. ~Ahead(v)
    BY <2>2 DEF Ahead, Wrecked
  <2>4. Complete(Lasts(log), queue, v, R, h, w) /\ Fits(queue, on[v], v, R, h, w)
    BY <1>2, <2>1, <2>3 DEF Abreast, CompleteRead, Forward, FitRead
  <2>5. R \in [Keys -> Numbers] /\ w \in Numbers /\ h \in Seq(Numbers) /\ Real(log, R, w)
    BY <1>0, <1>2, JobIs, CopyIs DEF Whole, Forward, Written
  <2>6. \A m \in 1 .. Len(h) : h[m] \in 1 .. Len(log)
    BY <1>0 DEF Forward, Written
  <2>7. shared'[v].rows = After(R, h, w) /\ shared'[v].watermark = w
    BY <1>2
  <2> HIDE DEF R, h, w
  <2>8. Complete(Lasts(log), queue, v, After(R, h, w), <<>>, w)
    BY <2>4, <2>5, <2>6, CompleteAfter
  <2> QED BY <2>2, <2>7, <2>8
<1>3. ASSUME v \in byId, shared[v].ready
      PROVE  ~Ahead(v) /\ \A s \in Streams : ~(job[s] # None /\ job[s].view = v)
  <2>1. ASSUME Ahead(v) PROVE FALSE
    <3>1. PICK s \in Streams : ReadAgain(s) /\ v = Min(rereads[s])
      BY <1>3, <2>1, AheadStays
    <3>2. shared'[v] = [shared[v] EXCEPT !.ready = FALSE] /\ shared[v] \in Shared
      BY <1>0, <3>1 DEF ReadAgain, SharedTyped
    <3> QED BY <3>2 DEF Shared
  <2> QED BY <1>3, <2>1 DEF Forward, Reread
<1>4. CASE /\ v \in byId /\ shared'[v].rows = shared[v].rows /\ shared'[v].watermark = shared[v].watermark
           /\ shared[v].ready /\ \A s \in Streams : ~(HearChange(s) /\ v \in Head(queue[s]).views)
  <2>1. ~Ahead(v) /\ \A s \in Streams : ~(job[s] # None /\ job[s].view = v)
    BY <1>3, <1>4
  <2>2. Complete(Lasts(log), queue, v, shared[v].rows, <<>>, shared[v].watermark)
    BY <1>4, <2>1 DEF Abreast, CompleteReady
  <2>3. shared[v].watermark \in Nat /\ shared[v].watermark <= Len(log)
    BY <1>0, CopyIs DEF Forward, Written
  <2> DEFINE R == shared[v].rows
             w == shared[v].watermark
             h == <<>>
  <2> HIDE DEF R, w, h
  <2>4. Complete(Lasts(log), queue, v, R, h, w) /\ w \in Nat /\ w <= Len(log)
    BY <2>2, <2>3 DEF R, w, h
  <2>5. Complete(Lasts(log'), queue', v, R, h, w)
    BY <1>4, <2>1, <2>4, CompleteOn
  <2> QED BY <1>4, <2>5 DEF R, w, h
<1>5. ASSUME v \in byId, NEW s \in Streams, HearChange(s), v \in Head(queue[s]).views
      PROVE  Complete(Lasts(log'), queue', v, shared'[v].rows, <<>>, shared'[v].watermark)
  <2> DEFINE n == Head(queue[s]).number
             u == Took(shared[v], n)
             R == shared[v].rows
             w == shared[v].watermark
  <2>1. shared'[v] = u /\ log' = log
    BY <1>0, <1>5 DEF HearChange
  <2>2. n \in Numbers
    BY <1>5, HeardIs DEF Forward
  <2>3. shared[v] \in Shared /\ R \in [Keys -> Numbers] /\ w \in Nat
    BY <1>0, CopyIs DEF Forward
  <2> HIDE DEF n
  <2>4. /\ u.ready = shared[v].ready /\ u.watermark = shared[v].watermark
        /\ u.ready => /\ n > shared[v].watermark => u.rows = [shared[v].rows EXCEPT ![log[n]] = n]
                      /\ ~(n > shared[v].watermark) => u.rows = shared[v].rows
    BY <2>2, <2>3, TookIs
  <2> HIDE DEF u
  <2>5. shared[v].ready /\ u.ready
    BY <2>1, <2>4
  <2>6. /\ Complete(Lasts(log), queue, v, R, <<>>, w)
        /\ Fits(queue, on[v], v, R, <<>>, w)
    BY <1>3, <1>5, <2>5 DEF Abreast, CompleteReady, Forward, FitReady
  <2>7. /\ u.watermark = w
        /\ n > w => u.rows = [R EXCEPT ![log[n]] = n]
        /\ ~(n > w) => u.rows = R
    BY <2>4, <2>5
  <2> HIDE DEF R, w
  <2>8. /\ n > w => Complete(Lasts(log), queue', v, [R EXCEPT ![log[n]] = n], <<>>, w)
        /\ ~(n > w) => Complete(Lasts(log), queue', v, R, <<>>, w)
    BY <1>5, <2>3, <2>6, CompleteHeard DEF Forward, n
  <2> QED BY <2>1, <2>7, <2>8
<1>6. \/ /\ shared'[v].rows = shared[v].rows /\ shared'[v].watermark = shared[v].watermark
         /\ shared[v].ready
      \/ \E by \in Callers :
           /\ Ends(by) /\ Whole(by) /\ job[by].view = v
           /\ shared'[v].rows = After(job[by].rows, shared[v].held, job[by].watermark)
           /\ shared'[v].watermark = job[by].watermark
      \/ \E s \in Streams : HearChange(s) /\ v \in Head(queue[s]).views
  BY <1>0, CopyStep
<1> QED BY <1>1, <1>2, <1>4, <1>5, <1>6

\* A page that is the only one answers every key.
LEMMA PageIsAll ==
    ASSUME OnePaged, Parts, NEW by \in Callers, Answer(by), job'[by].pages = {}
    PROVE  \A k \in Keys : job'[by].rows[k] = Lasts(log)[k]
<1>1. job[by].pages \subseteq Pages
  BY AnswerIs DEF Jobs
<1>2. PICK page \in job[by].pages :
        job'[by].rows = [k \in Keys |-> IF k \in page THEN Latest(k) ELSE job[by].rows[k]]
  BY AnswerIs
<1>3. page \in Pages /\ Pages = {page}
  BY <1>1, <1>2 DEF OnePaged
<1>4. Keys = page
  BY <1>3 DEF Keys
<1> QED BY <1>2, <1>4, LastsAreLatest

\* And so does one being read, once it is answered whole.
LEMMA CompleteReadStep ==
    ASSUME OnePaged, IInv, Begun, Forward, Abreast, [Next]_vars
    PROVE  CompleteRead'
<1> USE DEF IInv, Parts
<1> SUFFICES ASSUME NEW s \in Streams, NEW v \in byId', Whole(s)', v = job'[s].view, ~Ahead(v)'
             PROVE  Complete(Lasts(log'), queue', v, job'[s].rows, shared'[v].held, job'[s].watermark)
  BY DEF CompleteRead, Ahead, Wrecked
<1>0. /\ s \in Callers /\ s # "first" /\ job'[s] # None /\ job'[s].at = "pages" /\ job'[s].pages = {} /\ Pages # {}
  BY ViewsAssumption DEF Whole, ViewsAssumption, Callers, Streams
<1>1. CASE Answer(s)
  <2>1. \A k \in Keys : job'[s].rows[k] = Lasts(log)[k]
    BY <1>0, <1>1, PageIsAll
  <2>2. log' = log
    BY <1>1 DEF Answer, sidecarVars
  <2> QED BY <2>1, <2>2 DEF Complete
<1>2. ASSUME job[s] # None, job'[s] = job[s]
      PROVE  Complete(Lasts(log'), queue', v, job'[s].rows, shared'[v].held, job'[s].watermark)
  <2> DEFINE R == job[s].rows
             w == job[s].watermark
             h == shared[v].held
  <2>1. /\ v = job[s].view /\ v \in Made /\ Whole(s) /\ v \in byId /\ v \in byId'
        /\ R \in [Keys -> Numbers] /\ w \in Nat /\ w <= Len(log)
    BY <1>0, <1>2, JobIs, FoundBefore DEF Whole, Forward, Written
  <2>2. \A c \in Callers : job[c] # None /\ job[c].view = v => c = s
    BY <1>0, <1>2, <2>1, OneReads DEF Forward
  <2>3. ~Ahead(v)
    <3>1. ASSUME NEW t \in Streams, ReadAgain(t), v = Min(rereads[t]) PROVE FALSE
      <4>1. job[t] = None /\ rereads[t] # {}
        BY <3>1 DEF ReadAgain
      <4>2. t # s
        BY <1>2, <4>1
      <4>3. \E x \in Streams : rereads[x] = {} /\ job[x] = None
        BY DEF Forward, Steady, Still
      <4>4. Streams = {"own", "role"}
        BY DEF Streams
      <4> QED BY <1>2, <4>1, <4>2, <4>3, <4>4
    <3> QED BY <2>1, <3>1, AheadStays
  <2>4. Complete(Lasts(log), queue, v, R, h, w)
    BY <2>1, <2>3 DEF Abreast, CompleteRead
  <2>5. h \in Seq(Nat)
    BY <2>1, CopyIs DEF Forward
  <2>6. ASSUME NEW t \in Streams, HearChange(t), v \in Head(queue[t]).views
        PROVE  Complete(Lasts(log'), queue', v, job'[s].rows, shared'[v].held, job'[s].watermark)
    <3> DEFINE n == Head(queue[t]).number
               u == Took(shared[v], n)
    <3>1. shared'[v] = u /\ log' = log
      BY <2>1, <2>6 DEF HearChange
    <3>2. n \in Numbers
      BY <2>6, HeardIs DEF Forward
    <3>3. shared[v] \in Shared /\ ~shared[v].ready
      BY <1>2, <2>1, CopyIs DEF Forward, Reread
    <3> HIDE DEF n, R, w
    <3>4. u.held = Append(h, n)
      BY <3>2, <3>3, TookIs
    <3> HIDE DEF u, h
    <3>5. Complete(Lasts(log), queue', v, R, Append(h, n), w)
      BY <2>1, <2>4, <2>5, <2>6, CompleteHeld DEF Forward, n
    <3>6. job'[s].rows = R /\ job'[s].watermark = w
      BY <1>2 DEF R, w
    <3> QED BY <3>1, <3>4, <3>5, <3>6
  <2>7. CASE \A t \in Streams : ~(HearChange(t) /\ v \in Head(queue[t]).views)
    <3>1. shared'[v].held = h
      <4>1. ASSUME NEW c \in Callers, Ends(c), Whole(c), job[c].view = v PROVE FALSE
        <5>1. c = s
          BY <2>2, <4>1 DEF Whole
        <5> QED BY <1>0, <4>1, <5>1 DEF Ends, ReadOver, JobTyped
      <4> QED BY <2>1, <2>7, <4>1, CopyStep
    <3>2. \A t \in Streams : ~(job[t] # None /\ job[t].view = v /\ job[t].at = "subscribe")
      BY <2>1, <2>2 DEF Whole, Callers
    <3>3. job'[s].rows = R /\ job'[s].watermark = w
      BY <1>2
    <3> HIDE DEF R, w, h
    <3>4. Complete(Lasts(log'), queue', v, R, h, w)
      BY <2>1, <2>3, <2>4, <2>7, <3>2, CompleteOn
    <3> QED BY <3>1, <3>3, <3>4
  <2> QED BY <2>6, <2>7
<1>3. ASSUME job[s] # None, job[s].at # "pages", job'[s].pages = job[s].pages PROVE FALSE
  BY <1>0, <1>3 DEF Forward, Written
<1>4. ASSUME NEW x, NEW at, job'[s] = Reading(x, at) PROVE FALSE
  BY <1>0, <1>4 DEF Reading
<1> QED BY <1>0, <1>1, <1>2, <1>3, <1>4, ReadStep

\* A view first opened, its read whole, stays the store's until it is found.
LEMMA CompleteFirstStep ==
    ASSUME QuietOpens, OnePaged, IInv, Begun, Forward, Abreast, [Next]_vars
    PROVE  CompleteFirst'
<1> USE DEF IInv, Parts
<1> DEFINE j == job["first"]
           jj == job'["first"]
<1> SUFFICES ASSUME jj # None, jj.at = "pages"
             PROVE  /\ on'[made'] # None
                    /\ jj.pages = {} => \A k \in Keys : jj.rows[k] = Lasts(log')[k]
  BY DEF CompleteFirst, Opening
<1>0. "first" \in Callers
  BY DEF Callers
<1>1. ASSUME j # None PROVE made' = made /\ made \in Made /\ j.view = made /\ j \in Jobs
  <2>1. \A r \in Readers : ~Ask(r)
    BY <1>1 DEF Ask, Opening
  <2>2. made' = made
    BY <2>1, Footprint
  <2> QED BY <1>1, <2>2 DEF JobTyped, Jobs, Forward, Unknown, Opening
<1>2. CASE j # None /\ jj = j
  <2>1. ~Undisturbed
    BY <1>2 DEF Undisturbed, Opening
  <2>2. log' = log
    BY <2>1, Footprint DEF Change
  <2>3. on[made] # None /\ up[on[made]] /\ (j.pages = {} => \A k \in Keys : j.rows[k] = Lasts(log)[k])
    BY <1>1, <1>2 DEF Abreast, CompleteFirst, Aside, Opening
  <2>4. ASSUME NEW s \in Streams, SeeBreak(s) PROVE on'[made] # None
    BY <1>1, <1>2, <2>3, <2>4 DEF SeeBreak, Closed
  <2>5. ASSUME NEW by \in Callers, Subscribe(by) PROVE on'[made] # None
    <3>1. PICK s \in Streams : on' = [on EXCEPT ![job[by].view] = s]
      BY <2>5 DEF Subscribe
    <3>2. on'[made] = on[made] \/ on'[made] = s
      BY <1>1, <1>2, <3>1 DEF SidecarTyped
    <3> QED BY <2>3, <3>2, ViewsAssumption DEF ViewsAssumption
  <2>6. ASSUME NEW u \in Made, Unsubscribe(u) PROVE on'[made] # None
    <3>1. u # made
      BY <1>2, <2>6 DEF Unsubscribe, Abreast, Aside, Opening
    <3> QED BY <1>1, <1>2, <2>3, <2>6, <3>1 DEF Unsubscribe, SidecarTyped
  <2>7. \A s \in Streams : ~Break(s) /\ ~ReadFails(s)
    BY <2>1 DEF Break, ReadFails
  <2>8. on'[made] # None
    BY <2>3, <2>4, <2>5, <2>6, <2>7, Footprint DEF Callers
  <2> QED BY <1>1, <1>2, <2>2, <2>3, <2>8
<1>3. CASE j # None /\ Subscribe("first") /\ jj.pages = j.pages
  <2>1. PICK s \in Streams : on' = [on EXCEPT ![j.view] = s]
    BY <1>3 DEF Subscribe
  <2>2. on'[made] = s /\ s # None
    BY <1>1, <1>3, <2>1, ViewsAssumption DEF ViewsAssumption, SidecarTyped
  <2>3. j.at = "subscribe"
    BY <1>3 DEF Subscribe
  <2>4. jj.pages # {}
    BY <1>0, <1>3, <2>3, ViewsAssumption DEF Forward, Written, ViewsAssumption
  <2> QED BY <1>1, <1>3, <2>2, <2>4
<1>4. CASE j # None /\ Answer("first")
  <2>1. j.at = "pages" /\ UNCHANGED <<log, on>>
    BY <1>4 DEF Answer, sidecarVars
  <2>2. on[made] # None
    BY <1>4, <2>1 DEF Abreast, CompleteFirst, Opening
  <2>3. jj.pages = {} => \A k \in Keys : jj.rows[k] = Lasts(log)[k]
    BY <1>0, <1>4, PageIsAll
  <2> QED BY <1>1, <1>4, <2>1, <2>2, <2>3
<1>5. CASE Begins("first")
  <2>1. PICK r \in Readers : Ask(r)
    BY <1>5 DEF Begins
  <2>2. job' = [job EXCEPT !["first"] = Reading(made', "stream")]
    BY <1>5, <2>1 DEF Begins, Ask
  <2>3. jj = Reading(made', "stream")
    BY <1>0, <2>2 DEF JobTyped, Callers
  <2>4. jj.at = "stream"
    BY <2>3 DEF Reading
  <2> QED BY <2>4
<1> QED BY <1>0, <1>2, <1>3, <1>4, <1>5, ReadStep

\* Together these are preserved.
LEMMA AbreastStep ==
    ASSUME QuietOpens, OnePaged, IInv, Begun, Forward, Abreast, [Next]_vars
    PROVE  Abreast'
<1>1. Aside'
  BY AsideStep DEF Abreast, Forward
<1>2. Subscribed'
  BY SubscribedStep DEF Abreast, Forward
<1>3. CompleteReady' /\ CompleteRead' /\ CompleteFirst'
  BY CompleteReadyStep, CompleteReadStep, CompleteFirstStep
<1> QED BY <1>1, <1>2, <1>3 DEF Abreast

\* At first there is no view.
LEMMA InitAbreast ==
    ASSUME Init
    PROVE  Abreast
<1> USE DEF Init
<1>1. made \in Nat /\ byId = {} /\ leaving = {} /\ ~Opening
  BY DEF Opening
<1>2. Aside
  BY <1>1 DEF Aside
<1>3. Subscribed /\ CompleteReady /\ CompleteFirst
  BY <1>1 DEF Subscribed, CompleteReady, CompleteFirst
<1>4. CompleteRead
  BY DEF CompleteRead, Whole
<1> QED BY <1>2, <1>3, <1>4 DEF Abreast

\* With nothing to hear or to read, what is complete is the store's.
LEMMA QuietIsCurrent ==
    ASSUME IInv, Waiting, Forward, Abreast
    PROVE  Current
<1> USE DEF IInv, Parts
<1> SUFFICES ASSUME Quiet, NEW v \in byId PROVE shared[v].rows = [k \in Keys |-> Latest(k)]
  BY DEF Current
<1>1. \A s \in Streams : /\ queue[s] = <<>> /\ rereads[s] = {} /\ job[s] = None
                         /\ again[s] => up[s] /\ phase[s] = "hearing"
  <2> SUFFICES ASSUME NEW s \in Streams
               PROVE  /\ queue[s] = <<>> /\ rereads[s] = {} /\ job[s] = None
                      /\ again[s] => up[s] /\ phase[s] = "hearing"
    OBVIOUS
  <2>1. job[s] = None
    BY DEF Quiet
  <2>2. CASE phase[s] = "none"
    BY <2>1, <2>2 DEF Abreast, Aside, Waiting, Begun
  <2>3. CASE phase[s] # "none"
    BY <2>1, <2>3 DEF Quiet
  <2> QED BY <2>2, <2>3
<1>2. ~Wrecked
  BY <1>1 DEF Wrecked
<1>3. \A s \in Streams : \A i \in 1 .. Len(queue[s]) : FALSE
  <2> SUFFICES ASSUME NEW s \in Streams PROVE 1 .. Len(queue[s]) = {}
    OBVIOUS
  <2>1. Len(queue[s]) = 0
    BY <1>1
  <2> QED BY <2>1
<1>4. ~Ahead(v)
  BY <1>1, <1>2, <1>3 DEF Ahead
<1>5. shared[v].ready
  BY <1>1 DEF Waiting, NoneLeftUnready, ComingToBeRead
<1>6. Complete(Lasts(log), queue, v, shared[v].rows, <<>>, shared[v].watermark)
  BY <1>4, <1>5 DEF Abreast, CompleteReady
<1> DEFINE w == shared[v].watermark
           R == shared[v].rows
<1>7. \A t \in Streams : Due(queue, t, v, w) = {}
  BY <1>3 DEF Due
<1>8. \A m \in 1 .. Len(<<>>) : FALSE
  OBVIOUS
<1>9. \A k \in Keys : Lasts(log)[k] = R[k]
  <2> HIDE DEF w, R
  <2>1. Complete(Lasts(log), queue, v, R, <<>>, w)
    BY <1>6 DEF w, R
  <2> QED BY <1>7, <1>8, <2>1 DEF Complete
<1>10. R \in [Keys -> Nat]
  <2>1. v \in Made
    BY DEF TableTyped
  <2> QED BY <2>1, CopyIs DEF Forward
<1>11. Lasts(log) = [k \in Keys |-> Latest(k)]
  BY LastsAreLatest
<1> QED BY <1>9, <1>10, <1>11

-----------------------------------------------------------------------------
(* The theorems. *)

\* No view and no reader at first.
LEMMA InitKept == Init => IInv
<1> SUFFICES ASSUME Init PROVE IInv
  OBVIOUS
<1> USE DEF Init
<1>1. SidecarTyped
  BY EmptySeq, LenProperties, ViewsAssumption DEF SidecarTyped, ViewsAssumption
<1>2. StreamTyped /\ JobTyped
  BY DEF StreamTyped, JobTyped
<1>3. TableTyped /\ ReaderTyped
  BY ViewsAssumption DEF TableTyped, ReaderTyped, ViewsAssumption
<1>4. Blank \in Shared /\ Blank.held = <<>>
  <2>1. Unread \in [Keys -> Numbers] /\ <<>> \in Seq(Numbers)
    BY NumbersAre, EmptySeq DEF Unread
  <2> QED BY <2>1, NumbersAre DEF Blank, Shared
<1>5. SharedTyped
  BY <1>4 DEF SharedTyped
<1>6. LeftTyped
  BY ViewsAssumption DEF LeftTyped, ViewsAssumption
<1>7. Holders = {} /\ ~Opening
  BY DEF Holders, Opening
<1>8. Kept
  BY <1>7 DEF Kept, Found, Given, OneOpens, Counted
<1> QED BY <1>1, <1>2, <1>3, <1>5, <1>6, <1>8 DEF IInv, Parts

\* Each action keeps all of it.
LEMMA StepKeeps == IInv /\ [Next]_vars => IInv'
<1> SUFFICES ASSUME IInv, [Next]_vars PROVE IInv'
  OBVIOUS
<1>1. Parts
  BY DEF IInv
<1>2. SidecarTyped' /\ StreamTyped' /\ JobTyped' /\ TableTyped'
  BY <1>1, SidecarTypedStep, StreamTypedStep, JobTypedStep, TableTypedStep
<1>3. SharedTyped' /\ ReaderTyped' /\ LeftTyped'
  BY <1>1, SharedTypedStep, ReaderTypedStep, LeftTypedStep
<1>4. Kept'
  BY KeptStep
<1> QED BY <1>2, <1>3, <1>4 DEF IInv, Parts

\* What each variable may hold: a view whose reads are done holds nothing back,
\* and a view's readers are never counted below none (views.py, `_Views.subscribe`,
\* `close`).
THEOREM TypeCorrect == Spec => []TypeOK
<1>1. IInv => TypeOK
  BY PartsWhole DEF IInv
<1> QED BY <1>1, InitKept, StepKeeps, PTL DEF Spec

\* A reader's view is the one there is until it leaves: neither dropped under it
\* by `_linger` nor made twice by two readers at once (views.py, `subscribe`,
\* `_linger`).
THEOREM ReaderAlwaysHasView == Spec => []ReaderHasView
<1>1. IInv => ReaderHasView
  BY DEF IInv, Kept, Found, Given, Holders, ReaderHasView
<1> QED BY <1>1, InitKept, StepKeeps, PTL DEF Spec

\* A view not ready is being read or is going to be, whatever breaks or fails
\* as it is read: no reader waits for one nobody reads (views.py, `_hear`, `_read`).
THEOREM NeverLeftUnready == Spec => []NoneLeftUnready
<1>1. Init => Waiting
  BY DEF Init, Waiting, Begun, NoneLeftUnready
<1>2. Waiting => NoneLeftUnready
  BY DEF Waiting
<1> QED BY <1>1, <1>2, InitKept, StepKeeps, WaitingStep, PTL DEF Spec

\* A row a page was shown never gives way to an earlier change of it: neither as a
\* view is read again while deliveries are held, nor as those held are applied
\* after, where one of the two streams neither breaks nor loses anything
\* (views.py, `_read`, `_apply`, `delivered`).
THEOREM RowsNeverOlder == OneSided => (Spec => NeverOlder)
<1> SUFFICES ASSUME OneSided PROVE Spec => NeverOlder
  OBVIOUS
<1> DEFINE Step == \A v \in byId \cap byId', k \in Keys : shared'[v].rows[k] >= shared[v].rows[k]
<1>1. IInv /\ Forward /\ [Next]_vars => [Step]_vars
  BY RowsGoOn
<1>2. Init => Forward
  BY InitForward
<1>3. Init => Waiting
  BY DEF Init, Waiting, Begun, NoneLeftUnready
<1>4. Waiting => Begun
  BY DEF Waiting
<1>5. IInv /\ Begun /\ Forward /\ [Next]_vars => Forward'
  BY ForwardStep
<1> QED BY <1>1, <1>2, <1>3, <1>4, <1>5, InitKept, StepKeeps, WaitingStep, PTL DEF Spec, NeverOlder

\* A view that is read, with nothing more to hear or to read, is the store's: every
\* change made meanwhile is among the rows, though it came as the view was read,
\* was lost and told of, or was on a stream that broke.  So it is where one of the
\* two streams neither breaks nor loses anything, a read is one call, and nothing
\* fails while a view is first opened (views.py, `_read`, `_hear`).
THEOREM AlwaysCurrent == OneSided /\ OnePaged /\ QuietOpens => (Spec => []Current)
<1> SUFFICES ASSUME OneSided, OnePaged, QuietOpens PROVE Spec => []Current
  OBVIOUS
<1>1. IInv /\ Waiting /\ Forward /\ Abreast => Current
  BY QuietIsCurrent
<1>2. Init => Forward
  BY InitForward
<1>3. Init => Abreast
  BY InitAbreast
<1>4. Init => Waiting
  BY DEF Init, Waiting, Begun, NoneLeftUnready
<1>5. Waiting => Begun
  BY DEF Waiting
<1>6. IInv /\ Begun /\ Forward /\ [Next]_vars => Forward'
  BY ForwardStep
<1>7. IInv /\ Begun /\ Forward /\ Abreast /\ [Next]_vars => Abreast'
  BY AbreastStep
<1> QED BY <1>1, <1>2, <1>3, <1>4, <1>5, <1>6, <1>7, InitKept, StepKeeps, WaitingStep, PTL DEF Spec

=============================================================================
