------------------------------ MODULE FeedProofs ------------------------------
(***************************************************************************)
(* Proofs about Feed: whichever wants stand, however the stream's session  *)
(* drops and is opened anew, whatever the lake, the venue's history and    *)
(* the naming refuse and whenever the process dies, no trade between the   *)
(* first and the last that a process heard is passed over unsaid.          *)
(***************************************************************************)
EXTENDS Feed, Integers, FiniteSetsExt, FiniteSetTheorems, WellFoundedInduction, TLAPS

-----------------------------------------------------------------------------
(* The least and the greatest of naturals. *)

\* Every set of naturals that is not empty has a least member.
LEMMA LeastExists ==
  ASSUME NEW S \in SUBSET Nat, S # {}
  PROVE  \E x \in S : \A y \in S : x <= y
<1>1. PICK x \in S : \A y \in S : ~(<<y, x>> \in OpToRel(<, Nat))
  BY WFMin, NatLessThanWellFounded, Zenon
<1>2. \A y \in S : ~(y < x)
  BY <1>1, Zenon DEF OpToRel
<1>3. \A y \in S : x <= y
  BY <1>2
<1>. QED BY <1>3

\* Max is the greatest of a bounded set of naturals.
LEMMA MaxIsGreatest ==
  ASSUME NEW n \in Nat, NEW S \in SUBSET (0..n), S # {}
  PROVE  Max(S) \in S /\ \A y \in S : Max(S) >= y
<1>. DEFINE T == {m \in 0..n : n - m \in S}
<1>1. PICK m \in S : TRUE
  OBVIOUS
<1>2. n - m \in T
  BY n - (n - m) = m
<1>3. T \in SUBSET Nat /\ T # {}
  BY <1>2
<1>4. PICK t \in T : \A u \in T : t <= u
  BY <1>3, LeastExists
<1>5. t \in 0..n /\ n - t \in S
  OBVIOUS
<1>6. ASSUME NEW y \in S PROVE n - t >= y
  <2>1. n - y \in T
    BY n - (n - y) = y
  <2>2. t <= n - y
    BY <2>1, <1>4
  <2>. QED BY <2>2, <1>5
<1>. QED BY <1>5, <1>6 DEF Max

-----------------------------------------------------------------------------

OneEach == \A v, w \in Wants : Of[v] = Of[w] => v = w

(***************************************************************************)
(* The budgets under which the code keeps it.  A product may leave the     *)
(* stream and come back before its session is opened anew, where one of    *)
(* two wants of it is withdrawn, and where a restream of the pass puts     *)
(* back what stood before a want heard while it waited.  So: none is heard *)
(* then, and a withdrawn want is the only one of its product.              *)
(***************************************************************************)
Steady == \A b \in Budgets : b["behind"] = 0 /\ (OneEach \/ b["withdraw"] = 0)

-----------------------------------------------------------------------------
(* The inductive invariant. *)

\* What remains of the budget keeps to Steady.
Lasting == left["withdraw"] = 0 /\ \A w \in Wants : asks[w] # "withdrawn"
Calm == left["behind"] = 0 /\ (OneEach \/ Lasting)

\* A product of no want that stands or will.
Gone(p) == \A w \in Wants : Of[w] = p => w \notin standing /\ asks[w] = "withdrawn"

\* A product on the stream is of what stands, or gone; a restream at an await
\* is of what stands.
Stands ==
    /\ \A p \in streams : p \in Subjects(standing) \/ Gone(p)
    /\ \A t \in Tasks : jobs[t] # None /\ jobs[t].subjects # {} =>
        t \in {"hear", "pass"} /\ jobs[t].subjects = Subjects(standing)

\* Only a job that records or sends holds trades, and one that names has what to
\* put on the stream.
Carries ==
    \A t \in Tasks : jobs[t] # None =>
        /\ jobs[t].at \notin {"record", "send"} => jobs[t].trades = {}
        /\ jobs[t].at = "name" => jobs[t].subjects # {}

Started == \A p \in Products : last[p] = 0 <=> first[p] = 0

\* What the stream's session has is on the stream, or gone.
Subscribed == wanted \cup (IF session = None THEN {} ELSE session.names)
Served == \A p \in Subscribed : p \in streams \/ Gone(p)

\* Where the session stands among the venue's trades.
Behind == session # None => \A p \in Products : session.upto[p] <= made[p]

Held == recorded \cup Underway \cup said

\* What the session delivered after a product's last trade is held, once it has
\* caught up.
CatchingUp(p) ==
    jobs["stream"] # None /\ jobs["stream"].at = "catchup" /\ p \in jobs["stream"].todo
Heard ==
    session # None => \A p \in session.names \cap streams :
        last[p] = 0 \/ CatchingUp(p) \/ (\A n \in last[p] + 1 .. session.upto[p] : <<p, n>> \in Held)

\* No trade is known of beyond the last heard, nor beyond what the session has
\* delivered of a product not heard yet.
Known == recorded \cup Underway \cup UNION {IF jobs[t] = None THEN {} ELSE jobs[t].lasts : t \in Tasks}
Bounded ==
    \A r \in Known :
        /\ r[2] <= made[r[1]]
        /\ first[r[1]] # 0 => r[2] <= last[r[1]]
        /\ first[r[1]] = 0 /\ session # None => r[2] <= session.upto[r[1]]

IInv ==
    /\ TypeOK /\ Calm /\ Stands /\ Carries /\ Started /\ Served /\ Behind /\ Heard /\ Bounded
    /\ NoneSkipped

-----------------------------------------------------------------------------
(* Operators of the model. *)

\* The history's answer is of trades.
LEMMA AfterIn ==
  ASSUME made \in [Products -> 0 .. MaxTrade], NEW p \in Products, NEW n \in Nat
  PROVE  After(p, n) \subseteq Trades
  BY FeedAssumption DEF After, Trades

\* The latest in the lake is one of its trades, or none.
LEMMA LatestIn ==
  ASSUME NEW p \in Products
  PROVE  /\ Latest(p) \in 0 .. MaxTrade
         /\ Latest(p) # 0 => <<p, Latest(p)>> \in recorded
<1>. DEFINE held == {k \in 1 .. MaxTrade : <<p, k>> \in recorded}
<1>1. CASE held = {}
  <2>1. Latest(p) = 0
    BY <1>1 DEF Latest
  <2>. QED BY <2>1, FeedAssumption
<1>2. CASE held # {}
  <2>1. Latest(p) = CHOOSE k \in held : \A j \in held : j <= k
    BY <1>2 DEF Latest
  <2>2. MaxTrade \in Nat /\ held \in SUBSET (0 .. MaxTrade)
    BY FeedAssumption
  <2>3. Max(held) \in held /\ \A j \in held : Max(held) >= j
    BY <1>2, <2>2, MaxIsGreatest
  <2>4. \A j \in held : j <= Max(held)
    BY <2>2, <2>3
  <2>5. Latest(p) \in held
    <3>. HIDE DEF held
    <3>. QED BY <2>1, <2>3, <2>4
  <2>. QED BY <2>5
<1>. QED BY <1>1, <1>2

\* The jobs the model makes are jobs.
LEMMA JobsMade ==
  /\ \A at \in {"list", "venue", "name", "lake", "history", "record", "catchup", "send"} :
        /\ \A todo \in SUBSET Products : Reading(at, todo) \in Jobs
        /\ \A subjects, todo \in SUBSET Products : Waiting(at, subjects, todo) \in Jobs
  /\ \A trades \in SUBSET Trades : Sending(trades) \in Jobs
  /\ \A lasts \in SUBSET Trades : [Reading("history", {}) EXCEPT !.lasts = lasts] \in Jobs
<1>1. ASSUME NEW at \in {"list", "venue", "name", "lake", "history", "record", "catchup", "send"}
      PROVE  /\ \A todo \in SUBSET Products : Reading(at, todo) \in Jobs
             /\ \A subjects, todo \in SUBSET Products : Waiting(at, subjects, todo) \in Jobs
  BY DEF Reading, Waiting, Jobs
<1>2. ASSUME NEW trades \in SUBSET Trades PROVE Sending(trades) \in Jobs
  BY DEF Sending, Reading, Waiting, Jobs
<1>3. ASSUME NEW lasts \in SUBSET Trades
      PROVE  [Reading("history", {}) EXCEPT !.lasts = lasts] \in Jobs
  BY DEF Reading, Waiting, Jobs
<1>. QED BY <1>1, <1>2, <1>3

\* How a step leaves the tasks: one is at another await, or at none.
JobsOK == jobs \in [Tasks -> Jobs \cup {None}]
Moves(t, j) == j \in Jobs \cup {None} /\ jobs' = [jobs EXCEPT ![t] = j]

LEMMA MovesOne ==
  ASSUME JobsOK, NEW t \in Tasks, NEW j, Moves(t, j)
  PROVE  JobsOK' /\ \A u \in Tasks : jobs'[u] = IF u = t THEN j ELSE jobs[u]
  BY DEF JobsOK, Moves

\* What a task at an await is.
LEMMA JobIs ==
  ASSUME JobsOK, NEW t \in Tasks, jobs[t] # None
  PROVE  /\ jobs[t] \in Jobs
         /\ jobs[t].subjects \subseteq Products /\ jobs[t].todo \subseteq Products
         /\ jobs[t].lasts \subseteq Trades /\ jobs[t].trades \subseteq Trades
<1>1. jobs[t] \in Jobs
  BY DEF JobsOK
<1>. QED BY <1>1 DEF Jobs

\* How a restream puts products on the stream.
LEMMA PutMoves ==
  ASSUME JobsOK, NEW t \in Tasks, NEW S \in SUBSET Products, Put(t, S)
  PROVE  /\ streams' = S
         /\ \/ Moves(t, None) /\ wanted' = streams' /\ backfilled' = backfilled
            \/ /\ Moves(t, Reading("lake", S \ backfilled)) /\ wanted' = wanted
               /\ backfilled' = backfilled \cup S
<1>1. S \ backfilled \in SUBSET Products
  OBVIOUS
<1>2. Reading("lake", S \ backfilled) \in Jobs
  BY <1>1, JobsMade
<1>. QED BY <1>2 DEF Put, Over, Moves

LEMMA SubjectsIn ==
  ASSUME NEW wants \in SUBSET Wants
  PROVE  Subjects(wants) \subseteq Products
  BY FeedAssumption DEF Subjects

\* What a restream turns to: a wait, for the venue or for names, or the stream.
Waits(t, S) ==
    /\ \E at \in {"venue", "name"} : \E todo \in SUBSET Products :
        Moves(t, Waiting(at, S, todo)) /\ S # {}
    /\ streams' = streams /\ wanted' = wanted /\ backfilled' = backfilled

LEMMA NameTheseMoves ==
  ASSUME NEW t \in Tasks, NEW S \in SUBSET Products, NameThese(t, S)
  PROVE  Put(t, S) \/ Waits(t, S)
<1>1. CASE S \subseteq named
  BY <1>1 DEF NameThese
<1>2. CASE ~(S \subseteq named)
  <2>1. S # {} /\ S \ named \in SUBSET Products
    BY <1>2
  <2>2. Waiting("name", S, S \ named) \in Jobs
    BY <2>1, JobsMade
  <2>3. Moves(t, Waiting("name", S, S \ named)) /\ streams' = streams /\ wanted' = wanted
        /\ backfilled' = backfilled
    BY <1>2, <2>2 DEF NameThese, Moves
  <2>. QED BY <2>1, <2>3 DEF Waits
<1>. QED BY <1>1, <1>2

\* How one begins.
LEMMA RestreamMoves ==
  ASSUME NEW t \in Tasks, NEW wants \in SUBSET Wants, Restream(t, wants)
  PROVE  named' = named /\ (Put(t, Subjects(wants)) \/ Waits(t, Subjects(wants)))
<1>. DEFINE S == Subjects(wants)
<1>0. S \in SUBSET Products /\ {} \in SUBSET Products
  BY SubjectsIn
<1>1. CASE wants # {} /\ ~venueAsked
  <2>1. S # {}
    BY <1>1 DEF Subjects
  <2>2. jobs' = [jobs EXCEPT ![t] = Waiting("venue", S, {})]
        /\ streams' = streams /\ wanted' = wanted /\ backfilled' = backfilled /\ named' = named
    BY <1>1 DEF Restream
  <2>3. Waiting("venue", S, {}) \in Jobs
    BY <1>0, JobsMade
  <2>4. Moves(t, Waiting("venue", S, {}))
    BY <2>2, <2>3 DEF Moves
  <2>. QED BY <1>0, <2>1, <2>2, <2>4 DEF Waits
<1>2. CASE ~(wants # {} /\ ~venueAsked)
  <2>1. NameThese(t, S) /\ named' = named
    BY <1>2 DEF Restream
  <2>. QED BY <1>0, <2>1, NameTheseMoves
<1>. QED BY <1>1, <1>2

\* How a reading goes on.
LEMMA ReadOnMoves ==
  ASSUME NEW t \in Tasks, NEW lasts \in SUBSET Trades, ReadOn(t, lasts)
  PROVE  \/ Moves(t, None) /\ wanted' = streams
         \/ Moves(t, [Reading("history", {}) EXCEPT !.lasts = lasts]) /\ wanted' = wanted
  BY JobsMade DEF ReadOn, Ends, Over, Moves

\* The job that sends what was missed.
LEMMA RecordMade ==
  ASSUME NEW lasts \in SUBSET Trades, NEW trades \in SUBSET Trades
  PROVE  LET j == [Reading("record", {}) EXCEPT !.lasts = lasts, !.trades = trades]
         IN  /\ j \in Jobs /\ j.at = "record" /\ j.subjects = {}
             /\ j.lasts = lasts /\ j.trades = trades
  BY DEF Reading, Waiting, Jobs

\* A job with less to do.
LEMMA LessMade ==
  ASSUME JobsOK, NEW t \in Tasks, jobs[t] # None, NEW p
  PROVE  LET j == [jobs[t] EXCEPT !.todo = @ \ {p}]
         IN  /\ [jobs EXCEPT ![t].todo = @ \ {p}] = [jobs EXCEPT ![t] = j]
             /\ j \in Jobs /\ j.at = jobs[t].at /\ j.subjects = jobs[t].subjects
             /\ j.todo = jobs[t].todo \ {p} /\ j.lasts = jobs[t].lasts /\ j.trades = jobs[t].trades
<1>1. jobs[t] \in Jobs
  BY DEF JobsOK
<1>. DEFINE j == [jobs[t] EXCEPT !.todo = @ \ {p}]
<1>2. [jobs EXCEPT ![t].todo = @ \ {p}] = [jobs EXCEPT ![t] = j]
  OBVIOUS
<1>3. j \in Jobs /\ j.at = jobs[t].at /\ j.subjects = jobs[t].subjects
      /\ j.todo = jobs[t].todo \ {p} /\ j.lasts = jobs[t].lasts /\ j.trades = jobs[t].trades
  BY <1>1 DEF Jobs
<1>. QED BY <1>2, <1>3

\* A job with some of it to do.
LEMMA SomeMade ==
  ASSUME JobsOK, NEW t \in Tasks, jobs[t] # None, NEW rest \in SUBSET jobs[t].todo
  PROVE  LET j == [jobs[t] EXCEPT !.todo = rest]
         IN  /\ [jobs EXCEPT ![t].todo = rest] = [jobs EXCEPT ![t] = j]
             /\ j \in Jobs /\ j.at = jobs[t].at /\ j.subjects = jobs[t].subjects
             /\ j.todo = rest /\ j.lasts = jobs[t].lasts /\ j.trades = jobs[t].trades
<1>1. jobs[t] \in Jobs
  BY DEF JobsOK
<1>. DEFINE j == [jobs[t] EXCEPT !.todo = rest]
<1>2. [jobs EXCEPT ![t].todo = rest] = [jobs EXCEPT ![t] = j]
  OBVIOUS
<1>3. j \in Jobs /\ j.at = jobs[t].at /\ j.subjects = jobs[t].subjects
      /\ j.todo = rest /\ j.lasts = jobs[t].lasts /\ j.trades = jobs[t].trades
  BY <1>1 DEF Jobs
<1>. QED BY <1>2, <1>3

-----------------------------------------------------------------------------
(* The steps, as they are taken up below. *)

\* The restreams begun, of what is heard and of the passes.
Begins(t, w) ==
    \/ t = "hear" /\ w \in Wants /\ (HearWant(w) \/ HearWithdrawn(w))
    \/ t = "pass" /\ PassRestream

\* What was heard taken to be sent.
Takes(t) ==
    \/ t = "pass" /\ PassFlush
    \/ t = "stream" /\ CatchUpEnds

Listing == Remap \/ RemapAgain \/ Listed
Restreaming(t) ==
    \/ AskVenue(t) \/ Name(t) \/ NameFails(t) \/ LakeFails(t)
    \/ ReadLake(t) \/ ReadHistory(t) \/ RecordMissed(t)
Deployment ==
    \/ \E w \in Wants : Ask(w) \/ Retract(w)
    \/ \E p \in Products : Trade(p)

LEMMA Steps ==
  ASSUME Next
  PROVE  \/ Deployment \/ Crash
         \/ \E t \in {"hear", "pass"} : Restreaming(t)
         \/ Listing
         \/ \E t \in Tasks : \E w : Begins(t, w)
         \/ \E t \in Tasks : Takes(t) \/ Flushed(t)
         \/ Open \/ CatchUp \/ Reopen \/ Drop \/ \E p \in Products : Message(p)
<1>0. "hear" \in Tasks /\ "pass" \in Tasks /\ "stream" \in Tasks
  BY DEF Tasks
<1>1. CASE Hears
  <2>1. CASE Restreams("hear")
    BY <2>1 DEF Restreams, Restreaming
  <2>2. CASE \E w \in Wants : HearWant(w) \/ HearWithdrawn(w)
    <3>1. PICK w \in Wants : HearWant(w) \/ HearWithdrawn(w)
      BY <2>2
    <3>2. Begins("hear", w)
      BY <3>1 DEF Begins
    <3>. QED BY <1>0, <3>2
  <2>. QED BY <1>1, <2>1, <2>2 DEF Hears
<1>2. CASE Passes
  <2>1. CASE Restreams("pass")
    BY <2>1 DEF Restreams, Restreaming
  <2>2. CASE PassFlush
    BY <1>0, <2>2 DEF Takes
  <2>3. CASE PassRestream
    <3>1. Begins("pass", None)
      BY <2>3 DEF Begins
    <3>. QED BY <1>0, <3>1
  <2>4. CASE Flushed("pass")
    BY <1>0, <2>4
  <2>5. CASE RemapAgain \/ Listed
    BY <2>5 DEF Listing
  <2>. QED BY <1>2, <2>1, <2>2, <2>3, <2>4, <2>5 DEF Passes
<1>3. CASE Streams
  <2>1. CASE CatchUpEnds
    BY <1>0, <2>1 DEF Takes
  <2>2. CASE Flushed("stream")
    BY <1>0, <2>2
  <2>. QED BY <1>3, <2>1, <2>2 DEF Streams
<1>4. CASE Around
  <2>1. CASE Remap
    BY <2>1 DEF Listing
  <2>2. CASE \E t \in {"hear", "pass"} : NameFails(t) \/ LakeFails(t)
    BY <2>2 DEF Restreaming
  <2>. QED BY <1>4, <2>1, <2>2 DEF Around, Deployment
<1>. QED BY <1>1, <1>2, <1>3, <1>4 DEF Next

-----------------------------------------------------------------------------
(* Type correctness. *)

LEMMA SpendType ==
  ASSUME left \in [Mishaps -> Nat], NEW m \in Mishaps, Spend(m)
  PROVE  /\ left' \in [Mishaps -> Nat]
         /\ \A x \in Mishaps : left'[x] = IF x = m THEN left[m] - 1 ELSE left[x]
         /\ left[m] > 0
  BY DEF Spend

\* The stream's session.
Sessions == [names : SUBSET Products, upto : [Products -> 0 .. MaxTrade]]

\* What is known of the venue.
VenueOK == saved \subseteq Products /\ venueAsked \in BOOLEAN /\ mapping \in BOOLEAN

LEMMA MappingKept ==
  ASSUME mapping \in BOOLEAN, NEW t,
         \/ \E S : Put(t, S) \/ NameThese(t, S) \/ Restream(t, S) \/ ReadOn(t, S)
         \/ Over(t) \/ Ends(t)
  PROVE  mapping' \in BOOLEAN
<1>1. CASE Over(t) \/ Ends(t)
  BY <1>1 DEF Over, Ends
<1>2. ASSUME NEW S, Put(t, S) PROVE mapping' \in BOOLEAN
  BY <1>2 DEF Put, Over
<1>3. ASSUME NEW S, NameThese(t, S) PROVE mapping' \in BOOLEAN
  BY <1>2, <1>3 DEF NameThese
<1>4. ASSUME NEW S, Restream(t, S) PROVE mapping' \in BOOLEAN
  BY <1>3, <1>4 DEF Restream
<1>5. ASSUME NEW S, ReadOn(t, S) PROVE mapping' \in BOOLEAN
  BY <1>5 DEF ReadOn, Ends, Over
<1>. QED BY <1>1, <1>2, <1>3, <1>4, <1>5

LEMMA VenueType ==
  ASSUME TypeOK, Next
  PROVE  VenueOK'
<1>0. VenueOK /\ named \subseteq Products /\ JobsOK /\ mapping \in BOOLEAN
  BY DEF TypeOK, VenueOK, JobsOK
<1>1. ASSUME NEW t \in Tasks, AskVenue(t) PROVE VenueOK'
  <2>1. saved' = saved /\ venueAsked' = TRUE /\ \E S : NameThese(t, S)
    BY <1>1 DEF AskVenue
  <2>. QED BY <1>0, <2>1, MappingKept DEF VenueOK
<1>2. ASSUME NEW t \in Tasks, Name(t) PROVE VenueOK'
  <2>1. /\ venueAsked' = venueAsked /\ jobs[t] # None
        /\ \E q \in jobs[t].todo : named' = named \cup {q}
        /\ saved' = named' \/ saved' = saved
        /\ mapping' = mapping \/ \E S : Put(t, S)
    BY <1>2, Zenon DEF Name, At, At
  <2>2. jobs[t].todo \subseteq Products
    BY <1>0, <2>1, JobIs
  <2>. QED BY <1>0, <2>1, <2>2, MappingKept DEF VenueOK
<1>3. ASSUME NEW t \in Tasks, ReadLake(t) \/ ReadHistory(t) \/ RecordMissed(t) \/ LakeFails(t) PROVE VenueOK'
  <2>1. saved' = saved /\ venueAsked' = venueAsked
    BY <1>3 DEF ReadLake, At, ReadHistory, RecordMissed, LakeFails
  <2>2. mapping' = mapping \/ (\E S : ReadOn(t, S)) \/ Ends(t)
    <3>1. CASE ReadLake(t)
      BY <3>1, Zenon DEF ReadLake, At
    <3>2. CASE ReadHistory(t)
      BY <3>2, Zenon DEF ReadHistory, At
    <3>3. CASE RecordMissed(t) \/ LakeFails(t)
      BY <3>3, Zenon DEF RecordMissed, At, LakeFails
    <3>. QED BY <1>3, <3>1, <3>2, <3>3
  <2>. QED BY <1>0, <2>1, <2>2, MappingKept DEF VenueOK
<1>4. ASSUME NEW t \in Tasks, NEW w, Begins(t, w) PROVE VenueOK'
  <2>1. \E S : Restream(t, S)
    BY <1>4 DEF Begins, HearWant, HearWithdrawn, PassRestream
  <2>2. saved' = saved /\ venueAsked' = venueAsked
    BY <2>1 DEF Restream
  <2>. QED BY <1>0, <2>1, <2>2, MappingKept DEF VenueOK
<1>5. CASE Listing
  BY <1>0, <1>5 DEF Listing, Listed, Remap, RemapAgain, ReadListing, VenueOK
<1>6. CASE Crash
  BY <1>0, <1>6 DEF Crash, VenueOK
<1>7. CASE UNCHANGED venue
  BY <1>0, <1>7 DEF venue, VenueOK
<1>8. ASSUME NEW t \in Tasks, NameFails(t) \/ Takes(t) \/ Flushed(t) PROVE UNCHANGED venue
  BY <1>8 DEF NameFails, At, Takes, PassFlush, CatchUpEnds, Flushed
<1>9. CASE Deployment \/ Open \/ CatchUp \/ Reopen \/ Drop \/ \E p \in Products : Message(p)
  <2>1. UNCHANGED venue
    BY <1>9 DEF Deployment, Ask, Retract, Trade, Open, CatchUp, Reopen, Drop, Message
  <2>. QED BY <2>1, <1>7
<1>. QED
  <2>1. "hear" \in Tasks /\ "pass" \in Tasks
    BY DEF Tasks
  <2>2. CASE \E t \in {"hear", "pass"} : Restreaming(t)
    BY <2>1, <2>2, <1>1, <1>2, <1>3, <1>7, <1>8 DEF Restreaming
  <2>. QED BY <2>2, <1>4, <1>5, <1>6, <1>7, <1>8, <1>9, Steps

LEMMA InitType == Init => TypeOK
<1>. SUFFICES ASSUME Init PROVE TypeOK
  OBVIOUS
<1>1. named \subseteq Products /\ VenueOK
  BY DEF Init, VenueOK
<1>2. left \in [Mishaps -> Nat] /\ jobs \in [Tasks -> Jobs \cup {None}]
  BY FeedAssumption DEF Init, NoJob
<1>. QED BY <1>1, <1>2, FeedAssumption DEF Init, TypeOK, VenueOK

LEMMA WorldType ==
  ASSUME TypeOK, VenueOK',
         \/ \E w \in Wants : Ask(w) \/ Retract(w)
         \/ \E p \in Products : Trade(p)
         \/ Crash
  PROVE  TypeOK'
<1>0. "ask" \in Mishaps /\ "withdraw" \in Mishaps /\ "trade" \in Mishaps /\ "crash" \in Mishaps
      /\ left \in [Mishaps -> Nat]
  BY DEF Mishaps, TypeOK, VenueOK
<1>1. CASE \E w \in Wants : Ask(w)
  BY <1>0, <1>1, SpendType DEF Ask, TypeOK, VenueOK, lake, memory, stream, heard
<1>2. CASE \E w \in Wants : Retract(w)
  BY <1>0, <1>2, SpendType DEF Retract, TypeOK, VenueOK, lake, memory, stream, heard
<1>3. CASE \E p \in Products : Trade(p)
  <2>1. PICK p \in Products : Trade(p)
    BY <1>3
  <2>2. left' \in [Mishaps -> Nat]
    BY <2>1, <1>0, SpendType DEF Trade
  <2>3. made' \in [Products -> 0 .. MaxTrade] /\ \A q \in Products : made[q] <= made'[q]
    BY <2>1, FeedAssumption DEF Trade, TypeOK, VenueOK
  <2>4. \A q \in Products : last[q] <= made'[q]
    BY <2>3, FeedAssumption DEF TypeOK, VenueOK
  <2>5. UNCHANGED <<asks, recorded, said, named, standing, streams, wanted, session, pending, last,
                    first, backfilled, jobs>>
    BY <2>1 DEF Trade, lake, memory, stream, heard
  <2>. QED BY <2>2, <2>3, <2>4, <2>5 DEF TypeOK, VenueOK
<1>4. CASE Crash
  <2>1. left' \in [Mishaps -> Nat]
    BY <1>4, <1>0, SpendType DEF Crash
  <2>2. \A q \in Products : 0 <= made[q]
    BY FeedAssumption DEF TypeOK, VenueOK
  <2>. QED BY <1>4, <2>1, <2>2, FeedAssumption DEF Crash, TypeOK, VenueOK, NoJob, world, lake
<1>. QED BY <1>1, <1>2, <1>3, <1>4

\* Steps that move a task and what is named, stands, is streamed or said, or
\* sent: types kept.
LEMMA MovedType ==
  ASSUME TypeOK, VenueOK', JobsOK',
         UNCHANGED <<asks, made, session, last, first>>,
         recorded' \subseteq Trades, said' \subseteq Trades, pending' \subseteq Trades,
         named' \subseteq Products, streams' \subseteq Products, wanted' \subseteq Products,
         standing' \subseteq Wants, backfilled' \subseteq Products,
         left' \in [Mishaps -> Nat]
  PROVE  TypeOK'
  BY DEF TypeOK, VenueOK, JobsOK

LEMMA PutType ==
  ASSUME TypeOK, NEW t \in Tasks, NEW S \in SUBSET Products, Put(t, S)
  PROVE  /\ JobsOK' /\ streams' \subseteq Products /\ wanted' \subseteq Products
         /\ backfilled' \subseteq Products
<1>1. JobsOK /\ wanted \subseteq Products /\ backfilled \subseteq Products
  BY DEF TypeOK, JobsOK
<1>2. streams' \subseteq Products
  BY <1>1, PutMoves
<1>3. CASE Moves(t, None) /\ wanted' = streams' /\ backfilled' = backfilled
  BY <1>1, <1>2, <1>3, MovesOne
<1>4. CASE Moves(t, Reading("lake", S \ backfilled)) /\ wanted' = wanted /\ backfilled' = backfilled \cup S
  BY <1>1, <1>2, <1>4, MovesOne
<1>. QED BY <1>1, <1>3, <1>4, PutMoves

\* What a reading turns to.
ReadsOn(t, lasts) ==
    \/ Moves(t, None) /\ wanted' = streams
    \/ Moves(t, [Reading("history", {}) EXCEPT !.lasts = lasts]) /\ wanted' = wanted

LEMMA ReadsOnType ==
  ASSUME TypeOK, NEW t \in Tasks, NEW lasts, ReadsOn(t, lasts)
  PROVE  JobsOK' /\ wanted' \subseteq Products
<1>1. JobsOK /\ wanted \subseteq Products /\ streams \subseteq Products
  BY DEF TypeOK, JobsOK
<1>. QED BY <1>1, MovesOne DEF ReadsOn

\* The venue answers: what a restream began with is named, or what stands.
LEMMA AskVenueMoves ==
  ASSUME TypeOK, NEW t \in Tasks, AskVenue(t)
  PROVE  /\ jobs[t] # None /\ jobs[t].at = "venue"
         /\ UNCHANGED <<asks, made, recorded, said, named, standing, session, pending, last, first, left>>
         /\ \E S \in SUBSET Products :
              /\ S = Subjects(standing) \/ (S # {} /\ S = jobs[t].subjects)
              /\ Put(t, S) \/ Waits(t, S)
<1>. DEFINE S == IF jobs[t].subjects = {} THEN Subjects(standing) ELSE jobs[t].subjects
<1>1. /\ jobs[t] # None /\ jobs[t].at = "venue" /\ NameThese(t, S)
      /\ UNCHANGED <<asks, made, recorded, said, named, standing, session, pending, last, first, left>>
  BY DEF AskVenue, At, world, lake, heard
<1>2. Subjects(standing) \subseteq Products /\ jobs[t].subjects \subseteq Products
  BY <1>1, SubjectsIn, JobIs DEF TypeOK, JobsOK
<1>3. S \in SUBSET Products /\ (S = Subjects(standing) \/ (S # {} /\ S = jobs[t].subjects))
  BY <1>2
<1>. HIDE DEF S
<1>4. Put(t, S) \/ Waits(t, S)
  BY <1>1, <1>3, NameTheseMoves
<1>. QED BY <1>1, <1>3, <1>4

\* A product is named, and the rest are yet to be, or they are put on the stream.
LEMMA NameMoves ==
  ASSUME JobsOK, NEW t \in Tasks, Name(t)
  PROVE  /\ jobs[t] # None /\ jobs[t].at = "name"
         /\ UNCHANGED <<asks, made, recorded, said, standing, session, pending, last, first, left>>
         /\ \E p \in jobs[t].todo : named' = named \cup {p}
         /\ \/ Put(t, jobs[t].subjects)
            \/ /\ \E rest \in SUBSET jobs[t].todo : Moves(t, [jobs[t] EXCEPT !.todo = rest])
               /\ UNCHANGED <<streams, wanted, backfilled>>
<1>1. jobs[t] # None /\ jobs[t].at = "name"
      /\ UNCHANGED <<asks, made, recorded, said, standing, session, pending, last, first, left>>
  BY DEF Name, At, At, world, lake, heard
<1>2. PICK p \in jobs[t].todo : \E rest \in {jobs[t].todo \ (named \cup {p})} :
        /\ named' = named \cup {p}
        /\ IF rest = {}
           THEN Put(t, jobs[t].subjects)
           ELSE /\ jobs' = [jobs EXCEPT ![t].todo = rest]
                /\ UNCHANGED <<streams, wanted, backfilled>>
  BY Zenon DEF Name, At
<1>3. PICK rest \in SUBSET jobs[t].todo :
        /\ named' = named \cup {p}
        /\ IF rest = {}
           THEN Put(t, jobs[t].subjects)
           ELSE /\ jobs' = [jobs EXCEPT ![t].todo = rest]
                /\ UNCHANGED <<streams, wanted, backfilled>>
  BY <1>2
<1>4. CASE rest = {}
  BY <1>1, <1>3, <1>4
<1>5. CASE rest # {}
  <2>1. Moves(t, [jobs[t] EXCEPT !.todo = rest])
    BY <1>1, <1>3, <1>5, SomeMade DEF Moves
  <2>. QED BY <1>1, <1>3, <1>5, <2>1
<1>. QED BY <1>4, <1>5

\* A restream that goes on keeps to the types.
LEMMA WaitsType ==
  ASSUME TypeOK, NEW t \in Tasks, NEW S \in SUBSET Products, Put(t, S) \/ Waits(t, S)
  PROVE  /\ JobsOK' /\ streams' \subseteq Products /\ wanted' \subseteq Products
         /\ backfilled' \subseteq Products
<1>1. JobsOK /\ streams \subseteq Products /\ wanted \subseteq Products /\ backfilled \subseteq Products
  BY DEF TypeOK, JobsOK
<1>2. CASE Waits(t, S)
  BY <1>1, <1>2, MovesOne DEF Waits
<1>. QED BY <1>2, PutType

LEMMA AskVenueType ==
  ASSUME TypeOK, VenueOK', NEW t \in Tasks, AskVenue(t)
  PROVE  TypeOK'
<1>1. /\ named \subseteq Products /\ recorded \subseteq Trades /\ said \subseteq Trades
      /\ pending \subseteq Trades /\ standing \subseteq Wants /\ left \in [Mishaps -> Nat]
  BY DEF TypeOK
<1>2. JobsOK' /\ streams' \subseteq Products /\ wanted' \subseteq Products /\ backfilled' \subseteq Products
  BY AskVenueMoves, WaitsType
<1>. QED BY <1>1, <1>2, AskVenueMoves, MovedType

LEMMA NameType ==
  ASSUME TypeOK, VenueOK', NEW t \in Tasks, Name(t)
  PROVE  TypeOK'
<1>1. JobsOK /\ named \subseteq Products /\ streams \subseteq Products /\ wanted \subseteq Products
      /\ backfilled \subseteq Products /\ recorded \subseteq Trades /\ said \subseteq Trades
      /\ pending \subseteq Trades /\ standing \subseteq Wants /\ left \in [Mishaps -> Nat]
  BY DEF TypeOK, VenueOK, JobsOK
<1>2. jobs[t].todo \subseteq Products /\ jobs[t].subjects \in SUBSET Products
  BY <1>1, NameMoves, JobIs
<1>3. JobsOK' /\ streams' \subseteq Products /\ wanted' \subseteq Products /\ backfilled' \subseteq Products
  <2>1. CASE Put(t, jobs[t].subjects)
    BY <2>1, <1>2, PutType
  <2>2. CASE ~Put(t, jobs[t].subjects)
    BY <2>2, <1>1, NameMoves, MovesOne
  <2>. QED BY <2>1, <2>2
<1>4. named' \subseteq Products
  BY <1>1, <1>2, NameMoves
<1>. QED BY <1>1, <1>3, <1>4, NameMoves, MovedType

LEMMA LakeType ==
  ASSUME TypeOK, VenueOK', NEW t \in Tasks, NameFails(t) \/ LakeFails(t)
  PROVE  TypeOK'
<1>1. JobsOK /\ named \subseteq Products /\ streams \subseteq Products /\ wanted \subseteq Products
      /\ backfilled \subseteq Products /\ recorded \subseteq Trades /\ said \subseteq Trades
      /\ pending \subseteq Trades /\ standing \subseteq Wants /\ left \in [Mishaps -> Nat]
      /\ made \in [Products -> 0 .. MaxTrade]
  BY DEF TypeOK, VenueOK, JobsOK
<1>2. left' \in [Mishaps -> Nat]
  <2>1. "naming" \in Mishaps /\ "lake" \in Mishaps
    BY DEF Mishaps
  <2>. QED BY <1>1, <2>1, SpendType DEF NameFails, At, LakeFails
<1>3. Moves(t, None) /\ (wanted' = wanted \/ wanted' = streams)
  BY DEF NameFails, At, LakeFails, Ends, Over, Moves, stream
<1>4. JobsOK'
  BY <1>1, <1>3, MovesOne
<1>5. said' \subseteq Trades
  <2>1. CASE NameFails(t)
    BY <1>1, <2>1 DEF NameFails, At, lake
  <2>2. CASE LakeFails(t)
    <3>1. jobs[t].todo \subseteq Products
      BY <1>1, <2>2, JobIs DEF LakeFails, At
    <3>2. ASSUME NEW p \in jobs[t].todo PROVE After(p, Latest(p)) \subseteq Trades
      <4>1. p \in Products
        BY <3>1
      <4>2. Latest(p) \in 0 .. MaxTrade
        BY <4>1, LatestIn
      <4>3. Latest(p) \in Nat
        BY <4>2, FeedAssumption
      <4>. QED BY <1>1, <4>1, <4>3, AfterIn
    <3>. QED BY <1>1, <2>2, <3>2 DEF LakeFails, At
  <2>. QED BY <2>1, <2>2
<1>6. UNCHANGED <<asks, made, session, last, first, recorded, pending, named, streams, standing, backfilled>>
  BY DEF NameFails, At, LakeFails, world, lake, memory, stream, heard
<1>. QED BY <1>1, <1>2, <1>3, <1>4, <1>5, <1>6, MovedType

LEMMA ReadLakeMoves ==
  ASSUME TypeOK, NEW t \in Tasks, ReadLake(t)
  PROVE  \E lasts \in SUBSET recorded :
            /\ ReadsOn(t, lasts)
            /\ jobs[t] # None /\ jobs[t].at = "lake"
            /\ UNCHANGED <<asks, made, recorded, said, named, standing, backfilled, streams, session,
                           pending, last, first, left>>
<1>. DEFINE lasts == {<<p, Latest(p)>> : p \in {q \in jobs[t].todo : Latest(q) # 0}}
<1>1. jobs[t] # None /\ jobs[t].at = "lake" /\ ReadOn(t, lasts)
      /\ UNCHANGED <<asks, made, recorded, said, named, standing, backfilled, streams, session,
                     pending, last, first, left>>
  BY DEF ReadLake, At, world, lake, memory, heard
<1>2. jobs[t].todo \subseteq Products
  BY <1>1, JobIs DEF TypeOK, JobsOK
<1>3. lasts \subseteq recorded /\ recorded \subseteq Trades
  BY <1>2, LatestIn DEF TypeOK
<1>4. ReadsOn(t, lasts)
  BY <1>1, <1>3, ReadOnMoves DEF ReadsOn
<1>. QED BY <1>1, <1>3, <1>4

LEMMA ReadLakeType ==
  ASSUME TypeOK, VenueOK', NEW t \in Tasks, ReadLake(t)
  PROVE  TypeOK'
<1>1. PICK lasts \in SUBSET recorded :
        /\ ReadsOn(t, lasts)
        /\ UNCHANGED <<asks, made, recorded, said, named, standing, backfilled, streams, session,
                       pending, last, first, left>>
  BY ReadLakeMoves
<1>2. JobsOK' /\ wanted' \subseteq Products
  BY <1>1, ReadsOnType
<1>. QED BY <1>1, <1>2 DEF TypeOK, VenueOK, JobsOK

\* A reading of the venue's history: what was missed of one product is to be
\* recorded, or there was none, or its loss is said.
Reads(t, r) ==
    /\ r[1] \in streams
    /\ last' = LastRead(r[1])
    /\ first' = FirstOf(r[1], r[2] + 1)
    /\ Moves(t, [Reading("record", {}) EXCEPT !.lasts = jobs[t].lasts \ {r}, !.trades = After(r[1], r[2])])
    /\ After(r[1], r[2]) # {}
    /\ UNCHANGED <<said, wanted, left>>
PassesOver(t, r) ==
    /\ ReadsOn(t, jobs[t].lasts \ {r})
    /\ UNCHANGED <<last, first>>
    /\ \/ UNCHANGED <<said, left>>
       \/ said' = said \cup After(r[1], r[2]) /\ Spend("history")

LEMMA ReadHistoryMoves ==
  ASSUME TypeOK, NEW t \in Tasks, ReadHistory(t)
  PROVE  /\ jobs[t] # None /\ jobs[t].at = "history"
         /\ UNCHANGED <<asks, made, recorded, named, standing, backfilled, streams, session, pending>>
         /\ \E r \in jobs[t].lasts : Reads(t, r) \/ PassesOver(t, r)
<1>1. /\ jobs[t] # None /\ jobs[t].at = "history"
      /\ UNCHANGED <<asks, made, recorded, named, standing, backfilled, streams, session, pending>>
  BY DEF ReadHistory, At, world, memory
<1>2. JobsOK
  BY DEF TypeOK, JobsOK
<1>3. jobs[t].lasts \subseteq Trades
  BY <1>1, <1>2, JobIs
<1>4. PICK r \in jobs[t].lasts :
        LET p == r[1]
            missed == IF p \in streams THEN After(p, r[2]) ELSE {}
            rest == jobs[t].lasts \ {r}
        IN  \/ /\ missed # {}
               /\ last' = LastRead(p)
               /\ first' = FirstOf(p, r[2] + 1)
               /\ jobs' = [jobs EXCEPT ![t] = [Reading("record", {}) EXCEPT !.lasts = rest, !.trades = missed]]
               /\ UNCHANGED <<said, wanted, left>>
            \/ /\ missed = {}
               /\ ReadOn(t, rest)
               /\ UNCHANGED <<said, last, first, left>>
            \/ /\ p \in streams
               /\ Spend("history")
               /\ said' = said \cup After(p, r[2])
               /\ ReadOn(t, rest)
               /\ UNCHANGED <<last, first>>
  BY Zenon DEF ReadHistory, At
<1>. DEFINE rest == jobs[t].lasts \ {r}
            missed == IF r[1] \in streams THEN After(r[1], r[2]) ELSE {}
<1>5. rest \in SUBSET Trades
  BY <1>3
<1>6. CASE ReadOn(t, rest) /\ UNCHANGED <<last, first>>
           /\ (UNCHANGED <<said, left>> \/ (said' = said \cup After(r[1], r[2]) /\ Spend("history")))
  <2>1. ReadsOn(t, rest)
    BY <1>5, <1>6, ReadOnMoves DEF ReadsOn
  <2>. QED BY <1>1, <1>6, <2>1 DEF PassesOver
<1>7. CASE /\ missed # {}
           /\ last' = LastRead(r[1])
           /\ first' = FirstOf(r[1], r[2] + 1)
           /\ jobs' = [jobs EXCEPT ![t] = [Reading("record", {}) EXCEPT !.lasts = rest, !.trades = missed]]
           /\ UNCHANGED <<said, wanted, left>>
  <2>1. r[1] \in streams /\ missed = After(r[1], r[2])
    BY <1>7
  <2>2. r \in Trades /\ r[1] \in Products /\ r[2] \in Nat
    BY <1>3, FeedAssumption DEF Trades
  <2>3. missed \in SUBSET Trades
    BY <2>1, <2>2, AfterIn DEF TypeOK
  <2>4. [Reading("record", {}) EXCEPT !.lasts = rest, !.trades = missed] \in Jobs
    <3>. HIDE DEF rest, missed
    <3>. QED BY <1>5, <2>3, RecordMade
  <2>5. Moves(t, [Reading("record", {}) EXCEPT !.lasts = rest, !.trades = After(r[1], r[2])])
    <3>. HIDE DEF rest, missed
    <3>. QED BY <1>7, <2>1, <2>4, Zenon DEF Moves
  <2>6. Reads(t, r)
    BY <1>7, <2>1, <2>5, Zenon DEF Reads
  <2>. QED BY <1>1, <2>6
<1>. QED
  <2>. HIDE DEF rest, missed
  <2>1. \/ ReadOn(t, rest) /\ UNCHANGED <<last, first>>
           /\ (UNCHANGED <<said, left>> \/ (said' = said \cup After(r[1], r[2]) /\ Spend("history")))
        \/ /\ missed # {}
           /\ last' = LastRead(r[1])
           /\ first' = FirstOf(r[1], r[2] + 1)
           /\ jobs' = [jobs EXCEPT ![t] = [Reading("record", {}) EXCEPT !.lasts = rest, !.trades = missed]]
           /\ UNCHANGED <<said, wanted, left>>
    BY <1>4, Zenon DEF rest, missed
  <2>. QED BY <2>1, <1>6, <1>7, Zenon

\* The last read is where the venue stands.
LEMMA HigherIs ==
  ASSUME TypeOK, NEW p \in Products
  PROVE  Higher(last[p], made[p]) = made[p]
<1>1. last[p] \in Nat /\ made[p] \in Nat /\ last[p] <= made[p]
  BY FeedAssumption DEF TypeOK
<1>. QED BY <1>1 DEF Higher

LEMMA FirstOfType ==
  ASSUME TypeOK, NEW p \in Products, NEW n \in 1 .. MaxTrade
  PROVE  /\ FirstOf(p, n) \in [Products -> 0 .. MaxTrade]
         /\ \A q \in Products : FirstOf(p, n)[q] =
                IF q # p THEN first[q]
                ELSE IF first[p] = 0 \/ n < first[p] THEN n ELSE first[p]
<1>1. first \in [Products -> 0 .. MaxTrade]
  BY DEF TypeOK
<1>. QED BY <1>1, FeedAssumption DEF FirstOf

LEMMA LastReadIs ==
  ASSUME TypeOK, NEW p \in Products
  PROVE  LastRead(p) = [last EXCEPT ![p] = made[p]]
  BY HigherIs DEF LastRead, TypeOK

LEMMA ReadHistoryType ==
  ASSUME TypeOK, VenueOK', NEW t \in Tasks, ReadHistory(t)
  PROVE  TypeOK'
<1>1. /\ JobsOK /\ made \in [Products -> 0 .. MaxTrade] /\ said \subseteq Trades
      /\ last \in [Products -> 0 .. MaxTrade] /\ \A p \in Products : last[p] <= made[p]
      /\ left \in [Mishaps -> Nat]
  BY DEF TypeOK, VenueOK, JobsOK
<1>2. PICK r \in jobs[t].lasts : Reads(t, r) \/ PassesOver(t, r)
  BY ReadHistoryMoves
<1>3. r \in Trades /\ r[1] \in Products /\ r[2] \in 1 .. MaxTrade
  BY <1>1, <1>2, ReadHistoryMoves, JobIs DEF Trades
<1>4. After(r[1], r[2]) \subseteq Trades
  BY <1>1, <1>3, AfterIn, FeedAssumption
<1>5. UNCHANGED <<asks, made, recorded, named, standing, backfilled, streams, session, pending>>
  BY ReadHistoryMoves
<1>6. CASE Reads(t, r)
  <2>1. JobsOK'
    BY <1>1, <1>6, MovesOne DEF Reads
  <2>2. last' \in [Products -> 0 .. MaxTrade] /\ \A p \in Products : last'[p] <= made[p]
    <3>1. last' = [last EXCEPT ![r[1]] = made[r[1]]]
      BY <1>3, <1>6, LastReadIs DEF Reads
    <3>2. made[r[1]] \in 0 .. MaxTrade /\ made[r[1]] <= made[r[1]]
      BY <1>1, <1>3, FeedAssumption
    <3>. QED BY <1>1, <1>3, <3>1, <3>2
  <2>3. r[2] + 1 \in 1 .. MaxTrade
    <3>1. PICK k \in r[2] + 1 .. made[r[1]] : TRUE
      BY <1>6 DEF Reads, After
    <3>2. made[r[1]] \in 0 .. MaxTrade /\ r[2] + 1 <= k /\ k <= made[r[1]]
      BY <1>1, <1>3, FeedAssumption
    <3>. QED BY <1>3, <3>2, FeedAssumption
  <2>4. first' \in [Products -> 0 .. MaxTrade]
    BY <1>3, <1>6, <2>3, FirstOfType DEF Reads
  <2>. QED BY <1>5, <1>6, <2>1, <2>2, <2>4 DEF TypeOK, VenueOK, JobsOK, Reads
<1>7. CASE PassesOver(t, r)
  <2>1. JobsOK' /\ wanted' \subseteq Products
    BY <1>7, ReadsOnType DEF PassesOver
  <2>2. said' \subseteq Trades
    BY <1>1, <1>4, <1>7 DEF PassesOver
  <2>3. left' \in [Mishaps -> Nat]
    BY <1>1, <1>7, SpendType DEF PassesOver, Mishaps
  <2>. QED BY <1>5, <1>7, <2>1, <2>2, <2>3 DEF TypeOK, VenueOK, JobsOK, PassesOver
<1>. QED BY <1>2, <1>6, <1>7

LEMMA RecordMissedMoves ==
  ASSUME TypeOK, NEW t \in Tasks, RecordMissed(t)
  PROVE  /\ jobs[t] # None /\ jobs[t].at = "record"
         /\ UNCHANGED <<asks, made, named, standing, backfilled, streams, session, pending, last, first>>
         /\ \/ /\ recorded' = recorded \cup jobs[t].trades
               /\ ReadsOn(t, jobs[t].lasts)
               /\ UNCHANGED <<said, left>>
            \/ /\ Spend("refused")
               /\ said' = said \cup jobs[t].trades \cup Gaps(jobs[t].lasts)
               /\ Moves(t, None) /\ wanted' = streams
               /\ UNCHANGED recorded
<1>1. /\ jobs[t] # None /\ jobs[t].at = "record"
      /\ UNCHANGED <<asks, made, named, standing, backfilled, streams, session, pending, last, first>>
  BY DEF RecordMissed, At, world, memory, heard
<1>2. JobsOK
  BY DEF TypeOK, JobsOK
<1>3. jobs[t].lasts \in SUBSET Trades
  BY <1>1, <1>2, JobIs
<1>4. CASE /\ recorded' = recorded \cup jobs[t].trades
           /\ ReadOn(t, jobs[t].lasts)
           /\ UNCHANGED <<said, left>>
  <2>1. ReadsOn(t, jobs[t].lasts)
    BY <1>3, <1>4, ReadOnMoves DEF ReadsOn
  <2>. QED BY <1>1, <1>4, <2>1
<1>5. CASE /\ Spend("refused")
           /\ said' = said \cup jobs[t].trades \cup Gaps(jobs[t].lasts)
           /\ Ends(t)
           /\ UNCHANGED recorded
  BY <1>1, <1>5 DEF Ends, Over, Moves
<1>. QED BY <1>4, <1>5 DEF RecordMissed, At

LEMMA GapsIn ==
  ASSUME TypeOK, NEW lasts \in SUBSET Trades
  PROVE  Gaps(lasts) \subseteq Trades
<1>1. ASSUME NEW r \in lasts PROVE After(r[1], r[2]) \subseteq Trades
  <2>1. r[1] \in Products /\ r[2] \in Nat
    BY FeedAssumption DEF Trades
  <2>. QED BY <2>1, AfterIn DEF TypeOK
<1>. QED BY <1>1 DEF Gaps

LEMMA RecordMissedType ==
  ASSUME TypeOK, VenueOK', NEW t \in Tasks, RecordMissed(t)
  PROVE  TypeOK'
<1>1. /\ JobsOK /\ recorded \subseteq Trades /\ said \subseteq Trades /\ pending \subseteq Trades
      /\ streams \subseteq Products /\ named \subseteq Products /\ standing \subseteq Wants
      /\ backfilled \subseteq Products /\ left \in [Mishaps -> Nat]
  BY DEF TypeOK, VenueOK, JobsOK
<1>2. jobs[t].trades \subseteq Trades /\ jobs[t].lasts \in SUBSET Trades
  BY <1>1, RecordMissedMoves, JobIs
<1>3. UNCHANGED <<asks, made, named, standing, backfilled, streams, session, pending, last, first>>
  BY RecordMissedMoves
<1>4. CASE /\ recorded' = recorded \cup jobs[t].trades
           /\ ReadsOn(t, jobs[t].lasts)
           /\ UNCHANGED <<said, left>>
  <2>1. JobsOK' /\ wanted' \subseteq Products
    BY <1>4, ReadsOnType
  <2>. QED BY <1>1, <1>2, <1>3, <1>4, <2>1, MovedType
<1>5. CASE /\ Spend("refused")
           /\ said' = said \cup jobs[t].trades \cup Gaps(jobs[t].lasts)
           /\ Moves(t, None) /\ wanted' = streams
           /\ UNCHANGED recorded
  <2>1. JobsOK'
    BY <1>1, <1>5, MovesOne
  <2>2. left' \in [Mishaps -> Nat]
    BY <1>1, <1>5, SpendType DEF Mishaps
  <2>3. said' \subseteq Trades
    BY <1>1, <1>2, <1>5, GapsIn
  <2>. QED BY <1>1, <1>3, <1>5, <2>1, <2>2, <2>3, MovedType
<1>. QED BY <1>4, <1>5, RecordMissedMoves

LEMMA BeginsMoves ==
  ASSUME TypeOK, NEW t \in Tasks, NEW w, Begins(t, w)
  PROVE  /\ jobs[t] = None /\ t \in {"hear", "pass"}
         /\ standing' \in SUBSET Wants /\ Restream(t, standing')
         /\ \/ standing' = standing
            \/ /\ w \in Wants /\ t = "hear"
               /\ \/ asks[w] = "asked" /\ w \notin standing /\ standing' = standing \cup {w}
                  \/ asks[w] = "withdrawn" /\ w \in standing /\ standing' = standing \ {w}
               /\ jobs["pass"] # None /\ jobs["pass"].subjects # {} => Spend("behind")
         /\ UNCHANGED <<asks, made, recorded, said, session, pending, last, first>>
         /\ left' = left \/ Spend("behind")
<1>1. standing \subseteq Wants
  BY DEF TypeOK
<1>2. CASE t = "hear" /\ w \in Wants /\ HearWant(w)
  BY <1>1, <1>2 DEF HearWant, Overtaking, Idle, world, lake, heard
<1>3. CASE t = "hear" /\ w \in Wants /\ HearWithdrawn(w)
  BY <1>1, <1>3 DEF HearWithdrawn, Overtaking, Idle, world, lake, heard
<1>4. CASE t = "pass" /\ PassRestream
  BY <1>1, <1>4 DEF PassRestream, Idle, world, lake, heard
<1>. QED BY <1>2, <1>3, <1>4 DEF Begins

LEMMA BeginsType ==
  ASSUME TypeOK, VenueOK', NEW t \in Tasks, NEW w, Begins(t, w)
  PROVE  TypeOK'
<1>1. /\ recorded \subseteq Trades /\ said \subseteq Trades /\ pending \subseteq Trades
      /\ left \in [Mishaps -> Nat] /\ named \subseteq Products
  BY DEF TypeOK
<1>2. left' \in [Mishaps -> Nat]
  BY <1>1, BeginsMoves, SpendType DEF Mishaps
<1>3. standing' \in SUBSET Wants /\ Restream(t, standing')
  BY BeginsMoves
<1>4. Subjects(standing') \in SUBSET Products
  BY <1>3, SubjectsIn
<1>5. named' = named /\ (Put(t, Subjects(standing')) \/ Waits(t, Subjects(standing')))
  BY <1>3, RestreamMoves
<1>6. JobsOK' /\ streams' \subseteq Products /\ wanted' \subseteq Products /\ backfilled' \subseteq Products
  BY <1>4, <1>5, WaitsType
<1>7. UNCHANGED <<asks, made, recorded, said, session, pending, last, first>>
  BY BeginsMoves
<1>. QED BY <1>1, <1>2, <1>3, <1>5, <1>6, <1>7, MovedType

\* The listing read again, and with it the venue asked.
LEMMA ListingMoves ==
  ASSUME TypeOK, Listing
  PROVE  /\ jobs["pass"] = None \/ jobs["pass"].at = "list"
         /\ \E at \in {"list", "venue"} : Moves("pass", Reading(at, {}))
         /\ UNCHANGED <<asks, made, recorded, said, named, standing, backfilled, streams, wanted, session,
                        pending, last, first>>
         /\ left' = left \/ Spend("remap")
<1>1. \A at \in {"list", "venue"} : Reading(at, {}) \in Jobs
  BY JobsMade, {} \in SUBSET Products
<1>2. CASE Remap
  BY <1>1, <1>2 DEF Remap, ReadListing, Idle, Moves, world, lake, memory, stream, heard
<1>3. CASE RemapAgain
  BY <1>1, <1>3 DEF RemapAgain, ReadListing, Idle, Moves, world, lake, memory, stream, heard
<1>4. CASE Listed
  BY <1>1, <1>4 DEF Listed, At, Moves, world, lake, memory, stream, heard
<1>. QED BY <1>2, <1>3, <1>4 DEF Listing

LEMMA ListingType ==
  ASSUME TypeOK, VenueOK', Listing
  PROVE  TypeOK'
<1>1. JobsOK /\ left \in [Mishaps -> Nat] /\ "pass" \in Tasks
  BY DEF TypeOK, JobsOK, Tasks
<1>2. JobsOK'
  BY <1>1, ListingMoves, MovesOne
<1>3. left' \in [Mishaps -> Nat]
  BY <1>1, ListingMoves, SpendType DEF Mishaps
<1>. QED BY <1>2, <1>3, ListingMoves DEF TypeOK, JobsOK, VenueOK

LEMMA TakesMoves ==
  ASSUME TypeOK, NEW t \in Tasks, Takes(t)
  PROVE  /\ \/ jobs[t] = None
            \/ t = "stream" /\ jobs[t] # None /\ jobs[t].at = "catchup" /\ jobs[t].todo = {}
         /\ \/ Moves(t, Sending(pending))
            \/ pending = {} /\ Moves(t, None)
         /\ pending' = {}
         /\ UNCHANGED <<asks, made, recorded, said, named, standing, backfilled, streams, wanted, session,
                        last, first, left>>
<1>1. Sending(pending) \in Jobs
  BY JobsMade DEF TypeOK
<1>2. CASE t = "pass" /\ PassFlush
  BY <1>1, <1>2 DEF PassFlush, Idle, Moves, world, lake, memory, stream
<1>3. CASE t = "stream" /\ CatchUpEnds
  BY <1>1, <1>3 DEF CatchUpEnds, At, Moves, world, lake, memory, stream
<1>. QED BY <1>2, <1>3 DEF Takes

LEMMA FlushedMoves ==
  ASSUME TypeOK, NEW t \in Tasks, Flushed(t)
  PROVE  /\ jobs[t] # None /\ jobs[t].at = "send" /\ Moves(t, None)
         /\ \/ recorded' = recorded \cup jobs[t].trades /\ UNCHANGED <<said, left>>
            \/ Spend("refused") /\ said' = said \cup jobs[t].trades /\ UNCHANGED recorded
         /\ UNCHANGED <<asks, made, named, standing, backfilled, streams, wanted, session,
                        pending, last, first>>
  BY DEF Flushed, At, Moves, world, memory, stream, heard

LEMMA SendsType ==
  ASSUME TypeOK, VenueOK', NEW t \in Tasks, Takes(t) \/ Flushed(t)
  PROVE  TypeOK'
<1>1. /\ JobsOK /\ recorded \subseteq Trades /\ said \subseteq Trades /\ pending \subseteq Trades
      /\ named \subseteq Products /\ streams \subseteq Products /\ wanted \subseteq Products
      /\ standing \subseteq Wants /\ backfilled \subseteq Products
      /\ left \in [Mishaps -> Nat]
  BY DEF TypeOK, VenueOK, JobsOK
<1>2. CASE Takes(t)
  <2>1. JobsOK'
    BY <1>1, <1>2, TakesMoves, MovesOne
  <2>. QED BY <1>1, <1>2, <2>1, TakesMoves, MovedType
<1>3. CASE Flushed(t)
  <2>1. JobsOK'
    BY <1>1, <1>3, FlushedMoves, MovesOne
  <2>2. left' \in [Mishaps -> Nat]
    BY <1>1, <1>3, FlushedMoves, SpendType DEF Mishaps
  <2>3. jobs[t].trades \subseteq Trades
    BY <1>1, <1>3, FlushedMoves, JobIs
  <2>4. recorded' \subseteq Trades /\ said' \subseteq Trades
    BY <1>1, <1>3, <2>3, FlushedMoves
  <2>. QED BY <1>1, <1>3, <2>1, <2>2, <2>4, FlushedMoves, MovedType
<1>. QED BY <1>2, <1>3

LEMMA OpenMoves ==
  ASSUME TypeOK, Open
  PROVE  /\ session = None /\ jobs["stream"] = None
         /\ session' = [names |-> wanted, upto |-> made] /\ session' \in Sessions
         /\ session'.names = wanted /\ session'.upto = made
         /\ Moves("stream", Reading("catchup", wanted))
         /\ UNCHANGED <<asks, made, recorded, said, named, standing, backfilled, streams, wanted,
                        pending, last, first, left>>
  BY JobsMade DEF Open, Idle, Moves, TypeOK, Sessions, world, lake, memory, heard

LEMMA CatchUpMoves ==
  ASSUME TypeOK, CatchUp
  PROVE  /\ jobs["stream"] # None /\ jobs["stream"].at = "catchup"
         /\ \E p \in jobs["stream"].todo :
              /\ Moves("stream", [jobs["stream"] EXCEPT !.todo = @ \ {p}])
              /\ \/ /\ p \in streams /\ last[p] # 0
                    /\ pending' = pending \cup After(p, last[p])
                    /\ last' = [last EXCEPT ![p] = made[p]]
                    /\ UNCHANGED <<said, left>>
                 \/ /\ p \notin streams \/ last[p] = 0
                    /\ UNCHANGED <<said, left, pending, last>>
                 \/ /\ p \in streams /\ last[p] # 0
                    /\ Spend("history")
                    /\ said' = said \cup After(p, last[p])
                    /\ UNCHANGED <<pending, last>>
         /\ UNCHANGED <<asks, made, recorded, named, standing, backfilled, streams, wanted, session, first>>
<1>1. /\ jobs["stream"] # None /\ jobs["stream"].at = "catchup"
      /\ UNCHANGED <<asks, made, recorded, named, standing, backfilled, streams, wanted, session, first>>
  BY DEF CatchUp, At, world, memory, stream
<1>2. JobsOK /\ "stream" \in Tasks
  BY DEF TypeOK, JobsOK, Tasks
<1>3. PICK p \in jobs["stream"].todo :
        /\ \/ Hear(p, CaughtUp(p)) /\ UNCHANGED <<said, left>>
           \/ /\ p \in streams /\ last[p] # 0
              /\ Spend("history")
              /\ said' = said \cup After(p, last[p])
              /\ UNCHANGED <<pending, last>>
        /\ jobs' = [jobs EXCEPT !["stream"].todo = @ \ {p}]
  BY Zenon DEF CatchUp, At
<1>4. Moves("stream", [jobs["stream"] EXCEPT !.todo = @ \ {p}])
  BY <1>1, <1>2, <1>3, LessMade DEF Moves
<1>5. p \in Products
  BY <1>1, <1>2, JobIs
<1>6. CASE Hear(p, CaughtUp(p)) /\ UNCHANGED <<said, left>>
  <2>1. CASE p \in streams /\ last[p] # 0
    <3>1. CaughtUp(p) = After(p, last[p])
      BY <2>1 DEF CaughtUp
    <3>2. last \in [Products -> 0 .. MaxTrade] /\ made \in [Products -> 0 .. MaxTrade]
          /\ last[p] <= made[p]
      BY <1>5 DEF TypeOK
    <3>3. CASE After(p, last[p]) = {}
      <4>1. last[p] = made[p]
        <5>1. last[p] \in Nat /\ made[p] \in Nat
          BY <3>2, <1>5, FeedAssumption
        <5>2. last[p] < made[p] => <<p, made[p]>> \in After(p, last[p])
          BY <5>1 DEF After
        <5>. QED BY <5>1, <5>2, <3>2, <3>3
      <4>2. last' = last
        BY <1>6, <3>1, <3>3 DEF Hear
      <4>3. last' = [last EXCEPT ![p] = made[p]]
        BY <4>1, <4>2, <3>2
      <4>. QED BY <1>1, <1>3, <1>4, <1>6, <2>1, <3>1, <4>3 DEF Hear
    <3>4. CASE After(p, last[p]) # {}
      <4>1. last' = [last EXCEPT ![p] = made[p]]
        BY <1>5, <1>6, <3>1, <3>2, <3>4, HigherIs DEF Hear
      <4>. QED BY <1>1, <1>3, <1>4, <1>6, <2>1, <3>1, <4>1 DEF Hear
    <3>. QED BY <3>3, <3>4
  <2>2. CASE ~(p \in streams /\ last[p] # 0)
    <3>1. CaughtUp(p) = {}
      BY <2>2 DEF CaughtUp
    <3>. QED BY <1>1, <1>3, <1>4, <1>6, <2>2, <3>1 DEF Hear
  <2>. QED BY <2>1, <2>2
<1>7. CASE /\ p \in streams /\ last[p] # 0
           /\ Spend("history")
           /\ said' = said \cup After(p, last[p])
           /\ UNCHANGED <<pending, last>>
  BY <1>1, <1>3, <1>4, <1>7
<1>. QED BY <1>3, <1>6, <1>7

\* A message of the session: not heard, heard and kept, or heard and sent.
MessageMoves(p) ==
    LET n == session.upto[p] + 1 IN
    /\ session # None /\ jobs["stream"] = None
    /\ p \in session.names /\ session.upto[p] < made[p]
    /\ session' = [session EXCEPT !.upto[p] = n]
    /\ \/ /\ p \notin streams \/ n <= last[p]
          /\ UNCHANGED <<pending, last, first, jobs>>
       \/ /\ p \in streams /\ n > last[p]
          /\ last' = [last EXCEPT ![p] = n]
          /\ first' = IF first[p] # 0 THEN first ELSE FirstOf(p, n)
          /\ \/ pending' = {} /\ Moves("stream", Sending(pending \cup {<<p, n>>}))
             \/ pending' = pending \cup {<<p, n>>} /\ jobs' = jobs
    /\ UNCHANGED <<asks, made, recorded, said, named, standing, backfilled, streams, wanted, left>>

LEMMA MessageIs ==
  ASSUME TypeOK, NEW p \in Products, Message(p)
  PROVE  /\ MessageMoves(p)
         /\ session \in Sessions /\ session.upto[p] + 1 \in 1 .. MaxTrade
         /\ session.upto[p] + 1 <= made[p]
<1>. DEFINE n == session.upto[p] + 1
            new == IF p \in streams /\ n > last[p] THEN {<<p, n>>} ELSE {}
<1>1. /\ session # None /\ jobs["stream"] = None
      /\ p \in session.names /\ session.upto[p] < made[p]
      /\ UNCHANGED <<asks, made, recorded, said, named, standing, backfilled, streams, wanted, left>>
  BY DEF Message, Idle, world, lake, memory
<1>2. session \in Sessions /\ made[p] \in 0 .. MaxTrade /\ last[p] \in 0 .. MaxTrade
  BY <1>1 DEF TypeOK, Sessions
<1>3. session.upto[p] \in 0 .. MaxTrade
  BY <1>2 DEF Sessions
<1>4. n \in 1 .. MaxTrade /\ n <= made[p]
  BY <1>1, <1>2, <1>3, FeedAssumption
<1>5. /\ session' = [session EXCEPT !.upto[p] = n]
      /\ last' = IF new = {} THEN last ELSE [last EXCEPT ![p] = n]
      /\ first' = IF new = {} \/ first[p] # 0 THEN first ELSE FirstOf(p, n)
      /\ \/ new # {} /\ pending' = {} /\ jobs' = [jobs EXCEPT !["stream"] = Sending(pending \cup new)]
         \/ pending' = pending \cup new /\ UNCHANGED jobs
  BY Zenon DEF Message
<1>6. CASE p \in streams /\ n > last[p]
  <2>1. new = {<<p, n>>}
    BY <1>6
  <2>2. pending \cup {<<p, n>>} \subseteq Trades
    BY <1>4 DEF TypeOK, Trades
  <2>3. Sending(pending \cup {<<p, n>>}) \in Jobs
    BY <2>2, JobsMade
  <2>. HIDE DEF new
  <2>4. {<<p, n>>} # {}
    OBVIOUS
  <2>5. last' = [last EXCEPT ![p] = n] /\ first' = IF first[p] # 0 THEN first ELSE FirstOf(p, n)
    BY <1>5, <2>1, <2>4
  <2>6. \/ pending' = {} /\ Moves("stream", Sending(pending \cup {<<p, n>>}))
        \/ pending' = pending \cup {<<p, n>>} /\ jobs' = jobs
    BY <1>5, <2>1, <2>3 DEF Moves
  <2>. QED BY <1>1, <1>2, <1>4, <1>5, <1>6, <2>5, <2>6 DEF MessageMoves
<1>7. CASE ~(p \in streams /\ n > last[p])
  <2>1. new = {}
    BY <1>7
  <2>2. n <= last[p] \/ p \notin streams
    BY <1>7, <1>2, <1>4, FeedAssumption
  <2>3. UNCHANGED <<pending, last, first, jobs>>
    <3>. HIDE DEF n
    <3>. QED BY <1>5, <2>1
  <2>. QED BY <1>1, <1>2, <1>4, <1>5, <2>2, <2>3 DEF MessageMoves
<1>. QED BY <1>6, <1>7

\* What is known of the session after one.
LEMMA MessageSession ==
  ASSUME session \in Sessions, NEW p \in Products, NEW n \in 1 .. MaxTrade,
         session' = [session EXCEPT !.upto[p] = n]
  PROVE  /\ session' \in Sessions /\ session'.names = session.names
         /\ \A q \in Products : session'.upto[q] = IF q = p THEN n ELSE session.upto[q]
<1>1. session.upto \in [Products -> 0 .. MaxTrade]
  BY DEF Sessions
<1>2. session' = [session EXCEPT !.upto = [session.upto EXCEPT ![p] = n]]
  OBVIOUS
<1>. DEFINE u == [session.upto EXCEPT ![p] = n]
<1>3. u \in [Products -> 0 .. MaxTrade] /\ \A q \in Products : u[q] = IF q = p THEN n ELSE session.upto[q]
  BY <1>1
<1>. HIDE DEF u
<1>4. session' = [session EXCEPT !.upto = u]
  BY <1>2 DEF u
<1>. QED BY <1>3, <1>4 DEF Sessions

LEMMA StreamType ==
  ASSUME TypeOK, VenueOK',
         \/ Open \/ CatchUp \/ Reopen \/ Drop
         \/ \E p \in Products : Message(p)
  PROVE  TypeOK'
<1>0. /\ JobsOK /\ pending \subseteq Trades /\ said \subseteq Trades /\ left \in [Mishaps -> Nat]
      /\ made \in [Products -> 0 .. MaxTrade] /\ last \in [Products -> 0 .. MaxTrade]
      /\ \A p \in Products : last[p] <= made[p]
      /\ first \in [Products -> 0 .. MaxTrade]
      /\ "stream" \in Tasks
  BY DEF TypeOK, VenueOK, JobsOK, Tasks
<1>1. CASE Open
  <2>1. JobsOK'
    BY <1>0, <1>1, OpenMoves, MovesOne
  <2>2. session' \in Sessions /\ UNCHANGED <<asks, made, recorded, said, named, standing, backfilled, streams,
             wanted, pending, last, first, left>>
    BY <1>1, OpenMoves
  <2>. QED BY <2>1, <2>2 DEF TypeOK, VenueOK, JobsOK, Sessions
<1>2. CASE CatchUp
  <2>1. PICK p \in jobs["stream"].todo :
              /\ Moves("stream", [jobs["stream"] EXCEPT !.todo = @ \ {p}])
              /\ \/ /\ pending' = pending \cup After(p, last[p])
                    /\ last' = [last EXCEPT ![p] = made[p]]
                    /\ UNCHANGED <<said, left>>
                 \/ UNCHANGED <<said, left, pending, last>>
                 \/ /\ Spend("history")
                    /\ said' = said \cup After(p, last[p])
                    /\ UNCHANGED <<pending, last>>
    BY <1>2, CatchUpMoves
  <2>2. p \in Products
    BY <1>0, <1>2, JobIs, CatchUpMoves
  <2>3. JobsOK'
    BY <1>0, <2>1, MovesOne
  <2>4. After(p, last[p]) \subseteq Trades
    BY <1>0, <2>2, AfterIn, FeedAssumption
  <2>5. pending' \subseteq Trades /\ said' \subseteq Trades
    BY <1>0, <2>1, <2>4
  <2>6. left' \in [Mishaps -> Nat]
    BY <1>0, <2>1, SpendType DEF Mishaps
  <2>7. last' \in [Products -> 0 .. MaxTrade] /\ \A q \in Products : last'[q] <= made[q]
    <3>1. made[p] <= made[p]
      BY <1>0, <2>2, FeedAssumption
    <3>. QED BY <1>0, <2>1, <2>2, <3>1
  <2>8. UNCHANGED <<asks, made, recorded, named, standing, backfilled, streams, wanted, session, first>>
    BY <1>2, CatchUpMoves
  <2>. QED BY <2>3, <2>5, <2>6, <2>7, <2>8 DEF TypeOK, VenueOK, JobsOK
<1>3. CASE Reopen
  BY <1>3 DEF TypeOK, VenueOK, Reopen, world, lake, memory, heard
<1>4. CASE Drop
  BY <1>0, <1>4, SpendType DEF TypeOK, VenueOK, Drop, Mishaps, world, lake, memory, heard
<1>5. CASE \E p \in Products : Message(p)
  <2>1. PICK p \in Products : Message(p)
    BY <1>5
  <2>. DEFINE n == session.upto[p] + 1
  <2>2. MessageMoves(p) /\ session \in Sessions /\ n \in 1 .. MaxTrade /\ n <= made[p]
    BY <2>1, MessageIs
  <2>3. session' \in Sessions
    BY <2>2, MessageSession DEF MessageMoves
  <2>. HIDE DEF n
  <2>4. UNCHANGED <<asks, made, recorded, said, named, standing, backfilled, streams, wanted, left>>
    BY <2>2 DEF MessageMoves
  <2>5. last' \in [Products -> 0 .. MaxTrade] /\ \A q \in Products : last'[q] <= made[q]
    BY <1>0, <2>2, FeedAssumption DEF MessageMoves, n
  <2>6. first' \in [Products -> 0 .. MaxTrade]
    BY <1>0, <2>2, FirstOfType DEF MessageMoves, n
  <2>7. pending' \subseteq Trades
    BY <1>0, <2>2 DEF MessageMoves, n, Trades
  <2>8. JobsOK'
    <3>1. CASE jobs' = jobs
      BY <1>0, <3>1 DEF JobsOK
    <3>2. CASE jobs' # jobs
      BY <1>0, <2>2, <3>2, MovesOne DEF MessageMoves
    <3>. QED BY <3>1, <3>2
  <2>. QED BY <2>3, <2>4, <2>5, <2>6, <2>7, <2>8 DEF TypeOK, VenueOK, JobsOK, Sessions
<1>. QED BY <1>1, <1>2, <1>3, <1>4, <1>5

LEMMA TypeStep ==
  ASSUME TypeOK, [Next]_vars
  PROVE  TypeOK'
<1>0. "hear" \in Tasks /\ "pass" \in Tasks
  BY DEF Tasks
<1>1. CASE UNCHANGED vars
  BY <1>1 DEF vars, TypeOK
<1>2. CASE Next
  <2>0. VenueOK'
    BY <1>2, VenueType
  <2>1. CASE Deployment \/ Crash
    BY <2>0, <2>1, WorldType DEF Deployment
  <2>2. CASE \E t \in {"hear", "pass"} : Restreaming(t)
    <3>1. PICK t \in Tasks : Restreaming(t)
      BY <1>0, <2>2
    <3>. QED BY <3>1, <2>0, AskVenueType, NameType, LakeType, ReadLakeType, ReadHistoryType, RecordMissedType DEF Restreaming
  <2>3. CASE \E t \in Tasks : \E w : Begins(t, w)
    BY <2>0, <2>3, BeginsType
  <2>4. CASE \E t \in Tasks : Takes(t) \/ Flushed(t)
    BY <2>0, <2>4, SendsType
  <2>5. CASE Open \/ CatchUp \/ Reopen \/ Drop \/ \E p \in Products : Message(p)
    BY <2>0, <2>5, StreamType
  <2>6. CASE Listing
    BY <2>0, <2>6, ListingType
  <2>. QED BY <1>2, <2>6, <2>1, <2>2, <2>3, <2>4, <2>5, Steps
<1>. QED BY <1>1, <1>2

\* The feed keeps to its types, and hears no trade the venue has not made.
THEOREM TypeCorrect == Spec => []TypeOK
<1>1. Init => TypeOK
  BY InitType
<1>2. TypeOK /\ [Next]_vars => TypeOK'
  BY TypeStep
<1>. QED BY <1>1, <1>2, PTL DEF Spec

-----------------------------------------------------------------------------
(* What stands, and what is on the stream. *)

LEMMA InitCalm == Init /\ Steady => Calm
  BY DEF Init, Steady, Calm, Lasting

\* No budget grows.
Falls == \A m \in Mishaps : left'[m] <= left[m]

LEMMA FallsSpent ==
  ASSUME TypeOK, left' = left \/ \E m \in Mishaps : Spend(m)
  PROVE  Falls
<1>1. \A m \in Mishaps : left[m] \in Nat
  BY DEF TypeOK
<1>2. CASE left' = left
  BY <1>1, <1>2 DEF Falls
<1>3. CASE \E m \in Mishaps : Spend(m)
  BY <1>1, <1>3, SpendType DEF Falls, TypeOK
<1>. QED BY <1>2, <1>3

\* Only the deployment asks and withdraws.
LEMMA Asked ==
  ASSUME TypeOK, Next, ~Deployment
  PROVE  asks' = asks /\ Falls
<1>0. "hear" \in Tasks /\ "pass" \in Tasks
  BY DEF Tasks
<1>1. CASE Crash
  BY <1>1, FallsSpent DEF Crash, world, Mishaps
<1>2. ASSUME NEW t \in {"hear", "pass"}, Restreaming(t)
      PROVE  asks' = asks /\ Falls
  <2>0. t \in Tasks /\ JobsOK
    BY <1>0 DEF TypeOK, JobsOK
  <2>1. CASE AskVenue(t) \/ Name(t)
    BY <2>0, <2>1, AskVenueMoves, NameMoves, FallsSpent
  <2>2. CASE NameFails(t) \/ LakeFails(t)
    BY <2>2, FallsSpent DEF NameFails, At, LakeFails, world, Mishaps
  <2>3. CASE ReadLake(t)
    BY <2>0, <2>3, ReadLakeMoves, FallsSpent
  <2>4. CASE ReadHistory(t)
    <3>1. left' = left \/ Spend("history")
      BY <2>0, <2>4, ReadHistoryMoves DEF Reads, PassesOver
    <3>. QED BY <2>0, <2>4, <3>1, ReadHistoryMoves, FallsSpent DEF Mishaps
  <2>5. CASE RecordMissed(t)
    BY <2>0, <2>5, RecordMissedMoves, FallsSpent DEF Mishaps
  <2>. QED BY <1>2, <2>1, <2>2, <2>3, <2>4, <2>5 DEF Restreaming
<1>3. ASSUME NEW t \in Tasks, NEW w, Begins(t, w)
      PROVE  asks' = asks /\ Falls
  BY <1>3, BeginsMoves, FallsSpent DEF Mishaps
<1>4. ASSUME NEW t \in Tasks, Takes(t) \/ Flushed(t)
      PROVE  asks' = asks /\ Falls
  BY <1>4, TakesMoves, FlushedMoves, FallsSpent DEF Mishaps
<1>5. CASE Open
  BY <1>5, OpenMoves, FallsSpent
<1>6. CASE CatchUp
  <2>1. left' = left \/ Spend("history")
    BY <1>6, CatchUpMoves
  <2>. QED BY <1>6, <2>1, CatchUpMoves, FallsSpent DEF Mishaps
<1>7. CASE Reopen \/ Drop
  BY <1>7, FallsSpent DEF Reopen, Drop, world, lake, memory, heard, Mishaps
<1>8. ASSUME NEW p \in Products, Message(p)
      PROVE  asks' = asks /\ Falls
  BY <1>8, MessageIs, FallsSpent DEF MessageMoves
<1>9. CASE Listing
  BY <1>9, ListingMoves, FallsSpent DEF Mishaps
<1>. QED BY <1>1, <1>2, <1>3, <1>4, <1>5, <1>6, <1>7, <1>8, <1>9, Steps

LEMMA PutAt ==
  ASSUME JobsOK, NEW t \in Tasks, NEW S \in SUBSET Products, Put(t, S)
  PROVE  /\ JobsOK' /\ \A u \in Tasks \ {t} : jobs'[u] = jobs[u]
         /\ jobs'[t] # None => jobs'[t].at = "lake" /\ jobs'[t].subjects = {} /\ jobs'[t].trades = {} /\ jobs'[t].lasts = {}
<1>1. CASE Moves(t, None)
  BY <1>1, MovesOne
<1>2. CASE Moves(t, Reading("lake", S \ backfilled))
  <2>1. JobsOK' /\ \A u \in Tasks : jobs'[u] = IF u = t THEN Reading("lake", S \ backfilled) ELSE jobs[u]
    BY <1>2, MovesOne
  <2>2. Reading("lake", S \ backfilled).at = "lake" /\ Reading("lake", S \ backfilled).trades = {}
        /\ Reading("lake", S \ backfilled).lasts = {} /\ Reading("lake", S \ backfilled).subjects = {}
    BY DEF Reading, Waiting
  <2>. QED BY <2>1, <2>2
<1>. QED BY <1>1, <1>2, PutMoves

LEMMA ReadsOnAt ==
  ASSUME JobsOK, NEW t \in Tasks, NEW lasts, ReadsOn(t, lasts)
  PROVE  /\ JobsOK' /\ \A u \in Tasks \ {t} : jobs'[u] = jobs[u]
         /\ jobs'[t] # None => jobs'[t].at = "history" /\ jobs'[t].subjects = {} /\ jobs'[t].trades = {} /\ jobs'[t].lasts = lasts
<1>. DEFINE j == [Reading("history", {}) EXCEPT !.lasts = lasts]
<1>1. j.at = "history" /\ j.subjects = {} /\ j.trades = {} /\ j.lasts = lasts
  BY DEF Reading, Waiting
<1>. HIDE DEF j
<1>2. CASE Moves(t, None)
  BY <1>2, MovesOne
<1>3. CASE Moves(t, j)
  <2>1. JobsOK' /\ \A u \in Tasks : jobs'[u] = IF u = t THEN j ELSE jobs[u]
    BY <1>3, MovesOne
  <2>. QED BY <1>1, <2>1
<1>. QED BY <1>2, <1>3 DEF ReadsOn, j

LEMMA WaitingIs ==
  ASSUME NEW at, NEW S, NEW todo
  PROVE  /\ Waiting(at, S, todo).at = at /\ Waiting(at, S, todo).subjects = S
         /\ Waiting(at, S, todo).todo = todo
         /\ Waiting(at, S, todo).trades = {} /\ Waiting(at, S, todo).lasts = {}
  BY DEF Waiting

LEMMA ReadingIs ==
  ASSUME NEW at, NEW todo
  PROVE  /\ Reading(at, todo).at = at /\ Reading(at, todo).subjects = {} /\ Reading(at, todo).todo = todo
         /\ Reading(at, todo).trades = {} /\ Reading(at, todo).lasts = {}
  BY WaitingIs DEF Reading

LEMMA SendingIs ==
  ASSUME NEW trades
  PROVE  /\ Sending(trades).at = "send" /\ Sending(trades).subjects = {}
         /\ Sending(trades).trades = trades /\ Sending(trades).lasts = {}
  BY DEF Sending, Reading, Waiting

\* What a task waits at after a step: of a restream, what it had, or what stands
\* now; it carries trades only to record or to send them, and names only what is to
\* be put on the stream.
Await(u) ==
    jobs'[u] # None =>
        /\ jobs'[u].subjects # {} =>
            \/ jobs[u] # None /\ jobs'[u].subjects = jobs[u].subjects
            \/ u \in {"hear", "pass"} /\ jobs'[u].subjects = Subjects(standing')
        /\ jobs'[u].at \notin {"record", "send"} => jobs'[u].trades = {}
        /\ jobs'[u].at = "name" => jobs'[u].subjects # {}

LEMMA AwaitSame ==
  ASSUME Carries, NEW u \in Tasks, jobs'[u] = jobs[u]
  PROVE  Await(u)
  BY DEF Await, Carries

LEMMA AwaitOther ==
  ASSUME Carries, JobsOK, NEW t \in Tasks, NEW j, Moves(t, j),
         j # None => j.at # "name" /\ j.subjects = {} /\ (j.at \notin {"record", "send"} => j.trades = {})
  PROVE  \A u \in Tasks : Await(u)
<1>1. \A u \in Tasks : jobs'[u] = IF u = t THEN j ELSE jobs[u]
  BY MovesOne
<1>2. ASSUME NEW u \in Tasks PROVE Await(u)
  <2>1. CASE u = t
    BY <1>1, <2>1 DEF Await
  <2>2. CASE u # t
    BY <1>1, <2>2, AwaitSame
  <2>. QED BY <2>1, <2>2
<1>. QED BY <1>2

LEMMA AwaitPut ==
  ASSUME Carries, JobsOK, NEW t \in Tasks, NEW S \in SUBSET Products, Put(t, S)
  PROVE  \A u \in Tasks : Await(u)
<1>1. ASSUME NEW u \in Tasks PROVE Await(u)
  <2>1. CASE u = t
    BY <2>1, PutAt DEF Await
  <2>2. CASE u # t
    BY <2>2, PutAt, AwaitSame
  <2>. QED BY <2>1, <2>2
<1>. QED BY <1>1

LEMMA AwaitReadsOn ==
  ASSUME Carries, JobsOK, NEW t \in Tasks, NEW lasts, ReadsOn(t, lasts)
  PROVE  \A u \in Tasks : Await(u)
<1>1. ASSUME NEW u \in Tasks PROVE Await(u)
  <2>1. CASE u = t
    BY <2>1, ReadsOnAt DEF Await
  <2>2. CASE u # t
    BY <2>2, ReadsOnAt, AwaitSame
  <2>. QED BY <2>1, <2>2
<1>. QED BY <1>1

LEMMA AwaitWaits ==
  ASSUME Carries, JobsOK, NEW t \in Tasks, NEW S \in SUBSET Products, Put(t, S) \/ Waits(t, S),
         \/ t \in {"hear", "pass"} /\ S = Subjects(standing')
         \/ jobs[t] # None /\ S = jobs[t].subjects
  PROVE  \A u \in Tasks : Await(u)
<1>1. CASE Put(t, S)
  BY <1>1, AwaitPut
<1>2. CASE Waits(t, S)
  <2>1. PICK at \in {"venue", "name"} : \E todo \in SUBSET Products : Moves(t, Waiting(at, S, todo)) /\ S # {}
    BY <1>2 DEF Waits
  <2>2. PICK todo \in SUBSET Products : Moves(t, Waiting(at, S, todo)) /\ S # {}
    BY <2>1
  <2>. DEFINE j == Waiting(at, S, todo)
  <2>3. j.at = at /\ j.subjects = S /\ j.trades = {}
    BY WaitingIs
  <2>. HIDE DEF j
  <2>4. \A u \in Tasks : jobs'[u] = IF u = t THEN j ELSE jobs[u]
    BY <2>2, MovesOne DEF j
  <2>5. Await(t)
    BY <2>2, <2>3, <2>4 DEF Await
  <2>6. ASSUME NEW u \in Tasks, u # t PROVE Await(u)
    BY <2>4, <2>6, AwaitSame
  <2>. QED BY <2>5, <2>6
<1>. QED BY <1>1, <1>2

LEMMA Awaits ==
  ASSUME TypeOK, Carries, [Next]_vars
  PROVE  \A u \in Tasks : Await(u)
<1>0. JobsOK /\ "hear" \in Tasks /\ "pass" \in Tasks /\ "stream" \in Tasks
  BY DEF TypeOK, JobsOK, Tasks
<1>1. CASE jobs' = jobs
  BY <1>1, AwaitSame
<1>2. CASE Crash
  BY <1>2 DEF Crash, NoJob, Await
<1>3. ASSUME NEW t \in Tasks, Restreaming(t), t \in {"hear", "pass"}
      PROVE  \A u \in Tasks : Await(u)
  <2>0. CASE AskVenue(t)
    <3>1. jobs[t] # None /\ standing' = standing
      BY <2>0, AskVenueMoves
    <3>2. PICK S \in SUBSET Products :
            /\ S = Subjects(standing) \/ (S # {} /\ S = jobs[t].subjects)
            /\ Put(t, S) \/ Waits(t, S)
      BY <2>0, AskVenueMoves
    <3>3. Subjects(standing') = Subjects(standing)
      BY <3>1 DEF Subjects
    <3>. QED BY <1>0, <1>3, <3>1, <3>2, <3>3, AwaitWaits
  <2>1. CASE Name(t)
    <3>1. jobs[t] # None /\ jobs[t].at = "name" /\ jobs[t].subjects \in SUBSET Products
      BY <1>0, <2>1, NameMoves, JobIs
    <3>2. CASE Put(t, jobs[t].subjects)
      BY <1>0, <3>1, <3>2, AwaitPut
    <3>3. CASE \E rest \in SUBSET jobs[t].todo : Moves(t, [jobs[t] EXCEPT !.todo = rest])
      <4>1. PICK rest \in SUBSET jobs[t].todo : Moves(t, [jobs[t] EXCEPT !.todo = rest])
        BY <3>3
      <4>. DEFINE j == [jobs[t] EXCEPT !.todo = rest]
      <4>2. j.at = "name" /\ j.subjects = jobs[t].subjects /\ j.trades = jobs[t].trades
        BY <1>0, <3>1, SomeMade
      <4>. HIDE DEF j
      <4>3. \A u \in Tasks : jobs'[u] = IF u = t THEN j ELSE jobs[u]
        BY <1>0, <4>1, MovesOne DEF j
      <4>4. Await(t)
        <5>1. jobs[t].trades = {} /\ jobs[t].subjects # {}
          BY <3>1 DEF Carries
        <5>. QED BY <3>1, <4>2, <4>3, <5>1 DEF Await
      <4>5. ASSUME NEW u \in Tasks, u # t PROVE Await(u)
        BY <4>3, <4>5, AwaitSame
      <4>. QED BY <4>4, <4>5
    <3>. QED BY <1>0, <2>1, <3>2, <3>3, NameMoves
  <2>2. CASE NameFails(t) \/ LakeFails(t)
    <3>1. Moves(t, None)
      BY <2>2 DEF NameFails, At, LakeFails, Ends, Over, Moves
    <3>. QED BY <1>0, <3>1, AwaitOther
  <2>3. CASE ReadLake(t)
    BY <1>0, <2>3, ReadLakeMoves, AwaitReadsOn
  <2>4. CASE ReadHistory(t)
    <3>1. PICK r \in jobs[t].lasts : Reads(t, r) \/ PassesOver(t, r)
      BY <2>4, ReadHistoryMoves
    <3>2. CASE PassesOver(t, r)
      BY <1>0, <3>2, AwaitReadsOn DEF PassesOver
    <3>3. CASE Reads(t, r)
      <4>. DEFINE j == [Reading("record", {}) EXCEPT !.lasts = jobs[t].lasts \ {r}, !.trades = After(r[1], r[2])]
      <4>1. j.at = "record" /\ j.subjects = {}
        BY DEF Reading, Waiting
      <4>. HIDE DEF j
      <4>2. Moves(t, j)
        BY <3>3 DEF Reads, j
      <4>. QED BY <1>0, <4>1, <4>2, AwaitOther
    <3>. QED BY <3>1, <3>2, <3>3
  <2>5. CASE RecordMissed(t)
    <3>1. CASE ReadsOn(t, jobs[t].lasts)
      BY <1>0, <3>1, AwaitReadsOn
    <3>2. CASE Moves(t, None)
      BY <1>0, <3>2, AwaitOther
    <3>. QED BY <2>5, <3>1, <3>2, RecordMissedMoves
  <2>. QED BY <1>3, <2>0, <2>1, <2>2, <2>3, <2>4, <2>5 DEF Restreaming
<1>4. ASSUME NEW t \in Tasks, NEW w, Begins(t, w)
      PROVE  \A u \in Tasks : Await(u)
  <2>. DEFINE S == Subjects(standing')
  <2>1. S \in SUBSET Products /\ standing' \in SUBSET Wants /\ Restream(t, standing') /\ t \in {"hear", "pass"}
    BY <1>4, BeginsMoves, SubjectsIn
  <2>2. Put(t, S) \/ Waits(t, S)
    BY <2>1, RestreamMoves
  <2>. QED BY <1>0, <2>1, <2>2, AwaitWaits
<1>5. ASSUME NEW t \in Tasks, Takes(t) \/ Flushed(t)
      PROVE  \A u \in Tasks : Await(u)
  <2>1. Moves(t, Sending(pending)) \/ Moves(t, None)
    BY <1>5, TakesMoves, FlushedMoves
  <2>. QED BY <1>0, <2>1, SendingIs, AwaitOther
<1>6. CASE Open
  <2>1. Moves("stream", Reading("catchup", wanted))
    BY <1>6, OpenMoves
  <2>. QED BY <1>0, <2>1, ReadingIs, AwaitOther
<1>7. CASE CatchUp
  <2>0. jobs["stream"] # None /\ jobs["stream"].at = "catchup"
    BY <1>7, CatchUpMoves
  <2>1. PICK p \in jobs["stream"].todo : Moves("stream", [jobs["stream"] EXCEPT !.todo = @ \ {p}])
    BY <1>7, CatchUpMoves
  <2>. DEFINE j == [jobs["stream"] EXCEPT !.todo = @ \ {p}]
  <2>2. j.at = "catchup" /\ j.trades = jobs["stream"].trades /\ j.subjects = jobs["stream"].subjects
    BY <1>0, <2>0, LessMade
  <2>3. jobs["stream"].trades = {}
    BY <1>0, <2>0 DEF Carries
  <2>. HIDE DEF j
  <2>4. Moves("stream", j)
    BY <2>1 DEF j
  <2>5. \A u \in Tasks : jobs'[u] = IF u = "stream" THEN j ELSE jobs[u]
    BY <1>0, <2>4, MovesOne
  <2>6. Await("stream")
    BY <1>0, <2>0, <2>2, <2>3, <2>5 DEF Await
  <2>7. ASSUME NEW u \in Tasks, u # "stream" PROVE Await(u)
    BY <2>5, <2>7, AwaitSame
  <2>. QED BY <2>6, <2>7
<1>8. ASSUME NEW p \in Products, Message(p)
      PROVE  \A u \in Tasks : Await(u)
  <2>1. jobs' = jobs \/ Moves("stream", Sending(pending \cup {<<p, session.upto[p] + 1>>}))
    BY <1>8, MessageIs DEF MessageMoves
  <2>. QED BY <1>0, <1>1, <2>1, SendingIs, AwaitOther
<1>9. CASE Deployment \/ Reopen \/ Drop \/ UNCHANGED vars
  <2>1. jobs' = jobs
    BY <1>9 DEF Deployment, Ask, Retract, Trade, Reopen, Drop, vars
  <2>. QED BY <2>1, <1>1
<1>10. CASE Listing
  <2>1. \E at \in {"list", "venue"} : Moves("pass", Reading(at, {}))
    BY <1>10, ListingMoves
  <2>. QED BY <1>0, <2>1, ReadingIs, AwaitOther
<1>. QED
  <2>1. "hear" \in Tasks /\ "pass" \in Tasks
    BY DEF Tasks
  <2>2. CASE \E t \in {"hear", "pass"} : Restreaming(t)
    BY <2>1, <2>2, <1>3
  <2>. QED BY <1>2, <2>2, <1>4, <1>5, <1>6, <1>7, <1>8, <1>9, <1>10, Steps

LEMMA CarriesStep ==
  ASSUME TypeOK, Carries, [Next]_vars
  PROVE  Carries'
  BY Awaits DEF Await, Carries

\* What the deployment does.
LEMMA DeploymentIs ==
  ASSUME TypeOK, Deployment
  PROVE  /\ \/ \E w \in Wants : asks[w] = "new" /\ Spend("ask") /\ asks' = [asks EXCEPT ![w] = "asked"]
            \/ \E w \in Wants : asks[w] = "asked" /\ Spend("withdraw") /\ asks' = [asks EXCEPT ![w] = "withdrawn"]
            \/ asks' = asks
         /\ Falls
         /\ made' \in [Products -> Nat] /\ \A p \in Products : made[p] <= made'[p]
         /\ UNCHANGED <<recorded, said, named, standing, backfilled, streams, wanted, session, pending,
                        last, first, jobs>>
<1>0. /\ "ask" \in Mishaps /\ "withdraw" \in Mishaps /\ "trade" \in Mishaps
      /\ made \in [Products -> Nat]
  BY FeedAssumption DEF Mishaps, TypeOK
<1>1. \A p \in Products : made[p] <= made[p]
  BY <1>0
<1>2. ASSUME NEW w \in Wants, Ask(w)
      PROVE  /\ asks[w] = "new" /\ Spend("ask") /\ asks' = [asks EXCEPT ![w] = "asked"] /\ made' = made
             /\ UNCHANGED <<recorded, said, named, standing, backfilled, streams, wanted, session, pending,
                            last, first, jobs>>
  BY <1>2 DEF Ask, lake, memory, stream, heard
<1>3. ASSUME NEW w \in Wants, Retract(w)
      PROVE  /\ asks[w] = "asked" /\ Spend("withdraw") /\ asks' = [asks EXCEPT ![w] = "withdrawn"]
             /\ made' = made
             /\ UNCHANGED <<recorded, said, named, standing, backfilled, streams, wanted, session, pending,
                            last, first, jobs>>
  BY <1>3 DEF Retract, lake, memory, stream, heard
<1>4. ASSUME NEW p \in Products, Trade(p)
      PROVE  /\ Spend("trade") /\ asks' = asks /\ made' = [made EXCEPT ![p] = @ + 1]
             /\ UNCHANGED <<recorded, said, named, standing, backfilled, streams, wanted, session, pending,
                            last, first, jobs>>
  BY <1>4 DEF Trade, lake, memory, stream, heard
<1>5. CASE \E w \in Wants : Ask(w)
  <2>1. PICK w \in Wants : Ask(w)
    BY <1>5
  <2>2. Falls
    BY <1>0, <1>2, <2>1, FallsSpent
  <2>. QED BY <1>0, <1>1, <1>2, <2>1, <2>2
<1>6. CASE \E w \in Wants : Retract(w)
  <2>1. PICK w \in Wants : Retract(w)
    BY <1>6
  <2>2. Falls
    BY <1>0, <1>3, <2>1, FallsSpent
  <2>. QED BY <1>0, <1>1, <1>3, <2>1, <2>2
<1>7. CASE \E p \in Products : Trade(p)
  <2>1. PICK p \in Products : Trade(p)
    BY <1>7
  <2>2. Falls
    BY <1>0, <1>4, <2>1, FallsSpent
  <2>3. made' \in [Products -> Nat] /\ \A q \in Products : made[q] <= made'[q]
    BY <1>0, <1>4, <2>1
  <2>. QED BY <1>4, <2>1, <2>2, <2>3
<1>. QED BY <1>5, <1>6, <1>7 DEF Deployment

LEMMA LastingStep ==
  ASSUME TypeOK, TypeOK', Lasting, Next
  PROVE  Lasting'
<1>0. "ask" \in Mishaps /\ "withdraw" \in Mishaps /\ left \in [Mishaps -> Nat] /\ left' \in [Mishaps -> Nat]
      /\ asks \in [Wants -> {"new", "asked", "withdrawn"}]
  BY DEF TypeOK, Mishaps
<1>1. Falls
  BY Asked, DeploymentIs
<1>2. left'["withdraw"] = 0
  BY <1>0, <1>1 DEF Falls, Lasting
<1>3. \A w \in Wants : asks'[w] # "withdrawn"
  <2>1. CASE ~Deployment
    BY <2>1, Asked DEF Lasting
  <2>2. CASE Deployment
    <3>1. ~Spend("withdraw")
      BY <1>0, SpendType DEF Lasting
    <3>. QED BY <1>0, <2>2, <3>1, DeploymentIs DEF Lasting
  <2>. QED BY <2>1, <2>2
<1>. QED BY <1>2, <1>3 DEF Lasting

LEMMA CalmStep ==
  ASSUME TypeOK, TypeOK', Calm, Next
  PROVE  Calm'
<1>1. Falls /\ "behind" \in Mishaps /\ left["behind"] \in Nat /\ left'["behind"] \in Nat
  BY Asked, DeploymentIs DEF Mishaps, TypeOK
<1>2. left'["behind"] = 0
  BY <1>1 DEF Falls, Calm
<1>3. OneEach \/ Lasting'
  BY LastingStep DEF Calm
<1>. QED BY <1>2, <1>3 DEF Calm, OneEach

\* What stands changes as wants are heard, and what is on the stream is then all
\* that stands.
StandsOn(t, w) ==
    /\ Begins(t, w) /\ t = "hear" /\ w \in Wants /\ asks[w] = "asked" /\ w \notin standing
    /\ standing' = standing \cup {w}
StandsDown(t, w) ==
    /\ Begins(t, w) /\ t = "hear" /\ w \in Wants /\ asks[w] = "withdrawn" /\ w \in standing
    /\ standing' = standing \ {w}

LEMMA StandingIs ==
  ASSUME TypeOK, [Next]_vars, ~Crash
  PROVE  standing' = standing \/ \E t \in Tasks : \E w : StandsOn(t, w) \/ StandsDown(t, w)
<1>1. CASE \E t \in Tasks : \E w : Begins(t, w)
  <2>1. PICK t \in Tasks : \E w : Begins(t, w)
    BY <1>1
  <2>2. PICK w : Begins(t, w)
    BY <2>1
  <2>. QED BY <2>2, BeginsMoves DEF StandsOn, StandsDown
<1>2. CASE \E t \in {"hear", "pass"} : Restreaming(t)
  <2>0. "hear" \in Tasks /\ "pass" \in Tasks
    BY DEF Tasks
  <2>1. PICK t \in Tasks : Restreaming(t)
    BY <1>2, <2>0
  <2>2. CASE NameFails(t) \/ LakeFails(t)
    BY <2>2 DEF NameFails, At, LakeFails, memory
  <2>3. CASE AskVenue(t) \/ Name(t)
    BY <2>3, AskVenueMoves, NameMoves DEF TypeOK, JobsOK
  <2>4. CASE ReadLake(t) \/ ReadHistory(t) \/ RecordMissed(t)
    BY <2>4, ReadLakeMoves, ReadHistoryMoves, RecordMissedMoves
  <2>. QED BY <2>1, <2>2, <2>3, <2>4 DEF Restreaming
<1>3. CASE \E t \in Tasks : Takes(t) \/ Flushed(t)
  BY <1>3, TakesMoves, FlushedMoves
<1>4. CASE Open \/ CatchUp \/ Reopen \/ Drop
  BY <1>4 DEF Open, CatchUp, Reopen, Drop, memory
<1>5. CASE \E p \in Products : Message(p)
  BY <1>5 DEF Message, memory
<1>6. CASE Deployment \/ UNCHANGED vars
  BY <1>6 DEF Deployment, Ask, Retract, Trade, vars, memory
<1>7. CASE Listing
  BY <1>7, ListingMoves
<1>. QED BY <1>1, <1>2, <1>3, <1>4, <1>5, <1>6, <1>7, Steps

\* A want is heard, and withdrawn, while no restream waits; and it is withdrawn
\* where it is the only one of its product.
LEMMA HearCalm ==
  ASSUME TypeOK, Calm, Stands, NEW t \in Tasks, NEW w, StandsOn(t, w) \/ StandsDown(t, w)
  PROVE  /\ \A u \in Tasks : jobs[u] # None => jobs[u].subjects = {}
         /\ StandsDown(t, w) => OneEach
<1>1. ~Spend("behind")
  BY DEF Calm, Spend
<1>2. Begins(t, w) /\ t = "hear" /\ standing' # standing
  BY DEF StandsOn, StandsDown
<1>3. jobs["hear"] = None /\ (jobs["pass"] # None => jobs["pass"].subjects = {})
  BY <1>1, <1>2, BeginsMoves
<1>4. ASSUME NEW u \in Tasks, jobs[u] # None PROVE jobs[u].subjects = {}
  BY <1>3, <1>4 DEF Stands
<1>5. StandsDown(t, w) => OneEach
  BY DEF StandsDown, Calm, Lasting
<1>. QED BY <1>4, <1>5

\* What is on the stream stays, or is all that stands; what it is to be
\* subscribed to stays, or is what is on it.
Streaming ==
    /\ streams' = streams \/ streams' = Subjects(standing')
    /\ wanted' = wanted \/ wanted' = streams'

LEMMA WaitsStreaming ==
  ASSUME JobsOK, NEW t \in Tasks, NEW S \in SUBSET Products, Put(t, S) \/ Waits(t, S), S = Subjects(standing')
  PROVE  Streaming
  BY PutMoves DEF Waits, Streaming

LEMMA StreamsAre ==
  ASSUME TypeOK, Carries, Stands, [Next]_vars, ~Crash
  PROVE  Streaming
<1>0. JobsOK
  BY DEF TypeOK, JobsOK
<1>1. ASSUME NEW t \in Tasks, NEW w, Begins(t, w)
      PROVE  Streaming
  <2>1. standing' \in SUBSET Wants /\ Restream(t, standing') /\ Subjects(standing') \in SUBSET Products
    BY <1>1, BeginsMoves, SubjectsIn
  <2>2. Put(t, Subjects(standing')) \/ Waits(t, Subjects(standing'))
    BY <2>1, RestreamMoves
  <2>. QED BY <1>0, <2>1, <2>2, WaitsStreaming
<1>2. ASSUME NEW t \in Tasks, AskVenue(t)
      PROVE  Streaming
  <2>1. jobs[t] # None /\ standing' = standing /\ Subjects(standing') = Subjects(standing)
    BY <1>2, AskVenueMoves DEF Subjects
  <2>2. PICK S \in SUBSET Products :
          /\ S = Subjects(standing) \/ (S # {} /\ S = jobs[t].subjects)
          /\ Put(t, S) \/ Waits(t, S)
    BY <1>2, AskVenueMoves
  <2>3. S = Subjects(standing')
    BY <2>1, <2>2 DEF Stands
  <2>. QED BY <1>0, <2>2, <2>3, WaitsStreaming
<1>3. ASSUME NEW t \in Tasks, Name(t)
      PROVE  Streaming
  <2>1. /\ jobs[t] # None /\ jobs[t].at = "name" /\ standing' = standing
        /\ jobs[t].subjects \in SUBSET Products /\ Subjects(standing') = Subjects(standing)
    BY <1>0, <1>3, NameMoves, JobIs DEF Subjects
  <2>2. jobs[t].subjects = Subjects(standing')
    BY <2>1 DEF Stands, Carries
  <2>3. CASE Put(t, jobs[t].subjects)
    BY <1>0, <2>1, <2>2, <2>3, WaitsStreaming
  <2>4. CASE UNCHANGED <<streams, wanted, backfilled>>
    BY <2>4 DEF Streaming
  <2>. QED BY <1>0, <1>3, <2>3, <2>4, NameMoves
<1>4. CASE \E t \in {"hear", "pass"} : Restreaming(t)
  <2>0. "hear" \in Tasks /\ "pass" \in Tasks
    BY DEF Tasks
  <2>1. PICK t \in Tasks : Restreaming(t)
    BY <1>4, <2>0
  <2>2. CASE NameFails(t) \/ LakeFails(t)
    BY <2>2 DEF NameFails, LakeFails, Ends, stream, Streaming
  <2>3. CASE AskVenue(t) \/ Name(t)
    BY <1>2, <1>3, <2>3
  <2>4. CASE ReadLake(t)
    BY <2>4, ReadLakeMoves DEF ReadsOn, Streaming
  <2>5. CASE ReadHistory(t)
    BY <2>5, ReadHistoryMoves DEF ReadsOn, Reads, PassesOver, Streaming
  <2>6. CASE RecordMissed(t)
    BY <2>6, RecordMissedMoves DEF ReadsOn, Streaming
  <2>. QED BY <2>1, <2>2, <2>3, <2>4, <2>5, <2>6 DEF Restreaming
<1>5. CASE \E t \in Tasks : Takes(t) \/ Flushed(t)
  BY <1>5, TakesMoves, FlushedMoves DEF Streaming
<1>6. CASE Open \/ CatchUp \/ Reopen \/ Drop
  BY <1>6 DEF Open, CatchUp, Reopen, Drop, stream, Streaming
<1>7. CASE \E p \in Products : Message(p)
  BY <1>7 DEF Message, Streaming
<1>8. CASE Deployment \/ UNCHANGED vars
  BY <1>8 DEF Deployment, Ask, Retract, Trade, vars, stream, Streaming
<1>9. CASE Listing
  BY <1>9, ListingMoves DEF Streaming
<1>. QED BY <1>1, <1>4, <1>5, <1>6, <1>7, <1>8, <1>9, Steps

\* What was asked stays asked or withdrawn, and what was withdrawn withdrawn.
LEMMA AsksStay ==
  ASSUME TypeOK, [Next]_vars, NEW w \in Wants
  PROVE  /\ asks[w] # "new" => asks'[w] # "new"
         /\ asks[w] = "withdrawn" => asks'[w] = "withdrawn"
<1>1. CASE UNCHANGED vars
  BY <1>1 DEF vars
<1>2. CASE Next /\ ~Deployment
  BY <1>2, Asked
<1>3. CASE Deployment
  BY <1>3, DeploymentIs DEF TypeOK
<1>. QED BY <1>1, <1>2, <1>3

\* A product of no want that will stand again is never on the stream again.
LEMMA GoneStays ==
  ASSUME TypeOK, [Next]_vars, NEW p, Gone(p)
  PROVE  Gone(p)'
<1>1. ASSUME NEW w \in Wants, Of[w] = p PROVE w \notin standing' /\ asks'[w] = "withdrawn"
  <2>1. w \notin standing /\ asks[w] = "withdrawn"
    BY <1>1 DEF Gone
  <2>2. asks'[w] = "withdrawn"
    BY <2>1, AsksStay
  <2>3. CASE Crash
    BY <2>2, <2>3 DEF Crash
  <2>4. CASE ~Crash
    BY <2>1, <2>2, <2>4, StandingIs DEF StandsOn, StandsDown
  <2>. QED BY <2>3, <2>4
<1>. QED BY <1>1 DEF Gone

\* The session stays, closes, is opened on what is wanted, or delivers.
LEMMA SessionIs ==
  ASSUME TypeOK, [Next]_vars
  PROVE  session' = session \/ session' = None \/ Open \/ \E p \in Products : Message(p)
<1>1. CASE \E t \in Tasks : \E w : Begins(t, w)
  <2>1. PICK t \in Tasks : \E w : Begins(t, w)
    BY <1>1
  <2>. QED BY <2>1, BeginsMoves
<1>2. CASE \E t \in {"hear", "pass"} : Restreaming(t)
  BY <1>2 DEF Restreaming, AskVenue, Name, NameFails, LakeFails, ReadLake, ReadHistory, RecordMissed, stream
<1>3. CASE \E t \in Tasks : Takes(t) \/ Flushed(t)
  BY <1>3, TakesMoves, FlushedMoves
<1>4. CASE Open \/ Reopen \/ Drop \/ Crash \/ \E p \in Products : Message(p)
  BY <1>4 DEF Reopen, Drop, Crash
<1>5. CASE CatchUp \/ Deployment \/ UNCHANGED vars
  BY <1>5 DEF CatchUp, At, Deployment, Ask, Retract, Trade, vars, stream
<1>6. CASE Listing
  BY <1>6, ListingMoves
<1>. QED BY <1>1, <1>2, <1>3, <1>4, <1>5, <1>6, Steps

\* What the session has is what it had, or what was wanted.
LEMMA NamesIs ==
  ASSUME TypeOK, [Next]_vars, session' # None
  PROVE  \/ session # None /\ session'.names = session.names
         \/ Open /\ session'.names = wanted
<1>1. CASE \E p \in Products : Message(p)
  <2>1. PICK p \in Products : Message(p)
    BY <1>1
  <2>2. /\ session # None /\ session \in Sessions /\ session.upto[p] + 1 \in 1 .. MaxTrade
        /\ session' = [session EXCEPT !.upto[p] = session.upto[p] + 1]
    BY <2>1, MessageIs DEF MessageMoves
  <2>. QED BY <2>2, MessageSession
<1>2. CASE Open
  BY <1>2, OpenMoves
<1>. QED BY <1>1, <1>2, SessionIs

\* What stood stands, or is gone.
LEMMA StoodStays ==
  ASSUME TypeOK, Calm, Stands, [Next]_vars, ~Crash, NEW p \in Subjects(standing)
  PROVE  p \in Subjects(standing') \/ Gone(p)'
<1>1. PICK w \in standing : Of[w] = p
  BY DEF Subjects
<1>2. CASE w \in standing'
  BY <1>1, <1>2 DEF Subjects
<1>3. CASE w \notin standing'
  <2>1. PICK t \in Tasks : \E v : StandsDown(t, v)
    BY <1>1, <1>3, StandingIs DEF StandsOn
  <2>2. PICK v : StandsDown(t, v)
    BY <2>1
  <2>3. w = v /\ asks[w] = "withdrawn" /\ w \in Wants
    BY <1>1, <1>3, <2>2 DEF StandsDown
  <2>4. OneEach
    BY <2>2, HearCalm
  <2>5. asks'[w] = "withdrawn"
    BY <2>3, AsksStay
  <2>6. \A u \in Wants : Of[u] = p => u = w
    BY <1>1, <2>3, <2>4 DEF OneEach
  <2>7. Gone(p)'
    BY <1>3, <2>5, <2>6 DEF Gone
  <2>. QED BY <2>7
<1>. QED BY <1>2, <1>3

LEMMA StandsStep ==
  ASSUME TypeOK, Calm, Stands, Carries, [Next]_vars
  PROVE  Stands'
<1>1. CASE Crash
  BY <1>1 DEF Crash, NoJob, Stands
<1>2. CASE ~Crash
  <2>1. ASSUME NEW p \in streams' PROVE p \in Subjects(standing') \/ Gone(p)'
    <3>1. CASE streams' = Subjects(standing')
      BY <2>1, <3>1
    <3>2. CASE streams' = streams /\ Gone(p)
      BY <3>2, GoneStays
    <3>3. CASE streams' = streams /\ ~Gone(p)
      <4>1. p \in Subjects(standing)
        BY <2>1, <3>3 DEF Stands
      <4>. QED BY <1>2, <4>1, StoodStays
    <3>. QED BY <1>2, <3>1, <3>2, <3>3, StreamsAre DEF Streaming
  <2>2. ASSUME NEW u \in Tasks, jobs'[u] # None, jobs'[u].subjects # {}
        PROVE  u \in {"hear", "pass"} /\ jobs'[u].subjects = Subjects(standing')
    <3>1. CASE jobs[u] # None /\ jobs'[u].subjects = jobs[u].subjects
      <4>1. u \in {"hear", "pass"} /\ jobs[u].subjects = Subjects(standing)
        BY <2>2, <3>1 DEF Stands
      <4>2. ASSUME NEW t \in Tasks, NEW w, StandsOn(t, w) \/ StandsDown(t, w) PROVE FALSE
        BY <2>2, <3>1, <4>2, HearCalm
      <4>3. standing' = standing
        BY <1>2, <4>2, StandingIs
      <4>4. Subjects(standing') = Subjects(standing)
        BY <4>3
      <4>. QED BY <3>1, <4>1, <4>4
    <3>. QED BY <2>2, <3>1, Awaits DEF Await
  <2>. QED BY <2>1, <2>2 DEF Stands, Subjects
<1>. QED BY <1>1, <1>2

LEMMA ServedStep ==
  ASSUME TypeOK, Calm, Stands, Carries, Served, [Next]_vars
  PROVE  Served'
<1>1. CASE Crash
  BY <1>1 DEF Crash, Served, Subscribed
<1>2. CASE ~Crash
  <2>0. Streaming
    BY <1>2, StreamsAre
  <2>1. ASSUME NEW p \in Subscribed PROVE p \in streams' \/ Gone(p)'
    <3>1. CASE Gone(p)
      BY <3>1, GoneStays
    <3>2. CASE ~Gone(p)
      <4>1. p \in streams /\ p \in Subjects(standing)
        BY <2>1, <3>2 DEF Served, Stands
      <4>2. p \in Subjects(standing') \/ Gone(p)'
        BY <1>2, <4>1, StoodStays
      <4>. QED BY <2>0, <4>1, <4>2 DEF Streaming
    <3>. QED BY <3>1, <3>2
  <2>2. wanted' = wanted \/ wanted' = streams'
    BY <2>0 DEF Streaming
  <2>3. ASSUME NEW p \in Subscribed' PROVE p \in Subscribed \/ p \in streams'
    <3>1. CASE p \in wanted'
      BY <2>2, <3>1 DEF Subscribed
    <3>2. CASE session' # None /\ p \in session'.names
      BY <3>2, NamesIs DEF Subscribed
    <3>. QED BY <3>1, <3>2 DEF Subscribed
  <2>. QED BY <2>1, <2>3 DEF Served
<1>. QED BY <1>1, <1>2

\* What the session has, and the stream has now, the stream had before.
LEMMA StreamedStays ==
  ASSUME TypeOK, TypeOK', Carries, Served, Stands, [Next]_vars, NEW p \in Subscribed, p \in streams'
  PROVE  p \in streams
<1>1. CASE Gone(p) /\ streams' # streams
  <2>1. Gone(p)'
    BY <1>1, GoneStays
  <2>2. p \in Subjects(standing')
    BY <1>1, StreamsAre DEF Streaming, Crash
  <2>3. PICK w \in standing' : Of[w] = p
    BY <2>2 DEF Subjects
  <2>4. w \in Wants
    BY <2>3 DEF TypeOK
  <2>. QED BY <2>1, <2>3, <2>4 DEF Gone
<1>. QED BY <1>1 DEF Served

-----------------------------------------------------------------------------
(* What is held, and what is known. *)

Carried(j) == IF j = None THEN {} ELSE j.trades
ReadFrom(j) == IF j = None THEN {} ELSE j.lasts

LEMMA HeldIs ==
  /\ \A x : x \in Held <=> \/ x \in recorded \/ x \in said \/ x \in pending
                           \/ \E t \in Tasks : x \in Carried(jobs[t])
  /\ \A x : x \in Held' <=> \/ x \in recorded' \/ x \in said' \/ x \in pending'
                            \/ \E t \in Tasks : x \in Carried(jobs'[t])
  BY DEF Held, Underway, Carried

LEMMA KnownIs ==
  /\ \A x : x \in Known <=> \/ x \in recorded \/ x \in pending
                            \/ \E t \in Tasks : x \in Carried(jobs[t]) \/ x \in ReadFrom(jobs[t])
  /\ \A x : x \in Known' <=> \/ x \in recorded' \/ x \in pending'
                             \/ \E t \in Tasks : x \in Carried(jobs'[t]) \/ x \in ReadFrom(jobs'[t])
<1>1. /\ Underway = pending \cup UNION {Carried(jobs[t]) : t \in Tasks}
      /\ Underway' = pending' \cup UNION {Carried(jobs'[t]) : t \in Tasks}
  BY DEF Underway, Carried
<1>2. /\ Known = recorded \cup Underway \cup UNION {ReadFrom(jobs[t]) : t \in Tasks}
      /\ Known' = recorded' \cup Underway' \cup UNION {ReadFrom(jobs'[t]) : t \in Tasks}
  BY DEF Known, ReadFrom
<1>. QED BY <1>1, <1>2

LEMMA KnownIn ==
  ASSUME TypeOK
  PROVE  Known \subseteq Trades
<1>1. ASSUME NEW t \in Tasks PROVE Carried(jobs[t]) \subseteq Trades /\ ReadFrom(jobs[t]) \subseteq Trades
  BY JobIs DEF Carried, ReadFrom, TypeOK, JobsOK
<1>2. recorded \subseteq Trades /\ pending \subseteq Trades
  BY DEF TypeOK
<1>. QED BY <1>1, <1>2, KnownIs

\* A task that moves lets go only of what is recorded, said or taken on.
LEMMA HeldMoves ==
  ASSUME JobsOK, NEW t \in Tasks, NEW j, Moves(t, j),
         recorded \subseteq recorded', said \subseteq said',
         pending \subseteq pending' \cup Carried(j),
         Carried(jobs[t]) \subseteq recorded' \cup said' \cup Carried(j)
  PROVE  Held \subseteq Held'
<1>1. \A u \in Tasks : jobs'[u] = IF u = t THEN j ELSE jobs[u]
  BY MovesOne
<1>2. ASSUME NEW x \in Held PROVE x \in Held'
  <2>1. CASE x \in recorded \/ x \in said
    BY <2>1, HeldIs
  <2>2. CASE x \in Carried(j)
    BY <2>2, <1>1, HeldIs
  <2>3. CASE x \in pending
    BY <2>2, <2>3, HeldIs
  <2>4. CASE \E u \in Tasks : x \in Carried(jobs[u])
    <3>1. PICK u \in Tasks : x \in Carried(jobs[u])
      BY <2>4
    <3>2. CASE u = t
      BY <2>2, <3>1, <3>2, HeldIs
    <3>3. CASE u # t
      BY <1>1, <3>1, <3>3, HeldIs
    <3>. QED BY <3>2, <3>3
  <2>. QED BY <2>1, <2>3, <2>4, HeldIs
<1>. QED BY <1>2

LEMMA KnownMoves ==
  ASSUME JobsOK, NEW t \in Tasks, NEW j, Moves(t, j), NEW N,
         recorded' \subseteq Known \cup N, pending' \subseteq Known \cup N,
         Carried(j) \subseteq Known \cup N, ReadFrom(j) \subseteq Known \cup N
  PROVE  Known' \subseteq Known \cup N
<1>1. \A u \in Tasks : jobs'[u] = IF u = t THEN j ELSE jobs[u]
  BY MovesOne
<1>2. ASSUME NEW x \in Known' PROVE x \in Known \cup N
  <2>1. CASE x \in recorded' \/ x \in pending'
    BY <2>1
  <2>2. CASE \E u \in Tasks : x \in Carried(jobs'[u]) \/ x \in ReadFrom(jobs'[u])
    <3>1. PICK u \in Tasks : x \in Carried(jobs'[u]) \/ x \in ReadFrom(jobs'[u])
      BY <2>2
    <3>2. CASE u = t
      BY <1>1, <3>1, <3>2
    <3>3. CASE u # t
      BY <1>1, <3>1, <3>3, KnownIs
    <3>. QED BY <3>2, <3>3
  <2>. QED BY <2>1, <2>2, KnownIs
<1>. QED BY <1>2

\* Most steps hear and read nothing: what was held is held, and nothing more is
\* known.
Quiet ==
    /\ last' = last /\ first' = first
    /\ Held \subseteq Held' /\ Known' \subseteq Known

LEMMA QuietSame ==
  ASSUME UNCHANGED <<recorded, pending, said, jobs, last, first>>
  PROVE  Quiet
<1>1. Held' = Held /\ Known' = Known
  BY DEF Held, Known, Underway
<1>. QED BY <1>1 DEF Quiet

\* A move that lets go of nothing and takes nothing on.
LEMMA QuietMoves ==
  ASSUME JobsOK, NEW t \in Tasks, NEW j, Moves(t, j),
         UNCHANGED <<pending, last, first>>,
         recorded \subseteq recorded', said \subseteq said', recorded' \subseteq Known,
         Carried(jobs[t]) \subseteq recorded' \cup said',
         Carried(j) = {}, ReadFrom(j) \subseteq Known
  PROVE  Quiet
<1>1. Held \subseteq Held'
  BY HeldMoves
<1>2. pending \subseteq Known
  BY KnownIs
<1>3. Known' \subseteq Known \cup {}
  BY <1>2, KnownMoves
<1>. QED BY <1>1, <1>3 DEF Quiet

LEMMA CarriedNone ==
  ASSUME Carries, NEW t \in Tasks, jobs[t] = None \/ jobs[t].at \notin {"record", "send"}
  PROVE  Carried(jobs[t]) = {}
  BY DEF Carries, Carried

LEMMA QuietReadsOn ==
  ASSUME JobsOK, NEW t \in Tasks, NEW lasts, ReadsOn(t, lasts),
         UNCHANGED <<pending, last, first>>,
         recorded \subseteq recorded', said \subseteq said', recorded' \subseteq Known,
         Carried(jobs[t]) \subseteq recorded' \cup said',
         lasts \subseteq Known
  PROVE  Quiet
<1>. DEFINE j == [Reading("history", {}) EXCEPT !.lasts = lasts]
<1>1. j.trades = {} /\ j.lasts = lasts
  BY DEF Reading, Waiting
<1>. HIDE DEF j
<1>2. CASE Moves(t, None)
  <2>1. Carried(None) = {} /\ ReadFrom(None) = {}
    BY DEF Carried, ReadFrom
  <2>. QED BY <1>2, <2>1, QuietMoves
<1>3. CASE Moves(t, j)
  <2>1. Carried(j) = {} /\ ReadFrom(j) \subseteq Known
    BY <1>1 DEF Carried, ReadFrom
  <2>. QED BY <1>3, <2>1, QuietMoves
<1>. QED BY <1>2, <1>3 DEF ReadsOn, j

LEMMA QuietPut ==
  ASSUME JobsOK, NEW t \in Tasks, NEW S \in SUBSET Products, Put(t, S),
         UNCHANGED <<recorded, said, pending, last, first>>, Carried(jobs[t]) = {}
  PROVE  Quiet
<1>1. recorded \subseteq Known
  BY KnownIs
<1>2. CASE Moves(t, None)
  <2>1. Carried(None) = {} /\ ReadFrom(None) = {}
    BY DEF Carried, ReadFrom
  <2>. QED BY <1>1, <1>2, <2>1, QuietMoves
<1>3. CASE Moves(t, Reading("lake", S \ backfilled))
  <2>1. Carried(Reading("lake", S \ backfilled)) = {} /\ ReadFrom(Reading("lake", S \ backfilled)) = {}
    BY DEF Carried, ReadFrom, Reading, Waiting
  <2>. QED BY <1>1, <1>3, <2>1, QuietMoves
<1>. QED BY <1>2, <1>3, PutMoves

LEMMA QuietWaits ==
  ASSUME JobsOK, NEW t \in Tasks, NEW S \in SUBSET Products, Put(t, S) \/ Waits(t, S),
         UNCHANGED <<recorded, said, pending, last, first>>, Carried(jobs[t]) = {}
  PROVE  Quiet
<1>1. recorded \subseteq Known
  BY KnownIs
<1>2. CASE Waits(t, S)
  <2>1. PICK at \in {"venue", "name"} : \E todo \in SUBSET Products : Moves(t, Waiting(at, S, todo))
    BY <1>2 DEF Waits
  <2>2. PICK todo \in SUBSET Products : Moves(t, Waiting(at, S, todo))
    BY <2>1
  <2>3. Carried(Waiting(at, S, todo)) = {} /\ ReadFrom(Waiting(at, S, todo)) = {}
    BY WaitingIs DEF Carried, ReadFrom
  <2>. QED BY <1>1, <2>2, <2>3, QuietMoves
<1>. QED BY <1>2, QuietPut

\* All but what reads a product's history, catches up on one and hears one.
LEMMA QuietRestreaming ==
  ASSUME TypeOK, Carries, NEW t \in Tasks, Restreaming(t)
  PROVE  \/ Quiet
         \/ ReadHistory(t) /\ \E r \in jobs[t].lasts : Reads(t, r)
<1>0. JobsOK /\ recorded \subseteq Known
  BY KnownIs DEF TypeOK, JobsOK
<1>1. CASE Name(t)
  <2>0. jobs[t] # None /\ jobs[t].at = "name" /\ jobs[t].subjects \in SUBSET Products
        /\ UNCHANGED <<recorded, said, pending, last, first>>
    BY <1>0, <1>1, NameMoves, JobIs
  <2>1. Carried(jobs[t]) = {}
    BY <2>0, CarriedNone
  <2>2. CASE Put(t, jobs[t].subjects)
    BY <1>0, <2>0, <2>1, <2>2, QuietPut
  <2>3. CASE \E rest \in SUBSET jobs[t].todo : Moves(t, [jobs[t] EXCEPT !.todo = rest])
    <3>1. PICK rest \in SUBSET jobs[t].todo : Moves(t, [jobs[t] EXCEPT !.todo = rest])
      BY <2>3
    <3>. DEFINE j == [jobs[t] EXCEPT !.todo = rest]
    <3>2. j.trades = jobs[t].trades /\ j.lasts = jobs[t].lasts
      BY <1>0, <2>0, SomeMade
    <3>. HIDE DEF j
    <3>3. Moves(t, j)
      BY <3>1 DEF j
    <3>4. Carried(j) = {}
      BY <2>0, <2>1, <3>2 DEF Carried
    <3>5. ReadFrom(j) \subseteq Known
      <4>1. ReadFrom(j) \subseteq ReadFrom(jobs[t])
        BY <2>0, <3>2 DEF ReadFrom
      <4>. QED BY <4>1, KnownIs
    <3>. QED BY <1>0, <2>0, <2>1, <3>3, <3>4, <3>5, QuietMoves
  <2>. QED BY <1>0, <1>1, <2>2, <2>3, NameMoves
<1>2. CASE NameFails(t) \/ LakeFails(t)
  <2>1. /\ Moves(t, None) /\ UNCHANGED <<recorded, pending, last, first>> /\ said \subseteq said'
        /\ jobs[t].at \notin {"record", "send"}
    BY <1>2 DEF NameFails, At, LakeFails, Ends, Over, Moves, lake, heard
  <2>2. Carried(jobs[t]) = {} /\ Carried(None) = {} /\ ReadFrom(None) = {}
    BY <2>1, CarriedNone DEF Carried, ReadFrom
  <2>. QED BY <1>0, <2>1, <2>2, QuietMoves
<1>3. CASE ReadLake(t)
  <2>1. PICK lasts \in SUBSET recorded : ReadsOn(t, lasts)
    BY <1>3, ReadLakeMoves
  <2>2. /\ jobs[t].at = "lake" /\ UNCHANGED <<recorded, said, pending, last, first>>
    BY <1>3, ReadLakeMoves
  <2>3. Carried(jobs[t]) = {}
    BY <2>2, CarriedNone
  <2>. QED BY <1>0, <2>1, <2>2, <2>3, QuietReadsOn
<1>4. CASE ReadHistory(t)
  <2>1. PICK r \in jobs[t].lasts : Reads(t, r) \/ PassesOver(t, r)
    BY <1>4, ReadHistoryMoves
  <2>2. jobs[t] # None /\ jobs[t].at = "history" /\ UNCHANGED <<recorded, pending>>
    BY <1>4, ReadHistoryMoves
  <2>3. Carried(jobs[t]) = {}
    BY <2>2, CarriedNone
  <2>4. CASE PassesOver(t, r)
    <3>1. jobs[t].lasts \ {r} \subseteq Known
      BY <2>2, KnownIs DEF ReadFrom
    <3>2. said \subseteq said' /\ ReadsOn(t, jobs[t].lasts \ {r}) /\ UNCHANGED <<last, first>>
      BY <2>4 DEF PassesOver
    <3>. QED BY <1>0, <2>2, <2>3, <3>1, <3>2, QuietReadsOn
  <2>. QED BY <1>4, <2>1, <2>4
<1>5. CASE RecordMissed(t)
  <2>0. jobs[t] # None /\ jobs[t].at = "record" /\ UNCHANGED <<pending, last, first>>
    BY <1>5, RecordMissedMoves
  <2>1. Carried(jobs[t]) = jobs[t].trades /\ Carried(jobs[t]) \subseteq Known
    BY <2>0, KnownIs DEF Carried
  <2>2. CASE /\ recorded' = recorded \cup jobs[t].trades
             /\ ReadsOn(t, jobs[t].lasts)
             /\ UNCHANGED <<said, left>>
    <3>1. jobs[t].lasts \subseteq Known
      BY <2>0, KnownIs DEF ReadFrom
    <3>. QED BY <1>0, <2>0, <2>1, <2>2, <3>1, QuietReadsOn
  <2>3. CASE /\ said' = said \cup jobs[t].trades \cup Gaps(jobs[t].lasts)
             /\ Moves(t, None) /\ UNCHANGED recorded
    <3>1. Carried(None) = {} /\ ReadFrom(None) = {}
      BY DEF Carried, ReadFrom
    <3>. QED BY <1>0, <2>0, <2>1, <2>3, <3>1, QuietMoves
  <2>. QED BY <1>5, <2>2, <2>3, RecordMissedMoves
<1>6. CASE AskVenue(t)
  <2>1. jobs[t].at = "venue" /\ UNCHANGED <<recorded, said, pending, last, first>>
    BY <1>6, AskVenueMoves
  <2>2. Carried(jobs[t]) = {}
    BY <2>1, CarriedNone
  <2>3. \E S \in SUBSET Products : Put(t, S) \/ Waits(t, S)
    BY <1>6, AskVenueMoves
  <2>. QED BY <1>0, <2>1, <2>2, <2>3, QuietWaits
<1>. QED BY <1>1, <1>2, <1>3, <1>4, <1>5, <1>6 DEF Restreaming

LEMMA QuietSteps ==
  ASSUME TypeOK, Carries, [Next]_vars, ~Crash
  PROVE  \/ Quiet
         \/ \E t \in {"hear", "pass"} : ReadHistory(t) /\ \E r \in jobs[t].lasts : Reads(t, r)
         \/ CatchUp
         \/ \E p \in Products : Message(p)
<1>0. JobsOK /\ recorded \subseteq Known /\ pending \subseteq Known
      /\ "hear" \in Tasks /\ "pass" \in Tasks /\ "stream" \in Tasks
  BY KnownIs DEF TypeOK, JobsOK, Tasks
<1>1. CASE \E t \in {"hear", "pass"} : Restreaming(t)
  <2>1. PICK t \in {"hear", "pass"} : Restreaming(t)
    BY <1>1
  <2>. QED BY <1>0, <2>1, QuietRestreaming
<1>2. ASSUME NEW t \in Tasks, NEW w, Begins(t, w)
      PROVE  Quiet
  <2>. DEFINE S == Subjects(standing')
  <2>1. /\ S \in SUBSET Products /\ standing' \in SUBSET Wants /\ Restream(t, standing')
        /\ jobs[t] = None /\ UNCHANGED <<recorded, said, pending, last, first>>
    BY <1>2, BeginsMoves, SubjectsIn
  <2>2. Carried(jobs[t]) = {}
    BY <2>1, CarriedNone
  <2>3. Put(t, S) \/ Waits(t, S)
    BY <2>1, RestreamMoves
  <2>. QED BY <1>0, <2>1, <2>2, <2>3, QuietWaits
<1>3. ASSUME NEW t \in Tasks, Takes(t)
      PROVE  Quiet
  <2>1. /\ jobs[t] = None \/ jobs[t].at \notin {"record", "send"}
        /\ pending' = {} /\ UNCHANGED <<recorded, said, last, first>>
    BY <1>3, TakesMoves
  <2>2. Carried(jobs[t]) = {} /\ Carried(None) = {} /\ ReadFrom(None) = {}
    BY <2>1, CarriedNone DEF Carried, ReadFrom
  <2>3. CASE Moves(t, Sending(pending))
    <3>1. Carried(Sending(pending)) = pending /\ ReadFrom(Sending(pending)) = {}
      <4>1. Sending(pending) # None
        BY JobsMade, FeedAssumption DEF TypeOK
      <4>. QED BY <4>1, SendingIs DEF Carried, ReadFrom
    <3>2. Held \subseteq Held'
      BY <1>0, <2>1, <2>2, <2>3, <3>1, HeldMoves
    <3>3. Known' \subseteq Known \cup {}
      BY <1>0, <2>1, <2>3, <3>1, KnownMoves
    <3>. QED BY <2>1, <3>2, <3>3 DEF Quiet
  <2>4. CASE pending = {} /\ Moves(t, None)
    BY <1>0, <2>1, <2>2, <2>4, QuietMoves
  <2>. QED BY <1>3, <2>3, <2>4, TakesMoves
<1>4. ASSUME NEW t \in Tasks, Flushed(t)
      PROVE  Quiet
  <2>1. /\ jobs[t] # None /\ Moves(t, None) /\ UNCHANGED <<pending, last, first>>
        /\ \/ recorded' = recorded \cup jobs[t].trades /\ UNCHANGED said
           \/ said' = said \cup jobs[t].trades /\ UNCHANGED recorded
    BY <1>4, FlushedMoves
  <2>2. Carried(None) = {} /\ ReadFrom(None) = {} /\ Carried(jobs[t]) = jobs[t].trades
        /\ Carried(jobs[t]) \subseteq Known
    BY <2>1, KnownIs DEF Carried, ReadFrom
  <2>. QED BY <1>0, <2>1, <2>2, QuietMoves
<1>5. CASE Open
  <2>1. /\ jobs["stream"] = None /\ Moves("stream", Reading("catchup", wanted))
        /\ UNCHANGED <<recorded, said, pending, last, first>>
    BY <1>5, OpenMoves
  <2>2. Carried(jobs["stream"]) = {} /\ Carried(Reading("catchup", wanted)) = {}
        /\ ReadFrom(Reading("catchup", wanted)) = {}
    BY <2>1, ReadingIs DEF Carried, ReadFrom
  <2>. QED BY <1>0, <2>1, <2>2, QuietMoves
<1>6. CASE Reopen \/ Drop \/ Deployment \/ UNCHANGED vars
  <2>1. UNCHANGED <<recorded, pending, said, jobs, last, first>>
    BY <1>6, DeploymentIs DEF Reopen, Drop, vars, lake, heard
  <2>. QED BY <2>1, QuietSame
<1>7. CASE Listing
  <2>1. PICK at \in {"list", "venue"} : Moves("pass", Reading(at, {}))
    BY <1>7, ListingMoves
  <2>2. /\ jobs["pass"] = None \/ jobs["pass"].at = "list"
        /\ UNCHANGED <<recorded, said, pending, last, first>>
    BY <1>7, ListingMoves
  <2>3. Carried(jobs["pass"]) = {} /\ Carried(Reading(at, {})) = {} /\ ReadFrom(Reading(at, {})) = {}
    BY <1>0, <2>2, CarriedNone, ReadingIs DEF Carried, ReadFrom
  <2>. QED BY <1>0, <2>1, <2>2, <2>3, QuietMoves
<1>. QED BY <1>1, <1>2, <1>3, <1>4, <1>5, <1>6, <1>7, Steps

\* The other steps, by what they hear.
Unmoved == UNCHANGED <<made, streams>>

LEMMA ReadsFacts ==
  ASSUME TypeOK, Carries, NEW t \in Tasks, ReadHistory(t), NEW r \in jobs[t].lasts, Reads(t, r)
  PROVE  /\ r \in Known /\ r[1] \in Products /\ r[2] \in 1 .. MaxTrade /\ r[2] < made[r[1]]
         /\ r = <<r[1], r[2]>>
         /\ \A q \in Products : last'[q] = IF q = r[1] THEN made[q] ELSE last[q]
         /\ \A q \in Products : first'[q] =
                IF q # r[1] THEN first[q]
                ELSE IF first[q] = 0 \/ r[2] + 1 < first[q] THEN r[2] + 1 ELSE first[q]
         /\ Unmoved /\ session' = session
         /\ Held \subseteq Held' /\ After(r[1], r[2]) \subseteq Held'
         /\ Known' \subseteq Known \cup After(r[1], r[2])
<1>0. JobsOK /\ recorded \subseteq Known /\ pending \subseteq Known
  BY KnownIs DEF TypeOK, JobsOK
<1>1. /\ jobs[t] # None /\ jobs[t].at = "history"
      /\ UNCHANGED <<made, recorded, streams, session, pending>>
  BY ReadHistoryMoves
<1>2. jobs[t].lasts \subseteq Trades /\ ReadFrom(jobs[t]) = jobs[t].lasts
  BY <1>0, <1>1, JobIs DEF ReadFrom
<1>3. r \in Trades /\ r[1] \in Products /\ r[2] \in 1 .. MaxTrade /\ r = <<r[1], r[2]>>
  BY <1>2 DEF Trades
<1>4. r \in Known
  BY <1>2, KnownIs
<1>. DEFINE gap == After(r[1], r[2])
            j == [Reading("record", {}) EXCEPT !.lasts = jobs[t].lasts \ {r}, !.trades = gap]
<1>5. gap \in SUBSET Trades
  BY <1>3, AfterIn, FeedAssumption DEF TypeOK
<1>6. j \in Jobs /\ j.trades = gap /\ j.lasts = jobs[t].lasts \ {r}
  <2>. DEFINE rest == jobs[t].lasts \ {r}
  <2>1. rest \in SUBSET Trades
    BY <1>2
  <2>. HIDE DEF gap, rest
  <2>2. /\ [Reading("record", {}) EXCEPT !.lasts = rest, !.trades = gap] \in Jobs
        /\ [Reading("record", {}) EXCEPT !.lasts = rest, !.trades = gap].lasts = rest
        /\ [Reading("record", {}) EXCEPT !.lasts = rest, !.trades = gap].trades = gap
    BY <1>5, <2>1, RecordMade
  <2>. QED BY <2>2 DEF rest
<1>7. /\ last' = LastRead(r[1]) /\ first' = FirstOf(r[1], r[2] + 1) /\ gap # {} /\ Moves(t, j)
      /\ UNCHANGED said
  BY DEF Reads
<1>. HIDE DEF j
<1>8. j # None
  BY <1>6, FeedAssumption
<1>9. r[2] < made[r[1]] /\ r[2] + 1 \in 1 .. MaxTrade
  <2>1. made[r[1]] \in 0 .. MaxTrade
    BY <1>3 DEF TypeOK
  <2>2. PICK k \in r[2] + 1 .. made[r[1]] : TRUE
    BY <1>7 DEF After
  <2>. QED BY <1>3, <2>1, <2>2, FeedAssumption
<1>10. \A q \in Products : last'[q] = IF q = r[1] THEN made[q] ELSE last[q]
  BY <1>3, <1>7, LastReadIs DEF TypeOK
<1>11. \A q \in Products : first'[q] =
                IF q # r[1] THEN first[q]
                ELSE IF first[q] = 0 \/ r[2] + 1 < first[q] THEN r[2] + 1 ELSE first[q]
  BY <1>3, <1>7, <1>9, FirstOfType
<1>12. Held \subseteq Held'
  <2>1. Carried(jobs[t]) = {}
    BY <1>1, CarriedNone
  <2>. QED BY <1>0, <1>1, <1>7, <2>1, HeldMoves
<1>13. gap \subseteq Held'
  <2>1. jobs'[t] = j
    BY <1>0, <1>7, MovesOne
  <2>. QED BY <1>6, <1>8, <2>1, HeldIs DEF Carried
<1>14. Known' \subseteq Known \cup gap
  <2>1. Carried(j) = gap /\ ReadFrom(j) \subseteq Known
    BY <1>2, <1>6, <1>8, KnownIs DEF Carried, ReadFrom
  <2>. HIDE DEF gap
  <2>. QED BY <1>0, <1>1, <1>7, <2>1, KnownMoves
<1>. QED BY <1>1, <1>3, <1>4, <1>9, <1>10, <1>11, <1>12, <1>13, <1>14 DEF Unmoved

\* A product caught up on.
Caught(p) ==
    /\ p \in streams /\ last[p] # 0
    /\ \A q \in Products : last'[q] = IF q = p THEN made[q] ELSE last[q]
    /\ After(p, last[p]) \subseteq Held'
    /\ Known' \subseteq Known \cup After(p, last[p])
Uncaught(p) ==
    /\ last' = last /\ Known' \subseteq Known
    /\ p \notin streams \/ last[p] = 0 \/ After(p, last[p]) \subseteq Held'

LEMMA CatchUpFacts ==
  ASSUME TypeOK, Carries, CatchUp
  PROVE  /\ \E p \in Products :
              /\ p \in jobs["stream"].todo
              /\ \A q : CatchingUp(q) /\ q # p => CatchingUp(q)'
              /\ Caught(p) \/ Uncaught(p)
         /\ first' = first /\ Unmoved /\ session' = session
         /\ Held \subseteq Held'
<1>0. JobsOK /\ recorded \subseteq Known /\ pending \subseteq Known /\ "stream" \in Tasks
  BY KnownIs DEF TypeOK, JobsOK, Tasks
<1>1. /\ jobs["stream"] # None /\ jobs["stream"].at = "catchup"
      /\ UNCHANGED <<made, recorded, streams, session, first>>
  BY CatchUpMoves
<1>2. PICK p \in jobs["stream"].todo :
              /\ Moves("stream", [jobs["stream"] EXCEPT !.todo = @ \ {p}])
              /\ \/ /\ p \in streams /\ last[p] # 0
                    /\ pending' = pending \cup After(p, last[p])
                    /\ last' = [last EXCEPT ![p] = made[p]]
                    /\ UNCHANGED said
                 \/ /\ p \notin streams \/ last[p] = 0
                    /\ UNCHANGED <<said, pending, last>>
                 \/ /\ p \in streams /\ last[p] # 0
                    /\ said' = said \cup After(p, last[p])
                    /\ UNCHANGED <<pending, last>>
  BY CatchUpMoves
<1>. DEFINE j == [jobs["stream"] EXCEPT !.todo = @ \ {p}]
<1>3. /\ j \in Jobs /\ j.at = "catchup" /\ j.todo = jobs["stream"].todo \ {p}
      /\ j.trades = jobs["stream"].trades /\ j.lasts = jobs["stream"].lasts
  BY <1>0, <1>1, LessMade
<1>. HIDE DEF j
<1>4. Moves("stream", j) /\ j # None
  BY <1>2, <1>3, FeedAssumption DEF j
<1>5. Carried(jobs["stream"]) = {} /\ Carried(j) = {} /\ ReadFrom(j) \subseteq Known
  BY <1>0, <1>1, <1>3, <1>4, CarriedNone, KnownIs DEF Carried, ReadFrom
<1>6. p \in Products
  BY <1>0, <1>1, JobIs
<1>7. \A q : CatchingUp(q) /\ q # p => CatchingUp(q)'
  <2>1. jobs'["stream"] = j
    BY <1>0, <1>4, MovesOne
  <2>. QED BY <1>3, <1>4, <2>1 DEF CatchingUp
<1>. DEFINE gap == After(p, last[p])
<1>8. Held \subseteq Held'
  <2>1. said \subseteq said' /\ pending \subseteq pending' /\ recorded' = recorded
    BY <1>1, <1>2
  <2>. QED BY <1>0, <1>4, <1>5, <2>1, HeldMoves
<1>9. CASE /\ p \in streams /\ last[p] # 0
           /\ pending' = pending \cup gap
           /\ last' = [last EXCEPT ![p] = made[p]]
  <2>1. gap \subseteq Held'
    BY <1>9, HeldIs
  <2>2. Known' \subseteq Known \cup gap
    <3>. HIDE DEF gap
    <3>. QED BY <1>0, <1>1, <1>4, <1>5, <1>9, KnownMoves
  <2>3. \A q \in Products : last'[q] = IF q = p THEN made[q] ELSE last[q]
    BY <1>9 DEF TypeOK
  <2>. QED BY <1>1, <1>2, <1>6, <1>7, <1>8, <1>9, <2>1, <2>2, <2>3 DEF Caught, Unmoved
<1>10. CASE pending' = pending /\ last' = last
            /\ (p \notin streams \/ last[p] = 0 \/ said' = said \cup gap)
  <2>1. Known' \subseteq Known \cup {}
    BY <1>0, <1>1, <1>4, <1>5, <1>10, KnownMoves
  <2>2. p \notin streams \/ last[p] = 0 \/ gap \subseteq Held'
    BY <1>10, HeldIs
  <2>. QED BY <1>1, <1>2, <1>6, <1>7, <1>8, <1>10, <2>1, <2>2 DEF Uncaught, Unmoved
<1>. QED BY <1>2, <1>9, <1>10

\* A message heard, or not.
HeardOne(p) ==
    LET n == session.upto[p] + 1 IN
    /\ p \in streams /\ n > last[p]
    /\ \A q \in Products : last'[q] = IF q = p THEN n ELSE last[q]
    /\ \A q \in Products : first'[q] = IF q = p /\ first[q] = 0 THEN n ELSE first[q]
    /\ <<p, n>> \in Held' /\ Known' \subseteq Known \cup {<<p, n>>}
HeardNone(p) ==
    /\ p \notin streams \/ session.upto[p] + 1 <= last[p]
    /\ last' = last /\ first' = first /\ Known' \subseteq Known

LEMMA MessageFacts ==
  ASSUME TypeOK, NEW p \in Products, Message(p)
  PROVE  /\ session # None /\ session \in Sessions /\ jobs["stream"] = None
         /\ p \in session.names /\ session.upto[p] + 1 \in 1 .. MaxTrade /\ session.upto[p] + 1 <= made[p]
         /\ session' \in Sessions /\ session'.names = session.names
         /\ \A q \in Products : session'.upto[q] = IF q = p THEN session.upto[p] + 1 ELSE session.upto[q]
         /\ Unmoved /\ Held \subseteq Held'
         /\ HeardOne(p) \/ HeardNone(p)
<1>. DEFINE n == session.upto[p] + 1
            x == <<p, n>>
<1>0. JobsOK /\ recorded \subseteq Known /\ pending \subseteq Known /\ "stream" \in Tasks
  BY KnownIs DEF TypeOK, JobsOK, Tasks
<1>1. MessageMoves(p) /\ session \in Sessions /\ n \in 1 .. MaxTrade /\ n <= made[p]
  BY MessageIs
<1>2. /\ session # None /\ jobs["stream"] = None /\ p \in session.names
      /\ session' = [session EXCEPT !.upto[p] = n]
      /\ UNCHANGED <<made, recorded, said, streams>>
  BY <1>1 DEF MessageMoves
<1>3. session' \in Sessions /\ session'.names = session.names
      /\ \A q \in Products : session'.upto[q] = IF q = p THEN n ELSE session.upto[q]
  BY <1>1, <1>2, MessageSession
<1>4. CASE /\ p \notin streams \/ n <= last[p]
           /\ UNCHANGED <<pending, last, first, jobs>>
  <2>1. Held' = Held /\ Known' = Known
    BY <1>2, <1>4 DEF Held, Known, Underway
  <2>. QED BY <1>1, <1>2, <1>3, <1>4, <2>1 DEF HeardNone, Unmoved
<1>5. CASE /\ p \in streams /\ n > last[p]
           /\ last' = [last EXCEPT ![p] = n]
           /\ first' = IF first[p] # 0 THEN first ELSE FirstOf(p, n)
           /\ \/ pending' = {} /\ Moves("stream", Sending(pending \cup {x}))
              \/ pending' = pending \cup {x} /\ jobs' = jobs
  <2>1. \A q \in Products : last'[q] = IF q = p THEN n ELSE last[q]
    <3>. HIDE DEF n
    <3>. QED BY <1>5 DEF TypeOK
  <2>2. \A q \in Products : first'[q] = IF q = p /\ first[q] = 0 THEN n ELSE first[q]
    <3>. HIDE DEF n
    <3>. QED BY <1>1, <1>5, FirstOfType
  <2>3. Held \subseteq Held' /\ x \in Held' /\ Known' \subseteq Known \cup {x}
    <3>1. CASE pending' = {} /\ Moves("stream", Sending(pending \cup {x}))
      <4>. DEFINE trades == pending \cup {x}
      <4>1. trades \in SUBSET Trades
        BY <1>1 DEF TypeOK, Trades
      <4>. HIDE DEF x
      <4>2. x \in trades /\ pending \subseteq trades /\ trades \subseteq Known \cup {x}
        BY <1>0
      <4>3. Moves("stream", Sending(trades))
        BY <3>1
      <4>. HIDE DEF trades
      <4>4. Sending(trades) # None
        BY <4>1, JobsMade, FeedAssumption
      <4>5. Carried(Sending(trades)) = trades /\ ReadFrom(Sending(trades)) = {}
        BY <4>4, SendingIs DEF Carried, ReadFrom
      <4>6. Carried(jobs["stream"]) = {}
        BY <1>2 DEF Carried
      <4>7. Held \subseteq Held'
        BY <1>0, <1>2, <3>1, <4>2, <4>3, <4>5, <4>6, HeldMoves
      <4>8. Known' \subseteq Known \cup {x}
        BY <1>0, <1>2, <3>1, <4>2, <4>3, <4>5, KnownMoves
      <4>9. x \in Held'
        <5>1. jobs'["stream"] = Sending(trades)
          BY <1>0, <4>3, MovesOne
        <5>. QED BY <1>0, <4>2, <4>5, <5>1, HeldIs
      <4>. QED BY <4>7, <4>8, <4>9
    <3>2. CASE pending' = pending \cup {x} /\ jobs' = jobs
      <4>. HIDE DEF x
      <4>1. recorded' = recorded /\ said' = said
        BY <1>2
      <4>2. \A y : y \in Held => y \in Held'
        BY <3>2, <4>1, HeldIs
      <4>3. x \in Held'
        BY <3>2, HeldIs
      <4>4. \A y : y \in Known' => y \in Known \cup {x}
        BY <3>2, <4>1, KnownIs
      <4>. QED BY <4>2, <4>3, <4>4
    <3>. QED BY <1>5, <3>1, <3>2
  <2>4. HeardOne(p)
    BY <1>5, <2>1, <2>2, <2>3 DEF HeardOne
  <2>. QED BY <1>1, <1>2, <1>3, <2>3, <2>4 DEF Unmoved
<1>. QED BY <1>1, <1>4, <1>5 DEF MessageMoves

-----------------------------------------------------------------------------
(* What is heard of each product. *)

LEMMA MadeGrows ==
  ASSUME TypeOK, TypeOK', Carries, [Next]_vars, NEW p \in Products
  PROVE  /\ made[p] \in Nat /\ made'[p] \in Nat /\ made[p] <= made'[p]
         /\ last[p] \in Nat /\ last'[p] \in Nat /\ first[p] \in Nat /\ first'[p] \in Nat
         /\ last[p] <= made[p] /\ last'[p] <= made'[p]
<1>1. /\ made[p] \in Nat /\ made'[p] \in Nat /\ last[p] \in Nat /\ last'[p] \in Nat
      /\ first[p] \in Nat /\ first'[p] \in Nat /\ last[p] <= made[p] /\ last'[p] <= made'[p]
  BY FeedAssumption DEF TypeOK
<1>2. made[p] <= made'[p]
  <2>1. CASE made' = made
    BY <1>1, <2>1
  <2>2. CASE Deployment
    BY <1>1, <2>2, DeploymentIs
  <2>3. CASE \E t \in {"hear", "pass"} : Restreaming(t)
    <3>1. made' = made
      BY <2>3 DEF Restreaming, AskVenue, Name, NameFails, LakeFails, ReadLake, ReadHistory, RecordMissed, world
    <3>. QED BY <3>1, <2>1
  <2>4. CASE \E t \in Tasks : \E w : Begins(t, w)
    <3>1. PICK t \in Tasks : \E w : Begins(t, w)
      BY <2>4
    <3>2. made' = made
      BY <3>1, BeginsMoves
    <3>. QED BY <3>2, <2>1
  <2>5. CASE \E t \in Tasks : Takes(t) \/ Flushed(t)
    BY <2>1, <2>5, TakesMoves, FlushedMoves
  <2>6. CASE Open \/ CatchUp \/ Reopen \/ Drop \/ Crash \/ UNCHANGED vars
    BY <2>1, <2>6 DEF Open, CatchUp, Reopen, Drop, Crash, vars, world
  <2>7. CASE \E q \in Products : Message(q)
    BY <2>1, <2>7, MessageFacts DEF Unmoved
  <2>8. CASE Listing
    BY <2>1, <2>8, ListingMoves
  <2>. QED BY <2>2, <2>3, <2>4, <2>5, <2>6, <2>7, <2>8, Steps
<1>. QED BY <1>1, <1>2

LEMMA StartedStep ==
  ASSUME TypeOK, TypeOK', Carries, Started, [Next]_vars
  PROVE  Started'
<1>1. CASE Crash
  BY <1>1 DEF Crash, Started
<1>2. CASE Quiet
  BY <1>2 DEF Quiet, Started
<1>3. CASE \E t \in {"hear", "pass"} : ReadHistory(t) /\ \E r \in jobs[t].lasts : Reads(t, r)
  <2>1. PICK t \in Tasks : ReadHistory(t) /\ \E r \in jobs[t].lasts : Reads(t, r)
    BY <1>3 DEF Tasks
  <2>2. PICK r \in jobs[t].lasts : Reads(t, r)
    BY <2>1
  <2>3. /\ r[1] \in Products /\ r[2] \in 1 .. MaxTrade /\ r[2] < made[r[1]]
        /\ \A q \in Products : last'[q] = IF q = r[1] THEN made[q] ELSE last[q]
        /\ \A q \in Products : first'[q] =
                IF q # r[1] THEN first[q]
                ELSE IF first[q] = 0 \/ r[2] + 1 < first[q] THEN r[2] + 1 ELSE first[q]
    BY <2>1, <2>2, ReadsFacts
  <2>4. ASSUME NEW q \in Products PROVE last'[q] = 0 <=> first'[q] = 0
    <3>1. CASE q # r[1]
      BY <2>3, <3>1 DEF Started
    <3>2. CASE q = r[1]
      <4>1. last'[q] # 0
        BY <2>3, <3>2, MadeGrows, FeedAssumption
      <4>2. first'[q] # 0
        BY <2>3, <3>2, MadeGrows, FeedAssumption
      <4>. QED BY <4>1, <4>2
    <3>. QED BY <3>1, <3>2
  <2>. QED BY <2>4 DEF Started
<1>4. CASE CatchUp
  <2>1. PICK p \in Products : Caught(p) \/ Uncaught(p)
    BY <1>4, CatchUpFacts
  <2>2. first' = first
    BY <1>4, CatchUpFacts
  <2>3. ASSUME NEW q \in Products PROVE last'[q] = 0 <=> last[q] = 0
    BY <2>1, MadeGrows DEF Caught, Uncaught
  <2>. QED BY <2>2, <2>3 DEF Started
<1>5. CASE \E p \in Products : Message(p)
  <2>1. PICK p \in Products : Message(p)
    BY <1>5
  <2>2. session.upto[p] + 1 \in 1 .. MaxTrade /\ (HeardOne(p) \/ HeardNone(p))
    BY <2>1, MessageFacts
  <2>3. ASSUME NEW q \in Products PROVE last'[q] = 0 <=> first'[q] = 0
    BY <2>2, FeedAssumption DEF Started, HeardOne, HeardNone
  <2>. QED BY <2>3 DEF Started
<1>. QED BY <1>1, <1>2, <1>3, <1>4, <1>5, QuietSteps

LEMMA BehindStep ==
  ASSUME TypeOK, TypeOK', Carries, Behind, [Next]_vars
  PROVE  Behind'
<1>. SUFFICES ASSUME session' # None, NEW q \in Products PROVE session'.upto[q] <= made'[q]
  BY DEF Behind
<1>1. CASE session' = session
  <2>1. session \in Sessions /\ session.upto[q] <= made[q]
    BY <1>1 DEF Behind, TypeOK, Sessions
  <2>2. session.upto[q] \in Nat
    BY <2>1, FeedAssumption DEF Sessions
  <2>. QED BY <1>1, <2>1, <2>2, MadeGrows
<1>2. CASE Open
  <2>1. session'.upto = made /\ made' = made
    BY <1>2, OpenMoves
  <2>. QED BY <2>1, MadeGrows
<1>3. CASE \E p \in Products : Message(p)
  <2>1. PICK p \in Products : Message(p)
    BY <1>3
  <2>2. /\ session # None /\ session.upto[p] + 1 <= made[p] /\ made' = made
        /\ session'.upto[q] = IF q = p THEN session.upto[p] + 1 ELSE session.upto[q]
    BY <2>1, MessageFacts DEF Unmoved
  <2>. QED BY <2>2 DEF Behind
<1>. QED BY <1>1, <1>2, <1>3, SessionIs

\* A product to be caught up on stays to be, but in a step of catching up.
LEMMA CatchingStays ==
  ASSUME TypeOK, [Next]_vars, ~Crash, ~CatchUp, NEW p, CatchingUp(p)
  PROVE  CatchingUp(p)'
<1>0. JobsOK /\ "stream" \in Tasks /\ "hear" \in Tasks /\ "pass" \in Tasks
      /\ jobs["stream"] # None /\ jobs["stream"].at = "catchup" /\ jobs["stream"].todo # {}
  BY DEF TypeOK, JobsOK, Tasks, CatchingUp
<1>1. CASE jobs' = jobs
  BY <1>1 DEF CatchingUp
<1>2. CASE \E t \in {"hear", "pass"} : \E j : Moves(t, j)
  <2>1. PICK t \in {"hear", "pass"} : \E j : Moves(t, j)
    BY <1>2
  <2>2. PICK j : Moves(t, j)
    BY <2>1
  <2>3. jobs'["stream"] = jobs["stream"]
    BY <1>0, <2>2, MovesOne
  <2>. QED BY <2>3 DEF CatchingUp
<1>9. ASSUME NEW t \in {"hear", "pass"}, NEW S \in SUBSET Products, Put(t, S) \/ Waits(t, S)
      PROVE  CatchingUp(p)'
  <2>1. t \in Tasks
    BY <1>0
  <2>2. \E j : Moves(t, j)
    BY <1>0, <1>9, <2>1, PutMoves DEF Waits
  <2>. QED BY <1>2, <2>2
<1>3. CASE \E t \in {"hear", "pass"} : Restreaming(t)
  <2>1. PICK t \in {"hear", "pass"} : Restreaming(t)
    BY <1>3
  <2>2. t \in Tasks
    BY <1>0
  <2>3. CASE Name(t)
    <3>1. jobs[t].subjects \in SUBSET Products
      BY <1>0, <2>2, <2>3, NameMoves, JobIs
    <3>. QED BY <1>0, <1>2, <1>9, <2>2, <2>3, <3>1, NameMoves
  <2>8. CASE AskVenue(t)
    BY <1>9, <2>2, <2>8, AskVenueMoves
  <2>4. CASE NameFails(t) \/ LakeFails(t)
    <3>1. Moves(t, None)
      BY <2>4 DEF NameFails, At, LakeFails, Ends, Over, Moves
    <3>. QED BY <1>2, <3>1
  <2>5. CASE ReadLake(t)
    BY <1>2, <2>2, <2>5, ReadLakeMoves DEF ReadsOn
  <2>6. CASE ReadHistory(t)
    BY <1>2, <2>2, <2>6, ReadHistoryMoves DEF ReadsOn, Reads, PassesOver
  <2>7. CASE RecordMissed(t)
    BY <1>2, <2>2, <2>7, RecordMissedMoves DEF ReadsOn
  <2>. QED BY <2>1, <2>3, <2>4, <2>5, <2>6, <2>7, <2>8 DEF Restreaming
<1>4. ASSUME NEW t \in Tasks, NEW w, Begins(t, w) PROVE CatchingUp(p)'
  <2>1. /\ t \in {"hear", "pass"} /\ standing' \in SUBSET Wants /\ Restream(t, standing')
        /\ Subjects(standing') \in SUBSET Products
    BY <1>4, BeginsMoves, SubjectsIn
  <2>. QED BY <1>9, <2>1, RestreamMoves
<1>5. ASSUME NEW t \in Tasks, Takes(t) \/ Flushed(t) PROVE CatchingUp(p)'
  <2>1. t # "stream"
    BY <1>0, <1>5, TakesMoves, FlushedMoves
  <2>2. \E j : Moves(t, j)
    BY <1>5, TakesMoves, FlushedMoves
  <2>. QED BY <1>2, <2>1, <2>2 DEF Tasks
<1>6. CASE Open
  BY <1>0, <1>6, OpenMoves
<1>7. CASE \E q \in Products : Message(q)
  BY <1>0, <1>7, MessageFacts
<1>8. CASE Reopen \/ Drop \/ Deployment \/ UNCHANGED vars
  BY <1>1, <1>8, DeploymentIs DEF Reopen, Drop, vars
<1>10. CASE Listing
  BY <1>2, <1>10, ListingMoves
<1>. QED BY <1>3, <1>4, <1>5, <1>6, <1>7, <1>8, <1>10, Steps

LEMMA HeardStep ==
  ASSUME TypeOK, TypeOK', Stands, Carries, Served, Behind, Behind', Heard, [Next]_vars
  PROVE  Heard'
<1>. SUFFICES ASSUME session' # None, NEW p, p \in session'.names, p \in streams',
                     last'[p] # 0, ~CatchingUp(p)', NEW n \in last'[p] + 1 .. session'.upto[p]
              PROVE  <<p, n>> \in Held'
  BY DEF Heard
<1>1. p \in Products /\ "stream" \in Tasks
  BY DEF TypeOK, Tasks
<1>2. /\ last'[p] \in Nat /\ made'[p] \in Nat /\ made[p] \in Nat /\ last[p] \in Nat
      /\ session'.upto[p] <= made'[p] /\ session'.upto[p] \in Nat /\ n \in Nat
  <2>1. session' \in Sessions
    BY DEF TypeOK, Sessions
  <2>2. session'.upto[p] \in Nat
    BY <1>1, <2>1, FeedAssumption DEF Sessions
  <2>. QED BY <1>1, <2>2, MadeGrows DEF Behind
<1>3. ~Crash
  BY DEF Crash
<1>4. CASE Open
  <2>1. jobs'["stream"] = Reading("catchup", wanted) /\ session'.names = wanted
    BY <1>1, <1>4, OpenMoves, MovesOne DEF TypeOK, JobsOK
  <2>2. Reading("catchup", wanted) # None
    BY JobsMade, FeedAssumption DEF TypeOK
  <2>3. CatchingUp(p)'
    BY <2>1, <2>2, ReadingIs DEF CatchingUp
  <2>. QED BY <2>3
<1>5. CASE ~Open
  <2>1. session # None /\ p \in session.names /\ p \in Subscribed
    BY <1>5, NamesIs DEF Subscribed
  <2>2. p \in streams
    BY <2>1, StreamedStays
  <2>3. last[p] # 0 /\ ~CatchingUp(p) => \A k \in last[p] + 1 .. session.upto[p] : <<p, k>> \in Held
    BY <2>1, <2>2 DEF Heard
  <2>4. CASE \E q \in Products : Message(q)
    <3>1. PICK q \in Products : Message(q)
      BY <2>4
    <3>2. /\ session.upto[q] + 1 \in 1 .. MaxTrade /\ Held \subseteq Held' /\ jobs["stream"] = None
          /\ session'.upto[p] = IF p = q THEN session.upto[q] + 1 ELSE session.upto[p]
          /\ HeardOne(q) \/ HeardNone(q)
      BY <1>1, <3>1, MessageFacts
    <3>3. CASE p = q
      <4>1. last'[p] >= session'.upto[p]
        BY <1>1, <1>2, <2>2, <3>2, <3>3 DEF HeardOne, HeardNone
      <4>. QED BY <1>2, <4>1
    <3>4. CASE p # q
      <4>1. last'[p] = last[p] /\ session'.upto[p] = session.upto[p]
        BY <1>1, <3>2, <3>4 DEF HeardOne, HeardNone
      <4>2. ~CatchingUp(p)
        BY <3>2 DEF CatchingUp
      <4>. QED BY <2>3, <3>2, <4>1, <4>2
    <3>. QED BY <3>3, <3>4
  <2>5. CASE session' = session
    <3>1. CASE Quiet /\ ~CatchUp
      <4>1. ~CatchingUp(p)
        BY <1>3, <3>1, CatchingStays
      <4>. QED BY <2>3, <2>5, <3>1, <4>1 DEF Quiet
    <3>2. CASE ~CatchUp /\ \E t \in {"hear", "pass"} : ReadHistory(t) /\ \E r \in jobs[t].lasts : Reads(t, r)
      <4>1. PICK t \in Tasks : t # "stream" /\ ReadHistory(t) /\ \E r \in jobs[t].lasts : Reads(t, r)
        BY <3>2 DEF Tasks
      <4>2. PICK r \in jobs[t].lasts : Reads(t, r)
        BY <4>1
      <4>3. /\ last'[p] = IF p = r[1] THEN made[p] ELSE last[p]
            /\ Held \subseteq Held' /\ made' = made
        BY <1>1, <4>1, <4>2, ReadsFacts DEF Unmoved
      <4>4. p # r[1]
        BY <1>2, <4>3
      <4>5. ~CatchingUp(p)
        BY <1>3, <3>2, CatchingStays
      <4>. QED BY <2>3, <2>5, <4>3, <4>4, <4>5
    <3>3. CASE CatchUp
      <4>1. PICK q \in Products : /\ \A v : CatchingUp(v) /\ v # q => CatchingUp(v)'
                                  /\ Caught(q) \/ Uncaught(q)
        BY <3>3, CatchUpFacts
      <4>2. Held \subseteq Held' /\ made' = made
        BY <3>3, CatchUpFacts DEF Unmoved
      <4>3. CASE p # q
        <5>1. ~CatchingUp(p) /\ last'[p] = last[p]
          BY <1>1, <4>1, <4>3 DEF Caught, Uncaught
        <5>. QED BY <2>3, <2>5, <4>2, <5>1
      <4>4. CASE p = q /\ Caught(q)
        <5>1. last'[p] = made[p]
          BY <1>1, <4>4 DEF Caught
        <5>. QED BY <1>2, <4>2, <5>1
      <4>5. CASE p = q /\ Uncaught(q)
        <5>1. last'[p] = last[p] /\ After(p, last[p]) \subseteq Held'
          BY <2>2, <4>5 DEF Uncaught
        <5>2. n \in last[p] + 1 .. made[p]
          BY <1>2, <4>2, <5>1
        <5>. QED BY <5>1, <5>2 DEF After
      <4>. QED BY <4>1, <4>3, <4>4, <4>5
    <3>. QED BY <1>3, <2>4, <3>1, <3>2, <3>3, QuietSteps
  <2>. QED BY <1>5, <2>4, <2>5, SessionIs
<1>. QED BY <1>4, <1>5

LEMMA BoundedStep ==
  ASSUME TypeOK, TypeOK', Carries, Started, Started', Behind, Behind', Bounded, [Next]_vars
  PROVE  Bounded'
<1>. SUFFICES ASSUME NEW x \in Known'
              PROVE  /\ x[2] <= made'[x[1]]
                     /\ first'[x[1]] # 0 => x[2] <= last'[x[1]]
                     /\ first'[x[1]] = 0 /\ session' # None => x[2] <= session'.upto[x[1]]
  BY DEF Bounded
<1>. DEFINE p == x[1]
            n == x[2]
<1>1. x \in Trades /\ p \in Products /\ n \in Nat
  <2>1. Known' \subseteq Trades
    <3>1. ASSUME NEW t \in Tasks PROVE Carried(jobs'[t]) \subseteq Trades /\ ReadFrom(jobs'[t]) \subseteq Trades
      <4>1. jobs'[t] = None \/ jobs'[t] \in Jobs
        BY DEF TypeOK
      <4>. QED BY <4>1 DEF Carried, ReadFrom, Jobs
    <3>2. recorded' \subseteq Trades /\ pending' \subseteq Trades
      BY DEF TypeOK
    <3>. QED BY <3>1, <3>2, KnownIs
  <2>. QED BY <2>1, FeedAssumption DEF Trades
<1>. HIDE DEF p, n
<1>2. x \in Known => /\ n <= made[p]
                     /\ first[p] # 0 => n <= last[p]
                     /\ first[p] = 0 /\ session # None => n <= session.upto[p]
  BY DEF Bounded, p, n
<1>3. /\ made[p] \in Nat /\ made'[p] \in Nat /\ made[p] <= made'[p]
      /\ last[p] \in Nat /\ last'[p] \in Nat /\ first[p] \in Nat /\ first'[p] \in Nat
  BY <1>1, MadeGrows
<1>4. (session # None => session.upto[p] \in Nat) /\ (session' # None => session'.upto[p] \in Nat)
  <2>1. (session # None => session \in Sessions) /\ (session' # None => session' \in Sessions)
    BY DEF TypeOK, Sessions
  <2>. QED BY <1>1, <2>1, FeedAssumption DEF Sessions
<1>. SUFFICES /\ n <= made'[p]
              /\ first'[p] # 0 => n <= last'[p]
              /\ first'[p] = 0 /\ session' # None => n <= session'.upto[p]
  BY DEF p, n
<1>5. CASE Crash
  <2>1. x \in recorded
    <3>1. pending' = {} /\ recorded' = recorded /\ jobs' = [t \in Tasks |-> None]
      BY <1>5 DEF Crash, NoJob, lake
    <3>2. ASSUME NEW t \in Tasks PROVE Carried(jobs'[t]) = {} /\ ReadFrom(jobs'[t]) = {}
      BY <3>1 DEF Carried, ReadFrom
    <3>. QED BY <3>1, <3>2, KnownIs
  <2>2. x \in Known
    BY <2>1, KnownIs
  <2>. QED BY <1>1, <1>2, <1>3, <1>5, <2>2 DEF Crash
<1>6. CASE \E q \in Products : Message(q)
  <2>1. PICK q \in Products : Message(q)
    BY <1>6
  <2>2. /\ session # None /\ session.upto[q] + 1 \in 1 .. MaxTrade /\ session.upto[q] + 1 <= made[q]
        /\ session'.upto[p] = IF p = q THEN session.upto[q] + 1 ELSE session.upto[p]
        /\ HeardOne(q) \/ HeardNone(q)
    BY <1>1, <2>1, MessageFacts
  <2>3. CASE HeardNone(q)
    BY <1>1, <1>2, <1>3, <1>4, <2>2, <2>3 DEF HeardNone
  <2>4. CASE HeardOne(q) /\ p # q
    <3>1. x \in Known
      BY <2>4 DEF HeardOne, p
    <3>. QED BY <1>1, <1>2, <1>3, <1>4, <2>2, <2>4, <3>1 DEF HeardOne
  <2>5. CASE HeardOne(q) /\ p = q
    <3>1. last'[p] = session.upto[p] + 1 /\ first'[p] # 0 /\ session.upto[p] + 1 > last[p]
      BY <1>1, <2>2, <2>5, FeedAssumption DEF HeardOne
    <3>2. x \in Known \/ n = session.upto[p] + 1
      BY <2>5 DEF HeardOne, n
    <3>. QED BY <1>1, <1>2, <1>3, <1>4, <2>2, <2>5, <3>1, <3>2
  <2>. QED BY <2>2, <2>3, <2>4, <2>5
<1>7. CASE Quiet /\ ~\E q \in Products : Message(q)
  <2>1. x \in Known /\ first' = first /\ last' = last
    BY <1>7 DEF Quiet
  <2>2. n <= made'[p] /\ (first'[p] # 0 => n <= last'[p])
    BY <1>1, <1>2, <1>3, <2>1
  <2>3. CASE Open
    <3>1. session'.upto = made
      BY <2>3, OpenMoves
    <3>. QED BY <1>1, <1>2, <2>1, <2>2, <3>1
  <2>4. CASE session' = session \/ session' = None
    BY <1>1, <1>2, <2>1, <2>2, <2>4
  <2>. QED BY <1>7, <2>3, <2>4, SessionIs
<1>8. CASE \E t \in {"hear", "pass"} : ReadHistory(t) /\ \E r \in jobs[t].lasts : Reads(t, r)
  <2>1. PICK t \in Tasks : ReadHistory(t) /\ \E r \in jobs[t].lasts : Reads(t, r)
    BY <1>8 DEF Tasks
  <2>2. PICK r \in jobs[t].lasts : Reads(t, r)
    BY <2>1
  <2>3. /\ r[2] \in 1 .. MaxTrade
        /\ last'[p] = IF p = r[1] THEN made[p] ELSE last[p]
        /\ first'[p] = IF p # r[1] THEN first[p]
                       ELSE IF first[p] = 0 \/ r[2] + 1 < first[p] THEN r[2] + 1 ELSE first[p]
        /\ session' = session /\ made' = made
        /\ Known' \subseteq Known \cup After(r[1], r[2])
    BY <1>1, <2>1, <2>2, ReadsFacts DEF Unmoved
  <2>4. CASE x \in Known
    <3>1. CASE p = r[1]
      <4>1. first'[p] # 0
        BY <1>3, <2>3, <3>1, FeedAssumption
      <4>. QED BY <1>2, <2>3, <2>4, <3>1, <4>1
    <3>2. CASE p # r[1]
      BY <1>2, <2>3, <2>4, <3>2
    <3>. QED BY <3>1, <3>2
  <2>5. CASE x \in After(r[1], r[2])
    <3>1. p = r[1] /\ n <= made[p]
      BY <1>3, <2>3, <2>5, FeedAssumption DEF After, p, n
    <3>2. first'[p] # 0
      BY <1>3, <2>3, <3>1, FeedAssumption
    <3>. QED BY <2>3, <3>1, <3>2
  <2>. QED BY <2>3, <2>4, <2>5
<1>9. CASE CatchUp
  <2>1. PICK q \in Products : Caught(q) \/ Uncaught(q)
    BY <1>9, CatchUpFacts
  <2>2. first' = first /\ session' = session /\ made' = made
    BY <1>9, CatchUpFacts DEF Unmoved
  <2>3. CASE Uncaught(q)
    BY <1>2, <2>2, <2>3 DEF Uncaught
  <2>4. CASE Caught(q) /\ p = q
    <3>1. last'[p] = made[p] /\ first[p] # 0
      BY <1>1, <2>4 DEF Caught, Started
    <3>2. n <= made[p]
      <4>1. CASE x \in Known
        BY <1>2, <4>1
      <4>2. CASE x \in After(q, last[q])
        BY <1>3, <2>4, <4>2 DEF After, n
      <4>. QED BY <2>4, <4>1, <4>2 DEF Caught
    <3>. QED BY <2>2, <3>1, <3>2
  <2>5. CASE Caught(q) /\ p # q
    <3>1. x \in Known
      BY <2>5 DEF Caught, After, p
    <3>2. last'[p] = last[p]
      BY <1>1, <2>5 DEF Caught
    <3>. QED BY <1>2, <2>2, <3>1, <3>2
  <2>. QED BY <2>1, <2>3, <2>4, <2>5
<1>. QED BY <1>5, <1>6, <1>7, <1>8, <1>9, QuietSteps

\* What is passed over unsaid: nothing.
LEMMA SkippedIs ==
  /\ NoneSkipped <=> \A p \in Products : last[p] # 0 => \A n \in first[p] .. last[p] : <<p, n>> \in Held
  /\ NoneSkipped' <=> \A p \in Products : last'[p] # 0 => \A n \in first'[p] .. last'[p] : <<p, n>> \in Held'
<1>1. Held = recorded \cup Underway \cup said /\ Held' = recorded' \cup Underway' \cup said'
  BY DEF Held
<1>. QED BY <1>1, Zenon DEF NoneSkipped

LEMMA NoneSkippedStep ==
  ASSUME TypeOK, TypeOK', Carries, Started, Heard, Bounded, NoneSkipped, [Next]_vars
  PROVE  NoneSkipped'
<1>. SUFFICES ASSUME NEW p \in Products, last'[p] # 0, NEW n \in first'[p] .. last'[p]
              PROVE  <<p, n>> \in Held'
  BY SkippedIs
<1>1. /\ made[p] \in Nat /\ last[p] \in Nat /\ last'[p] \in Nat /\ first[p] \in Nat /\ first'[p] \in Nat
      /\ n \in Nat
  BY MadeGrows
<1>2. last[p] # 0 /\ n \in first[p] .. last[p] => <<p, n>> \in Held
  BY SkippedIs
<1>3. CASE Crash
  BY <1>3 DEF Crash
<1>4. CASE Quiet
  BY <1>2, <1>4 DEF Quiet
<1>5. CASE \E t \in {"hear", "pass"} : ReadHistory(t) /\ \E r \in jobs[t].lasts : Reads(t, r)
  <2>1. PICK t \in Tasks : ReadHistory(t) /\ \E r \in jobs[t].lasts : Reads(t, r)
    BY <1>5 DEF Tasks
  <2>2. PICK r \in jobs[t].lasts : Reads(t, r)
    BY <2>1
  <2>3. /\ r \in Known /\ r[2] \in 1 .. MaxTrade
        /\ last'[p] = IF p = r[1] THEN made[p] ELSE last[p]
        /\ first'[p] = IF p # r[1] THEN first[p]
                       ELSE IF first[p] = 0 \/ r[2] + 1 < first[p] THEN r[2] + 1 ELSE first[p]
        /\ Held \subseteq Held' /\ After(r[1], r[2]) \subseteq Held'
    BY <2>1, <2>2, ReadsFacts
  <2>4. CASE p # r[1]
    BY <1>2, <2>3, <2>4
  <2>5. CASE p = r[1] /\ n > r[2]
    <3>1. n \in r[2] + 1 .. made[p]
      BY <1>1, <2>3, <2>5, FeedAssumption
    <3>. QED BY <2>3, <2>5, <3>1 DEF After
  <2>6. CASE p = r[1] /\ n <= r[2]
    <3>1. first[p] # 0 /\ first'[p] = first[p]
      BY <1>1, <2>3, <2>6, FeedAssumption
    <3>2. r[2] <= last[p] /\ last[p] # 0
      BY <2>3, <2>6, <3>1 DEF Bounded, Started
    <3>3. n \in first[p] .. last[p]
      BY <1>1, <2>3, <2>6, <3>1, <3>2, FeedAssumption
    <3>. QED BY <1>2, <2>3, <3>2, <3>3
  <2>. QED BY <1>1, <2>3, <2>4, <2>5, <2>6, FeedAssumption
<1>6. CASE CatchUp
  <2>1. PICK q \in Products : Caught(q) \/ Uncaught(q)
    BY <1>6, CatchUpFacts
  <2>2. first' = first /\ Held \subseteq Held'
    BY <1>6, CatchUpFacts
  <2>3. CASE Uncaught(q) \/ p # q
    <3>1. last'[p] = last[p]
      BY <2>1, <2>3 DEF Caught, Uncaught
    <3>. QED BY <1>2, <2>2, <3>1
  <2>4. CASE Caught(q) /\ p = q
    <3>1. last'[p] = made[p] /\ last[p] # 0 /\ After(p, last[p]) \subseteq Held'
      BY <2>4 DEF Caught
    <3>2. CASE n <= last[p]
      BY <1>1, <1>2, <2>2, <3>1, <3>2
    <3>3. CASE n > last[p]
      <4>1. n \in last[p] + 1 .. made[p]
        BY <1>1, <3>1, <3>3
      <4>. QED BY <3>1, <4>1 DEF After
    <3>. QED BY <1>1, <3>2, <3>3
  <2>. QED BY <2>1, <2>3, <2>4
<1>7. CASE \E q \in Products : Message(q)
  <2>1. PICK q \in Products : Message(q)
    BY <1>7
  <2>2. /\ session # None /\ jobs["stream"] = None /\ q \in session.names /\ Held \subseteq Held'
        /\ session.upto[q] + 1 \in 1 .. MaxTrade
        /\ HeardOne(q) \/ HeardNone(q)
    BY <2>1, MessageFacts
  <2>3. CASE HeardNone(q) \/ p # q
    <3>1. last'[p] = last[p] /\ first'[p] = first[p]
      BY <2>2, <2>3 DEF HeardOne, HeardNone
    <3>. QED BY <1>2, <2>2, <3>1
  <2>4. CASE HeardOne(q) /\ p = q
    <3>1. /\ p \in streams /\ last'[p] = session.upto[p] + 1 /\ session.upto[p] + 1 > last[p]
          /\ first'[p] = IF first[p] = 0 THEN session.upto[p] + 1 ELSE first[p]
          /\ <<p, session.upto[p] + 1>> \in Held'
      BY <2>4 DEF HeardOne
    <3>2. CASE n = session.upto[p] + 1
      BY <3>1, <3>2
    <3>3. CASE n # session.upto[p] + 1
      <4>1. session.upto[p] + 1 \in Nat
        BY <2>2, <2>4, FeedAssumption
      <4>2. first[p] # 0 /\ last[p] # 0 /\ n >= first[p] /\ n < session.upto[p] + 1
        BY <1>1, <3>1, <3>3, <4>1 DEF Started
      <4>3. CASE n <= last[p]
        BY <1>1, <1>2, <2>2, <4>2, <4>3
      <4>4. CASE n > last[p]
        <5>1. ~CatchingUp(p)
          BY <2>2 DEF CatchingUp
        <5>2. session.upto[p] \in Nat
          <6>1. session \in Sessions
            BY <2>2 DEF TypeOK, Sessions
          <6>. QED BY <6>1, FeedAssumption DEF Sessions
        <5>3. n \in last[p] + 1 .. session.upto[p]
          BY <1>1, <4>2, <4>4, <5>2
        <5>4. <<p, n>> \in Held
          BY <2>2, <2>4, <3>1, <4>2, <5>1, <5>3 DEF Heard
        <5>. QED BY <2>2, <5>4
      <4>. QED BY <1>1, <4>3, <4>4
    <3>. QED BY <3>2, <3>3
  <2>. QED BY <2>2, <2>3, <2>4
<1>. QED BY <1>3, <1>4, <1>5, <1>6, <1>7, QuietSteps

LEMMA InitInv == Init /\ Steady => IInv
<1>. SUFFICES ASSUME Init, Steady PROVE IInv
  OBVIOUS
<1>1. TypeOK /\ Calm
  BY InitType, InitCalm
<1>2. Stands /\ Carries /\ Started /\ Served /\ Behind /\ Heard
  BY DEF Init, NoJob, Stands, Carries, Started, Served, Subscribed, Behind, Heard, Subjects
<1>3. Bounded
  <2>1. /\ recorded = {} /\ pending = {} /\ \A t \in Tasks : jobs[t] = None
    BY DEF Init, NoJob
  <2>2. ASSUME NEW t \in Tasks PROVE Carried(jobs[t]) = {} /\ ReadFrom(jobs[t]) = {}
    BY <2>1 DEF Carried, ReadFrom
  <2>3. Known = {}
    BY <2>1, <2>2, KnownIs
  <2>. QED BY <2>3 DEF Bounded
<1>4. NoneSkipped
  BY DEF Init, NoneSkipped
<1>. QED BY <1>1, <1>2, <1>3, <1>4 DEF IInv

LEMMA InvStep == IInv /\ [Next]_vars => IInv'
<1>. SUFFICES ASSUME IInv, [Next]_vars PROVE IInv'
  OBVIOUS
<1>1. /\ TypeOK /\ Calm /\ Stands /\ Carries /\ Started /\ Served /\ Behind /\ Heard /\ Bounded
      /\ NoneSkipped
  BY DEF IInv
<1>2. TypeOK'
  BY <1>1, TypeStep
<1>3. Calm'
  <2>1. CASE Next
    BY <1>1, <1>2, <2>1, CalmStep
  <2>2. CASE UNCHANGED vars
    BY <1>1, <2>2 DEF vars, Calm, Lasting
  <2>. QED BY <2>1, <2>2
<1>4. Carries' /\ Stands'
  BY <1>1, <1>2, CarriesStep, StandsStep
<1>5. Started' /\ Behind'
  BY <1>1, <1>2, StartedStep, BehindStep
<1>6. Served'
  BY <1>1, <1>2, <1>4, ServedStep
<1>7. Heard'
  BY <1>1, <1>2, <1>4, <1>5, HeardStep
<1>8. Bounded'
  BY <1>1, <1>2, <1>5, BoundedStep
<1>9. NoneSkipped'
  BY <1>1, <1>2, NoneSkippedStep
<1>. QED BY <1>2, <1>3, <1>4, <1>5, <1>6, <1>7, <1>8, <1>9 DEF IInv

\* Between the first trade of a product that a process hears or reads back and
\* the last, each is in the lake, on its way there, or its loss was logged
\* (Feed._hear_trade, _missed, on_opened and flush): however the stream drops,
\* the naming fails, the listing is read again and what is read back races what is
\* heard, where no want is heard while the pass's restream waits and a withdrawn
\* want is the only one of its product (Steady).
THEOREM NoneIsSkipped == Spec /\ Steady => []NoneSkipped
<1>1. Init /\ Steady => IInv
  BY InitInv
<1>2. IInv /\ [Next]_vars => IInv'
  BY InvStep
<1>3. IInv => NoneSkipped
  BY DEF IInv
<1>. QED BY <1>1, <1>2, <1>3, PTL DEF Spec

=============================================================================
