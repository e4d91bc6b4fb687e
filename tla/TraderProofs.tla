----------------------------- MODULE TraderProofs -----------------------------
(***************************************************************************)
(* Proofs about the Trader, for any placements and any number of mishaps.  *)
(*                                                                         *)
(* 1. Types (`TypeCorrect`).                                               *)
(* 2. `Sound`, the invariant the rest stands on: what the book, the venue, *)
(*    the note in storage and the work in hand have to do with each other. *)
(*    From it: no double send, nothing sent under a pause or a stop, and   *)
(*    the refinement of Placing.                                           *)
(* 3. What holds only while some mishaps do not come together, each with   *)
(*    its assumption on `Budgets`: what was sent is watched                *)
(*    (`Followed`), the instruction held is the one in force (`Known`),    *)
(*    and a stop cancels what the venue works (`AllStopped`).              *)
(***************************************************************************)
EXTENDS Trader, SequenceTheorems, TLAPS

-----------------------------------------------------------------------------
(* The types of what the Trader keeps. *)

\* What a task has in hand is worked, where it reads it as worked.
InHand ==
    job # None =>
        /\ job.at = "status" => working[job.of] # None
        /\ job.by \in {"stop", "read"} => \A v \in job.todo : working[v.of] # None

\* A view of a placement is one of its type.
LEMMA ViewTyped ==
    ASSUME TypeOK, NEW p \in Placements
    PROVE  View(p) \in PlacementViews
BY DEF TypeOK, View, PlacementViews

\* The items of a task over placements are views of them.
LEMMA ViewsTyped ==
    ASSUME TypeOK, NEW P \in SUBSET Placements
    PROVE  {View(p) : p \in P} \in SUBSET PlacementViews
BY ViewTyped

\* A placement worked again, and one just sent, are worked.
LEMMA AgainTyped == ASSUME NEW state PROVE Again(state) \in Worked
BY DEF Again, Worked

\* One just sent, answered or not, is worked.
LEMMA SendingTyped == ASSUME NEW a \in BOOLEAN PROVE Sending(a) \in Worked
BY DEF Sending, Worked

\* What is kept of a worked placement stays worked.
LEMMA WorkedKept ==
    ASSUME NEW w \in Worked
    PROVE  /\ w # None
           /\ [w EXCEPT !.unknown = TRUE] \in Worked
           /\ [w EXCEPT !.acknowledged = TRUE, !.unknown = FALSE] \in Worked
           /\ [w EXCEPT !.filled = TRUE] \in Worked
           /\ [w EXCEPT !.cancel_sent = TRUE] \in Worked
           /\ \A e \in {"filled", "cancelled", "rejected"} : [w EXCEPT !.ended = e] \in Worked
           /\ \A n \in Nat : [w EXCEPT !.changes = n, !.cancel_sent = TRUE] \in Worked
           /\ [w EXCEPT !.order = TRUE, !.unanswered = FALSE] \in Worked
BY TraderAssumption DEF Worked, TraderAssumption

\* No order seen yet is a record of statuses.
LEMMA UnseenTyped == Unseen \in [Placements -> Statuses]
BY DEF Unseen, Statuses

\* A task begun, an item taken and an item done with are tasks.
LEMMA TaskTyped ==
    ASSUME NEW by \in {"start", "poll", "read", "hear", "stop", "release"},
           NEW at \in Between, NEW todo \in SUBSET PlacementViews,
           NEW was \in SUBSET Placements
    PROVE  Task(by, at, todo, was) \in Jobs
BY UnseenTyped DEF Task, Jobs, Between, Points

\* Taking an item up at a point of the work gives a task.
LEMMA TakingTyped ==
    ASSUME job \in Jobs, NEW v \in PlacementViews, NEW at \in Points
    PROVE  Taking(v, at) \in Jobs
BY DEF Taking, At, Jobs, PlacementViews

\* So does moving the one in hand to another point.
LEMMA AtTyped ==
    ASSUME job \in Jobs, NEW p \in Placements, NEW at \in Points
    PROVE  At(at, p) \in Jobs
BY DEF At, Jobs

\* And being done with it.
LEMMA DoneTyped ==
    ASSUME job \in Jobs, NEW v
    PROVE  Done(v) \in Jobs
BY UnseenTyped DEF Done, Jobs, Between, Points

\* A task that raised is one.
LEMMA RaisedTyped ==
    ASSUME job \in Jobs
    PROVE  Raised \in Jobs
BY DEF Raised, At, Jobs, Between, Points

\* The book's write leaves the book typed.
LEMMA WriteTyped ==
    ASSUME TypeOK, asks' \in [Placements -> Nat],
           NEW p \in Placements, NEW state \in BookStates, NEW waits \in BOOLEAN,
           Write(p, state, waits)
    PROVE  /\ book' \in [Placements -> BookStates]
           /\ pending' \subseteq Placements
           /\ changed' \subseteq Placements
           /\ inbox' \in Seq(Views)
           /\ ruling' \in Rulings
<1> DEFINE now == IF book[p] \in Ended THEN book[p] ELSE state
           isPending == waits /\ now \notin Ended
           v == [of |-> p, state |-> now, ask |-> IF isPending THEN asks'[p] ELSE 0]
<1>1. now \in BookStates
  BY DEF TypeOK
<1>2. v \in Views
  BY <1>1 DEF Views, PlacementViews
<1>3. inbox' \in Seq(Views)
  <2>1. inbox' = Delivered(v)
    BY DEF Write
  <2>2. inbox \in Seq(Views)
    BY DEF TypeOK
  <2> HIDE DEF v
  <2> QED BY <2>1, <2>2, <1>2 DEF Delivered
<1>4. book' = [book EXCEPT ![p] = now] /\ changed' = changed \cup {p} /\ ruling' = ruling
  BY DEF Write
<1>5. pending' = IF isPending THEN pending \cup {p} ELSE pending \ {p}
  BY DEF Write
<1> QED BY <1>1, <1>3, <1>4, <1>5 DEF TypeOK

\* A bound spent leaves what remains a number.
LEMMA SpendTyped ==
    ASSUME TypeOK, NEW m \in Mishaps, Spend(m)
    PROVE  left' \in [Mishaps -> Nat]
BY DEF TypeOK, Spend

\* What is taken up of a placement leaves the memory typed and what it has in
\* hand worked.
LEMMA OnQueuedTyped ==
    ASSUME TypeOK, InHand, NEW v \in PlacementViews, NEW others \in SUBSET Placements,
           job # None, job.at = "next", job.by \notin {"stop", "read"}, OnQueued(v, others)
    PROVE  /\ held' \subseteq Placements /\ decided' \subseteq Placements
           /\ working' \in [Placements -> Worked \cup {None}]
           /\ job' \in Jobs
           /\ job' # None => job'.by = job.by /\ job'.at # "status"
<1>1. job \in Jobs /\ v.of \in Placements
  BY DEF TypeOK, PlacementViews
<1>2. Done(v) \in Jobs /\ Taking(v, "reach") \in Jobs
  BY <1>1, DoneTyped, TakingTyped DEF Points
<1>3. /\ Done(v).by = job.by /\ Done(v).at = "next"
      /\ Taking(v, "reach").by = job.by /\ Taking(v, "reach").at = "reach"
  BY <1>1 DEF Done, Taking, At, Jobs
<1>4. Again("queued") \in Worked
  BY AgainTyped
<1>5. job' = Done(v) \/ job' = Taking(v, "reach")
  BY DEF OnQueued
<1>6. working' = working \/ working' = [working EXCEPT ![v.of] = Again("queued")]
  BY DEF OnQueued
<1>7. /\ held' \in {others, others \cup {v.of}}
      /\ decided' \in {decided, decided \cup {v.of}}
  BY DEF OnQueued
<1>8. working \in [Placements -> Worked \cup {None}] /\ held \subseteq Placements /\ decided \subseteq Placements
  BY DEF TypeOK
<1>9. working' \in [Placements -> Worked \cup {None}]
  BY <1>1, <1>4, <1>6, <1>8
<1>10. job' \in Jobs /\ job'.by = job.by /\ job'.at # "status"
  BY <1>2, <1>3, <1>5
<1> QED BY <1>1, <1>7, <1>8, <1>9, <1>10

-----------------------------------------------------------------------------
(* Every step keeps the types. *)

Typed == TypeOK /\ InHand

\* A step that leaves the job and what is worked alone leaves the one in hand
\* worked.
LEMMA InHandKept ==
    ASSUME InHand, UNCHANGED <<job, working>>
    PROVE  InHand'
BY DEF InHand

\* The surroundings' steps keep the types.
LEMMA AroundTyped ==
    ASSUME Typed,
           \/ \E p \in Placements : Place(p) \/ AskCancel(p) \/ Moves(p)
           \/ \E value \in Rulings : Rule(value)
           \/ OpenHearing \/ Boot
    PROVE  Typed'
<1> USE DEF Typed
<1>1. ASSUME NEW p \in Placements, Place(p) PROVE Typed'
  <2>1. /\ asks' \in [Placements -> Nat] /\ "queued" \in BookStates
        /\ Write(p, "queued", FALSE) /\ Spend("place")
    BY <1>1 DEF Place, TypeOK, BookStates
  <2>2. /\ book' \in [Placements -> BookStates] /\ pending' \subseteq Placements
        /\ changed' \subseteq Placements /\ inbox' \in Seq(Views) /\ ruling' \in Rulings
    BY <2>1, WriteTyped
  <2>3. UNCHANGED <<job, working>> BY <1>1 DEF Place, memory
  <2>4. InHand' BY <2>3, InHandKept
  <2>5. left' \in [Mishaps -> Nat] BY <2>1, SpendTyped DEF Mishaps
  <2> QED BY <1>1, <2>1, <2>2, <2>4, <2>5 DEF Place, TypeOK, venueVars, process, memory
<1>2. ASSUME NEW p \in Placements, AskCancel(p) PROVE Typed'
  <2>0. asks \in [Placements -> Nat] /\ asks' = [asks EXCEPT ![p] = @ + 1]
    BY <1>2 DEF AskCancel, TypeOK
  <2>a. asks' \in [Placements -> Nat]
    BY <2>0
  <2>b. book[p] \in BookStates
    BY DEF TypeOK
  <2>1. /\ asks' \in [Placements -> Nat] /\ book[p] \in BookStates
        /\ Write(p, book[p], TRUE) /\ Spend("ask")
    BY <1>2, <2>a, <2>b DEF AskCancel
  <2>2. /\ book' \in [Placements -> BookStates] /\ pending' \subseteq Placements
        /\ changed' \subseteq Placements /\ inbox' \in Seq(Views) /\ ruling' \in Rulings
    BY <2>1, WriteTyped
  <2>3. left' \in [Mishaps -> Nat] BY <2>1, SpendTyped DEF Mishaps
  <2>4. InHand' BY <1>2, InHandKept DEF AskCancel, memory
  <2> QED BY <1>2, <2>1, <2>2, <2>3, <2>4 DEF AskCancel, TypeOK, venueVars, process, memory
<1>3. ASSUME NEW p \in Placements, Moves(p) PROVE Typed'
  <2>1. status' \in [Placements -> Statuses]
    BY <1>3 DEF Moves, TypeOK, Statuses
  <2>2. left' \in [Mishaps -> Nat]
    <3>1. CASE Spend("odd") BY <3>1, SpendTyped DEF Mishaps
    <3> QED BY <1>3, <3>1 DEF Moves, TypeOK
  <2>3. InHand' BY <1>3, InHandKept DEF Moves, memory
  <2> QED BY <1>3, <2>1, <2>2, <2>3 DEF Moves, TypeOK, bookVars, process, memory
<1>4. ASSUME NEW value \in Rulings, Rule(value) PROVE Typed'
  <2> DEFINE v == [of |-> None, state |-> value, ask |-> 0]
  <2>1. v \in Views BY DEF Views
  <2>2. inbox' = Delivered(v) BY <1>4 DEF Rule
  <2>3. inbox' \in Seq(Views)
    <3>1. inbox \in Seq(Views) BY DEF TypeOK
    <3> HIDE DEF v
    <3> QED BY <2>1, <2>2, <3>1 DEF Delivered
  <2>4. left' \in [Mishaps -> Nat] BY <1>4, SpendTyped DEF Rule, Mishaps
  <2>5. InHand' BY <1>4, InHandKept DEF Rule, memory
  <2> QED BY <1>4, <2>3, <2>4, <2>5 DEF Rule, TypeOK, venueVars, process, memory
<1>5. CASE OpenHearing
  <2>1. InHand' BY <1>5, InHandKept DEF OpenHearing, memory
  <2> QED BY <1>5, <2>1 DEF OpenHearing, TypeOK, venueVars, bookVars, memory
<1>6. CASE Boot
  <2>1. InHand' BY <1>6, InHandKept DEF Boot, memory
  <2> QED BY <1>6, <2>1 DEF Boot, TypeOK, venueVars, bookVars, memory
<1> QED BY <1>1, <1>2, <1>3, <1>4, <1>5, <1>6

\* A step that only moves the job on, at a point that is not a report of the
\* venue's record, keeps the types.
LEMMA JobMoves ==
    ASSUME Typed, job' \in Jobs \cup {None}, left' \in [Mishaps -> Nat],
           job' # None => /\ job'.at # "status"
                          /\ job'.by \in {"stop", "read"} =>
                                \A v \in job'.todo : working[v.of] # None,
           UNCHANGED <<bookVars, venueVars, process, memory>>, sent' \subseteq Placements
    PROVE  Typed'
BY DEF Typed, TypeOK, InHand, bookVars, venueVars, process, memory

\* What is reported and what is kept of it are of their types.
LEMMA FactTyped ==
    ASSUME Typed, Reporting
    PROVE  /\ job \in Jobs /\ job.of \in Placements
           /\ Reported \in BookStates
           /\ Marked \in Worked \cup {None} /\ Kept \in Worked \cup {None}
           /\ job.at = "status" => Marked # None /\ Kept # None
<1> DEFINE w == working[job.of]
<1>1. job \in Jobs /\ job.of \in Placements
  BY DEF Typed, TypeOK, Reporting, Jobs, Between
<1>2. w \in Worked \cup {None} /\ (job.at = "status" => w \in Worked)
  BY <1>1 DEF Typed, TypeOK, InHand, Reporting
<1>3. CASE job.at = "status"
  <2>1. Fact \in {"odd", "rejected", "working", "filled", "cancelled"}
    BY <1>3 DEF Fact, Due, Reporting
  <2>2. w \in Worked /\ book[job.of] \in BookStates
    BY <1>1, <1>2, <1>3 DEF Typed, TypeOK
  <2>3. Reported \in BookStates
    BY <2>1, <2>2 DEF Reported, BookStates, Ended
  <2>4. Marked \in Worked
    <3> HIDE DEF w
    <3>1. working[job.of] \in Worked BY <2>2 DEF w
    <3> QED BY <1>3, <2>1, <3>1, WorkedKept DEF Marked
  <2>5. Kept \in Worked
    <3> HIDE DEF w
    <3>1. working[job.of] \in Worked BY <2>2 DEF w
    <3> QED BY <1>3, <2>1, <2>4, <3>1, WorkedKept DEF Kept
  <2> QED BY <1>1, <2>3, <2>4, <2>5, TraderAssumption DEF TraderAssumption
<1>4. CASE job.at # "status"
  <2>1. Fact = job.at /\ job.at \in {"unsupported", "refused", "unknown", "refusing", "fact"}
    BY <1>4 DEF Fact, Reporting
  <2>2. book[job.of] \in BookStates
    BY <1>1 DEF Typed, TypeOK
  <2>3. Reported \in BookStates
    BY <2>1, <2>2 DEF Reported, BookStates, Ended
  <2>4. Marked = w
    BY <1>4 DEF Marked
  <2>5. Kept \in Worked \cup {None}
    BY <2>1, <2>4, <1>2, SendingTyped DEF Kept
  <2> QED BY <1>1, <1>2, <1>4, <2>3, <2>4, <2>5
<1> QED BY <1>3, <1>4

\* A report made, or one that failed, keeps the types.
LEMMA ReportTyped ==
    ASSUME Typed, Report \/ ReportFails
    PROVE  Typed'
<1>0. Reporting
  BY DEF Report, ReportFails
<1>1. /\ job \in Jobs /\ job.of \in Placements
      /\ Reported \in BookStates
      /\ Marked \in Worked \cup {None} /\ Kept \in Worked \cup {None}
      /\ job.at = "status" => Marked # None /\ Kept # None
  BY <1>0, FactTyped
<1>2. ASSUME Recorded
      PROVE  /\ book' \in [Placements -> BookStates] /\ pending' \subseteq Placements
             /\ changed' \subseteq Placements /\ inbox' \in Seq(Views) /\ ruling' \in Rulings
             /\ asks' \in [Placements -> Nat]
  <2> DEFINE waits == job.of \in pending /\ Fact # "refusing"
  <2>1. asks' \in [Placements -> Nat] /\ Write(job.of, Reported, waits)
    BY <1>2 DEF Recorded, Typed, TypeOK
  <2>2. waits \in BOOLEAN OBVIOUS
  <2> HIDE DEF waits
  <2> QED BY <1>1, <2>1, <2>2, WriteTyped DEF Typed
<1>3. \A v \in PlacementViews : v.of \in Placements
  BY DEF PlacementViews
<1>4. CASE Report
  <2>1. working' = [working EXCEPT ![job.of] = Kept] /\ Recorded
    BY <1>4 DEF Report
  <2>2. working' \in [Placements -> Worked \cup {None}]
    BY <1>1, <2>1 DEF Typed, TypeOK
  <2>3. Over \in Jobs /\ Over.at = "next" /\ Over.by = job.by /\ Over.todo \subseteq job.todo
    BY <1>1, DoneTyped DEF Over, Done, Jobs
  <2>4. job' \in Jobs
    BY <1>1, <1>4, <2>3 DEF Report
  <2>5. InHand'
    <3>1. job.at = "status" => Kept # None
      BY <1>1
    <3>2. job.by \in {"stop", "read"} => \A v \in job.todo : working[v.of] # None
      BY <1>1, TraderAssumption DEF Typed, InHand, TraderAssumption
    <3>3. working[job.of] # None => Kept # None
      <4>1. Kept = None => Fact # "unknown" /\ Fact # "filled" /\ Kept = Marked
        <5>1. Sending(FALSE) # None
          BY SendingTyped, TraderAssumption DEF TraderAssumption
        <5>2. Fact = "filled" => job.at = "status"
          BY <1>0 DEF Fact, Reporting
        <5> QED BY <3>1, <5>1, <5>2 DEF Kept
      <4>2. job.at # "status" => Marked = working[job.of]
        BY DEF Marked
      <4> QED BY <3>1, <4>1, <4>2
    <3>4. \A p \in Placements : working[p] # None => working'[p] # None
      BY <1>1, <2>1, <3>3 DEF Typed, TypeOK
    <3>5. job.todo \subseteq PlacementViews
      BY <1>1 DEF Jobs
    <3>6. working'[job.of] = Kept
      BY <1>1, <2>1 DEF Typed, TypeOK
    <3>7. job' = job \/ job' = Over
      BY <1>4 DEF Report
    <3>8. job'.by = job.by /\ job'.todo \subseteq job.todo
      BY <2>3, <3>7
    <3>9. job'.at = "status" => job' = job
      BY <2>3, <3>7
    <3> QED BY <1>3, <3>1, <3>2, <3>4, <3>5, <3>6, <3>8, <3>9 DEF InHand
  <2> QED BY <1>2, <1>4, <2>1, <2>2, <2>4, <2>5
          DEF Report, Typed, TypeOK, venueVars, process
<1>5. CASE ReportFails
  <2>1. working' = [working EXCEPT ![job.of] = Marked] /\ job' = Raised
    BY <1>5 DEF ReportFails
  <2>2. working' \in [Placements -> Worked \cup {None}]
    BY <1>1, <2>1 DEF Typed, TypeOK
  <2>3. Raised \in Jobs /\ Raised.at = "raised" /\ Raised.by = job.by /\ Raised.todo = job.todo
    BY <1>1, RaisedTyped DEF Raised, At, Jobs
  <2>4. InHand'
    <3>1. working[job.of] # None => Marked # None
      <4>1. job.at # "status" => Marked = working[job.of]
        BY DEF Marked
      <4> QED BY <1>1, <4>1
    <3>2. \A p \in Placements : working[p] # None => working'[p] # None
      BY <1>1, <2>1, <3>1 DEF Typed, TypeOK
    <3>3. job.by \in {"stop", "read"} => \A v \in job.todo : working[v.of] # None
      BY <1>1, TraderAssumption DEF Typed, InHand, TraderAssumption
    <3>4. job.todo \subseteq PlacementViews
      BY <1>1 DEF Jobs
    <3> QED BY <1>3, <2>1, <2>3, <3>2, <3>3, <3>4 DEF InHand
  <2>5. left' \in [Mishaps -> Nat]
    BY <1>5, SpendTyped DEF ReportFails, Mishaps, Typed
  <2>6. /\ book' \in [Placements -> BookStates] /\ pending' \subseteq Placements
        /\ changed' \subseteq Placements /\ inbox' \in Seq(Views) /\ ruling' \in Rulings
        /\ asks' \in [Placements -> Nat]
    <3>1. CASE Recorded BY <3>1, <1>2
    <3>2. CASE UNCHANGED bookVars BY <3>2 DEF bookVars, Typed, TypeOK
    <3> QED BY <1>5, <3>1, <3>2 DEF ReportFails
  <2> QED BY <1>5, <2>1, <2>2, <2>3, <2>4, <2>5, <2>6
          DEF ReportFails, Typed, TypeOK, venueVars, process
<1> QED BY <1>4, <1>5

\* A view of one worked names one worked.
LEMMA ViewOf ==
    ASSUME NEW p
    PROVE  View(p).of = p
BY DEF View

\* A step of the job at a placement in hand keeps the types.
LEMMA HandTyped ==
    ASSUME Typed, Reach \/ Note \/ Cancel
    PROVE  Typed'
<1>1. /\ job \in Jobs /\ job # None
      /\ job.at \in {"reach", "note", "cancel"} /\ job.of \in Placements
      /\ left \in [Mishaps -> Nat] /\ sent \subseteq Placements /\ told \subseteq Placements
  BY DEF Typed, TypeOK, Reach, Note, Cancel, Doing, Jobs, Between
<1>2. \A at \in Points :
         /\ At(at, job.of) \in Jobs
         /\ At(at, job.of).at = at /\ At(at, job.of).by = job.by
         /\ At(at, job.of).todo = job.todo
  BY <1>1, AtTyped DEF At, Jobs
<1>3. /\ Over \in Jobs /\ Over.at = "next" /\ Over.by = job.by
      /\ Over.todo \subseteq job.todo
  BY <1>1, DoneTyped DEF Over, Done, Jobs
<1>4. job.by \in {"stop", "read"} => \A v \in job.todo : working[v.of] # None
  BY <1>1 DEF Typed, InHand
<1>5. ASSUME NEW m \in Mishaps, Spend(m) PROVE left' \in [Mishaps -> Nat]
  BY <1>5, SpendTyped DEF Typed
<1>6. {"note", "send", "unsupported", "fact", "refusing"} \subseteq Points \ {"status"}
  BY DEF Points
<1>7. CASE Reach
  <2>1. job' = At("note", job.of) \/ job' = At("unsupported", job.of)
    BY <1>7 DEF Reach
  <2>2. left' \in [Mishaps -> Nat]
    <3>1. CASE Spend("accounts") BY <3>1, <1>5 DEF Mishaps
    <3> QED BY <1>1, <1>7, <3>1 DEF Reach
  <2>3. /\ job' \in Jobs /\ job'.at # "status" /\ job'.by = job.by
        /\ job'.todo = job.todo
    BY <1>2, <1>6, <2>1
  <2> QED BY <1>1, <1>4, <1>7, <2>2, <2>3, JobMoves DEF Reach
<1>8. CASE Note
  <2>1. /\ job' = At("send", job.of) /\ sent' \subseteq Placements
        /\ left' \in [Mishaps -> Nat]
    BY <1>1, <1>8 DEF Note, Noted
  <2>2. /\ job' \in Jobs /\ job'.at # "status" /\ job'.by = job.by
        /\ job'.todo = job.todo
    BY <1>2, <1>6, <2>1
  <2> QED BY <1>4, <1>8, <2>1, <2>2, JobMoves DEF Note
<1>9. CASE Cancel
  <2>1. job' = Over \/ job' = At("fact", job.of) \/ job' = At("refusing", job.of)
    BY <1>9 DEF Cancel
  <2>2. told' \subseteq Placements
    BY <1>1, <1>9 DEF Cancel
  <2>3. left' \in [Mishaps -> Nat]
    <3>1. CASE Spend("refusal") BY <3>1, <1>5 DEF Mishaps
    <3>2. CASE Spend("unanswered") BY <3>2, <1>5 DEF Mishaps
    <3> QED BY <1>1, <1>9, <3>1, <3>2 DEF Cancel
  <2>4. /\ job' \in Jobs /\ job'.at # "status" /\ job'.by = job.by
        /\ job'.todo \subseteq job.todo
    BY <1>2, <1>3, <1>6, <2>1
  <2>5. InHand'
    BY <1>4, <1>9, <2>4 DEF InHand, Cancel, memory
  <2> QED BY <1>9, <2>2, <2>3, <2>4, <2>5
          DEF Typed, TypeOK, Cancel, bookVars, process, memory
<1> QED BY <1>7, <1>8, <1>9

\* A send, answered or not, keeps the types.
LEMMA SendTyped ==
    ASSUME Typed, Send
    PROVE  Typed'
<1> DEFINE p == job.of
<1>1. /\ job \in Jobs /\ job # None /\ job.at = "send" /\ p \in Placements
      /\ working \in [Placements -> Worked \cup {None}]
      /\ orders \in [Placements -> Nat] /\ status \in [Placements -> Statuses]
  BY DEF Typed, TypeOK, Send, Doing, Jobs, Between
<1>2. orders' \in [Placements -> Nat] /\ status' \in [Placements -> Statuses]
  <2>1. orders' = orders \/ orders' = [orders EXCEPT ![p] = orders[p] + 1]
    BY DEF Send
  <2>2. status' = status \/ status' = [status EXCEPT ![p] = "open"]
    BY DEF Send
  <2> QED BY <1>1, <2>1, <2>2 DEF Statuses
<1>w. working' = working \/ working' = [working EXCEPT ![p] = Sending(TRUE)]
  BY DEF Send
<1>3. working' \in [Placements -> Worked \cup {None}]
  BY <1>1, <1>w, SendingTyped
<1>4. left' \in [Mishaps -> Nat]
  <2>1. CASE Spend("unanswered") BY <2>1, SpendTyped DEF Mishaps, Typed
  <2> QED BY <2>1 DEF Send, Typed, TypeOK
<1>5. \A q \in Placements : working[q] # None => working'[q] # None
  BY <1>1, <1>w, SendingTyped, TraderAssumption DEF TraderAssumption
<1>6. \A at \in Points :
         /\ At(at, p) \in Jobs
         /\ At(at, p).at = at /\ At(at, p).by = job.by /\ At(at, p).of = p
         /\ At(at, p).todo = job.todo /\ At(at, p).seen \in [Placements -> Statuses]
  BY <1>1, AtTyped DEF At, Jobs
<1>7. [At("status", p) EXCEPT !.seen[p] = "open"] \in Jobs
  <2>1. At("status", p) \in Jobs BY <1>6 DEF Points
  <2> QED BY <2>1 DEF Jobs, Statuses
<1>8. /\ job' \in Jobs /\ job'.by = job.by /\ job'.of = p
      /\ job'.todo = job.todo
      /\ job'.at = "status" => working'[p] # None
  <2>1. CASE /\ job' = [At("status", p) EXCEPT !.seen[p] = "open"]
             /\ working' = [working EXCEPT ![p] = Sending(TRUE)]
    <3>1. working'[p] # None
      BY <1>1, <2>1, SendingTyped, TraderAssumption DEF TraderAssumption
    <3>2. At("status", p).of = p /\ At("status", p).by = job.by /\ At("status", p).todo = job.todo
      BY <1>6 DEF Points
    <3>3. At("status", p) \in Jobs BY <1>6 DEF Points
    <3> QED BY <1>7, <2>1, <3>1, <3>2, <3>3 DEF Jobs
  <2>2. CASE job' = At("refused", p) \/ job' = At("unknown", p)
    BY <1>6, <2>2 DEF Points
  <2> QED BY <2>1, <2>2 DEF Send
<1>9. InHand'
  <2>1. job.by \in {"stop", "read"} => \A v \in job.todo : working[v.of] # None
    BY <1>1 DEF Typed, InHand
  <2>2. \A v \in job.todo : v.of \in Placements
    BY <1>1 DEF Jobs, PlacementViews
  <2> QED BY <1>5, <1>8, <2>1, <2>2 DEF InHand
<1> QED BY <1>2, <1>3, <1>4, <1>8, <1>9 DEF Send, Typed, TypeOK, bookVars, process

\* The end of what is due keeps the types.
LEMMA NothingDueTyped ==
    ASSUME Typed, NothingDue
    PROVE  Typed'
<1>1. /\ job \in Jobs /\ job # None /\ job.at = "status" /\ job.of \in Placements
      /\ working \in [Placements -> Worked \cup {None}] /\ working[job.of] \in Worked
  BY DEF Typed, TypeOK, InHand, NothingDue, Doing, Jobs, Between
<1> DEFINE w == working[job.of]
           now == [w EXCEPT !.ended = IF job.seen[job.of] = "filled" THEN "filled" ELSE w.ended]
<1>2. now \in Worked
  BY <1>1 DEF Worked
<1>3. working' = [working EXCEPT ![job.of] = now]
  BY <1>1 DEF NothingDue, Worked
<1> HIDE DEF now
<1>4. working' \in [Placements -> Worked \cup {None}]
  BY <1>1, <1>2, <1>3
<1>5. \A q \in Placements : working[q] # None => working'[q] # None
  BY <1>1, <1>2, <1>3, TraderAssumption DEF TraderAssumption
<1>6. /\ Over \in Jobs /\ Over.at = "next" /\ Over.by = job.by
      /\ Over.todo \subseteq job.todo
  BY <1>1, DoneTyped DEF Over, Done, Jobs
<1>7. job' = Over
  BY DEF NothingDue
<1>8. InHand'
  <2>1. job.by \in {"stop", "read"} => \A v \in job.todo : working[v.of] # None
    BY <1>1 DEF Typed, InHand
  <2>2. \A v \in job.todo : v.of \in Placements
    BY <1>1 DEF Jobs, PlacementViews
  <2> QED BY <1>5, <1>6, <1>7, <2>1, <2>2 DEF InHand
<1> QED BY <1>4, <1>6, <1>7, <1>8
        DEF NothingDue, Typed, TypeOK, bookVars, venueVars, process

\* Taking up an item of the task, or being done with it, keeps the types.
LEMMA ItemTyped ==
    ASSUME Typed, NEW v \in job.todo,
           \/ Resume(v) \/ StopOne(v) \/ ReleaseOne(v) \/ ReadOrder(v)
    PROVE  Typed'
<1>1. /\ job \in Jobs /\ job # None /\ job.at = "next"
      /\ v \in PlacementViews /\ v.of \in Placements
      /\ working \in [Placements -> Worked \cup {None}]
      /\ \A u \in job.todo : u.of \in Placements
  BY DEF Typed, TypeOK, Resume, StopOne, ReleaseOne, ReadOrder, Doing, Jobs, PlacementViews
<1>2. /\ Done(v) \in Jobs /\ Done(v).at = "next" /\ Done(v).by = job.by
      /\ Done(v).todo \subseteq job.todo
  BY <1>1, DoneTyped DEF Done, Jobs
<1>3. \A at \in Points :
         /\ Taking(v, at) \in Jobs /\ Taking(v, at).at = at /\ Taking(v, at).of = v.of
         /\ Taking(v, at).by = job.by /\ Taking(v, at).todo \subseteq job.todo
  BY <1>1, TakingTyped DEF Taking, At, Jobs
<1>4. job.by \in {"stop", "read"} => \A u \in job.todo : working[u.of] # None
  BY <1>1 DEF Typed, InHand
<1>5. {"cancel", "status", "reach"} \subseteq Points
  BY DEF Points
<1>6. CASE Resume(v)
  <2> DEFINE w == IF working[v.of] = None THEN Again(v.state) ELSE working[v.of]
  <2>1. w \in Worked
    BY <1>1, AgainTyped
  <2>2. CASE /\ working' = [working EXCEPT ![v.of] =
                    IF Asked(w, v)
                    THEN [w EXCEPT !.changes = v.ask, !.cancel_sent = TRUE] ELSE w]
             /\ decided' = decided \cup {v.of}
             /\ job' = IF Asked(w, v) /\ ~w.cancel_sent THEN Taking(v, "cancel") ELSE Done(v)
             /\ UNCHANGED held
    <3>1. v.ask \in Nat
      BY <1>1 DEF PlacementViews
    <3>2. [w EXCEPT !.changes = v.ask, !.cancel_sent = TRUE] \in Worked
      BY <2>1, <3>1, WorkedKept
    <3>3. working' \in [Placements -> Worked \cup {None}]
      BY <1>1, <2>1, <2>2, <3>2
    <3>4. job' \in Jobs /\ job'.at # "status" /\ job'.by = job.by
      BY <1>2, <1>3, <1>5, <2>2
    <3>5. InHand'
      BY <1>6, <3>4 DEF InHand, Resume
    <3> QED BY <1>1, <1>6, <2>2, <3>3, <3>4, <3>5
            DEF Resume, Typed, TypeOK, bookVars, venueVars, process
  <2>3. CASE OnQueued(v, held)
    <3>1. job.by \notin {"stop", "read"}
      BY <1>6 DEF Resume
    <3>2. /\ held' \subseteq Placements /\ decided' \subseteq Placements
          /\ working' \in [Placements -> Worked \cup {None}]
          /\ job' \in Jobs
          /\ job' # None => job'.by = job.by /\ job'.at # "status"
      BY <1>1, <2>3, <3>1, OnQueuedTyped DEF Typed, TypeOK
    <3>3. InHand'
      BY <3>1, <3>2 DEF InHand
    <3> QED BY <1>6, <3>2, <3>3
            DEF Resume, Typed, TypeOK, bookVars, venueVars, process
  <2>4. CASE job' = Done(v) /\ UNCHANGED <<held, decided, working>>
    <3>1. InHand'
      BY <1>2, <1>6, <2>4 DEF InHand, Resume
    <3> QED BY <1>2, <1>6, <2>4, <3>1
            DEF Resume, Typed, TypeOK, bookVars, venueVars, process
  <2> QED BY <1>6, <2>2, <2>3, <2>4 DEF Resume
<1>7. CASE StopOne(v)
  <2>1. working[v.of] \in Worked
    BY <1>1, <1>4, <1>7 DEF StopOne
  <2>2. working' = working \/ working' = [working EXCEPT ![v.of] = [working[v.of] EXCEPT !.cancel_sent = TRUE]]
    BY <1>7 DEF StopOne
  <2>3. [working[v.of] EXCEPT !.cancel_sent = TRUE] \in Worked
    BY <2>1, WorkedKept
  <2>4. /\ working' \in [Placements -> Worked \cup {None}]
        /\ \A q \in Placements : working[q] # None => working'[q] # None
    BY <1>1, <2>2, <2>3, TraderAssumption DEF TraderAssumption
  <2>5. /\ job' \in Jobs /\ job'.at # "status" /\ job'.by = job.by
        /\ job'.todo \subseteq job.todo
    BY <1>2, <1>3, <1>5, <1>7 DEF StopOne
  <2>6. InHand'
    BY <1>1, <1>4, <2>4, <2>5 DEF InHand
  <2> QED BY <1>7, <2>4, <2>5, <2>6 DEF StopOne, Typed, TypeOK, bookVars, venueVars, process
<1>8. CASE ReleaseOne(v)
  <2>1. job.by = "release"
    BY <1>8 DEF ReleaseOne
  <2>2. CASE OnQueued(v, held \ {v.of})
    <3>1. held \ {v.of} \subseteq Placements
      BY DEF Typed, TypeOK
    <3>2. /\ held' \subseteq Placements /\ decided' \subseteq Placements
          /\ working' \in [Placements -> Worked \cup {None}]
          /\ job' \in Jobs
          /\ job' # None => job'.by = job.by /\ job'.at # "status"
      BY <1>1, <2>1, <2>2, <3>1, OnQueuedTyped DEF Typed, TypeOK
    <3>3. InHand'
      BY <2>1, <3>2 DEF InHand
    <3> QED BY <1>8, <3>2, <3>3 DEF ReleaseOne, Typed, TypeOK, bookVars, venueVars, process
  <2>3. CASE held' = held \ {v.of} /\ job' = Done(v) /\ UNCHANGED <<decided, working>>
    <3>1. InHand'
      BY <1>2, <2>1, <2>3 DEF InHand
    <3> QED BY <1>2, <1>8, <2>3, <3>1
            DEF ReleaseOne, Typed, TypeOK, bookVars, venueVars, process
  <2> QED BY <1>8, <2>2, <2>3 DEF ReleaseOne
<1>9. CASE ReadOrder(v)
  <2>1. working[v.of] \in Worked
    BY <1>1, <1>4, <1>9 DEF ReadOrder
  <2> DEFINE w == [working[v.of] EXCEPT !.order = TRUE, !.unanswered = FALSE]
  <2>2. w \in Worked
    BY <2>1, WorkedKept
  <2>3. \/ working' = working /\ job' = Done(v)
        \/ working' = [working EXCEPT ![v.of] = w] /\ job' = Taking(v, "status")
    <3>1. [working EXCEPT ![v.of].order = TRUE, ![v.of].unanswered = FALSE]
          = [working EXCEPT ![v.of] = w]
      BY <1>1, <2>1 DEF Worked
    <3> QED BY <1>9, <3>1 DEF ReadOrder
  <2> HIDE DEF w
  <2>4. /\ working' \in [Placements -> Worked \cup {None}]
        /\ \A q \in Placements : working[q] # None => working'[q] # None
    BY <1>1, <2>2, <2>3, TraderAssumption DEF TraderAssumption
  <2>5. /\ job' \in Jobs /\ job'.by = job.by /\ job'.todo \subseteq job.todo
        /\ job'.at = "status" => job'.of = v.of
    BY <1>2, <1>3, <1>5, <2>3
  <2>6. InHand'
    BY <1>1, <1>4, <1>9, <2>4, <2>5 DEF InHand, ReadOrder
  <2> QED BY <1>9, <2>4, <2>5, <2>6 DEF ReadOrder, Typed, TypeOK, bookVars, venueVars, process
<1> QED BY <1>6, <1>7, <1>8, <1>9

\* Hearing a delivery keeps the types.
LEMMA HearsTyped ==
    ASSUME Typed, Hears
    PROVE  Typed'
<1>1. inbox # <<>> /\ inbox \in Seq(Views) /\ inbox' = Tail(inbox)
  BY DEF Typed, TypeOK, Hears, HearPlacement, HearInstruction, HearEarly, Heard
<1>2. Head(inbox) \in Views /\ inbox' \in Seq(Views)
  BY <1>1, HeadTailProperties
<1>3. CASE HearPlacement
  <2>1. Head(inbox) \in PlacementViews
    BY <1>2, <1>3 DEF Views, HearPlacement
  <2> DEFINE T == Task("hear", "next", {Head(inbox)}, {})
  <2>2. T \in Jobs
    BY <2>1, TaskTyped DEF Between
  <2>3. T.at = "next" /\ T.by = "hear"
    BY DEF Task
  <2>4. job' = T
    BY <1>3 DEF HearPlacement
  <2>5. InHand'
    BY <2>3, <2>4 DEF InHand
  <2> HIDE DEF T
  <2> QED BY <1>2, <1>3, <2>2, <2>4, <2>5
          DEF HearPlacement, Typed, TypeOK, venueVars, process, memory
<1>4. CASE HearInstruction
  <2> DEFINE value == Head(inbox).state
             P == Covered(value)
             S == {View(p) : p \in P}
  <2>1. value \in Rulings
    BY <1>2, <1>4, TraderAssumption
    DEF Views, PlacementViews, HearInstruction, TraderAssumption
  <2>2. P \subseteq Placements
    BY <2>1 DEF Covered, Typed, TypeOK, Rulings
  <2>3. S \in SUBSET PlacementViews
    BY <2>2, ViewsTyped DEF Typed
  <2>4. CASE value = "stop"
    <3> DEFINE T == Task("stop", "next", S, {})
    <3>1. T \in Jobs
      BY <2>3, TaskTyped DEF Between
    <3>2. T.at = "next" /\ T.todo = S
      BY DEF Task
    <3>3. \A v \in S : working[v.of] # None
      BY <2>4, ViewOf DEF Covered
    <3>4. job' = T /\ working' = working
      BY <1>4, <2>4 DEF HearInstruction
    <3>5. InHand'
      BY <3>2, <3>3, <3>4 DEF InHand
    <3> HIDE DEF T, S, P
    <3> QED BY <1>2, <1>4, <2>1, <3>1, <3>4, <3>5
            DEF HearInstruction, Typed, TypeOK, venueVars, process
  <2>5. CASE value = "active"
    <3> DEFINE T == Task("release", "next", S, {})
    <3>1. T \in Jobs
      BY <2>3, TaskTyped DEF Between
    <3>2. T.at = "next" /\ T.by = "release"
      BY DEF Task
    <3>4. job' = T
      BY <1>4, <2>5 DEF HearInstruction
    <3>5. InHand'
      BY <3>2, <3>4 DEF InHand
    <3> HIDE DEF T, S, P
    <3> QED BY <1>2, <1>4, <2>1, <3>1, <3>4, <3>5
            DEF HearInstruction, Typed, TypeOK, venueVars, process
  <2>6. CASE value = "pause"
    <3>1. job' = None
      BY <1>4, <2>6 DEF HearInstruction
    <3>2. InHand'
      BY <3>1 DEF InHand
    <3> HIDE DEF S, P
    <3> QED BY <1>2, <1>4, <2>1, <3>1, <3>2
            DEF HearInstruction, Typed, TypeOK, venueVars, process
  <2> QED BY <2>1, <2>4, <2>5, <2>6 DEF Rulings
<1>5. CASE HearEarly
  <2>1. InHand'
    BY <1>5, InHandKept DEF HearEarly, memory, Typed
  <2> QED BY <1>2, <1>5, <2>1 DEF HearEarly, Typed, TypeOK, venueVars, process, memory
<1> QED BY <1>3, <1>4, <1>5 DEF Hears

\* An item whose order is not found is done with.
LEMMA UnfoundStep ==
    ASSUME TypeOK, NEW v \in Items, Unfound(v)
    PROVE  /\ job # None /\ job \in Jobs /\ job.at = "next" /\ v \in job.todo
           /\ job.by \in {"start", "poll", "hear", "release"}
           /\ job' # None /\ job' \in Jobs /\ job'.at = "next" /\ job'.by = job.by
           /\ job'.todo = job.todo \ {v} /\ job'.seen = Unseen
<1>1. /\ job # None /\ job \in Jobs /\ job.at = "next" /\ v \in job.todo
      /\ job.by \in {"start", "poll", "hear", "release"} /\ job' = Done(v)
  BY DEF Unfound, Doing, TypeOK
<1>2. Done(v) \in Jobs
  BY <1>1, DoneTyped
<1>3. /\ Done(v).at = "next" /\ Done(v).by = job.by
      /\ Done(v).todo = job.todo \ {v} /\ Done(v).seen = Unseen
  BY <1>1 DEF Done, Jobs
<1> QED BY <1>1, <1>2, <1>3, TraderAssumption DEF TraderAssumption

\* A task begun, given up or finished keeps the types.
LEMMA TasksTyped ==
    ASSUME Typed,
           \/ GiveUp \/ StartInstructions \/ StartBook \/ Poll \/ ReadOrders
           \/ Finish \/ ReadFails \/ Crash
           \/ \E v \in Items : Unfound(v)
    PROVE  Typed'
<1>1. CASE GiveUp
  <2>1. job \in Jobs /\ job.was \subseteq Placements
    BY <1>1 DEF GiveUp, Doing, Typed, TypeOK, Jobs
  <2>2. InHand'
    BY <1>1 DEF GiveUp, InHand
  <2>3. <<>> \in Seq(Views)
    BY EmptySeq
  <2>4. inbox' \in Seq(Views)
    BY <1>1, <2>3 DEF GiveUp, Typed, TypeOK
  <2>5. phase' = phase /\ hearing' \in BOOLEAN
    BY <1>1 DEF GiveUp, process, Typed, TypeOK
  <2> QED BY <1>1, <2>1, <2>2, <2>4, <2>5 DEF GiveUp, Typed, TypeOK, venueVars, memory
<1>2. CASE StartInstructions
  <2> DEFINE T == Task("start", "reading", {}, {})
  <2>1. T \in Jobs
    BY TaskTyped DEF Between
  <2>2. T.at = "reading" /\ T.by = "start" /\ job' = T
    BY <1>2 DEF Task, StartInstructions
  <2>3. InHand'
    BY <2>2 DEF InHand
  <2> HIDE DEF T
  <2> QED BY <1>2, <2>1, <2>2, <2>3
          DEF StartInstructions, Listed, Typed, TypeOK, bookVars, venueVars, process
<1>3. CASE StartBook
  <2> DEFINE S == {View(p) : p \in {q \in Placements : book[q] # "absent"}}
             T == Task("start", "next", S, {})
  <2>1. S \in SUBSET PlacementViews
    BY ViewsTyped DEF Typed
  <2>2. T \in Jobs
    BY <2>1, TaskTyped DEF Between
  <2>3. T.at = "next" /\ T.by = "start" /\ job' = T
    BY <1>3 DEF Task, StartBook
  <2>4. InHand'
    BY <2>3 DEF InHand
  <2> HIDE DEF T, S
  <2> QED BY <1>3, <2>2, <2>3, <2>4
          DEF StartBook, Typed, TypeOK, venueVars, process, memory
<1>4. CASE Poll
  <2> DEFINE S == {View(p) : p \in changed}
             T == Task("poll", "next", S, changed)
  <2>1. changed \in SUBSET Placements
    BY DEF Typed, TypeOK
  <2>2. S \in SUBSET PlacementViews
    BY <2>1, ViewsTyped DEF Typed
  <2>3. T \in Jobs
    BY <2>1, <2>2, TaskTyped DEF Between
  <2>4. T.at = "next" /\ T.by = "poll" /\ job' = T
    BY <1>4 DEF Task, Poll
  <2>5. InHand'
    BY <2>4 DEF InHand
  <2> HIDE DEF T, S
  <2> QED BY <1>4, <2>3, <2>4, <2>5
          DEF Poll, Typed, TypeOK, venueVars, process, memory
<1>5. CASE ReadOrders
  <2> DEFINE S == {View(p) : p \in {q \in Placements : working[q] # None}}
             T == Task("read", "next", S, {})
             J == [T EXCEPT !.seen = status]
  <2>1. S \in SUBSET PlacementViews
    BY ViewsTyped DEF Typed
  <2>2. T \in Jobs
    BY <2>1, TaskTyped DEF Between
  <2>3. T.at = "next" /\ T.by = "read" /\ T.todo = S
    BY DEF Task
  <2>4. \A v \in S : working[v.of] # None
    BY ViewOf
  <2>5. status \in [Placements -> Statuses] /\ left \in [Mishaps -> Nat]
    BY DEF Typed, TypeOK
  <2>6. job' = J \/ job' = None
    BY <1>5 DEF ReadOrders
  <2> HIDE DEF T, S
  <2>7. J \in Jobs /\ J.at = "next" /\ J.by = "read" /\ J.todo = S
    BY <2>2, <2>3, <2>5 DEF Jobs
  <2>8. left' \in [Mishaps -> Nat]
    <3>1. CASE Spend("orders") BY <3>1, SpendTyped DEF Mishaps, Typed
    <3> QED BY <1>5, <2>5, <3>1 DEF ReadOrders
  <2> HIDE DEF J
  <2>9. /\ job' \in Jobs \cup {None}
        /\ job' # None => /\ job'.at # "status"
                          /\ \A v \in job'.todo : working[v.of] # None
    BY <2>4, <2>6, <2>7
  <2>10. UNCHANGED <<bookVars, venueVars, process, memory>> /\ sent' \subseteq Placements
    BY <1>5 DEF ReadOrders, Typed, TypeOK
  <2> QED BY <2>8, <2>9, <2>10, JobMoves
<1>6. CASE Finish
  <2>1. job' = None /\ phase' \in {"down", "starting", "started"}
    BY <1>6 DEF Finish, Typed, TypeOK
  <2>2. InHand'
    BY <2>1 DEF InHand
  <2> QED BY <1>6, <2>1, <2>2 DEF Finish, Typed, TypeOK, bookVars, venueVars, memory
<1>7. CASE ReadFails
  <2>1. job \in Jobs /\ job # None
    BY <1>7 DEF ReadFails, Doing, Typed, TypeOK
  <2>2. /\ Raised \in Jobs /\ Raised.at = "raised" /\ Raised.by = job.by
        /\ Raised.todo = job.todo /\ job' = Raised
    BY <1>7, <2>1, RaisedTyped DEF Raised, At, Jobs, ReadFails
  <2>3. left' \in [Mishaps -> Nat]
    BY <1>7, SpendTyped DEF ReadFails, Mishaps, Typed
  <2>4. held' \subseteq Placements
    BY <1>7 DEF ReadFails, Typed, TypeOK
  <2>5. InHand'
    BY <1>7, <2>1, <2>2 DEF ReadFails, InHand, Typed
  <2> QED BY <1>7, <2>2, <2>3, <2>4, <2>5
          DEF ReadFails, Typed, TypeOK, bookVars, venueVars, process
<1>8. CASE Crash
  <2>1. InHand'
    BY <1>8 DEF Crash, InHand
  <2>2. left' \in [Mishaps -> Nat]
    BY <1>8, SpendTyped DEF Crash, Mishaps, Typed
  <2>3. inbox' \in Seq(Views)
    BY <1>8, EmptySeq DEF Crash
  <2> QED BY <1>8, <2>1, <2>2, <2>3 DEF Crash, Typed, TypeOK, venueVars, Rulings
<1>9. ASSUME NEW v \in Items, Unfound(v) PROVE Typed'
  <2>1. job' \in Jobs /\ job'.at = "next" /\ job'.by \notin {"stop", "read"}
    BY <1>9, UnfoundStep DEF Typed
  <2>2. left' \in [Mishaps -> Nat]
    BY <1>9, SpendTyped DEF Unfound, Mishaps, Typed
  <2>3. held' \subseteq Placements
    BY <1>9 DEF Unfound, Typed, TypeOK
  <2>4. InHand'
    BY <1>9, <2>1 DEF InHand
  <2> QED BY <1>9, <2>1, <2>2, <2>3, <2>4
          DEF Unfound, Typed, TypeOK, bookVars, venueVars, process
<1> QED BY <1>1, <1>2, <1>3, <1>4, <1>5, <1>6, <1>7, <1>8, <1>9

\* Every step keeps the types.
LEMMA TypeStep ==
    ASSUME Typed, [Next]_vars
    PROVE  Typed'
<1>1. CASE Next
  <2>1. CASE Works
    <3>1. CASE \E v \in Items : Resume(v) \/ StopOne(v) \/ ReleaseOne(v) \/ ReadOrder(v)
      <4>1. job # None
        BY <3>1 DEF Items
      <4> QED BY <3>1, <4>1, ItemTyped DEF Items
    <3> QED BY <2>1, <3>1, TasksTyped, HandTyped, SendTyped, ReportTyped, NothingDueTyped
            DEF Works
  <2> QED BY <1>1, <2>1, AroundTyped, HearsTyped, TasksTyped, ReportTyped DEF Next
<1>2. CASE UNCHANGED vars
  BY <1>2 DEF vars, Typed, TypeOK, InHand
<1> QED BY <1>1, <1>2

\* The initial states are typed.
LEMMA TypeInit ==
    ASSUME Init
    PROVE  Typed
<1>1. <<>> \in Seq(Views)
  BY EmptySeq
<1> QED BY <1>1, TraderAssumption
        DEF Init, Typed, TypeOK, InHand, BookStates, Statuses, Rulings, TraderAssumption

\* What the Trader keeps, and what the book and the venue hold, keeps its type
\* whatever crashes, reads, calls and reports that fail come between.
THEOREM TypeCorrect == Spec => []TypeOK
<1>1. Init => Typed
  BY TypeInit
<1>2. Typed /\ [Next]_vars => Typed'
  BY TypeStep
<1>3. Typed => TypeOK
  BY DEF Typed
<1> QED BY <1>1, <1>2, <1>3, PTL DEF Spec

-----------------------------------------------------------------------------
(* The invariant: what the book, the venue, the note in storage and the    *)
(* work in hand have to do with each other.                                *)

\* Where a placement in hand is still to be answered as nothing placed.
Queueing == {"reach", "unsupported", "note", "send", "refused"}
Closed == {"filled", "cancelled", "rejected"}

\* A placement has an order where it has a status, and only once noted.
Counted ==
    \A p \in Placements :
        /\ orders[p] \in {0, 1}
        /\ p \notin sent => orders[p] = 0
        /\ orders[p] = 0 <=> status[p] = "none"
        /\ orders[p] = 1 => book[p] # "absent"

\* The placement in hand is queued and has no order until one is made, and what
\* was seen of an order that has closed is how it stands.
AtHand ==
    job # None =>
        /\ job.at \in Queueing => book[job.of] = "queued" /\ orders[job.of] = 0
        /\ job.at = "send" => job.of \in sent
        /\ job.at \notin Between => job.of \in decided
        /\ job.at = "status" => job.seen[job.of] # "none"
        /\ \A p \in Placements :
              job.seen[p] # "none" =>
                  /\ orders[p] = 1
                  /\ job.seen[p] \in Closed => status[p] = job.seen[p]

\* What is worked was decided on.
Watching == \A p \in Placements : working[p] # None => p \in decided

\* A view of a placement as queued is as the book has it, or of one decided on.
Fresh(v) ==
    v.of \in Placements /\ v.state = "queued" => book[v.of] = "queued" \/ v.of \in decided

NotStale ==
    /\ \A i \in 1..Len(inbox) : Fresh(inbox[i])
    /\ job # None => \A v \in job.todo : Fresh(v)

\* The instruction is not heard between the decision to send and the send.
UnderHold == job # None /\ job.at \in {"reach", "note", "send"} => instruction = "active"

Sound == Typed /\ Counted /\ AtHand /\ Watching /\ NotStale /\ UnderHold

-----------------------------------------------------------------------------
(* Views, as the book moves on. *)

\* A view stays fresh where no placement leaves the queue undecided.
FreshNext(v) ==
    v.of \in Placements /\ v.state = "queued" => book'[v.of] = "queued" \/ v.of \in decided'

Ahead ==
    /\ decided \subseteq decided'
    /\ \A p \in Placements : book[p] = "queued" => book'[p] = "queued" \/ p \in decided'

\* A view of a placement that left the queue is of one decided on.
LEMMA FreshKept ==
    ASSUME Ahead, NEW v, Fresh(v)
    PROVE  FreshNext(v)
BY DEF Ahead, Fresh, FreshNext

\* A view taken of the book is fresh.
LEMMA ViewFresh ==
    ASSUME NEW P
    PROVE  \A v \in {View(p) : p \in P} : Fresh(v)
BY DEF View, Fresh

\* What is delivered next: as it was, one more, one fewer or none.
InboxNext ==
    \/ inbox' = inbox \/ inbox' = <<>>
    \/ inbox # <<>> /\ inbox' = Tail(inbox)
    \/ \E v \in Views : FreshNext(v) /\ inbox' = Append(inbox, v)

\* What is delivered stays fresh as the book moves on.
LEMMA InboxFresh ==
    ASSUME Sound, Ahead, InboxNext
    PROVE  \A i \in 1..Len(inbox') : FreshNext(inbox'[i])
<1>1. inbox \in Seq(Views) /\ \A i \in 1..Len(inbox) : FreshNext(inbox[i])
  BY FreshKept DEF Sound, Typed, TypeOK, NotStale
<1>2. CASE inbox' = inbox
  BY <1>1, <1>2
<1>3. CASE inbox' = <<>>
  BY <1>3
<1>4. CASE inbox # <<>> /\ inbox' = Tail(inbox)
  <2>1. /\ Len(inbox') = Len(inbox) - 1 /\ Len(inbox) \in Nat
        /\ \A i \in 1..Len(inbox') : inbox'[i] = inbox[i + 1]
    BY <1>1, <1>4, HeadTailProperties
  <2>2. \A i \in 1..Len(inbox') : i + 1 \in 1..Len(inbox)
    BY <2>1
  <2> QED BY <1>1, <2>1, <2>2
<1>5. ASSUME NEW v \in Views, FreshNext(v), inbox' = Append(inbox, v)
      PROVE  \A i \in 1..Len(inbox') : FreshNext(inbox'[i])
  <2>1. /\ Len(inbox') = Len(inbox) + 1 /\ Len(inbox) \in Nat
        /\ \A i \in 1..Len(inbox) : inbox'[i] = inbox[i]
        /\ inbox'[Len(inbox) + 1] = v
    BY <1>1, <1>5, AppendProperties
  <2>2. \A i \in 1..Len(inbox') : i \in 1..Len(inbox) \/ i = Len(inbox) + 1
    BY <2>1
  <2> QED BY <1>1, <1>5, <2>1, <2>2
<1> QED BY <1>2, <1>3, <1>4, <1>5 DEF InboxNext

\* The same, of what is delivered and what is to be taken up.
LEMMA StaleNever ==
    ASSUME Sound, Ahead, InboxNext,
           job' # None => \A v \in job'.todo : FreshNext(v)
    PROVE  NotStale'
BY InboxFresh DEF NotStale, Fresh, FreshNext

-----------------------------------------------------------------------------
(* Every step keeps the invariant. *)

\* A step that makes no order, tells the book nothing and takes nothing up: the
\* job moves between items, or on with the one in hand.
Onward ==
    job' # None =>
        /\ \/ job'.at \in Between
           \/ /\ job # None /\ job'.of = job.of /\ instruction' = instruction
              /\ \/ job'.at = job.at
                 \/ job.at = "reach" /\ job'.at \in {"note", "unsupported"}
                 \/ job.at \notin Between /\ job'.at \in {"cancel", "refusing", "fact"}
        /\ \A v \in job'.todo : Fresh(v)
        /\ \/ job # None /\ job'.seen = job.seen
           \/ job'.at # "status" /\ (job'.seen = Unseen \/ job'.seen = status)

\* Such a step keeps the invariant.
LEMMA Quiet ==
    ASSUME Sound, Typed', UNCHANGED <<book, status, orders, sent, decided>>,
           \A p \in Placements : working'[p] # None => working[p] # None,
           InboxNext, Onward
    PROVE  Sound'
<1>1. Counted'
  BY DEF Sound, Counted
<1>2. AtHand'
  <2> SUFFICES ASSUME job' # None PROVE AtHand'
    BY DEF AtHand
  <2>1. job # None /\ job'.at \notin Between => job'.of = job.of
    BY DEF Onward
  <2>2. \A p \in Placements :
          job'.seen[p] # "none" =>
              /\ orders[p] = 1
              /\ job'.seen[p] \in Closed => status[p] = job'.seen[p]
    <3>1. CASE job'.seen = Unseen BY <3>1 DEF Unseen
    <3>2. CASE job'.seen = status BY <3>2 DEF Sound, Counted
    <3>3. CASE job # None /\ job'.seen = job.seen BY <3>3 DEF Sound, AtHand
    <3> QED BY <3>1, <3>2, <3>3 DEF Onward
  <2>3. job'.at = "status" => job'.seen[job'.of] # "none"
    <3> SUFFICES ASSUME job'.at = "status" PROVE job'.seen[job'.of] # "none"
      OBVIOUS
    <3>1. job # None /\ job'.of = job.of /\ job.at = "status"
      BY DEF Onward, Between
    <3>2. job.seen[job.of] # "none" /\ job.of \in Placements
      BY <3>1 DEF Sound, AtHand, Typed, TypeOK, Jobs, Between
    <3> QED BY <3>1, <3>2 DEF Onward
  <2> QED BY <2>1, <2>2, <2>3 DEF Sound, AtHand, Onward, Queueing, Between
<1>3. Watching'
  BY DEF Sound, Watching
<1>4. Ahead
  BY DEF Ahead
<1>5. NotStale'
  BY <1>4, FreshKept, StaleNever DEF Onward
<1>6. UnderHold'
  BY DEF Sound, UnderHold, Onward, Between
<1> QED BY <1>1, <1>2, <1>3, <1>5, <1>6 DEF Sound

\* Steps of the surroundings that move neither an order nor the book's states.
LEMMA AroundQuiet ==
    ASSUME Sound, Typed',
           \/ \E p \in Placements : AskCancel(p)
           \/ \E value \in Rulings : Rule(value)
           \/ OpenHearing \/ Boot \/ HearEarly
    PROVE  Sound'
<1>1. Onward /\ UNCHANGED <<status, orders, sent, decided, working>>
  BY DEF Onward, AskCancel, Rule, OpenHearing, Boot, HearEarly, memory, venueVars,
         Sound, NotStale
<1>2. UNCHANGED book /\ InboxNext
  <2>1. ASSUME NEW p \in Placements, AskCancel(p)
        PROVE  UNCHANGED book /\ InboxNext
    <3> DEFINE v == [of |-> p, state |-> book[p],
                     ask |-> IF book[p] \notin Ended THEN asks'[p] ELSE 0]
    <3>1. book' = [book EXCEPT ![p] = book[p]] /\ inbox' = Delivered(v)
      BY <2>1 DEF AskCancel, Write
    <3>2. book[p] \in BookStates /\ asks'[p] \in Nat /\ book' = book
      BY <3>1 DEF Sound, Typed, TypeOK
    <3>3. v \in Views /\ FreshNext(v)
      BY <3>2 DEF Views, PlacementViews, FreshNext
    <3> HIDE DEF v
    <3> QED BY <3>1, <3>2, <3>3 DEF Delivered, InboxNext
  <2>2. ASSUME NEW value \in Rulings, Rule(value)
        PROVE  UNCHANGED book /\ InboxNext
    <3> DEFINE v == [of |-> None, state |-> value, ask |-> 0]
    <3>1. v \in Views /\ FreshNext(v)
      BY TraderAssumption DEF Views, FreshNext, TraderAssumption
    <3>2. inbox' = Delivered(v) /\ book' = book
      BY <2>2 DEF Rule
    <3> HIDE DEF v
    <3> QED BY <3>1, <3>2 DEF Delivered, InboxNext
  <2>3. CASE OpenHearing \/ Boot \/ HearEarly
    BY <2>3 DEF OpenHearing, Boot, HearEarly, bookVars, InboxNext
  <2> QED BY <2>1, <2>2, <2>3
<1> QED BY <1>1, <1>2, Quiet

\* A task begun, given up or finished, a read that fails, and the cancel of an
\* order in hand.
LEMMA TasksQuiet ==
    ASSUME Sound, Typed',
           \/ GiveUp \/ StartInstructions \/ StartBook \/ Poll \/ ReadOrders \/ Finish
           \/ ReadFails \/ HearPlacement \/ HearInstruction \/ Reach \/ Cancel \/ NothingDue
           \/ \E v \in Items : Unfound(v)
    PROVE  Sound'
<1>1. UNCHANGED <<book, status, orders, sent, decided>>
  BY DEF Unfound, GiveUp, StartInstructions, StartBook, Poll, ReadOrders, Finish, ReadFails,
         HearPlacement, HearInstruction, Reach, Cancel, NothingDue,
         bookVars, venueVars, memory
<1>2. InboxNext
  BY DEF Unfound, GiveUp, StartInstructions, StartBook, Poll, ReadOrders, Finish, ReadFails,
         HearPlacement, HearInstruction, Heard, Reach, Cancel, NothingDue,
         bookVars, InboxNext
<1>3. \A p \in Placements : working'[p] # None => working[p] # None
  <2>1. CASE NothingDue
    <3>1. job # None /\ job.of \in Placements /\ working[job.of] # None
      BY <2>1 DEF Sound, Typed, TypeOK, InHand, NothingDue, Doing, Jobs, Between
    <3>2. \A p \in Placements : p # job.of => working'[p] = working[p]
      BY <2>1, <3>1 DEF NothingDue, Sound, Typed, TypeOK
    <3> QED BY <3>1, <3>2
  <2>2. CASE ~NothingDue
    BY <2>2 DEF Unfound, GiveUp, StartInstructions, StartBook, Poll, ReadOrders, Finish, ReadFails,
       HearPlacement, HearInstruction, Reach, Cancel, memory
  <2> QED BY <2>1, <2>2
<1>4. Onward
  <2>1. CASE GiveUp \/ Finish
    BY <2>1 DEF GiveUp, Finish, Onward
  <2>2. CASE StartInstructions
    BY <2>2 DEF StartInstructions, Task, Onward, Between
  <2>3. CASE StartBook
    BY <2>3, ViewFresh DEF StartBook, Task, Onward, Between
  <2>4. CASE Poll
    BY <2>4, ViewFresh DEF Poll, Task, Onward, Between
  <2>5. CASE ReadOrders
    <3> DEFINE S == {View(p) : p \in {q \in Placements : working[q] # None}}
    <3>1. \A v \in S : Fresh(v)
      BY ViewFresh
    <3>2. job' = None \/ job' = [Task("read", "next", S, {}) EXCEPT !.seen = status]
      BY <2>5 DEF ReadOrders
    <3> HIDE DEF S
    <3>3. job' # None => job'.at = "next" /\ job'.todo = S /\ job'.seen = status
      BY <3>2 DEF Task
    <3> QED BY <3>1, <3>3 DEF Onward, Between
  <2>6. CASE ReadFails
    <3>1. job # None /\ job \in Jobs /\ job' = Raised
      BY <2>6 DEF ReadFails, Doing, Sound, Typed, TypeOK
    <3>2. job'.at = "raised" /\ job'.todo = job.todo /\ job'.seen = job.seen
      BY <3>1 DEF Raised, At, Jobs
    <3> QED BY <3>1, <3>2 DEF Onward, Between, Sound, NotStale
  <2>7. CASE HearPlacement
    <3>1. inbox # <<>> /\ Len(inbox) \in Nat /\ Head(inbox) = inbox[1]
      BY <2>7, HeadTailProperties DEF HearPlacement, Heard, Sound, Typed, TypeOK
    <3>2. 1 \in 1..Len(inbox)
      BY <2>7, <3>1, HeadTailProperties DEF Sound, Typed, TypeOK
    <3>3. Fresh(Head(inbox))
      BY <3>1, <3>2 DEF Sound, NotStale
    <3> QED BY <2>7, <3>3 DEF HearPlacement, Task, Onward, Between
  <2>8. CASE HearInstruction
    <3> DEFINE S == {View(p) : p \in Covered(Head(inbox).state)}
    <3>1. \A v \in S : Fresh(v)
      BY ViewFresh
    <3>2. Head(inbox) \in Views /\ Head(inbox).state \in Rulings
      <4>1. inbox # <<>> /\ inbox \in Seq(Views) /\ Head(inbox).of = None
        BY <2>8 DEF HearInstruction, Heard, Sound, Typed, TypeOK
      <4>2. Head(inbox) \in Views
        BY <4>1, HeadTailProperties
      <4> QED BY <4>1, <4>2, TraderAssumption DEF Views, PlacementViews, TraderAssumption
    <3>3. \/ job' = None \/ job' = Task("stop", "next", S, {})
          \/ job' = Task("release", "next", S, {})
      BY <2>8, <3>2 DEF HearInstruction, Rulings
    <3> HIDE DEF S
    <3> QED BY <3>1, <3>3 DEF Task, Onward, Between
  <2>9. CASE Reach
    <3>1. job # None /\ job \in Jobs /\ job.at = "reach" /\ instruction' = instruction
      BY <2>9 DEF Reach, Doing, Sound, Typed, TypeOK, memory
    <3>2. job' = At("note", job.of) \/ job' = At("unsupported", job.of)
      BY <2>9 DEF Reach
    <3>3. /\ job'.at \in {"note", "unsupported"} /\ job'.of = job.of
          /\ job'.todo = job.todo /\ job'.seen = job.seen
      BY <3>1, <3>2 DEF At, Jobs
    <3> QED BY <3>1, <3>3 DEF Onward, Sound, NotStale
  <2>10. CASE Cancel
    <3>1. job # None /\ job \in Jobs /\ job.at = "cancel" /\ instruction' = instruction
      BY <2>10 DEF Cancel, Doing, Sound, Typed, TypeOK, memory
    <3>2. job' = Over \/ job' = At("fact", job.of) \/ job' = At("refusing", job.of)
      BY <2>10 DEF Cancel
    <3>3. CASE job' = Over
      <4>1. /\ job'.at = "next" /\ job'.todo \subseteq job.todo
            /\ job'.seen = Unseen \/ job'.seen = job.seen
        BY <3>1, <3>3 DEF Over, Done, Jobs
      <4> QED BY <3>1, <4>1 DEF Onward, Between, Sound, NotStale
    <3>4. CASE job' = At("fact", job.of) \/ job' = At("refusing", job.of)
      <4>1. /\ job'.at \in {"fact", "refusing"} /\ job'.of = job.of
            /\ job'.todo = job.todo /\ job'.seen = job.seen
        BY <3>1, <3>4 DEF At, Jobs
      <4> QED BY <3>1, <4>1 DEF Onward, Between, Sound, NotStale
    <3> QED BY <3>2, <3>3, <3>4
  <2>11. CASE NothingDue
    <3>1. job # None /\ job \in Jobs /\ job' = Over
      BY <2>11 DEF NothingDue, Doing, Sound, Typed, TypeOK
    <3>2. /\ job'.at = "next" /\ job'.todo \subseteq job.todo
          /\ job'.seen = Unseen \/ job'.seen = job.seen
      BY <3>1 DEF Over, Done, Jobs
    <3> QED BY <3>1, <3>2 DEF Onward, Between, Sound, NotStale
  <2>12. ASSUME NEW v \in Items, Unfound(v) PROVE Onward
    <3>1. job # None /\ job'.at = "next" /\ job'.todo \subseteq job.todo /\ job'.seen = Unseen
      BY <2>12, UnfoundStep DEF Sound, Typed
    <3> QED BY <3>1 DEF Onward, Between, Sound, NotStale
  <2> QED BY <2>1, <2>2, <2>3, <2>4, <2>5, <2>6, <2>7, <2>8, <2>9, <2>10, <2>11, <2>12
<1> QED BY <1>1, <1>2, <1>3, <1>4, Quiet

\* A placement queued is a view delivered of one queued.
LEMMA PlaceSound ==
    ASSUME Sound, Typed', NEW p \in Placements, Place(p)
    PROVE  Sound'
<1> DEFINE v == [of |-> p, state |-> "queued", ask |-> 0]
<1>1. /\ book[p] = "absent" /\ book' = [book EXCEPT ![p] = "queued"]
      /\ inbox' = Delivered(v)
      /\ UNCHANGED <<status, orders, sent, decided, working, job, instruction>>
  BY DEF Place, Write, Ended, venueVars, memory
<1>2. book'[p] = "queued" /\ \A q \in Placements : q # p => book'[q] = book[q]
  BY <1>1 DEF Sound, Typed, TypeOK
<1>3. v \in Views /\ FreshNext(v)
  BY <1>2 DEF Views, PlacementViews, BookStates, FreshNext
<1> HIDE DEF v
<1>4. InboxNext
  BY <1>1, <1>3 DEF Delivered, InboxNext
<1>5. Ahead
  BY <1>1, <1>2 DEF Ahead
<1>6. Counted'
  BY <1>1, <1>2 DEF Sound, Counted
<1>7. AtHand'
  <2>1. job # None => job \in Jobs /\ (job.at \in Queueing => job.of \in Placements)
    BY DEF Sound, Typed, TypeOK, Jobs, Between, Queueing
  <2>2. job' = job /\ job.at \in Queueing /\ job # None => book'[job.of] = "queued"
    BY <1>1, <1>2, <2>1 DEF Sound, AtHand
  <2> QED BY <1>1, <2>2 DEF Sound, AtHand
<1>8. NotStale'
  BY <1>1, <1>4, <1>5, FreshKept, StaleNever DEF Sound, NotStale
<1> QED BY <1>1, <1>6, <1>7, <1>8 DEF Sound, Watching, UnderHold

\* An order that moves at the venue was made, and one seen closed does not move.
LEMMA MovesSound ==
    ASSUME Sound, Typed', NEW p \in Placements, Moves(p)
    PROVE  Sound'
<1>1. /\ status[p] \in {"open", "odd"} /\ status'[p] # "none"
      /\ \A q \in Placements : q # p => status'[q] = status[q]
      /\ UNCHANGED <<book, inbox, orders, sent, decided, working, job, instruction>>
  BY DEF Moves, bookVars, memory, Sound, Typed, TypeOK
<1>2. Counted'
  BY <1>1 DEF Sound, Counted
<1>3. AtHand'
  BY <1>1 DEF Sound, AtHand, Closed
<1> QED BY <1>1, <1>2, <1>3 DEF Sound, Watching, NotStale, Fresh, UnderHold

\* A note is kept before the send.
LEMMA NoteSound ==
    ASSUME Sound, Typed', Note
    PROVE  Sound'
<1>1. /\ job # None /\ job \in Jobs /\ job.at = "note" /\ job.of \in Placements
      /\ job' = At("send", job.of) /\ sent' = sent \cup {job.of}
      /\ UNCHANGED <<book, inbox, status, orders, decided, working, instruction>>
  BY DEF Note, Noted, Doing, Sound, Typed, TypeOK, Jobs, Between, bookVars, venueVars, memory
<1>2. /\ job' # None => job'.at = "send" /\ job'.of = job.of
      /\ job'.todo = job.todo /\ job'.seen = job.seen
  BY <1>1 DEF At, Jobs
<1>3. AtHand'
  BY <1>1, <1>2 DEF Sound, AtHand, Queueing, Between
<1>4. NotStale'
  BY <1>1, <1>2 DEF Sound, NotStale, Fresh
<1>5. UnderHold'
  BY <1>1, <1>2 DEF Sound, UnderHold
<1> QED BY <1>1, <1>3, <1>4, <1>5 DEF Sound, Counted, Watching

\* A send makes the first order of a placement noted.
LEMMA SendSound ==
    ASSUME Sound, Typed', Send
    PROVE  Sound'
<1> DEFINE p == job.of
<1>1. /\ job # None /\ job \in Jobs /\ job.at = "send" /\ p \in Placements
      /\ p \in sent /\ orders[p] = 0 /\ book[p] = "queued" /\ p \in decided
      /\ orders \in [Placements -> Nat] /\ status \in [Placements -> Statuses]
      /\ working \in [Placements -> Worked \cup {None}]
      /\ UNCHANGED <<book, inbox, sent, decided, instruction>>
  BY DEF Send, Doing, Sound, Typed, TypeOK, AtHand, Jobs, Between, Queueing, bookVars
<1>2. \/ orders' = orders /\ status' = status
      \/ orders' = [orders EXCEPT ![p] = orders[p] + 1] /\ status' = [status EXCEPT ![p] = "open"]
  BY DEF Send
<1>3. \A q \in Placements : q # p => orders'[q] = orders[q] /\ status'[q] = status[q]
  BY <1>1, <1>2
<1>4. \/ orders'[p] = 0 /\ status'[p] = status[p]
      \/ orders'[p] = 1 /\ status'[p] = "open"
  BY <1>1, <1>2
<1>5. Counted'
  BY <1>1, <1>3, <1>4 DEF Sound, Counted
<1>6. \A q \in Placements : working'[q] # None => working[q] # None \/ q = p
  BY <1>1 DEF Send
<1>7. Watching'
  BY <1>1, <1>6 DEF Sound, Watching
<1>8. job.seen \in [Placements -> Statuses] /\ job.seen[p] = "none"
  BY <1>1 DEF Sound, AtHand, Jobs
<1>9. CASE /\ job' = [At("status", p) EXCEPT !.seen[p] = "open"]
           /\ orders' = [orders EXCEPT ![p] = orders[p] + 1]
           /\ status' = [status EXCEPT ![p] = "open"]
  <2>1. /\ job'.at = "status" /\ job'.of = p /\ job'.todo = job.todo
        /\ job'.seen = [job.seen EXCEPT ![p] = "open"]
    BY <1>1, <1>9 DEF At, Jobs
  <2>2. job'.seen[p] = "open" /\ \A q \in Placements : q # p => job'.seen[q] = job.seen[q]
    BY <1>1, <1>8, <2>1
  <2>3. orders'[p] = 1
    BY <1>1, <1>9
  <2>4. AtHand'
    BY <1>1, <1>3, <2>1, <2>2, <2>3 DEF Sound, AtHand, Queueing, Closed
  <2>5. NotStale'
    BY <1>1, <2>1 DEF Sound, NotStale, Fresh
  <2>6. UnderHold'
    BY <2>1 DEF UnderHold
  <2> QED BY <1>5, <1>7, <2>4, <2>5, <2>6 DEF Sound
<1>10. CASE \/ job' = At("refused", p) /\ UNCHANGED <<orders, status>>
            \/ job' = At("unknown", p)
  <2>1. /\ job'.of = p /\ job'.todo = job.todo /\ job'.seen = job.seen
        /\ job'.at \in {"refused", "unknown"}
        /\ job'.at = "refused" => orders' = orders
    BY <1>1, <1>10 DEF At, Jobs
  <2>2. AtHand'
    BY <1>1, <1>3, <1>8, <2>1 DEF Sound, AtHand, Queueing, Closed
  <2>3. NotStale'
    BY <1>1, <2>1 DEF Sound, NotStale, Fresh
  <2>4. UnderHold'
    BY <2>1 DEF UnderHold
  <2> QED BY <1>5, <1>7, <2>2, <2>3, <2>4 DEF Sound
<1> QED BY <1>9, <1>10 DEF Send

\* What a recorded report does to the book.
LEMMA RecordedStep ==
    ASSUME Sound, Reporting, Recorded, UNCHANGED decided
    PROVE  /\ \A q \in Placements : q # job.of => book'[q] = book[q]
           /\ book'[job.of] = IF book[job.of] \in Ended THEN book[job.of] ELSE Reported
           /\ Ahead /\ InboxNext
<1> DEFINE p == job.of
           now == IF book[p] \in Ended THEN book[p] ELSE Reported
           isPending == (p \in pending /\ Fact # "refusing") /\ now \notin Ended
           v == [of |-> p, state |-> now, ask |-> IF isPending THEN asks'[p] ELSE 0]
<1>1. /\ p \in Placements /\ Reported \in BookStates /\ p \in decided
      /\ job \in Jobs /\ job # None
  BY FactTyped DEF Sound, AtHand, Reporting, Between
<1>2. book' = [book EXCEPT ![p] = now] /\ inbox' = Delivered(v) /\ asks' = asks
  BY DEF Recorded, Write
<1>3. now \in BookStates /\ asks'[p] \in Nat /\ book \in [Placements -> BookStates]
  BY <1>1, <1>2 DEF Sound, Typed, TypeOK
<1>4. v \in Views
  BY <1>1, <1>3 DEF Views, PlacementViews
<1>5. book'[p] = now /\ \A q \in Placements : q # p => book'[q] = book[q]
  BY <1>1, <1>2, <1>3
<1>6. FreshNext(v)
  BY <1>1 DEF FreshNext
<1>7. InboxNext
  <2> HIDE DEF v
  <2> QED BY <1>2, <1>4, <1>6 DEF Delivered, InboxNext
<1>8. Ahead
  BY <1>1, <1>5 DEF Ahead
<1> QED BY <1>5, <1>7, <1>8

\* A report made, or one that failed.
LEMMA ReportSound ==
    ASSUME Sound, Typed', Report \/ ReportFails
    PROVE  Sound'
<1>1. /\ Reporting /\ job # None /\ job \in Jobs /\ job.of \in Placements
      /\ job.at \notin Between /\ job.of \in decided
      /\ UNCHANGED <<status, orders, sent, decided, instruction>>
  BY FactTyped DEF Report, ReportFails, Reporting, Sound, AtHand, Between, venueVars
<1>2. /\ \A q \in Placements : q # job.of => book'[q] = book[q]
      /\ \/ book'[job.of] = book[job.of]
         \/ book'[job.of] = Reported
      /\ Ahead /\ InboxNext
  <2>1. CASE Recorded
    BY <1>1, <2>1, RecordedStep
  <2>2. CASE UNCHANGED bookVars
    BY <1>1, <2>2 DEF bookVars, Ahead, InboxNext
  <2> QED BY <2>1, <2>2 DEF Report, ReportFails
<1>3. Reported # "absent" \/ Reported = book[job.of]
  BY <1>1 DEF Reported, Reporting, Fact, Due
<1>4. Counted'
  BY <1>1, <1>2, <1>3 DEF Sound, Counted
<1>5. \A q \in Placements : working'[q] # None => working[q] # None \/ q = job.of
  BY <1>1 DEF Report, ReportFails, Sound, Typed, TypeOK
<1>6. Watching'
  BY <1>1, <1>5 DEF Sound, Watching
<1>7. \/ job' = job /\ job.at = "status"
      \/ job' = Over \/ job' = Raised
  BY <1>1 DEF Report, ReportFails, Fact, Reporting
<1>8. /\ job' # None /\ job'.todo \subseteq job.todo
      /\ \/ job' = job /\ job.at = "status"
         \/ job'.at \in {"next", "raised"} /\ (job'.seen = job.seen \/ job'.seen = Unseen)
  <2>1. CASE job' = job /\ job.at = "status"
    BY <1>1, <2>1
  <2>2. CASE job' = Over
    <3>1. job' # None
      BY <1>1, <2>2, DoneTyped, TraderAssumption DEF Over, TraderAssumption
    <3> QED BY <1>1, <2>2, <3>1 DEF Over, Done, Jobs
  <2>3. CASE job' = Raised
    <3>1. job' # None
      BY <1>1, <2>3, RaisedTyped, TraderAssumption DEF TraderAssumption
    <3> QED BY <1>1, <2>3, <3>1 DEF Raised, At, Jobs
  <2> QED BY <1>7, <2>1, <2>2, <2>3
<1>9. AtHand'
  BY <1>1, <1>8 DEF Sound, AtHand, Between, Queueing, Unseen
<1>10. NotStale'
  BY <1>2, <1>1, <1>8, FreshKept, StaleNever DEF Sound, NotStale
<1>11. UnderHold'
  BY <1>8 DEF UnderHold
<1> QED BY <1>4, <1>6, <1>9, <1>10, <1>11 DEF Sound

\* An item done with, or taken to be cancelled or read, as what is worked was
\* decided on.
LEMMA ItemQuiet ==
    ASSUME Sound, Typed', NEW v \in job.todo, job # None, job.at = "next",
           UNCHANGED <<book, inbox, status, orders, sent, instruction>>,
           decided \subseteq decided',
           \A p \in Placements : working'[p] # None => working[p] # None \/ p \in decided',
           \/ job' = Done(v)
           \/ job' = Taking(v, "cancel") /\ v.of \in decided'
           \/ job' = Taking(v, "status") /\ v.of \in decided' /\ job.seen[v.of] # "none"
    PROVE  Sound'
<1>1. job \in Jobs
  BY DEF Sound, Typed, TypeOK
<1>2. /\ job' # None => job'.todo \subseteq job.todo
      /\ \/ job' = None
         \/ job'.at = "next" /\ (job'.seen = Unseen \/ job'.seen = job.seen)
         \/ /\ job'.at \in {"cancel", "status"} /\ job'.of = v.of /\ v.of \in decided'
            /\ job'.seen = job.seen
            /\ job'.at = "status" => job.seen[v.of] # "none"
  <2>1. CASE job' = Done(v)
    BY <1>1, <2>1 DEF Done, Jobs
  <2>2. CASE job' = Taking(v, "cancel") /\ v.of \in decided'
    BY <1>1, <2>2 DEF Taking, At, Jobs
  <2>3. CASE job' = Taking(v, "status") /\ v.of \in decided' /\ job.seen[v.of] # "none"
    BY <1>1, <2>3 DEF Taking, At, Jobs
  <2> QED BY <2>1, <2>2, <2>3
<1>3. Counted' /\ Ahead /\ InboxNext
  BY DEF Sound, Counted, Ahead, InboxNext
<1>4. AtHand'
  BY <1>2 DEF Sound, AtHand, Queueing, Between, Unseen
<1>5. Watching'
  BY DEF Sound, Watching
<1>6. NotStale'
  BY <1>2, <1>3, FreshKept, StaleNever DEF Sound, NotStale
<1>7. UnderHold'
  BY <1>2 DEF UnderHold
<1> QED BY <1>3, <1>4, <1>5, <1>6, <1>7 DEF Sound

\* A queued placement taken up: held, asked about, or decided on.
LEMMA OnQueuedSound ==
    ASSUME Sound, Typed', NEW v \in job.todo, NEW others, job # None, job.at = "next",
           book[v.of] = "queued", OnQueued(v, others),
           UNCHANGED <<book, inbox, status, orders, sent, instruction>>
    PROVE  Sound'
<1>1. /\ job \in Jobs /\ v.of \in Placements
      /\ working \in [Placements -> Worked \cup {None}]
  BY DEF Sound, Typed, TypeOK, Jobs, PlacementViews
<1>2. CASE job' = Done(v)
  <2>1. /\ decided \subseteq decided'
        /\ \A p \in Placements : working'[p] # None => working[p] # None \/ p \in decided'
    BY <1>1, <1>2 DEF OnQueued
  <2> QED BY <1>2, <2>1, ItemQuiet
<1>3. CASE /\ ~InForce /\ v.of \notin sent /\ job' = Taking(v, "reach")
           /\ decided' = decided \cup {v.of} /\ UNCHANGED working
  <2>1. /\ job' # None => job'.todo \subseteq job.todo
        /\ job'.at = "reach" /\ job'.of = v.of /\ job'.seen = job.seen
    BY <1>1, <1>3 DEF Taking, At, Jobs
  <2>2. orders[v.of] = 0 /\ instruction = "active"
    BY <1>1, <1>3 DEF Sound, Counted, InForce
  <2>3. Counted' /\ Ahead /\ InboxNext
    BY <1>3 DEF Sound, Counted, Ahead, InboxNext
  <2>4. AtHand'
    BY <1>3, <2>1, <2>2 DEF Sound, AtHand, Queueing, Between
  <2>5. NotStale'
    BY <2>1, <2>3, FreshKept, StaleNever DEF Sound, NotStale
  <2> QED BY <1>3, <2>2, <2>3, <2>4, <2>5 DEF Sound, Watching, UnderHold
<1> QED BY <1>2, <1>3 DEF OnQueued

\* An item of the task in hand.
LEMMA ItemSound ==
    ASSUME Sound, Typed', NEW v \in job.todo, job # None,
           \/ Resume(v) \/ StopOne(v) \/ ReleaseOne(v) \/ ReadOrder(v)
    PROVE  Sound'
<1>1. /\ job.at = "next" /\ v.of \in Placements /\ job \in Jobs
      /\ working \in [Placements -> Worked \cup {None}]
      /\ UNCHANGED <<book, inbox, status, orders, sent, instruction>>
  BY DEF Resume, StopOne, ReleaseOne, ReadOrder, Doing, Sound, Typed, TypeOK, Jobs,
         PlacementViews, bookVars, venueVars
<1>2. Fresh(v)
  BY DEF Sound, NotStale
<1>3. CASE Resume(v)
  <2>1. CASE OnQueued(v, held) /\ v.state = "queued" /\ v.of \notin decided
    <3>1. book[v.of] = "queued"
      BY <1>1, <1>2, <2>1 DEF Fresh
    <3> QED BY <1>1, <2>1, <3>1, OnQueuedSound
  <2>2. CASE job' = Done(v) /\ UNCHANGED <<held, decided, working>>
    BY <1>1, <2>2, ItemQuiet
  <2>3. ASSUME NEW w, working' = [working EXCEPT ![v.of] = w],
               decided' = decided \cup {v.of},
               job' = Taking(v, "cancel") \/ job' = Done(v)
        PROVE  Sound'
    <3>1. \A p \in Placements : working'[p] # None => working[p] # None \/ p \in decided'
      BY <1>1, <2>3
    <3> QED BY <1>1, <2>3, <3>1, ItemQuiet
  <2> QED BY <1>3, <2>1, <2>2, <2>3 DEF Resume
<1>4. CASE StopOne(v)
  <2>1. working[v.of] # None /\ v.of \in decided
    BY <1>1, <1>4 DEF StopOne, Sound, Typed, InHand, Watching
  <2>2. /\ decided' = decided
        /\ \A p \in Placements : working'[p] # None => working[p] # None
        /\ job' = Done(v) \/ job' = Taking(v, "cancel")
    BY <1>1, <1>4, <2>1 DEF StopOne
  <2> QED BY <1>1, <2>1, <2>2, ItemQuiet
<1>5. CASE ReleaseOne(v)
  <2>1. CASE book[v.of] = "queued"
    BY <1>1, <1>5, <2>1, OnQueuedSound DEF ReleaseOne
  <2>2. CASE book[v.of] # "queued"
    <3>1. job' = Done(v) /\ UNCHANGED <<decided, working>>
      BY <1>5, <2>2 DEF ReleaseOne
    <3> QED BY <1>1, <3>1, ItemQuiet
  <2> QED BY <2>1, <2>2
<1>6. CASE ReadOrder(v)
  <2>1. working[v.of] # None /\ v.of \in decided
    BY <1>1, <1>6 DEF ReadOrder, Sound, Typed, InHand, Watching
  <2>2. /\ decided' = decided
        /\ \A p \in Placements : working'[p] # None => working[p] # None
        /\ job' = Done(v) \/ (job' = Taking(v, "status") /\ job.seen[v.of] # "none")
    BY <1>1, <1>6, <2>1 DEF ReadOrder
  <2> QED BY <1>1, <2>1, <2>2, ItemQuiet
<1> QED BY <1>3, <1>4, <1>5, <1>6

\* A crash leaves nothing in hand.
LEMMA CrashSound ==
    ASSUME Sound, Typed', Crash
    PROVE  Sound'
<1>1. /\ UNCHANGED <<book, status, orders, sent>> /\ inbox' = <<>> /\ job' = None
      /\ \A p \in Placements : working'[p] = None
  BY DEF Crash, venueVars
<1> QED BY <1>1 DEF Sound, Counted, AtHand, Watching, NotStale, UnderHold

\* Every step keeps the invariant, and it holds at the start.
LEMMA SoundStep ==
    ASSUME Sound, [Next]_vars
    PROVE  Sound'
<1>1. Typed'
  BY TypeStep DEF Sound
<1>2. CASE Next
  <2>1. CASE \E v \in Items : Resume(v) \/ StopOne(v) \/ ReleaseOne(v) \/ ReadOrder(v)
    BY <1>1, <2>1, ItemSound DEF Items
  <2> QED BY <1>1, <1>2, <2>1, AroundQuiet, TasksQuiet, PlaceSound, MovesSound, NoteSound,
             SendSound, ReportSound, CrashSound DEF Next, Works, Hears
<1>3. CASE UNCHANGED vars
  BY <1>1, <1>3 DEF vars, Sound, Counted, AtHand, Watching, NotStale, Fresh, UnderHold
<1> QED BY <1>2, <1>3

\* Nothing is placed, noted or in hand at first.
LEMMA SoundInit ==
    ASSUME Init
    PROVE  Sound
<1>1. Counted /\ Watching /\ AtHand /\ UnderHold
  BY DEF Init, Counted, AtHand, Watching, UnderHold
<1>2. NotStale
  <2>1. inbox = <<>> /\ job = None
    BY DEF Init
  <2>2. Len(inbox) = 0
    BY <2>1
  <2> QED BY <2>1, <2>2 DEF NotStale
<1> QED BY <1>1, <1>2, TypeInit DEF Sound

-----------------------------------------------------------------------------
(* What follows from it. *)

\* The invariant holds of every behaviour.
LEMMA SoundAlways == Spec => []Sound
<1>1. Init => Sound
  BY SoundInit
<1>2. Sound /\ [Next]_vars => Sound'
  BY SoundStep
<1> QED BY <1>1, <1>2, PTL DEF Spec

\* A placement is never sent to the venue twice: however often the process
\* dies between its note, its send and its report, and whatever answer is lost.
THEOREM NeverSentTwice == Spec => []NoDoubleSend
<1>1. Sound => NoDoubleSend
  BY DEF Sound, Counted, NoDoubleSend
<1> QED BY <1>1, SoundAlways, PTL

\* Nothing is sent while the instruction held is a pause or a stop, for every
\* interleaving of an instruction with the accounts' read and the note.
THEOREM NothingSentUnderHold == Spec => NothingNewUnderHold
<1>1. Sound /\ [Next]_vars =>
        [\A p \in Placements : orders'[p] > orders[p] => instruction = "active"]_vars
  <2> SUFFICES ASSUME Sound, Next, NEW p \in Placements, orders'[p] > orders[p]
               PROVE  instruction = "active"
    OBVIOUS
  <2>1. orders[p] \in Nat
    BY DEF Sound, Typed, TypeOK
  <2>2. orders' # orders
    BY <2>1
  <2>3. Send
    BY <2>2 DEF Next, Works, Hears, Place, AskCancel, Moves, Rule, GiveUp, Reach, Note,
       Report, NothingDue, Cancel, StartBook, ReadOrders, Finish, Resume, StopOne,
       ReleaseOne, ReadOrder, HearPlacement, HearInstruction, HearEarly, OpenHearing,
       Boot, StartInstructions, Poll, ReportFails, ReadFails, Unfound, Crash, venueVars
  <2> QED BY <2>3 DEF Send, Doing, Sound, UnderHold
<1> QED BY <1>1, SoundAlways, PTL DEF Spec, NothingNewUnderHold

-----------------------------------------------------------------------------
(* The Trader keeps its promise (Placing.tla). *)

\* A step that moves neither the book nor the venue is none of the promise's.
LEMMA StutterStep ==
    ASSUME UNCHANGED <<book, status, orders>>
    PROVE  UNCHANGED Promise!promised
BY DEF Promise!promised

\* What a recorded report tells the book is promised.
LEMMA ReportStep ==
    ASSUME Sound, Reporting, Recorded, UNCHANGED <<status, orders, decided>>
    PROVE  [Promise!Next]_(Promise!promised)
<1> DEFINE p == job.of
<1>1. /\ job # None /\ job \in Jobs /\ p \in Placements
      /\ book \in [Placements -> BookStates]
  BY FactTyped DEF Sound, Typed, TypeOK, Reporting
<1>2. /\ \A q \in Placements : q # p => book'[q] = book[q]
      /\ book'[p] = IF book[p] \in Ended THEN book[p] ELSE Reported
  BY RecordedStep
<1>3. book' \in [Placements -> BookStates]
  <2>1. Reported \in BookStates /\ book[p] \in BookStates
    BY <1>1, FactTyped DEF Sound
  <2>2. \E now \in BookStates : book' = [book EXCEPT ![p] = now]
    BY <2>1 DEF Recorded, Write
  <2> QED BY <1>1, <2>2
<1>4. book' = [book EXCEPT ![p] = book'[p]]
  BY <1>1, <1>2, <1>3
<1>5. CASE book'[p] = book[p]
  BY <1>1, <1>3, <1>4, <1>5, StutterStep
<1>6. CASE book'[p] # book[p]
  <2>1. book[p] \notin Ended /\ book'[p] = Reported
    BY <1>2, <1>6
  <2>2. CASE Fact \in {"unsupported", "refused"}
    <3>1. job.at \in {"unsupported", "refused"}
      BY <2>2 DEF Fact, Due
    <3>2. book[p] = "queued" /\ orders[p] = 0
      BY <1>1, <3>1 DEF Sound, AtHand, Queueing
    <3>3. Reported \in {"unsupported", "rejected"}
      BY <2>2 DEF Reported
    <3>4. Promise!Refuse(p)
      BY <1>4, <2>1, <3>2, <3>3 DEF Promise!Refuse
    <3> QED BY <1>1, <3>4 DEF Promise!Next
  <2>3. CASE Fact = "unknown"
    <3>1. book[p] = "queued" /\ book'[p] = "sent"
      BY <1>6, <2>1, <2>3 DEF Reported
    <3>2. Promise!Doubt(p)
      BY <1>4, <3>1 DEF Promise!Doubt
    <3> QED BY <1>1, <3>2 DEF Promise!Next
  <2>4. CASE Fact \in {"odd", "refusing", "fact"}
    BY <1>6, <2>1, <2>4 DEF Reported
  <2>5. CASE Fact \in {"working", "filled", "cancelled", "rejected"}
    <3>1. job.at = "status"
      BY <2>5 DEF Reporting, Fact
    <3>2. Fact = Due(working[p], job.seen[p])
      BY <3>1 DEF Fact
    <3>3. orders[p] = 1 /\ (job.seen[p] \in Closed => status[p] = job.seen[p])
      BY <1>1, <3>1 DEF Sound, AtHand
    <3>4. Fact = "working" \/ (Fact = job.seen[p] /\ Fact \in Closed)
      BY <2>5, <3>2 DEF Due, Closed
    <3>5. Reported = Fact
      BY <2>5 DEF Reported
    <3>6. book[p] \in {"queued", "sent", "working"}
      BY <1>1, <2>1, <3>3 DEF Sound, Counted, BookStates
    <3>7. book'[p] \in {"working"} \cup ({status[p]} \cap Promise!Closed)
      BY <2>1, <3>3, <3>4, <3>5 DEF Closed, Promise!Closed
    <3>8. Promise!Tell(p)
      BY <1>4, <3>3, <3>6, <3>7 DEF Promise!Tell
    <3> QED BY <1>1, <3>8 DEF Promise!Next
  <2>6. Fact \in {"unsupported", "refused", "unknown", "odd", "refusing", "fact",
                  "working", "filled", "cancelled", "rejected"}
    BY DEF Reporting, Fact, Due
  <2> QED BY <2>2, <2>3, <2>4, <2>5, <2>6
<1> QED BY <1>5, <1>6

\* Every step is one of the promise's, or none.
LEMMA PromiseStep ==
    ASSUME Sound, [Next]_vars
    PROVE  [Promise!Next]_(Promise!promised)
<1>1. ASSUME NEW p \in Placements, Place(p) PROVE Promise!Next
  <2>1. Promise!Queue(p)
    BY <1>1 DEF Place, Write, Ended, venueVars, Promise!Queue
  <2> QED BY <2>1 DEF Promise!Next
<1>2. ASSUME NEW p \in Placements, AskCancel(p) PROVE UNCHANGED Promise!promised
  <2>1. book' = [book EXCEPT ![p] = book[p]] /\ UNCHANGED <<status, orders>>
    BY <1>2 DEF AskCancel, Write, venueVars
  <2>2. book' = book
    BY <2>1 DEF Sound, Typed, TypeOK
  <2> QED BY <2>1, <2>2, StutterStep
<1>3. ASSUME NEW p \in Placements, Moves(p) PROVE Promise!Next
  <2>1. Promise!Move(p)
    BY <1>3 DEF Moves, bookVars, Promise!Move, Promise!Open, Promise!Closed
  <2> QED BY <2>1 DEF Promise!Next
<1>4. CASE Send
  <2> DEFINE p == job.of
  <2>1. p \in Placements /\ book[p] = "queued" /\ orders[p] = 0 /\ UNCHANGED book
    BY <1>4 DEF Send, Doing, Sound, Typed, TypeOK, AtHand, Jobs, Between, Queueing, bookVars
  <2>2. CASE UNCHANGED <<orders, status>>
    BY <2>1, <2>2, StutterStep
  <2>3. CASE /\ orders' = [orders EXCEPT ![p] = orders[p] + 1]
             /\ status' = [status EXCEPT ![p] = "open"]
    <3>1. Promise!Make(p)
      BY <2>1, <2>3 DEF Promise!Make
    <3> QED BY <2>1, <3>1 DEF Promise!Next
  <2> QED BY <1>4, <2>2, <2>3 DEF Send
<1>5. CASE Report \/ ReportFails
  <2>1. Reporting /\ UNCHANGED <<status, orders, decided>>
    BY <1>5 DEF Report, ReportFails, venueVars
  <2>2. CASE Recorded
    BY <2>1, <2>2, ReportStep
  <2>3. CASE UNCHANGED bookVars
    BY <2>1, <2>3, StutterStep DEF bookVars
  <2> QED BY <1>5, <2>2, <2>3 DEF Report, ReportFails
<1>6. CASE \E value \in Rulings : Rule(value)
  BY <1>6, StutterStep DEF Rule, venueVars
<1>7. CASE \E v \in Items : Resume(v) \/ StopOne(v) \/ ReleaseOne(v) \/ ReadOrder(v)
  BY <1>7, StutterStep DEF Resume, StopOne, ReleaseOne, ReadOrder, bookVars, venueVars
<1>8. CASE \/ GiveUp \/ Reach \/ Note \/ NothingDue \/ Cancel \/ StartBook \/ ReadOrders
           \/ Finish \/ Hears \/ OpenHearing \/ Boot \/ StartInstructions \/ Poll
           \/ ReadFails \/ Crash
  BY <1>8, StutterStep
  DEF GiveUp, Reach, Note, NothingDue, Cancel, StartBook, ReadOrders, Finish, Hears,
      HearPlacement, HearInstruction, HearEarly, OpenHearing, Boot, StartInstructions,
      Poll, ReadFails, Crash, bookVars, venueVars
<1>9. CASE UNCHANGED vars
  BY <1>9, StutterStep DEF vars
<1>10. CASE \E v \in Items : Unfound(v)
  BY <1>10, StutterStep DEF Unfound, bookVars, venueVars
<1> QED BY <1>1, <1>2, <1>3, <1>4, <1>5, <1>6, <1>7, <1>8, <1>9, <1>10 DEF Next, Works

\* The Trader implements what is promised of a placement: each is placed once at
\* most, is answered as nothing placed only where nothing was, and the book is
\* told of its order only what the order's own status says, whatever is stale,
\* lost or retried on the way.
THEOREM PromiseKept == Spec => KeepsPromise
<1>1. Init => Promise!Init
  BY DEF Init, Promise!Init
<1>2. Sound /\ [Next]_vars => [Promise!Next]_(Promise!promised)
  BY PromiseStep
<1> QED BY <1>1, <1>2, SoundAlways, PTL DEF Spec, KeepsPromise, Promise!Spec

-----------------------------------------------------------------------------
(* What is left of the bounds, and how a task moves on. *)

\* Every step spends one of the bounds or none.
LEMMA LeftStep ==
    ASSUME [Next]_vars
    PROVE  left' = left \/ \E m \in Mishaps : Spend(m)
<1> USE DEF Mishaps
<1>1. CASE \/ \E p \in Placements : Place(p) \/ AskCancel(p) \/ Moves(p)
           \/ \E value \in Rulings : Rule(value)
           \/ GiveUp \/ Reach \/ Note \/ Send \/ Report \/ NothingDue \/ Cancel
  BY <1>1 DEF Place, AskCancel, Moves, Rule, GiveUp, Reach, Note, Send, Report, NothingDue, Cancel
<1>2. CASE \/ StartBook \/ ReadOrders \/ Finish \/ Hears \/ OpenHearing
           \/ Boot \/ StartInstructions \/ Poll \/ ReportFails \/ ReadFails \/ Crash
           \/ \E v \in Items : Resume(v) \/ StopOne(v) \/ ReleaseOne(v) \/ ReadOrder(v) \/ Unfound(v)
  BY <1>2 DEF Unfound, StartBook, ReadOrders, Finish, Hears, HearPlacement, HearInstruction, HearEarly,
     OpenHearing, Boot, StartInstructions, Poll, ReportFails, ReadFails, Crash,
     Resume, StopOne, ReleaseOne, ReadOrder
<1>3. CASE UNCHANGED vars
  BY <1>3 DEF vars
<1> QED BY <1>1, <1>2, <1>3 DEF Next, Works

\* So a mishap there is no room left for does not happen, and never will.
LEMMA SparedStep ==
    ASSUME TypeOK, [Next]_vars, NEW m \in Mishaps, left[m] = 0
    PROVE  left'[m] = 0 /\ ~Spend(m)
<1>1. ~Spend(m)
  BY DEF Spend
<1>2. ASSUME NEW n \in Mishaps, Spend(n) PROVE left'[m] = 0
  BY <1>1, <1>2 DEF Spend, TypeOK
<1> QED BY <1>1, <1>2, LeftStep

\* Where the work is once an item is done with, moves on, is taken up, or raised.
LEMMA DoneAt ==
    ASSUME job \in Jobs, NEW v
    PROVE  /\ Done(v).by = job.by /\ Done(v).at = "next" /\ Done(v).of = None
           /\ Done(v).todo = job.todo \ {v}
BY DEF Done, Jobs

LEMMA MovedAt ==
    ASSUME job \in Jobs, NEW point, NEW p
    PROVE  /\ At(point, p).by = job.by /\ At(point, p).at = point /\ At(point, p).of = p
           /\ At(point, p).todo = job.todo /\ At(point, p).seen = job.seen
BY DEF At, Jobs

LEMMA TakenAt ==
    ASSUME job \in Jobs, NEW v, NEW point
    PROVE  /\ Taking(v, point).by = job.by /\ Taking(v, point).at = point
           /\ Taking(v, point).of = v.of /\ Taking(v, point).todo = job.todo \ {v}
           /\ Taking(v, point).seen = job.seen
BY DEF At, Taking, Jobs

LEMMA EndedAt ==
    ASSUME job \in Jobs
    PROVE  /\ Raised.by = job.by /\ Raised.at = "raised" /\ Raised.todo = job.todo
           /\ Raised.of = None
           /\ Over.by = job.by /\ Over.at = "next" /\ Over.of = None
           /\ Over.todo = job.todo
<1>1. None \notin job.todo
  BY TraderAssumption DEF TraderAssumption, Jobs
<1>2. Over.todo = job.todo \ {None} /\ Over.by = job.by /\ Over.at = "next" /\ Over.of = None
  BY DoneAt DEF Over
<1>3. Raised.by = job.by /\ Raised.at = "raised" /\ Raised.todo = job.todo /\ Raised.of = None
  BY MovedAt DEF Raised
<1> QED BY <1>1, <1>2, <1>3

\* Whose work is under way.
Ordered ==
    /\ phase = "down" => job = None
    /\ phase = "starting" /\ job # None => job.by = "start"

\* The start works alone until it is through.
LEMMA OrderedStep ==
    ASSUME TypeOK, Ordered, [Next]_vars
    PROVE  Ordered'
<1>1. job # None => job \in Jobs
  BY DEF TypeOK
<1>2. CASE \/ \E p \in Placements : Place(p) \/ AskCancel(p) \/ Moves(p)
           \/ \E value \in Rulings : Rule(value)
           \/ OpenHearing \/ HearEarly \/ UNCHANGED vars
  BY <1>2 DEF Ordered, Place, AskCancel, Moves, Rule, OpenHearing, HearEarly, process, vars
<1>3. CASE \/ GiveUp \/ Finish \/ Boot \/ Crash \/ StartInstructions \/ StartBook \/ Poll
           \/ HearPlacement \/ HearInstruction
  BY <1>3 DEF Ordered, GiveUp, Finish, Boot, Crash, StartInstructions, StartBook, Poll,
     HearPlacement, HearInstruction, Heard, Task, process, Doing
<1>4. CASE ReadOrders
  BY <1>4 DEF Ordered, ReadOrders, Doing, process
<1>5. CASE Reach \/ Note \/ Cancel \/ ReportFails \/ ReadFails \/ NothingDue \/ Report
  <2>1. job # None /\ job' # None => job'.by = job.by
    BY <1>1, <1>5, MovedAt, EndedAt DEF Reach, Note, Cancel, ReportFails, ReadFails, NothingDue, Report
  <2>2. phase' = phase /\ job # None
    BY <1>5 DEF Reach, Note, Cancel, ReportFails, ReadFails, NothingDue, Report, process,
       Doing, Reporting
  <2> QED BY <2>1, <2>2 DEF Ordered
<1>6. CASE Send
  <2>1. job # None /\ phase' = phase
    BY <1>6 DEF Send, Doing, process
  <2>2. \/ job' = [At("status", job.of) EXCEPT !.seen[job.of] = "open"]
        \/ job' = At("refused", job.of) \/ job' = At("unknown", job.of)
    BY <1>6 DEF Send
  <2>3. job'.by = job.by
    BY <1>1, <2>1, <2>2, MovedAt DEF At, Jobs
  <2> QED BY <2>1, <2>3 DEF Ordered
<1>7. ASSUME NEW v \in Items, Resume(v) \/ StopOne(v) \/ ReleaseOne(v) \/ ReadOrder(v)
      PROVE  Ordered'
  <2>1. job # None /\ phase' = phase
    BY <1>7 DEF Resume, StopOne, ReleaseOne, ReadOrder, Doing, process
  <2>2. \/ job' = Done(v) \/ \E point \in Points : job' = Taking(v, point)
    BY <1>7 DEF Resume, StopOne, ReleaseOne, ReadOrder, OnQueued, Points
  <2>3. job' # None => job'.by = job.by
    BY <1>1, <2>1, <2>2, DoneAt, TakenAt
  <2> QED BY <2>1, <2>3 DEF Ordered
<1>8. ASSUME NEW v \in Items, Unfound(v) PROVE Ordered'
  BY <1>8, UnfoundStep DEF Ordered, Unfound, process
<1> QED BY <1>2, <1>3, <1>4, <1>5, <1>6, <1>7, <1>8 DEF Next, Works, Hears

-----------------------------------------------------------------------------
(* What was sent is watched. *)

\* What has ended in the book, or is worked.
Watched(p) == book[p] \in Ended \/ working[p] # None

\* In hand, between the note and what the send's answer leaves.
AtVenue(p) == job # None /\ job.of = p /\ job.at \in {"send", "refused", "unknown"}

\* Yet to be taken up by the start.
ToCome(p) ==
    \/ phase = "down"
    \/ /\ phase = "starting"
       /\ \/ job = None
          \/ job # None /\ job.at \in {"reading", "raised"}
          \/ /\ job # None
             /\ \E v \in job.todo : v.of = p /\ v.state \notin Ended \cup {"absent"}

\* A placement noted and taken up by this process is watched, or at the venue;
\* one noted by a process before it is for the start to take up.
Followed ==
    /\ Ordered
    /\ \A p \in sent :
        /\ book[p] # "absent"
        /\ p \in decided => Watched(p) \/ AtVenue(p)
        /\ p \notin decided => book[p] \in Ended \/ ToCome(p)

\* A step that loses nothing worked keeps it.
LEMMA FollowedKept ==
    ASSUME Followed, Ordered', sent' = sent,
           \A p \in sent :
              /\ book[p] # "absent" => book'[p] # "absent"
              /\ Watched(p) => Watched(p)'
              /\ book[p] \in Ended => book'[p] \in Ended
              /\ p \in decided' => p \in decided \/ Watched(p)'
              /\ p \in decided => p \in decided'
              /\ AtVenue(p) => AtVenue(p)' \/ Watched(p)'
              /\ p \notin decided' /\ ToCome(p) => book'[p] \in Ended \/ ToCome(p)'
    PROVE  Followed'
BY DEF Followed

\* One that moves neither what is worked nor what is at the venue.
LEMMA FollowedQuiet ==
    ASSUME Followed, Ordered', UNCHANGED <<sent, decided, book, working>>,
           \A p \in sent :
              /\ AtVenue(p) => AtVenue(p)'
              /\ ToCome(p) => book[p] \in Ended \/ ToCome(p)'
    PROVE  Followed'
<1>1. \A p : Watched(p)' <=> Watched(p)
  BY DEF Watched
<1> QED BY <1>1, FollowedKept

\* The surroundings' steps, and those that leave the work alone.
LEMMA AroundFollowed ==
    ASSUME Sound, Followed, Ordered',
           \/ \E p \in Placements : Place(p) \/ AskCancel(p) \/ Moves(p)
           \/ \E value \in Rulings : Rule(value)
           \/ OpenHearing \/ Boot \/ HearEarly
    PROVE  Followed'
<1>0. sent \subseteq Placements /\ book \in [Placements -> BookStates]
  BY DEF Sound, Typed, TypeOK
<1>1. UNCHANGED <<sent, decided, working, job>>
  BY DEF Place, AskCancel, Moves, Rule, OpenHearing, Boot, HearEarly, memory
<1>2. phase' = phase \/ (phase = "down" /\ phase' = "starting" /\ job = None)
  BY DEF Place, AskCancel, Moves, Rule, OpenHearing, Boot, HearEarly, process, Followed, Ordered
<1>3. \A p \in sent : (AtVenue(p) => AtVenue(p)') /\ (ToCome(p) => ToCome(p)')
  BY <1>1, <1>2 DEF AtVenue, ToCome
<1>4. \A p \in sent : book'[p] = book[p]
  <2>1. ASSUME NEW q \in Placements, Place(q) PROVE \A p \in sent : book'[p] = book[p]
    BY <1>0, <2>1 DEF Place, Write, Followed
  <2>2. ASSUME NEW q \in Placements, AskCancel(q) PROVE \A p \in sent : book'[p] = book[p]
    BY <1>0, <2>2 DEF AskCancel, Write
  <2>3. CASE ~ \E q \in Placements : Place(q) \/ AskCancel(q)
    BY <2>3 DEF Moves, Rule, OpenHearing, Boot, HearEarly, bookVars
  <2> QED BY <2>1, <2>2, <2>3
<1>5. \A p \in sent : Watched(p)' <=> Watched(p)
  BY <1>1, <1>4 DEF Watched
<1> QED BY <1>1, <1>3, <1>4, <1>5, FollowedKept

\* What is to come stays so while the task goes on, or is given up.
LEMMA ToComeKept ==
    ASSUME NEW p, ToCome(p), phase' = phase, job # None, job' # None,
           \/ job'.at = "raised"
           \/ job.at \notin {"reading", "raised"} /\ job.todo \subseteq job'.todo
    PROVE  ToCome(p)'
BY DEF ToCome

\* A task begun, given up or finished, a read that fails, and the cancel of an
\* order in hand.
LEMMA TasksFollowed ==
    ASSUME Sound, Followed, Ordered',
           \/ GiveUp \/ StartInstructions \/ StartBook \/ Poll \/ ReadOrders \/ Finish
           \/ ReadFails \/ HearPlacement \/ HearInstruction \/ Reach \/ Cancel \/ NothingDue
    PROVE  Followed'
<1>0. /\ job # None => job \in Jobs
      /\ sent \subseteq Placements /\ book \in [Placements -> BookStates]
  BY DEF Sound, Typed, TypeOK
<1>1. UNCHANGED <<book, sent, decided>>
  BY DEF GiveUp, StartInstructions, StartBook, Poll, ReadOrders, Finish, ReadFails,
         HearPlacement, HearInstruction, Reach, Cancel, NothingDue,
         bookVars, venueVars, memory
<1>2. CASE GiveUp \/ StartInstructions \/ StartBook
  <2>1. \A p \in sent : ~AtVenue(p)
    BY <1>2 DEF GiveUp, StartInstructions, StartBook, Doing, AtVenue
  <2>2. UNCHANGED working
    BY <1>2 DEF GiveUp, StartInstructions, StartBook, memory
  <2>3. ASSUME NEW p \in sent, ToCome(p) PROVE book[p] \in Ended \/ ToCome(p)'
    <3>1. CASE GiveUp
      <4>1. phase' = phase /\ job # None /\ job' = None
        BY <3>1 DEF GiveUp, process, Doing
      <4> QED BY <4>1, <2>3 DEF ToCome, Followed, Ordered
    <3>2. CASE StartInstructions
      BY <3>2 DEF StartInstructions, process, ToCome, Task, Jobs, TraderAssumption
    <3>3. CASE StartBook
      <4>1. phase' = phase /\ job # None
        BY <3>3 DEF StartBook, process, Doing
      <4>2. phase = "starting"
        BY <4>1, <2>3 DEF ToCome, Followed, Ordered
      <4>3. View(p) \in {View(q) : q \in {q \in Placements : book[q] # "absent"}}
        BY <1>0 DEF Followed
      <4>4. View(p).of = p /\ View(p).state = book[p]
        BY DEF View
      <4>5. View(p) \in job'.todo
        BY <3>3, <4>3 DEF StartBook, Task
      <4>6. book[p] # "absent"
        BY DEF Followed
      <4> QED BY <4>1, <4>2, <4>4, <4>5, <4>6 DEF ToCome
    <3> QED BY <1>2, <3>1, <3>2, <3>3
  <2> QED BY <1>1, <2>1, <2>2, <2>3, FollowedQuiet
<1>3. CASE Poll \/ ReadOrders \/ HearPlacement \/ HearInstruction \/ Finish
  <2>1. \A p \in sent : ~AtVenue(p)
    BY <1>3 DEF Poll, ReadOrders, HearPlacement, HearInstruction, Heard, Finish, Doing, AtVenue
  <2>2. UNCHANGED working
    BY <1>3 DEF Poll, ReadOrders, HearPlacement, HearInstruction, Finish, memory
  <2>3. \A p \in sent : ~ToCome(p)
    BY <1>3 DEF Poll, ReadOrders, HearPlacement, HearInstruction, Heard, Finish, Doing, ToCome,
                Followed, Ordered
  <2> QED BY <1>1, <2>1, <2>2, <2>3, FollowedQuiet
<1>4. CASE ReadFails \/ Reach \/ Cancel \/ NothingDue
  <2>1. /\ job # None /\ job \in Jobs /\ phase' = phase
        /\ job.at \notin {"send", "refused", "unknown", "raised"}
        /\ job.at = "reading" => job' = Raised
    BY <1>0, <1>4 DEF ReadFails, Reach, Cancel, NothingDue, Doing, process
  <2>2. \/ job' = Raised \/ job' = Over \/ \E point \in Points : job' = At(point, job.of)
    BY <1>4 DEF ReadFails, Reach, Cancel, NothingDue, Points
  <2>3. job'.todo = job.todo /\ (job' = Raised => job'.at = "raised")
    BY <2>1, <2>2, EndedAt, MovedAt
  <2>4. job' # None
    BY <2>1, <2>2, RaisedTyped, DoneTyped, AtTyped, TraderAssumption, <1>4
    DEF TraderAssumption, Over, Reach, Cancel, NothingDue, ReadFails, Doing, Jobs, Between
  <2>5. \A p \in sent : ~AtVenue(p) /\ (ToCome(p) => ToCome(p)')
    BY <2>1, <2>3, <2>4, ToComeKept DEF AtVenue
  <2>6. \A p \in sent : Watched(p) => Watched(p)'
    <3>1. CASE NothingDue
      <4>1. job.of \in Placements /\ working[job.of] # None
        BY <1>0, <2>1, <3>1 DEF Sound, Typed, InHand, NothingDue, Doing, Jobs, Between
      <4>2. working[job.of] \in Worked /\ working \in [Placements -> Worked \cup {None}]
        BY <4>1 DEF Sound, Typed, TypeOK
      <4>3. \E w \in Worked : working' = [working EXCEPT ![job.of] = w]
        <5>1. [working[job.of] EXCEPT !.ended = "filled"] \in Worked
          BY <4>2, WorkedKept
        <5>2. [working[job.of] EXCEPT !.ended = working[job.of].ended] = working[job.of]
          BY <4>2 DEF Worked
        <5> QED BY <3>1, <4>2, <5>1, <5>2 DEF NothingDue
      <4> QED BY <1>0, <1>1, <4>2, <4>3, TraderAssumption DEF Watched, TraderAssumption
    <3>2. CASE ~NothingDue
      <4>1. UNCHANGED working
        BY <1>4, <3>2 DEF ReadFails, Reach, Cancel, memory
      <4> QED BY <1>1, <4>1 DEF Watched
    <3> QED BY <3>1, <3>2
  <2> QED BY <1>1, <2>5, <2>6, FollowedKept
<1> QED BY <1>2, <1>3, <1>4

\* An item of the task in hand: one the start was to take up is taken up.
LEMMA ItemFollowed ==
    ASSUME Sound, Followed, Ordered', instruction = "active" \/ sent \subseteq decided,
           NEW v \in job.todo, job # None,
           Resume(v) \/ StopOne(v) \/ ReleaseOne(v) \/ ReadOrder(v)
    PROVE  Followed'
<1>1. /\ job.at = "next" /\ v.of \in Placements /\ job \in Jobs /\ v \in PlacementViews
      /\ working \in [Placements -> Worked \cup {None}]
      /\ UNCHANGED <<book, sent>> /\ phase' = phase
      /\ \A w \in Worked : w # None
      /\ sent \subseteq Placements
  BY TraderAssumption
  DEF Resume, StopOne, ReleaseOne, ReadOrder, Doing, Sound, Typed, TypeOK, Jobs,
      PlacementViews, bookVars, process, TraderAssumption
<1>2. \/ job' = Done(v) \/ \E point \in Points : job' = Taking(v, point)
  BY DEF Resume, StopOne, ReleaseOne, ReadOrder, OnQueued, Points
<1>3. job' # None /\ job'.todo = job.todo \ {v} /\ \A p \in sent : ~AtVenue(p)
  BY <1>1, <1>2, DoneAt, TakenAt, DoneTyped, TakingTyped, TraderAssumption
  DEF TraderAssumption, AtVenue
<1>4. /\ \A p \in sent : Watched(p) => Watched(p)'
      /\ \A p \in sent : p \in decided' => p \in decided \/ Watched(p)'
      /\ decided \subseteq decided'
      /\ \A p \in sent : p = v.of /\ p \notin decided' /\ phase = "starting" =>
              v.state \in Ended \cup {"absent"}
  <2>1. CASE Resume(v)
    <3> DEFINE w == IF working[v.of] = None THEN Again(v.state) ELSE working[v.of]
    <3>1. CASE /\ working' = [working EXCEPT ![v.of] =
                    IF Asked(w, v)
                    THEN [w EXCEPT !.changes = v.ask, !.cancel_sent = TRUE] ELSE w]
               /\ decided' = decided \cup {v.of}
      <4>1. w \in Worked /\ v.ask \in Nat
        BY <1>1, AgainTyped DEF PlacementViews
      <4> HIDE DEF w
      <4>2. \E u \in Worked : working' = [working EXCEPT ![v.of] = u]
        <5>1. [w EXCEPT !.changes = v.ask, !.cancel_sent = TRUE] \in Worked
          BY <4>1, WorkedKept
        <5> QED BY <3>1, <4>1, <5>1
      <4> QED BY <1>1, <3>1, <4>2 DEF Watched
    <3>2. CASE OnQueued(v, held) /\ v.of \notin decided
      <4>1. CASE InForce /\ decided' = decided /\ working' = working
        BY <1>1, <3>2, <4>1 DEF InForce, Watched
      <4>2. CASE /\ v.of \in sent /\ working' = [working EXCEPT ![v.of] = Again("queued")]
                 /\ decided' = decided \cup {v.of}
        <5>1. \E u \in Worked : working' = [working EXCEPT ![v.of] = u]
          BY <4>2, AgainTyped
        <5> QED BY <1>1, <4>2, <5>1 DEF Watched
      <4>3. CASE v.of \notin sent /\ working' = working /\ decided' = decided \cup {v.of}
        BY <1>1, <4>3 DEF Watched
      <4> QED BY <3>2, <4>1, <4>2, <4>3 DEF OnQueued
    <3>3. CASE /\ v.state \notin InFlight /\ (v.state # "queued" \/ v.of \in decided)
               /\ UNCHANGED <<held, decided, working>>
      BY <1>1, <3>3 DEF PlacementViews, BookStates, InFlight, Watched
    <3> QED BY <2>1, <3>1, <3>2, <3>3 DEF Resume
  <2>2. CASE StopOne(v) \/ ReleaseOne(v) \/ ReadOrder(v)
    <3>1. phase # "starting"
      BY <2>2 DEF StopOne, ReleaseOne, ReadOrder, Followed, Ordered
    <3>2. CASE StopOne(v) \/ ReadOrder(v)
      <4>1. working[v.of] # None
        BY <1>1, <3>2 DEF StopOne, ReadOrder, Sound, Typed, InHand
      <4>2. working[v.of] \in Worked /\ UNCHANGED decided
        BY <1>1, <3>2, <4>1 DEF StopOne, ReadOrder
      <4>3. working' = working \/ \E u \in Worked : working' = [working EXCEPT ![v.of] = u]
        <5>1. [working[v.of] EXCEPT !.cancel_sent = TRUE] \in Worked
          BY <4>2, WorkedKept
        <5>2. [working[v.of] EXCEPT !.order = TRUE, !.unanswered = FALSE] \in Worked
          BY <4>2, WorkedKept
        <5> QED BY <1>1, <3>2, <5>1, <5>2 DEF StopOne, ReadOrder
      <4> QED BY <1>1, <3>1, <4>2, <4>3 DEF Watched
    <3>3. CASE ReleaseOne(v)
      <4>1. CASE UNCHANGED <<decided, working>>
        BY <1>1, <3>1, <4>1 DEF Watched
      <4>2. CASE v.of \notin sent /\ working' = working /\ decided' = decided \cup {v.of}
        BY <1>1, <3>1, <4>2 DEF Watched
      <4>3. CASE /\ v.of \in sent /\ working' = [working EXCEPT ![v.of] = Again("queued")]
                 /\ decided' = decided \cup {v.of}
        <5>1. \E u \in Worked : working' = [working EXCEPT ![v.of] = u]
          BY <4>3, AgainTyped
        <5> QED BY <1>1, <3>1, <4>3, <5>1 DEF Watched
      <4> QED BY <3>3, <4>1, <4>2, <4>3 DEF ReleaseOne, OnQueued
    <3> QED BY <2>2, <3>2, <3>3
  <2> QED BY <2>1, <2>2
<1>5. ASSUME NEW p \in sent, p \notin decided', ToCome(p)
      PROVE  book'[p] \in Ended \/ ToCome(p)'
  <2>1. phase = "starting"
    BY <1>5 DEF ToCome, Followed, Ordered
  <2>2. PICK u \in job.todo : u.of = p /\ u.state \notin Ended \cup {"absent"}
    BY <1>1, <1>5, <2>1 DEF ToCome
  <2>3. u \in job'.todo
    BY <1>3, <1>4, <1>5, <2>1, <2>2
  <2> QED BY <1>1, <1>3, <2>1, <2>2, <2>3 DEF ToCome
<1> QED BY <1>1, <1>3, <1>4, <1>5, FollowedKept

\* A placement is noted as it goes to the venue.
LEMMA NoteFollowed ==
    ASSUME Sound, Followed, Ordered', Note
    PROVE  Followed'
<1>1. /\ job # None /\ job \in Jobs /\ job.at = "note" /\ job.of \in Placements
      /\ job' = At("send", job.of) /\ sent' = sent \cup {job.of}
      /\ UNCHANGED <<book, decided, working>> /\ phase' = phase
      /\ book[job.of] = "queued" /\ job.of \in decided
  BY DEF Note, Noted, Doing, Sound, Typed, TypeOK, AtHand, Queueing, Jobs, Between, bookVars,
         venueVars, memory, process
<1>2. job' # None /\ job'.at = "send" /\ job'.of = job.of /\ job'.todo = job.todo
  BY <1>1, AtTyped, MovedAt, TraderAssumption DEF Points, TraderAssumption
<1>3. \A p \in sent : ~AtVenue(p) /\ (ToCome(p) => ToCome(p)') /\ (Watched(p) => Watched(p)')
  BY <1>1, <1>2, ToComeKept DEF AtVenue, Watched
<1>4. ASSUME NEW p \in sent'
      PROVE  /\ book'[p] # "absent"
             /\ p \in decided' => Watched(p)' \/ AtVenue(p)'
             /\ p \notin decided' => book'[p] \in Ended \/ ToCome(p)'
  <2>1. CASE p = job.of
    <3>1. AtVenue(p)'
      BY <1>1, <1>2, <2>1 DEF AtVenue
    <3> QED BY <1>1, <2>1, <3>1
  <2>2. CASE p \in sent
    BY <1>1, <1>3, <2>2 DEF Followed
  <2> QED BY <1>1, <1>4, <2>1, <2>2
<1> QED BY <1>4 DEF Followed

\* The send's answer leaves it worked, or in hand to be reported.
LEMMA SendFollowed ==
    ASSUME Sound, Followed, Ordered', Send
    PROVE  Followed'
<1> DEFINE q == job.of
<1>1. /\ job # None /\ job \in Jobs /\ job.at = "send" /\ q \in Placements
      /\ working \in [Placements -> Worked \cup {None}] /\ sent \subseteq Placements
      /\ UNCHANGED <<book, sent, decided>> /\ phase' = phase
  BY DEF Send, Doing, Sound, Typed, TypeOK, Jobs, Between, bookVars, process
<1>2. Sending(TRUE) \in Worked /\ \A w \in Worked : w # None
  BY SendingTyped, TraderAssumption DEF TraderAssumption
<1>3. CASE /\ job' = [At("status", q) EXCEPT !.seen[q] = "open"]
           /\ working' = [working EXCEPT ![q] = Sending(TRUE)]
  <2>1. job' # None /\ job'.todo = job.todo
    <3>1. job'.todo = job.todo /\ job'.at = "status" /\ job'.of = q /\ job'.by = job.by
          /\ job'.was = job.was /\ job'.seen = [job.seen EXCEPT ![q] = "open"]
          /\ job' = [by |-> job'.by, at |-> job'.at, of |-> job'.of, todo |-> job'.todo,
                     was |-> job'.was, seen |-> job'.seen]
      BY <1>1, <1>3 DEF At, Jobs
    <3>2. job' \in Jobs
      BY <1>1, <3>1 DEF Jobs, Points, Statuses
    <3> QED BY <3>1, <3>2, TraderAssumption DEF TraderAssumption
  <2>2. \A p \in sent : (Watched(p) => Watched(p)') /\ (AtVenue(p) => Watched(p)')
    BY <1>1, <1>2, <1>3 DEF Watched, AtVenue
  <2>3. \A p \in sent : ToCome(p) => ToCome(p)'
    BY <1>1, <2>1, ToComeKept
  <2> QED BY <1>1, <2>2, <2>3, FollowedKept
<1>4. CASE (job' = At("refused", q) \/ job' = At("unknown", q)) /\ UNCHANGED working
  <2>1. job' # None /\ job'.todo = job.todo /\ job'.of = q /\ job'.at \in {"refused", "unknown"}
    BY <1>1, <1>4, AtTyped, MovedAt, TraderAssumption DEF Points, TraderAssumption
  <2>2. \A p \in sent : (Watched(p) => Watched(p)') /\ (AtVenue(p) => AtVenue(p)')
    BY <1>1, <1>4, <2>1 DEF Watched, AtVenue
  <2>3. \A p \in sent : ToCome(p) => ToCome(p)'
    BY <1>1, <2>1, ToComeKept
  <2> QED BY <1>1, <2>2, <2>3, FollowedKept
<1> QED BY <1>3, <1>4 DEF Send

\* A report made leaves what it is of watched.
LEMMA ReportFollowed ==
    ASSUME Sound, Followed, Ordered', Report
    PROVE  Followed'
<1>0. PICK q \in Placements : q = job.of
  BY FactTyped DEF Sound, Report
<1>1. /\ Reporting /\ job # None /\ job \in Jobs
      /\ job.at \in {"unsupported", "refused", "unknown", "refusing", "fact", "status"}
      /\ working \in [Placements -> Worked \cup {None}] /\ sent \subseteq Placements
      /\ book[q] \in BookStates
      /\ UNCHANGED <<sent, decided>> /\ phase' = phase
      /\ working' = [working EXCEPT ![q] = Kept]
  BY <1>0, FactTyped DEF Report, Reporting, Sound, Typed, TypeOK, process
<1>2. /\ \A p \in Placements : p # q => book'[p] = book[p]
      /\ book'[q] = IF book[q] \in Ended THEN book[q] ELSE Reported
  BY <1>0, <1>1, RecordedStep DEF Report
<1>3. job' = job \/ job' = Over
  BY DEF Report
<1>4. job' # None /\ job'.todo = job.todo
  BY <1>1, <1>3, EndedAt, DoneTyped, TraderAssumption DEF TraderAssumption, Over
<1>5. working[q] # None => Kept # None
  <2>1. CASE job.at = "status"
    BY <1>1, <2>1, FactTyped DEF Sound
  <2>2. CASE job.at # "status"
    <3>1. Fact = job.at /\ Marked = working[q]
      BY <1>0, <2>2 DEF Fact, Marked
    <3>2. Sending(FALSE) # None
      BY SendingTyped, TraderAssumption DEF TraderAssumption
    <3> QED BY <1>1, <3>1, <3>2 DEF Kept
  <2> QED BY <2>1, <2>2
<1>6. job.at \in {"refused", "unknown"} => Watched(q)'
  <2>1. CASE job.at = "refused"
    <3>1. Reported = "rejected"
      BY <2>1 DEF Reported, Fact
    <3>2. book'[q] \in Ended
      BY <1>2, <3>1 DEF Ended
    <3> QED BY <3>2 DEF Watched
  <2>2. CASE job.at = "unknown"
    <3>1. Kept = Sending(FALSE)
      BY <2>2 DEF Kept, Fact
    <3>2. working'[q] # None
      BY <1>0, <1>1, <3>1, SendingTyped, TraderAssumption DEF TraderAssumption
    <3> QED BY <3>2 DEF Watched
  <2> QED BY <2>1, <2>2
<1>7. Reported # "absent" \/ Reported = book[q]
  BY <1>0, <1>1 DEF Reported, Reporting, Fact, Due
<1>8. \A p \in sent :
        /\ book[p] # "absent" => book'[p] # "absent"
        /\ book[p] \in Ended => book'[p] \in Ended
        /\ Watched(p) => Watched(p)'
  BY <1>0, <1>1, <1>2, <1>5, <1>7 DEF Watched, Ended
<1>9. \A p \in sent : AtVenue(p) => Watched(p)'
  <2>1. job.at # "send"
    BY <1>1
  <2> QED BY <1>0, <1>6, <2>1 DEF AtVenue
<1>10. \A p \in sent : ToCome(p) => ToCome(p)'
  BY <1>1, <1>4, ToComeKept
<1> QED BY <1>1, <1>8, <1>9, <1>10, FollowedKept

\* A process that dies leaves all it noted to the start.
LEMMA CrashFollowed ==
    ASSUME Followed, Ordered', Crash
    PROVE  Followed'
<1>1. /\ phase' = "down" /\ decided' = {} /\ UNCHANGED <<sent, book>>
  BY DEF Crash
<1> QED BY <1>1 DEF Followed, ToCome

\* Every step but a report that fails or an order not found keeps it, where
\* nothing holds back what was noted before.
LEMMA FollowedStep ==
    ASSUME Sound, Followed, [Next]_vars, ~ReportFails, ~ \E v \in Items : Unfound(v),
           instruction = "active" \/ sent \subseteq decided
    PROVE  Followed'
<1>1. Ordered'
  BY OrderedStep DEF Sound, Typed, Followed
<1>2. CASE Next
  <2>1. CASE \E v \in Items : Resume(v) \/ StopOne(v) \/ ReleaseOne(v) \/ ReadOrder(v)
    BY <1>1, <2>1, ItemFollowed DEF Items
  <2> QED BY <1>1, <1>2, <2>1, AroundFollowed, TasksFollowed, NoteFollowed, SendFollowed,
             ReportFollowed, CrashFollowed DEF Next, Works, Hears
<1>3. CASE UNCHANGED vars
  <2>1. \A p \in sent : (AtVenue(p) => AtVenue(p)') /\ (ToCome(p) => ToCome(p)')
    BY <1>3 DEF vars, AtVenue, ToCome
  <2> QED BY <1>1, <1>3, <2>1, FollowedQuiet DEF vars
<1> QED BY <1>2, <1>3

\* Nothing was ever ruled: what is in force, held and to be heard is none.
Unruled ==
    /\ left["ruling"] = 0
    /\ ruling = "active" /\ instruction = "active"
    /\ \A i \in 1..Len(inbox) : inbox[i].of # None

\* All that was noted was by this process, which never died.
Uncrashed == left["crash"] = 0 /\ sent \subseteq decided

\* The book's write delivers the placement as it now stands.
LEMMA WriteDelivers ==
    ASSUME NEW p \in Placements, NEW state, NEW waits \in BOOLEAN, Write(p, state, waits),
           book \in [Placements -> BookStates], book' \in [Placements -> BookStates],
           asks' \in [Placements -> Nat]
    PROVE  \E v \in PlacementViews : v.state = book'[v.of] /\ inbox' = Delivered(v)
<1> DEFINE now == IF book[p] \in Ended THEN book[p] ELSE state
           isPending == waits /\ now \notin Ended
           v == [of |-> p, state |-> now, ask |-> IF isPending THEN asks'[p] ELSE 0]
<1>1. book' = [book EXCEPT ![p] = now] /\ inbox' = Delivered(v)
  BY DEF Write
<1>2. book'[p] = now
  BY <1>1
<1>3. now \in BookStates
  BY <1>2
<1>4. v.state = book'[v.of] /\ v \in PlacementViews
  BY <1>2, <1>3 DEF PlacementViews
<1> HIDE DEF v
<1> QED BY <1>1, <1>4

\* What there is to hear next, where nothing is ruled: as it was, none, one
\* fewer, or a placement as it now stands.
InboxMoves ==
    \/ inbox' = inbox \/ inbox' = <<>>
    \/ inbox # <<>> /\ inbox' = Tail(inbox)
    \/ \E v \in PlacementViews :
          hearing /\ v.state = book'[v.of] /\ inbox' = Append(inbox, v)

LEMMA InboxStep ==
    ASSUME Sound, Sound', [Next]_vars, ~ \E value \in Rulings : Rule(value)
    PROVE  ruling' = ruling /\ InboxMoves
<1>0. /\ book \in [Placements -> BookStates] /\ book' \in [Placements -> BookStates]
      /\ asks' \in [Placements -> Nat]
  BY DEF Sound, Typed, TypeOK
<1>1. ASSUME NEW p \in Placements, Place(p) \/ AskCancel(p)
      PROVE  ruling' = ruling /\ InboxMoves
  <2>1. \E state \in BookStates, waits \in BOOLEAN : Write(p, state, waits)
    <3>1. book[p] \in BookStates /\ "queued" \in BookStates
      BY <1>0 DEF BookStates
    <3> QED BY <1>1, <3>1 DEF Place, AskCancel
  <2>2. \E v \in PlacementViews : v.state = book'[v.of] /\ inbox' = Delivered(v)
    BY <1>0, <2>1, WriteDelivers
  <2>3. ruling' = ruling
    BY <2>1 DEF Write
  <2> QED BY <2>2, <2>3 DEF Delivered, InboxMoves
<1>2. CASE Report \/ ReportFails
  <2>1. CASE Recorded
    <3> DEFINE waits == job.of \in pending /\ Fact # "refusing"
    <3>1. Write(job.of, Reported, waits) /\ waits \in BOOLEAN /\ job.of \in Placements
      BY <1>2, <2>1, FactTyped DEF Recorded, Report, ReportFails, Sound
    <3> HIDE DEF waits
    <3>2. \E v \in PlacementViews : v.state = book'[v.of] /\ inbox' = Delivered(v)
      BY <1>0, <3>1, WriteDelivers
    <3>3. ruling' = ruling
      BY <3>1 DEF Write
    <3> QED BY <3>2, <3>3 DEF Delivered, InboxMoves
  <2>2. CASE UNCHANGED bookVars
    BY <2>2 DEF bookVars, InboxMoves
  <2> QED BY <1>2, <2>1, <2>2 DEF Report, ReportFails
<1>3. CASE \/ \E p \in Placements : Moves(p)
           \/ GiveUp \/ Reach \/ Note \/ Send \/ NothingDue \/ Cancel
           \/ StartBook \/ ReadOrders \/ Finish \/ Hears \/ OpenHearing
           \/ Boot \/ StartInstructions \/ Poll \/ ReadFails \/ Crash
           \/ \E v \in Items : Resume(v) \/ StopOne(v) \/ ReleaseOne(v) \/ ReadOrder(v) \/ Unfound(v)
           \/ UNCHANGED vars
  BY <1>3 DEF Unfound, Moves, GiveUp, Reach, Note, Send, NothingDue, Cancel, StartBook, ReadOrders,
     Finish, Hears, HearPlacement, HearInstruction, HearEarly, Heard, OpenHearing, Boot,
     StartInstructions, Poll, ReadFails, Crash, Resume, StopOne, ReleaseOne, ReadOrder, vars,
     bookVars, InboxMoves
<1> QED BY <1>1, <1>2, <1>3 DEF Next, Works

\* What is to be heard was, or is a placement as it now stands.
LEMMA InboxItems ==
    ASSUME Sound, InboxMoves
    PROVE  \A i \in 1..Len(inbox') :
              \/ \E j \in 1..Len(inbox) : inbox'[i] = inbox[j]
              \/ inbox'[i] \in PlacementViews /\ inbox'[i].state = book'[inbox'[i].of]
<1>1. inbox \in Seq(Views)
  BY DEF Sound, Typed, TypeOK
<1>2. CASE inbox # <<>> /\ inbox' = Tail(inbox)
  <2>1. /\ Len(inbox') = Len(inbox) - 1 /\ Len(inbox) \in Nat
        /\ \A i \in 1..Len(inbox') : inbox'[i] = inbox[i + 1]
    BY <1>1, <1>2, HeadTailProperties
  <2>2. \A i \in 1..Len(inbox') : i + 1 \in 1..Len(inbox)
    BY <2>1
  <2> QED BY <2>1, <2>2
<1>3. ASSUME NEW v \in PlacementViews, v.state = book'[v.of], inbox' = Append(inbox, v)
      PROVE  \A i \in 1..Len(inbox') :
                \/ \E j \in 1..Len(inbox) : inbox'[i] = inbox[j]
                \/ inbox'[i] \in PlacementViews /\ inbox'[i].state = book'[inbox'[i].of]
  <2>0. v \in Views
    BY DEF Views
  <2>1. /\ Len(inbox') = Len(inbox) + 1 /\ Len(inbox) \in Nat
        /\ \A i \in 1..Len(inbox) : inbox'[i] = inbox[i]
        /\ inbox'[Len(inbox) + 1] = v
    BY <1>1, <1>3, <2>0, AppendProperties
  <2>2. \A i \in 1..Len(inbox') : i \in 1..Len(inbox) \/ i = Len(inbox) + 1
    BY <2>1
  <2> QED BY <1>3, <2>1, <2>2
<1>4. CASE inbox' = <<>>
  BY <1>4
<1> QED BY <1>2, <1>3, <1>4 DEF InboxMoves

\* No instruction comes where none may.
LEMMA UnruledStep ==
    ASSUME Sound, Sound', Unruled, [Next]_vars
    PROVE  Unruled'
<1>1. left'["ruling"] = 0 /\ ~Spend("ruling")
  BY SparedStep DEF Unruled, Sound, Typed, Mishaps
<1>2. ~ \E value \in Rulings : Rule(value)
  BY <1>1 DEF Rule
<1>3. ruling' = ruling /\ InboxMoves
  BY <1>2, InboxStep
<1>4. \A i \in 1..Len(inbox') : inbox'[i].of # None
  <2>1. \A v \in PlacementViews : v.of # None
    BY TraderAssumption DEF PlacementViews, TraderAssumption
  <2> QED BY <1>3, <2>1, InboxItems DEF Unruled
<1>5. ~HearInstruction
  <2> SUFFICES ASSUME HearInstruction PROVE FALSE
    OBVIOUS
  <2>1. inbox # <<>> /\ inbox \in Seq(Views) /\ Head(inbox).of = None
    BY DEF HearInstruction, Heard, Sound, Typed, TypeOK
  <2>2. 1 \in 1..Len(inbox) /\ Head(inbox) = inbox[1]
    BY <2>1, HeadTailProperties
  <2> QED BY <2>1, <2>2 DEF Unruled
<1>6. instruction' = "active"
  <2>1. CASE StartInstructions \/ Crash
    BY <2>1 DEF StartInstructions, Listed, Crash, Unruled
  <2>2. CASE ~(StartInstructions \/ Crash)
    <3>1. CASE \E v \in Items : Resume(v) \/ StopOne(v) \/ ReleaseOne(v) \/ ReadOrder(v)
      BY <3>1 DEF Resume, StopOne, ReleaseOne, ReadOrder, Unruled
    <3> QED BY <1>2, <1>5, <2>2, <3>1
    DEF Unruled, Unfound, Next, Works, Hears, Place, AskCancel, Moves, GiveUp, Reach, Note, Send,
        Report, NothingDue, Cancel, StartBook, ReadOrders, Finish, HearPlacement, HearEarly,
        OpenHearing, Boot, Poll, ReportFails, ReadFails, memory, vars
  <2> QED BY <2>1, <2>2
<1> QED BY <1>1, <1>3, <1>4, <1>6 DEF Unruled

\* A process that never dies has taken up all it noted.
LEMMA UncrashedStep ==
    ASSUME Sound, Sound', Uncrashed, [Next]_vars
    PROVE  Uncrashed'
<1>1. left'["crash"] = 0 /\ ~Spend("crash")
  BY SparedStep DEF Uncrashed, Sound, Typed, Mishaps
<1>2. ~Crash
  BY <1>1 DEF Crash
<1>3. decided \subseteq decided'
  <2>1. CASE \E v \in Items : Resume(v) \/ StopOne(v) \/ ReleaseOne(v) \/ ReadOrder(v)
    BY <2>1 DEF Resume, StopOne, ReleaseOne, ReadOrder, OnQueued
  <2> QED BY <1>2, <2>1
    DEF Unfound, Next, Works, Hears, Place, AskCancel, Moves, Rule, GiveUp, Reach, Note, Send,
        Report, NothingDue, Cancel, StartBook, ReadOrders, Finish, HearPlacement, HearEarly,
        HearInstruction, StartInstructions,
        OpenHearing, Boot, Poll, ReportFails, ReadFails, memory, vars
<1>4. sent' \subseteq decided'
  <2>1. CASE Note
    <3>1. job # None /\ job.of \in decided
      BY <2>1 DEF Note, Doing, Sound, AtHand, Between
    <3> QED BY <1>3, <2>1, <3>1 DEF Note, Noted, Uncrashed
  <2>2. CASE ~Note
    <3>1. sent' = sent
      <4>1. CASE \E v \in Items : Resume(v) \/ StopOne(v) \/ ReleaseOne(v) \/ ReadOrder(v)
        BY <4>1 DEF Resume, StopOne, ReleaseOne, ReadOrder
      <4> QED BY <2>2, <4>1
    DEF Unfound, Next, Works, Hears, Place, AskCancel, Moves, Rule, GiveUp, Reach, Send,
        Report, NothingDue, Cancel, StartBook, ReadOrders, Finish, HearPlacement, HearEarly,
        HearInstruction, StartInstructions, Crash,
        OpenHearing, Boot, Poll, ReportFails, ReadFails, memory, vars
    <3> QED BY <1>3, <3>1 DEF Uncrashed
  <2> QED BY <2>1, <2>2
<1> QED BY <1>1, <1>4 DEF Uncrashed

\* What each budget must leave no room for: a report that fails, an order not
\* found, and a restart where an instruction may hold back what it finds.
Unmissed ==
    \A b \in Budgets :
        b["report"] = 0 /\ b["unfound"] = 0 /\ (b["crash"] = 0 \/ b["ruling"] = 0)

Sparing == left["report"] = 0 /\ left["unfound"] = 0 /\ Followed /\ (Unruled \/ Uncrashed)

\* What was sent and has not ended is worked whenever the plugin is idle: for any
\* interleaving of the start's reading with a restart between the note and the
\* send's answer, of calls unanswered, and of the polls.
THEOREM SentStaysWatched ==
    ASSUME Unmissed
    PROVE  Spec => []SentIsWatched
<1>1. Init => Sound /\ Sparing
  <2> SUFFICES ASSUME Init PROVE Sound /\ Sparing
    OBVIOUS
  <2>1. left \in Budgets /\ left["report"] = 0 /\ left["unfound"] = 0
        /\ (left["crash"] = 0 \/ left["ruling"] = 0)
    BY DEF Init, Unmissed
  <2>2. inbox = <<>> /\ Len(inbox) = 0 /\ sent = {} /\ job = None
        /\ ruling = "active" /\ instruction = "active"
    BY DEF Init
  <2>3. Followed
    BY <2>2 DEF Followed, Ordered
  <2> QED BY <2>1, <2>2, <2>3, SoundInit DEF Sparing, Unruled, Uncrashed
<1>2. Sound /\ Sparing /\ [Next]_vars => Sound' /\ Sparing'
  <2> SUFFICES ASSUME Sound, Sparing, [Next]_vars PROVE Sound' /\ Sparing'
    OBVIOUS
  <2>1. Sound'
    BY SoundStep
  <2>2. /\ left'["report"] = 0 /\ ~Spend("report")
        /\ left'["unfound"] = 0 /\ ~Spend("unfound")
    BY SparedStep DEF Sparing, Sound, Typed, Mishaps
  <2>3. ~ReportFails /\ ~ \E v \in Items : Unfound(v)
    BY <2>2 DEF ReportFails, Unfound
  <2>4. Followed'
    BY <2>3, FollowedStep DEF Sparing, Unruled, Uncrashed
  <2>5. Unruled' \/ Uncrashed'
    BY <2>1, UnruledStep, UncrashedStep DEF Sparing
  <2> QED BY <2>1, <2>2, <2>4, <2>5 DEF Sparing
<1>3. Sound /\ Sparing => SentIsWatched
  BY DEF Sparing, Followed, SentIsWatched, Idle, Watched, AtVenue, ToCome
<1> QED BY <1>1, <1>2, <1>3, PTL DEF Spec

-----------------------------------------------------------------------------
(* The instruction held is the one in force. *)

\* No read and no report fails, so no task is given up and what was delivered
\* is heard; and every order is found.
NeverRaised ==
    /\ left["report"] = 0 /\ left["read"] = 0 /\ left["unfound"] = 0
    /\ job # None => job.at # "raised"

\* An instruction, where a placement is none.
Instructs(v) == v.of = None

\* What is held once the rest is heard is what is in force.
Heeded ==
    /\ (\A i \in 1..Len(inbox) : ~Instructs(inbox[i])) => instruction = ruling
    /\ \A i \in 1..Len(inbox) :
          Instructs(inbox[i]) /\ (\A j \in 1..Len(inbox) : j > i => ~Instructs(inbox[j])) =>
              inbox[i].state = ruling

\* What was ruled before the start, the start reads; after, it is delivered.
Known ==
    /\ NeverRaised /\ Ordered
    /\ phase = "down" => ~hearing
    /\ ~hearing => inbox = <<>>
    /\ phase = "starting" =>
          /\ \A i \in 1..Len(inbox) : ~Instructs(inbox[i])
          /\ job # None => instruction = ruling
    /\ phase = "started" => Heeded

\* The next to hear, where it is an instruction.
LEMMA HeadInstructs ==
    ASSUME Sound, Heard, Head(inbox).of = None
    PROVE  Head(inbox).state \in Rulings
<1>1. inbox # <<>> /\ inbox \in Seq(Views)
  BY DEF Heard, Sound, Typed, TypeOK
<1>2. Head(inbox) \in Views
  BY <1>1, HeadTailProperties
<1> QED BY <1>2, TraderAssumption DEF Views, PlacementViews, TraderAssumption

\* Where a task may have come to what raised it, what is not known, or what the
\* start reads.
LEMMA PointStep ==
    ASSUME Sound, [Next]_vars, job' # None, job' # job
    PROVE  /\ job'.at = "raised" => ReportFails \/ ReadFails
           /\ job'.at = "unknown" => Spend("unanswered")
           /\ job'.at = "reading" => job'.by = "start"
<1> DEFINE Elsewhere == job'.at \notin {"raised", "unknown", "reading"}
<1>0. job # None => job \in Jobs
  BY DEF Sound, Typed, TypeOK
<1>1. CASE \E v \in Items : Resume(v) \/ StopOne(v) \/ ReleaseOne(v) \/ ReadOrder(v)
  <2>1. PICK v \in Items : Resume(v) \/ StopOne(v) \/ ReleaseOne(v) \/ ReadOrder(v)
    BY <1>1
  <2>2. job # None /\ \/ job' = Done(v) \/ job' = Taking(v, "reach")
                      \/ job' = Taking(v, "cancel") \/ job' = Taking(v, "status")
    BY <2>1 DEF Resume, StopOne, ReleaseOne, ReadOrder, OnQueued, Doing
  <2>3. Elsewhere
    BY <1>0, <2>2, DoneAt, TakenAt
  <2> QED BY <2>3
<1>2. CASE Reach \/ Note \/ Report \/ NothingDue \/ Cancel
  <2>1. /\ job # None
        /\ \/ job' = job \/ job' = Over
           \/ \E point \in Points \ {"raised", "unknown", "reading"} : job' = At(point, job.of)
    BY <1>2 DEF Reach, Note, Report, Reporting, NothingDue, Cancel, Doing, Points
  <2>2. Elsewhere
    BY <1>0, <2>1, EndedAt, MovedAt
  <2> QED BY <2>2
<1>3. CASE Send
  <2>1. \/ job' = [At("status", job.of) EXCEPT !.seen[job.of] = "open"]
        \/ job' = At("refused", job.of)
        \/ job' = At("unknown", job.of) /\ Spend("unanswered")
    BY <1>3 DEF Send
  <2> QED BY <1>0, <1>3, <2>1 DEF At, Jobs, Send, Doing
<1>4. CASE StartInstructions \/ StartBook \/ Poll \/ HearPlacement
  BY <1>4 DEF StartInstructions, StartBook, Poll, HearPlacement, Task
<1>5. CASE HearInstruction
  <2>1. Head(inbox).state \in Rulings
    BY <1>5, HeadInstructs DEF HearInstruction
  <2>2. Elsewhere
    BY <1>5, <2>1 DEF HearInstruction, Rulings, Task
  <2> QED BY <2>2
<1>6. CASE ReadOrders
  BY <1>6 DEF ReadOrders, Task
<1>7. CASE ReportFails \/ ReadFails
  <2>1. job # None /\ job'.at = "raised"
    BY <1>0, <1>7, EndedAt DEF ReportFails, ReadFails, Reporting, Doing
  <2> QED BY <1>7, <2>1
<1>8. CASE \/ \E p \in Placements : Place(p) \/ AskCancel(p) \/ Moves(p)
           \/ \E value \in Rulings : Rule(value)
           \/ GiveUp \/ Finish \/ HearEarly \/ OpenHearing \/ Boot \/ Crash
           \/ UNCHANGED vars
  BY <1>8 DEF Place, AskCancel, Moves, Rule, GiveUp, Finish, HearEarly, OpenHearing,
     Boot, Crash, vars
<1>9. CASE \E v \in Items : Unfound(v)
  BY <1>9, UnfoundStep DEF Sound, Typed
<1> QED BY <1>1, <1>2, <1>3, <1>4, <1>5, <1>6, <1>7, <1>8, <1>9 DEF Next, Works, Hears

\* No task comes to be given up.
LEMMA NeverRaisedStep ==
    ASSUME Sound, NeverRaised, [Next]_vars
    PROVE  /\ NeverRaised' /\ ~GiveUp /\ ~ReadFails /\ ~ReportFails
           /\ \A v \in Items : ~Unfound(v)
<1>1. /\ left'["report"] = 0 /\ ~Spend("report")
      /\ left'["read"] = 0 /\ ~Spend("read")
      /\ left'["unfound"] = 0 /\ ~Spend("unfound")
  BY SparedStep DEF NeverRaised, Sound, Typed, Mishaps
<1>2. ~ReportFails /\ ~ReadFails /\ ~GiveUp /\ \A v \in Items : ~Unfound(v)
  BY <1>1 DEF ReportFails, ReadFails, Unfound, GiveUp, Doing, NeverRaised
<1>3. job' # None => job'.at # "raised"
  BY <1>2, PointStep DEF NeverRaised
<1> QED BY <1>1, <1>2, <1>3 DEF NeverRaised

\* One more placement to hear changes no instruction.
LEMMA HeededMore ==
    ASSUME Sound, Heeded, UNCHANGED <<instruction, ruling>>,
           NEW v \in PlacementViews, inbox' = Append(inbox, v)
    PROVE  Heeded'
<1>1. inbox \in Seq(Views) /\ v \in Views /\ ~Instructs(v)
  BY TraderAssumption DEF Sound, Typed, TypeOK, Views, PlacementViews, Instructs, TraderAssumption
<1>2. /\ Len(inbox') = Len(inbox) + 1 /\ Len(inbox) \in Nat
      /\ \A i \in 1..Len(inbox) : inbox'[i] = inbox[i]
      /\ inbox'[Len(inbox) + 1] = v
  BY <1>1, AppendProperties
<1>3. \A i \in 1..Len(inbox) : i \in 1..Len(inbox')
  BY <1>2
<1>4. \A i \in 1..Len(inbox') : i \in 1..Len(inbox) \/ i = Len(inbox) + 1
  BY <1>2
<1> QED BY <1>1, <1>2, <1>3, <1>4 DEF Heeded, Instructs

\* One fewer to hear leaves the last instruction what is in force: a placement
\* heard, or an instruction that is held from now on.
LEMMA HeededFewer ==
    ASSUME Sound, Heeded, UNCHANGED ruling, inbox # <<>>, inbox' = Tail(inbox),
           IF Instructs(Head(inbox)) THEN instruction' = Head(inbox).state
                                     ELSE instruction' = instruction
    PROVE  Heeded'
<1>1. inbox \in Seq(Views)
  BY DEF Sound, Typed, TypeOK
<1>2. /\ Len(inbox') = Len(inbox) - 1 /\ Len(inbox) \in Nat \ {0}
      /\ \A i \in 1..Len(inbox') : inbox'[i] = inbox[i + 1]
      /\ Head(inbox) = inbox[1]
  BY <1>1, HeadTailProperties, EmptySeq
<1>3. \A j \in 1..Len(inbox) : j > 1 => j - 1 \in 1..Len(inbox') /\ inbox[j] = inbox'[j - 1]
  <2> SUFFICES ASSUME NEW j \in 1..Len(inbox), j > 1
               PROVE  j - 1 \in 1..Len(inbox') /\ inbox[j] = inbox'[j - 1]
    OBVIOUS
  <2>1. j - 1 \in 1..Len(inbox') /\ (j - 1) + 1 = j
    BY <1>2
  <2> QED BY <1>2, <2>1
<1>4. ASSUME \A i \in 1..Len(inbox') : ~Instructs(inbox'[i])
      PROVE  instruction' = ruling
  <2>1. \A j \in 1..Len(inbox) : j > 1 => ~Instructs(inbox[j])
    BY <1>3, <1>4
  <2>2. 1 \in 1..Len(inbox)
    BY <1>2
  <2>3. \A j \in 1..Len(inbox) : j = 1 \/ j > 1
    BY <1>2
  <2>4. CASE Instructs(inbox[1])
    BY <1>2, <2>1, <2>2, <2>4 DEF Heeded
  <2>5. CASE ~Instructs(inbox[1])
    BY <1>2, <2>1, <2>3, <2>5 DEF Heeded
  <2> QED BY <2>4, <2>5
<1>5. ASSUME NEW i \in 1..Len(inbox'), Instructs(inbox'[i]),
             \A j \in 1..Len(inbox') : j > i => ~Instructs(inbox'[j])
      PROVE  inbox'[i].state = ruling
  <2>1. i + 1 \in 1..Len(inbox) /\ inbox'[i] = inbox[i + 1]
    BY <1>2
  <2>2. ASSUME NEW j \in 1..Len(inbox), j > i + 1 PROVE ~Instructs(inbox[j])
    <3>1. j > 1 /\ j - 1 > i
      BY <2>2
    <3> QED BY <1>3, <1>5, <3>1
  <2> QED BY <1>5, <2>1, <2>2 DEF Heeded
<1> QED BY <1>4, <1>5 DEF Heeded, Instructs

\* Every step keeps what is known, where nothing is ruled while it starts.
LEMMA KnownStep ==
    ASSUME Sound, Sound', Known, ~RuledEarly, [Next]_vars
    PROVE  Known'
<1>0. NeverRaised' /\ Ordered'
  BY NeverRaisedStep, OrderedStep DEF Known, Sound, Typed
<1>2. ~GiveUp /\ ~ReadFails /\ ~ReportFails /\ \A v \in Items : ~Unfound(v)
  BY NeverRaisedStep DEF Known
<1>3. inbox \in Seq(Views) /\ (inbox = <<>> => Len(inbox) = 0)
  BY DEF Sound, Typed, TypeOK
<1>4. ASSUME NEW value \in Rulings, Rule(value) PROVE Known'
  <2>1. UNCHANGED <<phase, hearing, instruction, job>> /\ ruling' = value
    BY <1>4 DEF Rule, process, memory
  <2>2. CASE phase = "down"
    BY <1>0, <1>4, <2>1, <2>2 DEF Rule, Known, Delivered
  <2>3. CASE phase = "started" /\ hearing
    <3> DEFINE v == [of |-> None, state |-> value, ask |-> 0]
    <3>1. inbox' = Append(inbox, v) /\ v \in Views
      BY <1>4, <2>3 DEF Rule, Delivered, Views
    <3>2. Instructs(v) /\ v.state = value
      BY DEF Instructs
    <3> HIDE DEF v
    <3>3. /\ Len(inbox') = Len(inbox) + 1 /\ Len(inbox) \in Nat
          /\ \A i \in 1..Len(inbox) : inbox'[i] = inbox[i]
          /\ inbox'[Len(inbox) + 1] = v
      BY <1>3, <3>1, AppendProperties
    <3>4. /\ Len(inbox) + 1 \in 1..Len(inbox')
          /\ \A i \in 1..Len(inbox') : i = Len(inbox) + 1 \/ Len(inbox) + 1 > i
      BY <3>3
    <3>5. Heeded'
      BY <2>1, <3>2, <3>3, <3>4 DEF Heeded, Instructs
    <3> QED BY <1>0, <2>1, <2>3, <3>5 DEF Known
  <2> QED BY <1>4, <2>2, <2>3 DEF Rule
<1>5. CASE ~ \E value \in Rulings : Rule(value)
  <2>1. ruling' = ruling /\ InboxMoves
    BY <1>5, InboxStep
  <2>2. CASE HearInstruction \/ HearPlacement \/ HearEarly
    <3>1. UNCHANGED <<phase, hearing>> /\ hearing /\ inbox # <<>> /\ inbox' = Tail(inbox)
      BY <2>2 DEF HearInstruction, HearPlacement, HearEarly, Heard, process
    <3>2. CASE HearInstruction \/ HearPlacement
      <4>1. phase = "started"
        BY <3>2 DEF HearInstruction, HearPlacement, Heard
      <4>2. IF Instructs(Head(inbox)) THEN instruction' = Head(inbox).state
                                      ELSE instruction' = instruction
        BY <3>2 DEF HearInstruction, HearPlacement, Instructs, memory
      <4>3. Heeded'
        BY <2>1, <3>1, <4>1, <4>2, HeededFewer DEF Known
      <4> QED BY <1>0, <3>1, <4>1, <4>3 DEF Known
    <3>3. CASE HearEarly
      <4>1. UNCHANGED <<job, instruction>> /\ phase = "starting"
        BY <3>3 DEF HearEarly, memory
      <4>2. /\ Len(inbox') = Len(inbox) - 1 /\ Len(inbox) \in Nat
            /\ \A i \in 1..Len(inbox') : inbox'[i] = inbox[i + 1]
        BY <1>3, <3>1, HeadTailProperties
      <4>3. \A i \in 1..Len(inbox') : i + 1 \in 1..Len(inbox)
        BY <4>2
      <4> QED BY <1>0, <2>1, <3>1, <4>1, <4>2, <4>3 DEF Known, Instructs
    <3> QED BY <2>2, <3>2, <3>3
  <2>3. CASE Crash
    BY <1>0, <2>3 DEF Crash, Known
  <2>4. CASE StartInstructions \/ Boot
    BY <1>0, <2>1, <1>3, <2>4
    DEF StartInstructions, Boot, Known, Listed, process, bookVars, memory, Ordered, Instructs
  <2>5. CASE OpenHearing
    BY <1>0, <2>5 DEF OpenHearing, Known, bookVars, memory, Heeded, Instructs
  <2>6. CASE Finish
    <3>1. UNCHANGED <<hearing, inbox, ruling, instruction>> /\ job # None /\ job' = None
          /\ phase' = IF job.by = "start" THEN "started" ELSE phase
      BY <2>6 DEF Finish, Doing, bookVars, memory
    <3>2. Heeded => Heeded'
      BY <3>1 DEF Heeded, Instructs
    <3>3. phase = "starting" => Heeded'
      BY <3>1 DEF Known, Heeded, Instructs
    <3>4. phase # "down"
      BY <3>1 DEF Known, Ordered
    <3>5. phase \in {"starting", "started"}
      BY <3>4 DEF Sound, Typed, TypeOK
    <3> QED BY <1>0, <3>1, <3>2, <3>3, <3>5 DEF Known, Instructs
  <2>7. CASE /\ UNCHANGED <<phase, hearing, instruction>>
             /\ phase = "starting" /\ job' # None => job # None
             /\ \/ inbox' = inbox
                \/ \E v \in PlacementViews : hearing /\ inbox' = Append(inbox, v)
    <3>1. CASE inbox' = inbox
      BY <1>0, <2>1, <2>7, <3>1 DEF Known, Heeded, Instructs
    <3>2. ASSUME NEW v \in PlacementViews, hearing, inbox' = Append(inbox, v)
          PROVE  Known'
      <4>1. Heeded => Heeded'
        BY <2>1, <2>7, <3>2, HeededMore
      <4>2. v \in Views /\ ~Instructs(v)
        BY TraderAssumption DEF Views, PlacementViews, Instructs, TraderAssumption
      <4>3. /\ Len(inbox') = Len(inbox) + 1 /\ Len(inbox) \in Nat
            /\ \A i \in 1..Len(inbox) : inbox'[i] = inbox[i]
            /\ inbox'[Len(inbox) + 1] = v
        BY <1>3, <3>2, <4>2, AppendProperties
      <4>4. \A i \in 1..Len(inbox') : i \in 1..Len(inbox) \/ i = Len(inbox) + 1
        BY <4>3
      <4> QED BY <1>0, <2>1, <2>7, <3>2, <4>1, <4>2, <4>3, <4>4 DEF Known, Instructs
    <3> QED BY <2>7, <3>1, <3>2
  <2>8. ASSUME ~HearInstruction, ~HearPlacement, ~HearEarly, ~Crash, ~StartInstructions,
               ~Boot, ~OpenHearing, ~Finish
        PROVE  /\ UNCHANGED <<phase, hearing, instruction>>
               /\ phase = "starting" /\ job' # None => job # None
    <3>1. CASE \/ \E v \in Items : Resume(v) \/ StopOne(v) \/ ReleaseOne(v) \/ ReadOrder(v)
               \/ Reach \/ Note \/ Send \/ Report \/ NothingDue \/ Cancel
               \/ StartBook \/ ReadOrders \/ Poll
      BY <3>1 DEF Resume, StopOne, ReleaseOne, ReadOrder, Reach, Note, Send, Report, Reporting,
         NothingDue, Cancel, StartBook, ReadOrders, Poll, Doing, process, memory
    <3>2. CASE (\E p \in Placements : Place(p) \/ AskCancel(p) \/ Moves(p)) \/ UNCHANGED vars
      BY <3>2 DEF Place, AskCancel, Moves, process, memory, vars
    <3> QED BY <1>2, <1>5, <2>8, <3>1, <3>2 DEF Next, Works, Hears
  <2>9. ASSUME ~HearInstruction, ~HearPlacement, ~HearEarly, ~Crash
        PROVE  \/ inbox' = inbox
               \/ \E v \in PlacementViews : hearing /\ inbox' = Append(inbox, v)
    <3>1. CASE Report \/ \E p \in Placements : Place(p) \/ AskCancel(p)
      <4> SUFFICES ASSUME inbox' # inbox
                   PROVE  \E v \in PlacementViews : hearing /\ inbox' = Append(inbox, v)
        OBVIOUS
      <4>1. \E u : inbox' = Append(inbox, u)
        BY <3>1 DEF Report, Recorded, Place, AskCancel, Write, Delivered
      <4>2. Len(inbox') = Len(inbox) + 1 /\ Len(inbox) \in Nat
        <5>1. PICK u : inbox' = Append(inbox, u)
          BY <4>1
        <5> QED BY <1>3, <5>1
      <4>3. inbox' # <<>> /\ ~(inbox # <<>> /\ inbox' = Tail(inbox))
        <5>1. inbox # <<>> => Len(Tail(inbox)) = Len(inbox) - 1
          BY <1>3, HeadTailProperties
        <5> QED BY <4>2, <5>1
      <4> QED BY <2>1, <4>3 DEF InboxMoves
    <3>2. CASE ~(Report \/ \E p \in Placements : Place(p) \/ AskCancel(p))
      <4>1. CASE \E v \in Items : Resume(v) \/ StopOne(v) \/ ReleaseOne(v) \/ ReadOrder(v)
        BY <4>1 DEF Resume, StopOne, ReleaseOne, ReadOrder, bookVars
      <4> QED BY <1>2, <1>5, <2>9, <3>2, <4>1
        DEF Next, Works, Hears, Moves, Reach, Note, Send, NothingDue, Cancel, StartBook,
            ReadOrders, Finish, OpenHearing, Boot, StartInstructions, Poll, bookVars, vars
    <3> QED BY <3>1, <3>2
  <2> QED BY <2>2, <2>3, <2>4, <2>5, <2>6, <2>7, <2>8, <2>9
<1> QED BY <1>4, <1>5

\* What each budget must leave no room for: a read or a report that fails, after
\* which what was delivered and not handled is not heard, and an order not found.
Unfailing == \A b \in Budgets : b["report"] = 0 /\ b["read"] = 0 /\ b["unfound"] = 0

\* The instruction held is the one in force, once what was delivered is heard:
\* for any number of instructions, restarts, and deliveries opened late.
THEOREM InstructionStaysKnown ==
    ASSUME ~RuledEarly, Unfailing
    PROVE  Spec => []InstructionIsKnown
<1>1. Init => Sound /\ Known
  <2> SUFFICES ASSUME Init PROVE Sound /\ Known
    OBVIOUS
  <2>1. /\ left["report"] = 0 /\ left["read"] = 0 /\ left["unfound"] = 0
        /\ inbox = <<>> /\ job = None /\ phase = "down" /\ ~hearing
    BY DEF Init, Unfailing
  <2> QED BY <2>1, SoundInit DEF Known, NeverRaised, Ordered
<1>2. Sound /\ Known /\ [Next]_vars => Sound' /\ Known'
  BY SoundStep, KnownStep
<1>3. Sound /\ Known => InstructionIsKnown
  BY DEF Known, InstructionIsKnown, InstructionsHeard, Idle, Heeded, Instructs
<1> QED BY <1>1, <1>2, <1>3, PTL DEF Spec

-----------------------------------------------------------------------------
(* A stop cancels what the venue works. *)

\* A cancel in hand.
Cancelling(p) == job # None /\ job.at = "cancel" /\ job.of = p

\* The stop still has it to cancel.
Stopping(p) ==
    /\ job # None /\ job.by = "stop"
    /\ Cancelling(p) \/ \E v \in job.todo : v.of = p

\* Noted and still queued: its send is not over, or its order not told of yet.
Answering(p) ==
    /\ job # None /\ job.of = p
    /\ \/ job.at \in {"send", "refused"}
       \/ job.at = "status" /\ ~working[p].acknowledged /\ job.seen[p] = "open"

\* What is worked is an order known, ended only where it is, and told once its
\* cancel was sent.
Dealt(p) ==
    working[p] # None =>
        /\ working[p].order /\ status[p] # "none"
        /\ working[p].ended # "no" => status[p] \in Closed
        /\ working[p].cancel_sent => p \in told \/ status[p] \in Closed \/ Cancelling(p)

\* What the book has in flight is worked, and a cancel is one marked as sent.
Booked(p) ==
    /\ book[p] \in InFlight => working[p] # None
    /\ p \in sent => book[p] # "absent" /\ (book[p] = "queued" => Answering(p))
    /\ Cancelling(p) => working[p] # None /\ working[p].cancel_sent

\* Under a stop, what is worked and not over was told, or is to be.
Stopped(p) ==
    instruction = "stop" /\ working[p] # None /\ status[p] \in {"open", "odd"} =>
        p \in told \/ Stopping(p)

\* A view of one in flight is of one worked.
InView(v) == v.of \in Placements /\ v.state \in InFlight => working[v.of] # None

InViewNext(v) == v.of \in Placements /\ v.state \in InFlight => working'[v.of] # None

InViews ==
    /\ \A i \in 1..Len(inbox) : InView(inbox[i])
    /\ job # None => \A v \in job.todo : InView(v)

\* Neither a restart, nor a failure, nor a call unanswered or refused.
Undisturbed ==
    /\ NeverRaised /\ Uncrashed /\ Ordered
    /\ left["unanswered"] = 0 /\ left["refusal"] = 0
    /\ job # None => job.at # "unknown" /\ (job.at = "reading" => job.by = "start")
    /\ phase # "started" /\ job = None => \A p \in Placements : working[p] = None

Handled(p) == Dealt(p) /\ Booked(p) /\ Stopped(p)

AllStopped == Undisturbed /\ InViews /\ \A p \in Placements : Handled(p)

\* A task ends only where it is finished, given up or dies.
LEMMA TaskKept ==
    ASSUME Sound, [Next]_vars, job # None, ~Finish, ~ReadOrders, ~GiveUp, ~Crash
    PROVE  job' # None
<1>0. job \in Jobs /\ None \notin Jobs
  BY TraderAssumption DEF Sound, Typed, TypeOK, TraderAssumption
<1>1. CASE \E v \in Items : Resume(v) \/ StopOne(v) \/ ReleaseOne(v) \/ ReadOrder(v)
  <2>1. PICK v \in job.todo : Resume(v) \/ StopOne(v) \/ ReleaseOne(v) \/ ReadOrder(v)
    BY <1>1 DEF Items
  <2>2. v \in PlacementViews
    BY <1>0 DEF Jobs
  <2>3. job' = Done(v) \/ \E point \in Points : job' = Taking(v, point)
    BY <2>1 DEF Resume, StopOne, ReleaseOne, ReadOrder, OnQueued, Points
  <2> QED BY <1>0, <2>2, <2>3, DoneTyped, TakingTyped
<1>2. CASE Send
  <2>1. job.of \in Placements
    BY <1>0, <1>2 DEF Send, Doing, Jobs, Between
  <2>2. CASE job' = [At("status", job.of) EXCEPT !.seen[job.of] = "open"]
    <3> DEFINE a == At("status", job.of)
    <3>1. a \in Jobs
      BY <1>0, <2>1, AtTyped DEF Points
    <3> HIDE DEF a
    <3>2. [a.seen EXCEPT ![job.of] = "open"] \in [Placements -> Statuses]
      BY <3>1 DEF Jobs, Statuses
    <3>3. [a EXCEPT !.seen[job.of] = "open"] \in Jobs
      BY <3>1, <3>2 DEF Jobs
    <3> QED BY <1>0, <2>2, <3>3 DEF a
  <2> QED BY <1>0, <1>2, <2>1, <2>2, AtTyped DEF Send, Points
<1>3. CASE Reach \/ Note \/ Report \/ NothingDue \/ Cancel \/ ReportFails \/ ReadFails
  <2>1. CASE job' = job \/ job' = Over \/ job' = Raised
    BY <1>0, <2>1, DoneTyped, RaisedTyped DEF Over
  <2>2. CASE \E point \in Points \ Between : job' = At(point, job.of) /\ job.at \notin Between
    <3>1. job.of \in Placements
      BY <1>0, <2>2 DEF Jobs
    <3> QED BY <1>0, <2>2, <3>1, AtTyped
  <2> QED BY <1>3, <2>1, <2>2 DEF Reach, Note, Report, NothingDue, Cancel, ReportFails,
             ReadFails, Doing, Points, Between
<1>4. CASE StartBook
  <2>1. {View(p) : p \in {q \in Placements : book[q] # "absent"}} \in SUBSET PlacementViews
    BY ViewsTyped DEF Sound, Typed
  <2> QED BY <1>0, <1>4, <2>1, TaskTyped DEF StartBook, Between
<1>5. CASE \/ \E p \in Placements : Place(p) \/ AskCancel(p) \/ Moves(p)
           \/ \E value \in Rulings : Rule(value)
           \/ OpenHearing \/ Boot \/ HearEarly \/ UNCHANGED vars
  BY <1>5 DEF Place, AskCancel, Moves, Rule, OpenHearing, Boot, HearEarly, vars
<1>6. CASE StartInstructions \/ Poll \/ HearPlacement \/ HearInstruction
  BY <1>6 DEF StartInstructions, Poll, HearPlacement, HearInstruction, Heard
<1>7. CASE \E v \in Items : Unfound(v)
  BY <1>7, UnfoundStep DEF Sound, Typed
<1> QED BY <1>1, <1>2, <1>3, <1>4, <1>5, <1>6, <1>7 DEF Next, Works, Hears

\* What none of it disturbs stays undisturbed.
LEMMA UndisturbedStep ==
    ASSUME Sound, Sound', Undisturbed, [Next]_vars
    PROVE  /\ Undisturbed'
           /\ ~GiveUp /\ ~ReadFails /\ ~ReportFails /\ ~Crash
           /\ \A v \in Items : ~Unfound(v)
           /\ ~Spend("unanswered") /\ ~Spend("refusal")
<1>1. /\ NeverRaised' /\ ~GiveUp /\ ~ReadFails /\ ~ReportFails
      /\ \A v \in Items : ~Unfound(v)
  BY NeverRaisedStep DEF Undisturbed
<1>2. Uncrashed' /\ Ordered'
  BY UncrashedStep, OrderedStep DEF Undisturbed, Sound, Typed
<1>3. /\ left'["unanswered"] = 0 /\ ~Spend("unanswered")
      /\ left'["refusal"] = 0 /\ ~Spend("refusal")
  BY SparedStep DEF Undisturbed, Sound, Typed, Mishaps
<1>4. ~Crash
  <2>1. left["crash"] = 0
    BY DEF Undisturbed, Uncrashed
  <2> QED BY <2>1 DEF Crash, Spend
<1>5. job' # None => job'.at # "unknown" /\ (job'.at = "reading" => job'.by = "start")
  BY <1>3, PointStep DEF Undisturbed
<1>6. ASSUME phase' # "started", job' = None
      PROVE  \A p \in Placements : working'[p] = None
  <2>1. CASE job # None
    <3>1. Finish \/ ReadOrders
      BY <1>1, <1>4, <1>6, <2>1, TaskKept
    <3>2. phase = "starting" => job.by = "start"
      BY <2>1 DEF Undisturbed, Ordered
    <3>3. phase \in {"starting", "started"}
      BY <2>1 DEF Undisturbed, Ordered, Sound, Typed, TypeOK
    <3> QED BY <1>6, <3>1, <3>2, <3>3 DEF Finish, ReadOrders, Doing, process
  <2>2. CASE job = None
    <3>1. UNCHANGED working /\ phase # "started"
      <4>1. CASE \E v \in Items : Resume(v) \/ StopOne(v) \/ ReleaseOne(v) \/ ReadOrder(v)
        BY <2>2, <4>1 DEF Items
      <4> QED BY <1>1, <1>4, <1>6, <2>2, <4>1
        DEF Next, Works, Hears, Place, AskCancel, Moves, Rule, Reach, Note, Send, Report,
            Reporting, NothingDue, Cancel, StartBook, ReadOrders, Finish, HearPlacement,
            HearEarly, HearInstruction, Heard, StartInstructions, OpenHearing, Boot, Poll,
            Doing, memory, process, vars
    <3> QED BY <2>2, <3>1 DEF Undisturbed
  <2> QED BY <2>1, <2>2
<1> QED BY <1>1, <1>2, <1>3, <1>4, <1>5, <1>6 DEF Undisturbed

\* What is to be heard stays of what is worked.
LEMMA InboxViews ==
    ASSUME Sound, Sound', AllStopped, [Next]_vars,
           \A p \in Placements : working[p] # None => working'[p] # None,
           \A p \in Placements : book'[p] \in InFlight => working'[p] # None
    PROVE  \A i \in 1..Len(inbox') : InViewNext(inbox'[i])
<1>1. \A i \in 1..Len(inbox) : InViewNext(inbox[i])
  BY DEF AllStopped, InViews, InView, InViewNext
<1>2. CASE \E value \in Rulings : Rule(value)
  <2>1. PICK v \in Views : v.of \notin Placements /\ (inbox' = inbox \/ inbox' = Append(inbox, v))
    <3>1. PICK value \in Rulings : Rule(value)
      BY <1>2
    <3> DEFINE v == [of |-> None, state |-> value, ask |-> 0]
    <3>2. inbox' = Delivered(v) /\ v \in Views /\ v.of \notin Placements
      BY <3>1, TraderAssumption DEF Rule, Views, TraderAssumption
    <3> HIDE DEF v
    <3> QED BY <3>2 DEF Delivered
  <2>2. inbox \in Seq(Views)
    BY DEF Sound, Typed, TypeOK
  <2>3. CASE inbox' = Append(inbox, v)
    <3>1. /\ Len(inbox') = Len(inbox) + 1 /\ Len(inbox) \in Nat
          /\ \A i \in 1..Len(inbox) : inbox'[i] = inbox[i]
          /\ inbox'[Len(inbox) + 1] = v
      BY <2>2, <2>3, AppendProperties
    <3>2. \A i \in 1..Len(inbox') : i \in 1..Len(inbox) \/ i = Len(inbox) + 1
      BY <3>1
    <3> QED BY <1>1, <2>1, <3>1, <3>2 DEF InView, InViewNext
  <2> QED BY <1>1, <2>1, <2>3 DEF InView, InViewNext
<1>3. CASE ~ \E value \in Rulings : Rule(value)
  <2>1. InboxMoves
    BY <1>3, InboxStep
  <2> QED BY <1>1, <2>1, InboxItems DEF InView, InViewNext
<1> QED BY <1>2, <1>3

\* A step that moves neither the venue nor what is worked of a placement, nor the
\* instruction, handles it as before where what is in hand stays so.
LEMMA HandledQuiet ==
    ASSUME NEW p \in Placements, Handled(p),
           UNCHANGED <<status, told, working, sent, instruction>>, book'[p] = book[p],
           Cancelling(p)' <=> Cancelling(p),
           Answering(p) => Answering(p)', Stopping(p) => Stopping(p)'
    PROVE  Handled(p)'
BY DEF Handled, Dealt, Booked, Stopped

\* The surroundings' steps.
LEMMA AroundHandled ==
    ASSUME Sound, Sound', AllStopped, Undisturbed', [Next]_vars,
           \/ \E p \in Placements : Place(p) \/ AskCancel(p) \/ Moves(p)
           \/ \E value \in Rulings : Rule(value)
           \/ OpenHearing \/ Boot \/ HearEarly
    PROVE  AllStopped'
<1>1. UNCHANGED <<sent, decided, working, job, told, instruction>>
  BY DEF Place, AskCancel, Moves, Rule, OpenHearing, Boot, HearEarly, memory, venueVars
<1>2. ASSUME NEW p \in Placements
      PROVE  Cancelling(p)' = Cancelling(p) /\ Answering(p)' = Answering(p)
             /\ Stopping(p)' = Stopping(p)
  BY <1>1 DEF Cancelling, Answering, Stopping
<1>3. book \in [Placements -> BookStates] /\ status \in [Placements -> Statuses]
  BY DEF Sound, Typed, TypeOK
<1>4. ASSUME NEW p \in Placements
      PROVE  book'[p] = book[p] \/ (book[p] = "absent" /\ book'[p] = "queued")
  <2>1. ASSUME NEW q \in Placements, Place(q) \/ AskCancel(q)
        PROVE  book'[p] = book[p] \/ (book[p] = "absent" /\ book'[p] = "queued")
    BY <1>3, <2>1 DEF Place, AskCancel, Write, Ended
  <2>2. CASE ~ \E q \in Placements : Place(q) \/ AskCancel(q)
    BY <2>2 DEF Moves, Rule, OpenHearing, Boot, HearEarly, bookVars
  <2> QED BY <2>1, <2>2
<1>5. ASSUME NEW p \in Placements
      PROVE  \/ status'[p] = status[p]
             \/ status[p] \in {"open", "odd"} /\ status'[p] \in Closed \cup {"open", "odd"}
  <2>1. ASSUME NEW q \in Placements, Moves(q)
        PROVE  \/ status'[p] = status[p]
               \/ status[p] \in {"open", "odd"} /\ status'[p] \in Closed \cup {"open", "odd"}
    BY <1>3, <2>1 DEF Moves, Closed
  <2>2. CASE ~ \E q \in Placements : Moves(q)
    BY <2>2 DEF Place, AskCancel, Rule, OpenHearing, Boot, HearEarly, venueVars
  <2> QED BY <2>1, <2>2
<1>6. ASSUME NEW p \in Placements PROVE Handled(p)'
  <2>1. Handled(p)
    BY DEF AllStopped
  <2>2. Dealt(p)'
    BY <1>1, <1>2, <1>5, <2>1 DEF Handled, Dealt, Closed
  <2>3. Booked(p)'
    BY <1>1, <1>2, <1>4, <2>1 DEF Handled, Booked, InFlight
  <2>4. Stopped(p)'
    BY <1>1, <1>2, <1>5, <2>1 DEF Handled, Stopped, Closed
  <2> QED BY <2>2, <2>3, <2>4 DEF Handled
<1>7. InViews'
  <2>1. \A p \in Placements : book'[p] \in InFlight => working'[p] # None
    BY <1>6 DEF Handled, Booked
  <2>2. \A i \in 1..Len(inbox') : InViewNext(inbox'[i])
    BY <1>1, <2>1, InboxViews
  <2> QED BY <1>1, <2>2 DEF AllStopped, InViews, InView, InViewNext
<1> QED BY <1>6, <1>7 DEF AllStopped

\* A step that neither moves the venue nor what is worked.
LEMMA TasksHandled ==
    ASSUME Sound, Sound', AllStopped, Undisturbed', [Next]_vars,
           \/ StartInstructions \/ StartBook \/ Poll \/ ReadOrders \/ Finish
           \/ HearPlacement \/ HearInstruction \/ Reach
    PROVE  AllStopped'
<1>0. job # None => job \in Jobs
  BY DEF Sound, Typed, TypeOK
<1>1. UNCHANGED <<book, sent, decided, working, status, told>>
  BY DEF StartInstructions, StartBook, Poll, ReadOrders, Finish, HearPlacement,
         HearInstruction, Reach, bookVars, venueVars, memory
<1>2. \A p \in Placements : ~Cancelling(p) /\ ~Answering(p)
  BY DEF StartInstructions, StartBook, Poll, ReadOrders, Finish, HearPlacement,
         HearInstruction, Heard, Reach, Doing, Cancelling, Answering
<1>3. \/ job' # None /\ job'.at \in Between \cup {"note", "unsupported"}
      \/ job' = None
  <2>1. CASE Reach
    BY <1>0, <2>1, MovedAt DEF Reach, Doing
  <2>2. CASE HearInstruction
    <3>1. Head(inbox).state \in Rulings
      BY <2>2, HeadInstructs DEF HearInstruction
    <3> QED BY <2>2, <3>1 DEF HearInstruction, Rulings, Task, Between
  <2>3. CASE ReadOrders
    BY <2>3 DEF ReadOrders, Task, Between
  <2>4. CASE StartInstructions \/ StartBook \/ Poll \/ Finish \/ HearPlacement
    BY <2>4 DEF StartInstructions, StartBook, Poll, Finish, HearPlacement, Task, Between
  <2> QED BY <2>1, <2>2, <2>3, <2>4
<1>4. \A p \in Placements : ~Cancelling(p)'
  BY <1>3 DEF Cancelling, Between
<1>5. ASSUME NEW p \in Placements PROVE Stopped(p)'
  <2>0. Stopped(p)
    BY DEF AllStopped, Handled
  <2>1. CASE HearInstruction
    <3> DEFINE S == {View(q) : q \in Covered("stop")}
    <3>1. Head(inbox).state \in Rulings /\ instruction' = Head(inbox).state
      BY <2>1, HeadInstructs DEF HearInstruction
    <3>2. SUFFICES ASSUME instruction' = "stop", working[p] # None PROVE Stopping(p)'
      BY <1>1 DEF Stopped
    <3>3. job' = Task("stop", "next", S, {})
      BY <2>1, <3>1, <3>2 DEF HearInstruction
    <3>4. View(p) \in S /\ View(p).of = p
      BY <3>2 DEF Covered, View
    <3>5. job'.by = "stop" /\ job'.todo = S
      BY <3>3 DEF Task
    <3>6. job' # None
      <4>1. S \in SUBSET PlacementViews
        BY ViewsTyped DEF Sound, Typed, Covered
      <4> HIDE DEF S
      <4> QED BY <3>3, <4>1, TaskTyped, TraderAssumption DEF Between, TraderAssumption
    <3> HIDE DEF S
    <3> QED BY <3>4, <3>5, <3>6 DEF Stopping
  <2>2. CASE StartInstructions
    <3>1. phase # "started" /\ job = None
      BY <2>2 DEF StartInstructions
    <3> QED BY <1>1, <3>1 DEF AllStopped, Undisturbed, Stopped
  <2>3. CASE StartBook \/ Poll \/ ReadOrders \/ HearPlacement \/ Finish
    <3>1. instruction' = instruction
      BY <2>3 DEF StartBook, Poll, ReadOrders, HearPlacement, Finish, memory
    <3>2. ~Stopping(p)
      BY <1>2, <2>3 DEF StartBook, Poll, ReadOrders, HearPlacement, Heard, Finish, Doing,
         Stopping, AllStopped, Undisturbed
    <3> QED BY <1>1, <2>0, <3>1, <3>2 DEF Stopped
  <2>4. CASE Reach
    <3>1. instruction = "active" /\ instruction' = instruction
      BY <2>4 DEF Reach, Doing, Sound, UnderHold, memory
    <3> QED BY <3>1 DEF Stopped
  <2> QED BY <2>1, <2>2, <2>3, <2>4
<1>6. ASSUME NEW p \in Placements PROVE Handled(p)'
  <2>1. Handled(p)
    BY DEF AllStopped
  <2>2. Dealt(p)'
    BY <1>1, <1>2, <2>1 DEF Handled, Dealt
  <2>3. Booked(p)'
    BY <1>1, <1>2, <1>4, <2>1 DEF Handled, Booked
  <2> QED BY <1>5, <2>2, <2>3 DEF Handled
<1>7. InViews'
  <2>1. \A p \in Placements : book'[p] \in InFlight => working'[p] # None
    BY <1>6 DEF Handled, Booked
  <2>2. \A i \in 1..Len(inbox') : InViewNext(inbox'[i])
    BY <1>1, <2>1, InboxViews
  <2>3. \A P : \A v \in {View(p) : p \in P} : InViewNext(v)
    BY <1>1, <2>1 DEF View, InViewNext
  <2>4. job' # None => \A v \in job'.todo : InViewNext(v)
    <3>1. CASE Reach
      <4>1. job # None /\ job'.todo = job.todo
        BY <1>0, <3>1, MovedAt DEF Reach, Doing
      <4> QED BY <1>1, <4>1 DEF AllStopped, InViews, InView, InViewNext
    <3>2. CASE HearPlacement
      <4>1. inbox # <<>> /\ inbox \in Seq(Views)
        BY <3>2 DEF HearPlacement, Heard, Sound, Typed, TypeOK
      <4>2. 1 \in 1..Len(inbox) /\ Head(inbox) = inbox[1]
        BY <4>1, HeadTailProperties
      <4>3. job'.todo = {Head(inbox)}
        BY <3>2 DEF HearPlacement, Task
      <4> QED BY <1>1, <4>2, <4>3 DEF AllStopped, InViews, InView, InViewNext
    <3>3. CASE HearInstruction
      <4>1. Head(inbox).state \in Rulings
        BY <3>3, HeadInstructs DEF HearInstruction
      <4>2. job' = None \/ \E P : job'.todo = {View(p) : p \in P}
        BY <3>3, <4>1 DEF HearInstruction, Rulings, Task
      <4> QED BY <2>3, <4>2
    <3>4. CASE StartInstructions \/ StartBook \/ Poll \/ Finish
      <4>1. CASE StartBook
        <5>1. job'.todo = {View(p) : p \in {q \in Placements : book[q] # "absent"}}
          BY <4>1 DEF StartBook, Task
        <5> QED BY <2>3, <5>1
      <4>2. CASE Poll
        <5>1. job'.todo = {View(p) : p \in changed}
          BY <4>2 DEF Poll, Task
        <5> QED BY <2>3, <5>1
      <4>3. CASE StartInstructions \/ Finish
        <5>1. job' = None \/ job'.todo = {}
          BY <4>3 DEF StartInstructions, Finish, Task
        <5> QED BY <5>1
      <4> QED BY <3>4, <4>1, <4>2, <4>3
    <3>5. CASE ReadOrders
      <4>1. job' = None \/ \E P : job'.todo = {View(p) : p \in P}
        BY <3>5 DEF ReadOrders, Task
      <4> QED BY <2>3, <4>1
    <3> QED BY <3>1, <3>2, <3>3, <3>4, <3>5
  <2> QED BY <2>2, <2>4 DEF InViews, InView, InViewNext
<1> QED BY <1>6, <1>7 DEF AllStopped

\* The views stay of what is worked, where a task takes up none that is new.
LEMMA ViewsKept ==
    ASSUME Sound, Sound', AllStopped, [Next]_vars,
           \A p \in Placements : working[p] # None => working'[p] # None,
           \A p \in Placements : Handled(p)',
           job' # None => job # None /\ job'.todo \subseteq job.todo
    PROVE  InViews'
<1>1. \A p \in Placements : book'[p] \in InFlight => working'[p] # None
  BY DEF Handled, Booked
<1>2. \A i \in 1..Len(inbox') : InViewNext(inbox'[i])
  BY <1>1, InboxViews
<1> QED BY <1>2 DEF AllStopped, InViews, InView, InViewNext

\* A cancel in hand reaches the venue, or finds the order over.
LEMMA CancelHandled ==
    ASSUME Sound, Sound', AllStopped, Undisturbed', [Next]_vars, Cancel,
           ~Spend("unanswered"), ~Spend("refusal")
    PROVE  AllStopped'
<1>0. PICK q \in Placements : q = job.of
  BY DEF Cancel, Doing, Sound, Typed, TypeOK, Jobs, Between
<1>1. /\ job # None /\ job \in Jobs /\ job.at = "cancel"
      /\ UNCHANGED <<book, status, sent, decided, working, instruction, inbox>>
      /\ status \in [Placements -> Statuses]
  BY DEF Cancel, Doing, Sound, Typed, TypeOK, bookVars, memory
<1>2. /\ working[q] # None /\ status[q] # "none"
  BY <1>0, <1>1 DEF AllStopped, Handled, Dealt, Booked, Cancelling
<1>3. /\ told \subseteq told'
      /\ status[q] \in {"open", "odd"} => q \in told'
      /\ \/ job' = Over
         \/ job' = At("fact", q) \/ job' = At("refusing", q)
  BY <1>0 DEF Cancel
<1>4. job'.by = job.by /\ job'.todo = job.todo /\ job'.at \in {"next", "fact", "refusing"}
  BY <1>1, <1>3, EndedAt, MovedAt
<1>5. status[q] \in Closed \/ q \in told'
  BY <1>1, <1>2, <1>3 DEF Statuses, Closed
<1>6. job' # None
  BY <1>1, TaskKept, UndisturbedStep DEF Finish, ReadOrders, Doing, AllStopped
<1>7. ASSUME NEW p \in Placements PROVE Handled(p)'
  <2>1. Handled(p)
    BY DEF AllStopped
  <2>2. Dealt(p)'
    BY <1>0, <1>1, <1>3, <1>5, <2>1 DEF Handled, Dealt, Cancelling
  <2>3. Booked(p)'
    BY <1>0, <1>1, <1>4, <2>1 DEF Handled, Booked, Cancelling, Answering
  <2>4. Stopped(p)'
    BY <1>0, <1>1, <1>3, <1>4, <1>6, <2>1 DEF Handled, Stopped, Stopping, Cancelling
  <2> QED BY <2>2, <2>3, <2>4 DEF Handled
<1> QED BY <1>1, <1>4, <1>7, ViewsKept DEF AllStopped

\* What has closed and is read to its end is marked ended.
LEMMA NothingDueHandled ==
    ASSUME Sound, Sound', AllStopped, Undisturbed', [Next]_vars, NothingDue
    PROVE  AllStopped'
<1>0. PICK q \in Placements : q = job.of
  BY DEF NothingDue, Doing, Sound, Typed, TypeOK, Jobs, Between
<1>1. /\ job # None /\ job \in Jobs /\ job.at = "status" /\ job' = Over
      /\ UNCHANGED <<book, status, told, sent, decided, instruction, inbox>>
      /\ working \in [Placements -> Worked \cup {None}] /\ working[q] \in Worked
  BY <1>0 DEF NothingDue, Doing, Sound, Typed, TypeOK, InHand, bookVars, venueVars
<1>2. /\ \A p \in Placements : p # q => working'[p] = working[p]
      /\ working'[q] = [working[q] EXCEPT !.ended = IF job.seen[q] = "filled" THEN "filled" ELSE @]
  BY <1>0, <1>1 DEF NothingDue
<1>3. /\ working'[q].order = working[q].order /\ working'[q].cancel_sent = working[q].cancel_sent
      /\ working'[q].ended = IF job.seen[q] = "filled" THEN "filled" ELSE working[q].ended
      /\ working'[q] # None
  <2>1. [working[q] EXCEPT !.ended = working[q].ended] = working[q]
    BY <1>1 DEF Worked
  <2>2. working'[q] \in Worked
    BY <1>1, <1>2, <2>1, WorkedKept
  <2> QED BY <1>1, <1>2, <2>2, TraderAssumption DEF Worked, TraderAssumption
<1>4. job'.by = job.by /\ job'.todo = job.todo /\ job'.at = "next"
  BY <1>1, EndedAt
<1>5. ~Answering(q)
  <2> SUFFICES ASSUME ~working[q].acknowledged, job.seen[q] = "open" PROVE FALSE
    BY <1>1 DEF Answering
  <2>1. Due(working[q], job.seen[q]) = "working"
    BY DEF Due
  <2> QED BY <1>0, <1>1, <2>1 DEF NothingDue, Fact
<1>6. job.seen[q] = "filled" => status[q] = "filled"
  BY <1>0, <1>1 DEF Sound, AtHand, Closed
<1>7. ASSUME NEW p \in Placements PROVE Handled(p)'
  <2>1. Handled(p)
    BY DEF AllStopped
  <2>0. ~Cancelling(p)
    BY <1>1 DEF Cancelling
  <2>2. Dealt(p)'
    <3>1. CASE p = q
      <4>1. /\ working[q].order /\ status[q] # "none"
            /\ working[q].ended # "no" => status[q] \in Closed
            /\ working[q].cancel_sent => q \in told \/ status[q] \in Closed
        BY <1>1, <2>0, <2>1, <3>1, TraderAssumption DEF Handled, Dealt, TraderAssumption
      <4>2. working'[q].ended # "no" => status[q] \in Closed
        BY <1>3, <1>6, <4>1 DEF Closed
      <4>3. status' = status /\ told' = told
        BY <1>1
      <4> QED BY <1>3, <3>1, <4>1, <4>2, <4>3 DEF Dealt
    <3>2. CASE p # q
      <4>1. working'[p] = working[p]
        BY <1>2, <3>2
      <4> QED BY <1>1, <2>0, <2>1, <4>1 DEF Handled, Dealt
    <3> QED BY <3>1, <3>2
  <2>3. Booked(p)'
    BY <1>0, <1>1, <1>2, <1>3, <1>4, <1>5, <2>1 DEF Handled, Booked, Cancelling, Answering
  <2>4. Stopped(p)'
    <3>1. job' # None
      BY <1>1, TaskKept, UndisturbedStep DEF Finish, ReadOrders, Doing, AllStopped
    <3>2. working'[p] # None => working[p] # None
      BY <1>1, <1>2, TraderAssumption DEF TraderAssumption
    <3> QED BY <1>1, <1>4, <2>0, <2>1, <3>1, <3>2 DEF Handled, Stopped, Stopping
  <2> QED BY <2>2, <2>3, <2>4 DEF Handled
<1>8. \A p \in Placements : working[p] # None => working'[p] # None
  BY <1>2, <1>3
<1> QED BY <1>1, <1>4, <1>7, <1>8, ViewsKept DEF AllStopped

\* A placement noted goes to the venue at once.
LEMMA NoteHandled ==
    ASSUME Sound, Sound', AllStopped, Undisturbed', [Next]_vars, Note
    PROVE  AllStopped'
<1>0. PICK q \in Placements : q = job.of
  BY DEF Note, Doing, Sound, Typed, TypeOK, Jobs, Between
<1>1. /\ job # None /\ job \in Jobs /\ job.at = "note" /\ job' = At("send", q)
      /\ sent' = sent \cup {q} /\ book[q] = "queued"
      /\ UNCHANGED <<book, status, told, decided, working, instruction, inbox>>
      /\ instruction = "active"
  BY <1>0 DEF Note, Noted, Doing, Sound, Typed, TypeOK, AtHand, Queueing, UnderHold,
              bookVars, venueVars, memory
<1>2. job' # None /\ job'.at = "send" /\ job'.of = q /\ job'.todo = job.todo
  BY <1>1, AtTyped, MovedAt, TraderAssumption DEF Points, TraderAssumption
<1>3. ASSUME NEW p \in Placements PROVE Handled(p)'
  <2>1. Handled(p)
    BY DEF AllStopped
  <2>2. Dealt(p)'
    BY <1>1, <2>1 DEF Handled, Dealt, Cancelling
  <2>3. Booked(p)'
    BY <1>0, <1>1, <1>2, <2>1 DEF Handled, Booked, Cancelling, Answering
  <2>4. Stopped(p)'
    BY <1>1 DEF Stopped
  <2> QED BY <2>2, <2>3, <2>4 DEF Handled
<1> QED BY <1>1, <1>2, <1>3, ViewsKept DEF AllStopped

\* A send answered is worked as an order known, or is in hand to be refused.
LEMMA SendHandled ==
    ASSUME Sound, Sound', AllStopped, Undisturbed', [Next]_vars, Send, ~Spend("unanswered")
    PROVE  AllStopped'
<1>0. PICK q \in Placements : q = job.of
  BY DEF Send, Doing, Sound, Typed, TypeOK, Jobs, Between
<1>1. /\ job # None /\ job \in Jobs /\ job.at = "send" /\ q \in sent /\ book[q] = "queued"
      /\ UNCHANGED <<book, told, sent, decided, instruction, inbox>>
      /\ instruction = "active"
      /\ status \in [Placements -> Statuses] /\ working \in [Placements -> Worked \cup {None}]
  BY <1>0 DEF Send, Doing, Sound, Typed, TypeOK, AtHand, Queueing, UnderHold, bookVars
<1>2. job' # None
  BY <1>1, TaskKept, UndisturbedStep DEF Finish, ReadOrders, Doing, AllStopped
<1>3. ASSUME NEW p \in Placements PROVE Handled(p) /\ Stopped(p)'
  BY <1>1 DEF AllStopped, Stopped
<1>4. CASE /\ job' = [At("status", q) EXCEPT !.seen[q] = "open"]
           /\ status' = [status EXCEPT ![q] = "open"]
           /\ working' = [working EXCEPT ![q] = Sending(TRUE)]
  <2>1. /\ job'.at = "status" /\ job'.of = q /\ job'.todo = job.todo /\ job'.seen[q] = "open"
    BY <1>1, <1>4 DEF At, Jobs
  <2>2. /\ working'[q].order /\ ~working'[q].acknowledged /\ ~working'[q].cancel_sent
        /\ working'[q].ended = "no" /\ working'[q] # None /\ status'[q] = "open"
    BY <1>1, <1>4, SendingTyped, TraderAssumption DEF Sending, TraderAssumption
  <2>3. \A p \in Placements : p # q => working'[p] = working[p] /\ status'[p] = status[p]
    BY <1>1, <1>4
  <2>4. ASSUME NEW p \in Placements PROVE Handled(p)'
    <3>1. Dealt(p)'
      BY <1>1, <1>3, <2>2, <2>3 DEF Handled, Dealt, Cancelling
    <3>2. Booked(p)'
      BY <1>0, <1>1, <1>2, <1>3, <2>1, <2>2, <2>3 DEF Handled, Booked, Cancelling, Answering
    <3> QED BY <1>3, <3>1, <3>2 DEF Handled
  <2>5. \A p \in Placements : working[p] # None => working'[p] # None
    BY <2>2, <2>3
  <2> QED BY <1>1, <2>1, <2>4, <2>5, ViewsKept DEF AllStopped
<1>5. CASE job' = At("refused", q) /\ UNCHANGED <<status, working>>
  <2>1. job'.at = "refused" /\ job'.of = q /\ job'.todo = job.todo
    BY <1>1, <1>5, MovedAt
  <2>2. ASSUME NEW p \in Placements PROVE Handled(p)'
    <3>1. Dealt(p)'
      BY <1>1, <1>3, <1>5 DEF Handled, Dealt, Cancelling
    <3>2. Booked(p)'
      BY <1>0, <1>1, <1>2, <1>3, <1>5, <2>1 DEF Handled, Booked, Cancelling, Answering
    <3> QED BY <1>3, <3>1, <3>2 DEF Handled
  <2> QED BY <1>1, <1>5, <2>1, <2>2, ViewsKept DEF AllStopped
<1> QED BY <1>0, <1>4, <1>5 DEF Send

\* What a report changes, of one whose record is read and of any other.
LEMMA ReportOfStatus ==
    ASSUME Sound, Report, job.at = "status", NEW q \in Placements, q = job.of
    PROVE  /\ Kept # None /\ working[q] # None
           /\ Kept.order = working[q].order /\ Kept.cancel_sent = working[q].cancel_sent
           /\ Kept.ended # working[q].ended => status[q] \in Closed
           /\ Reported = book[q] \/ Reported \in {"working"} \cup Ended
           /\ ~working[q].acknowledged /\ job.seen[q] = "open" => Reported = "working"
<1>1. /\ Reporting /\ job # None /\ working[q] \in Worked /\ Fact # "none"
      /\ Fact = Due(working[q], job.seen[q])
      /\ job.seen[q] \in Closed => status[q] = job.seen[q]
      /\ job.seen[q] # "none"
  BY DEF Report, Reporting, Sound, Typed, TypeOK, InHand, AtHand, Fact
<1>2. /\ Fact \in {"odd", "rejected", "working", "filled", "cancelled"}
      /\ Fact \in {"rejected", "cancelled"} => status[q] \in Closed
      /\ ~working[q].acknowledged /\ job.seen[q] = "open" => Fact = "working"
  BY <1>1 DEF Due, Closed
<1>3. Marked \in Worked /\ Kept \in Worked
  BY <1>1, FactTyped, TraderAssumption DEF Sound, TraderAssumption
<1>4. /\ Marked.order = working[q].order /\ Marked.cancel_sent = working[q].cancel_sent
      /\ Marked.ended # working[q].ended => Fact \in {"rejected", "cancelled"}
  BY <1>1, <1>2 DEF Marked, Worked
<1>5. /\ Kept.order = working[q].order /\ Kept.cancel_sent = working[q].cancel_sent
      /\ Kept.ended # working[q].ended => Fact \in {"rejected", "cancelled"}
  BY <1>1, <1>2, <1>4 DEF Kept, Worked
<1> QED BY <1>1, <1>2, <1>3, <1>5, TraderAssumption DEF Reported, Ended, TraderAssumption

LEMMA ReportOfOther ==
    ASSUME Sound, Report, job.at # "status", job.at # "unknown", NEW q \in Placements, q = job.of
    PROVE  /\ Kept = working[q]
           /\ Reported = book[q] \/ Reported \in Ended
           /\ job.at = "refused" => Reported = "rejected"
           /\ job' = Over
<1>1. Fact = job.at /\ job.at \in {"unsupported", "refused", "refusing", "fact"}
  BY DEF Report, Reporting, Fact
<1> QED BY <1>1 DEF Report, Kept, Marked, Reported, Ended

\* A fact told leaves the placement as the venue's record of it says.
LEMMA ReportHandled ==
    ASSUME Sound, Sound', AllStopped, Undisturbed', [Next]_vars, Report
    PROVE  AllStopped'
<1>0. PICK q \in Placements : q = job.of
  BY FactTyped DEF Sound, Report
<1>1. /\ Reporting /\ job # None /\ job \in Jobs /\ job.at # "unknown"
      /\ job.at \in {"unsupported", "refused", "refusing", "fact", "status"}
      /\ UNCHANGED <<status, told, sent, decided, instruction>>
      /\ working \in [Placements -> Worked \cup {None}]
      /\ working' = [working EXCEPT ![q] = Kept]
      /\ job' = job \/ job' = Over
  BY <1>0 DEF Report, Reporting, Sound, Typed, TypeOK, AllStopped, Undisturbed, venueVars
<1>2. /\ \A p \in Placements : p # q => book'[p] = book[p] /\ working'[p] = working[p]
      /\ book'[q] = IF book[q] \in Ended THEN book[q] ELSE Reported
      /\ working'[q] = Kept
  BY <1>0, <1>1, RecordedStep DEF Report
<1>3. job' # None /\ job'.by = job.by /\ job'.todo = job.todo /\ job'.at \in {job.at, "next"}
  <2>1. job' # None
    BY <1>1, TaskKept, UndisturbedStep DEF Finish, ReadOrders, Doing, AllStopped
  <2> QED BY <1>1, <2>1, EndedAt
<1>4. \A p \in Placements : ~Cancelling(p) /\ ~Cancelling(p)'
  BY <1>1, <1>3 DEF Cancelling
<1>5. Handled(q) /\ \A p \in Placements : Handled(p)
  BY DEF AllStopped
<1>6. /\ working'[q] # None <=> working[q] # None
      /\ working[q] # None =>
            /\ working'[q].order = working[q].order
            /\ working'[q].cancel_sent = working[q].cancel_sent
            /\ working'[q].ended # working[q].ended => status[q] \in Closed
      /\ book'[q] \in InFlight => working[q] # None
      /\ book'[q] = "absent" => book[q] = "absent"
      /\ q \in sent => book'[q] # "queued"
  <2>1. CASE job.at = "status"
    <3>1. /\ Kept # None /\ working[q] # None
          /\ Kept.order = working[q].order /\ Kept.cancel_sent = working[q].cancel_sent
          /\ Kept.ended # working[q].ended => status[q] \in Closed
          /\ Reported = book[q] \/ Reported \in {"working"} \cup Ended
          /\ ~working[q].acknowledged /\ job.seen[q] = "open" => Reported = "working"
      BY <1>0, <2>1, ReportOfStatus
    <3>2. book'[q] = "absent" => book[q] = "absent"
      BY <1>2, <3>1 DEF Ended
    <3>3. ASSUME q \in sent, book'[q] = "queued" PROVE FALSE
      <4>1. book[q] = "queued" /\ Reported = "queued"
        BY <1>2, <3>1, <3>3 DEF Ended
      <4>2. Answering(q)
        BY <1>5, <3>3, <4>1 DEF Handled, Booked
      <4> QED BY <2>1, <3>1, <4>1, <4>2 DEF Answering
    <3> QED BY <1>2, <3>1, <3>2, <3>3
  <2>2. CASE job.at # "status"
    <3>1. /\ Kept = working[q] /\ (Reported = book[q] \/ Reported \in Ended)
          /\ job.at = "refused" => Reported = "rejected"
      BY <1>0, <1>1, <2>2, ReportOfOther
    <3>2. ASSUME q \in sent, book'[q] = "queued" PROVE FALSE
      <4>1. book[q] = "queued" /\ Reported = "queued"
        BY <1>2, <3>1, <3>2 DEF Ended
      <4>2. Answering(q)
        BY <1>5, <3>2, <4>1 DEF Handled, Booked
      <4> QED BY <1>1, <2>2, <3>1, <4>1, <4>2 DEF Answering
    <3>3. book'[q] = book[q] \/ book'[q] \in Ended
      BY <1>2, <3>1
    <3>4. book'[q] \in InFlight => working[q] # None
      BY <1>5, <3>3 DEF Handled, Booked, InFlight, Ended
    <3> QED BY <1>2, <3>1, <3>2, <3>3, <3>4 DEF Ended
  <2> QED BY <2>1, <2>2
<1>7. ASSUME NEW p \in Placements PROVE Handled(p)'
  <2>1. Dealt(p)'
    <3>1. CASE p = q
      BY <1>1, <1>4, <1>5, <1>6, <3>1 DEF Handled, Dealt
    <3>2. CASE p # q
      <4>1. working'[p] = working[p]
        BY <1>2, <3>2
      <4> QED BY <1>1, <1>4, <1>5, <4>1 DEF Handled, Dealt
    <3> QED BY <3>1, <3>2
  <2>2. Booked(p)'
    <3>1. CASE p = q
      BY <1>1, <1>4, <1>5, <1>6, <3>1 DEF Handled, Booked
    <3>2. CASE p # q
      <4>1. working'[p] = working[p] /\ book'[p] = book[p] /\ ~Answering(p)
        BY <1>0, <1>2, <3>2 DEF Answering
      <4> QED BY <1>1, <1>4, <1>5, <4>1 DEF Handled, Booked
    <3> QED BY <3>1, <3>2
  <2>3. Stopped(p)'
    <3>1. working'[p] # None => working[p] # None
      BY <1>2, <1>6
    <3>2. Stopping(p) => Stopping(p)'
      BY <1>3, <1>4 DEF Stopping
    <3> QED BY <1>1, <1>5, <3>1, <3>2 DEF Handled, Stopped
  <2> QED BY <2>1, <2>2, <2>3 DEF Handled
<1>8. \A p \in Placements : working[p] # None => working'[p] # None
  BY <1>2, <1>6
<1> QED BY <1>1, <1>3, <1>7, <1>8, ViewsKept DEF AllStopped

\* An item taken up: what is worked of it is marked, and no more is.
LEMMA ItemHandled ==
    ASSUME Sound, Sound', AllStopped, Undisturbed', [Next]_vars, job # None,
           NEW v \in job.todo, NEW q \in Placements, q = v.of, job.at = "next",
           job'.by = job.by, job'.todo = job.todo \ {v},
           UNCHANGED <<book, status, told, sent, instruction>>,
           \A p \in Placements : p # q => working'[p] = working[p],
           \A p \in Placements : p # q => ~Cancelling(p)',
           IF working[q] = None THEN working'[q] = None /\ ~Cancelling(q)'
           ELSE /\ working'[q] # None
                /\ working'[q].order
                /\ working'[q].ended = working[q].ended
                /\ \/ working'[q].cancel_sent /\ Cancelling(q)'
                   \/ working'[q].cancel_sent = working[q].cancel_sent /\ ~Cancelling(q)',
           \/ ~(job.by = "stop" /\ instruction = "stop") \/ Cancelling(q)'
           \/ working[q] = None \/ working[q].ended # "no" \/ working[q].cancel_sent
    PROVE  AllStopped'
<1>1. job \in Jobs /\ \A p \in Placements : Handled(p) /\ ~Cancelling(p) /\ ~Answering(p)
  BY DEF Sound, Typed, TypeOK, AllStopped, Cancelling, Answering
<1>2. job' # None
  <2>1. ~Finish /\ ~ReadOrders
    BY DEF Finish, ReadOrders
  <2> QED BY <2>1, TaskKept, UndisturbedStep DEF AllStopped
<1>3. ASSUME NEW p \in Placements PROVE Handled(p)'
  <2>1. Dealt(p)'
    <3>1. CASE p = q
      BY <1>1, <3>1 DEF Handled, Dealt
    <3>2. CASE p # q
      <4>1. working'[p] = working[p]
        BY <3>2
      <4> QED BY <1>1, <4>1 DEF Handled, Dealt
    <3> QED BY <3>1, <3>2
  <2>2. Booked(p)'
    <3>1. CASE p = q
      BY <1>1, <3>1 DEF Handled, Booked
    <3>2. CASE p # q
      <4>1. working'[p] = working[p] /\ ~Cancelling(p)'
        BY <3>2
      <4> QED BY <1>1, <4>1 DEF Handled, Booked
    <3> QED BY <3>1, <3>2
  <2>3. Stopped(p)'
    <3>1. working'[p] # None => working[p] # None
      BY DEF Handled
    <3> SUFFICES ASSUME instruction = "stop", working[p] # None, status[p] \in {"open", "odd"}
                 PROVE  p \in told \/ Stopping(p)'
      BY <3>1 DEF Stopped
    <3>2. p \in told \/ Stopping(p)
      BY <1>1 DEF Handled, Stopped
    <3>3. CASE p # q
      BY <1>1, <1>2, <3>2, <3>3 DEF Stopping
    <3>4. CASE p = q
      <4>1. CASE Cancelling(q)'
        BY <1>1, <1>2, <3>2, <3>4, <4>1 DEF Stopping
      <4>2. CASE working[q].ended # "no" \/ working[q].cancel_sent
        BY <1>1, <3>4, <4>2 DEF Handled, Dealt, Closed
      <4>3. CASE job.by # "stop"
        BY <3>2, <4>3 DEF Stopping
      <4> QED BY <3>4, <4>1, <4>2, <4>3
    <3> QED BY <3>3, <3>4
  <2> QED BY <2>1, <2>2, <2>3 DEF Handled
<1>4. \A p \in Placements : working[p] # None => working'[p] # None
  OBVIOUS
<1> QED BY <1>2, <1>3, <1>4, ViewsKept DEF AllStopped

\* What marking one worked leaves as it was.
LEMMA MarkedWorked ==
    ASSUME NEW w \in Worked, NEW n \in Nat, NEW u,
           \/ u = [w EXCEPT !.cancel_sent = TRUE]
           \/ u = [w EXCEPT !.changes = n, !.cancel_sent = TRUE]
    PROVE  u # None /\ u.order = w.order /\ u.ended = w.ended /\ u.cancel_sent = TRUE
<1>1. u # None
  <2>1. [w EXCEPT !.cancel_sent = TRUE] \in Worked
    BY WorkedKept, Zenon
  <2>2. [w EXCEPT !.changes = n, !.cancel_sent = TRUE] \in Worked
    BY WorkedKept, Zenon
  <2> QED BY <2>1, <2>2, TraderAssumption, Zenon DEF TraderAssumption
<1>2. CASE u = [w EXCEPT !.cancel_sent = TRUE]
  BY <1>1, <1>2 DEF Worked
<1>3. CASE u = [w EXCEPT !.changes = n, !.cancel_sent = TRUE]
  <2> DEFINE c == [w EXCEPT !.changes = n]
  <2>1. DOMAIN w = {"order", "unanswered", "acknowledged", "unknown", "filled",
                    "cancel_sent", "ended", "changes"}
    BY DEF Worked
  <2>2. DOMAIN c = DOMAIN w /\ c.order = w.order /\ c.ended = w.ended
    BY <2>1
  <2>3. u = [c EXCEPT !.cancel_sent = TRUE]
    BY <1>3
  <2>4. DOMAIN c = {"order", "unanswered", "acknowledged", "unknown", "filled",
                    "cancel_sent", "ended", "changes"}
    BY <2>1, <2>2
  <2> HIDE DEF c
  <2>5. u.order = c.order /\ u.ended = c.ended /\ u.cancel_sent = TRUE
    BY <2>3, <2>4
  <2> QED BY <1>1, <2>2, <2>5
<1> QED BY <1>2, <1>3, Zenon

LEMMA ReadWorked ==
    ASSUME NEW w \in Worked, NEW u, u = [w EXCEPT !.order = TRUE, !.unanswered = FALSE]
    PROVE  u # None /\ u.order = TRUE /\ u.ended = w.ended /\ u.cancel_sent = w.cancel_sent
<1>1. u # None
  <2>1. [w EXCEPT !.order = TRUE, !.unanswered = FALSE] \in Worked
    BY WorkedKept, Zenon
  <2> QED BY <2>1, TraderAssumption, Zenon DEF TraderAssumption
<1> QED BY <1>1 DEF Worked

\* A placement the book or a delivery names, or that was held back.
LEMMA ResumeHandled ==
    ASSUME Sound, Sound', AllStopped, Undisturbed', [Next]_vars,
           NEW v \in job.todo, job # None, Resume(v)
    PROVE  AllStopped'
<1>0. PICK q \in Placements : q = v.of
  BY DEF Sound, Typed, TypeOK, Jobs, PlacementViews
<1>1. /\ job \in Jobs /\ job.at = "next" /\ job.by \in {"start", "poll", "hear"}
      /\ UNCHANGED <<book, status, told, sent, instruction>>
      /\ working \in [Placements -> Worked \cup {None}] /\ None \notin Worked
      /\ v \in PlacementViews /\ sent \subseteq decided
  BY TraderAssumption
  DEF Resume, Doing, Sound, Typed, TypeOK, Jobs, bookVars, venueVars, TraderAssumption,
      AllStopped, Undisturbed, Uncrashed
<1>2. Dealt(q) /\ (v.state \in InFlight => working[q] # None)
  BY <1>0 DEF AllStopped, Handled, InViews, InView
<1>3. CASE job' = Done(v) /\ working' = working
  <2>1. job'.by = job.by /\ job'.todo = job.todo \ {v} /\ job'.at = "next"
    BY <1>1, <1>3, DoneAt
  <2>2. \A p \in Placements : ~Cancelling(p)'
    BY <2>1 DEF Cancelling
  <2> QED BY <1>0, <1>1, <1>2, <1>3, <2>1, <2>2, ItemHandled DEF Dealt
<1>4. CASE job' = Taking(v, "reach") /\ working' = working
  <2>1. job'.by = job.by /\ job'.todo = job.todo \ {v} /\ job'.at = "reach"
    BY <1>1, <1>4, TakenAt
  <2>2. \A p \in Placements : ~Cancelling(p)'
    BY <2>1 DEF Cancelling
  <2> QED BY <1>0, <1>1, <1>2, <1>4, <2>1, <2>2, ItemHandled DEF Dealt
<1>5. CASE /\ working[q] # None
           /\ working' = [working EXCEPT ![q] =
                IF Asked(working[q], v)
                THEN [working[q] EXCEPT !.changes = v.ask, !.cancel_sent = TRUE]
                ELSE working[q]]
           /\ job' = IF Asked(working[q], v) /\ ~working[q].cancel_sent
                     THEN Taking(v, "cancel") ELSE Done(v)
  <2>1. working[q] \in Worked /\ v.ask \in Nat
    BY <1>1, <1>5 DEF PlacementViews
  <2>2. /\ job'.by = job.by /\ job'.todo = job.todo \ {v}
        /\ job' = Taking(v, "cancel") => job'.at = "cancel" /\ job'.of = q
        /\ job' = Done(v) => job'.at = "next"
    BY <1>0, <1>1, <1>5, DoneAt, TakenAt
  <2>3. job' # None
    <3>1. ~Finish /\ ~ReadOrders
      BY <1>0 DEF Finish, ReadOrders
    <3> QED BY <3>1, TaskKept, UndisturbedStep DEF AllStopped
  <2>4. \A p \in Placements : p # q => working'[p] = working[p] /\ ~Cancelling(p)'
    BY <1>1, <1>5, <2>2 DEF Cancelling
  <2>5. /\ working'[q] # None /\ working'[q].order = working[q].order
        /\ working'[q].ended = working[q].ended
        /\ Asked(working[q], v) => working'[q].cancel_sent
        /\ ~Asked(working[q], v) => working'[q].cancel_sent = working[q].cancel_sent
    <3>1. CASE Asked(working[q], v)
      <4>1. working'[q] = [working[q] EXCEPT !.changes = v.ask, !.cancel_sent = TRUE]
        BY <1>1, <1>5, <3>1
      <4>2. /\ working'[q] # None /\ working'[q].order = working[q].order
            /\ working'[q].ended = working[q].ended /\ working'[q].cancel_sent = TRUE
        <5> DEFINE u == working'[q]
                   w == working[q]
                   n == v.ask
        <5>1. w \in Worked /\ n \in Nat
          BY <2>1
        <5>2. u = [w EXCEPT !.changes = n, !.cancel_sent = TRUE]
          BY <4>1
        <5> HIDE DEF u, w, n
        <5>3. u # None /\ u.order = w.order /\ u.ended = w.ended /\ u.cancel_sent = TRUE
          BY <5>1, <5>2, MarkedWorked, Zenon
        <5> QED BY <5>3 DEF u, w
      <4> QED BY <3>1, <4>2
    <3>2. CASE ~Asked(working[q], v)
      <4>1. working'[q] = working[q]
        BY <1>1, <1>5, <3>2
      <4> QED BY <1>5, <2>1, <3>2, <4>1 DEF Worked
    <3> QED BY <3>1, <3>2
  <2>6. \/ working'[q].cancel_sent /\ Cancelling(q)'
        \/ working'[q].cancel_sent = working[q].cancel_sent /\ ~Cancelling(q)'
    <3>1. CASE Asked(working[q], v) /\ ~working[q].cancel_sent
      BY <1>5, <2>2, <2>3, <2>5, <3>1 DEF Cancelling
    <3>2. CASE ~(Asked(working[q], v) /\ ~working[q].cancel_sent)
      <4>1. job'.at = "next"
        BY <1>5, <2>2, <3>2
      <4>2. working[q].cancel_sent \in BOOLEAN
        BY <2>1 DEF Worked
      <4> QED BY <2>5, <3>2, <4>1, <4>2 DEF Cancelling
    <3> QED BY <3>1, <3>2
  <2>7. working'[q].order /\ working'[q].ended = working[q].ended
    BY <1>2, <1>5, <2>5 DEF Dealt
  <2>8. \A p \in Placements : p # q => working'[p] = working[p]
    BY <2>4
  <2>9. \A p \in Placements : p # q => ~Cancelling(p)'
    BY <2>4
  <2>10. ~(job.by = "stop" /\ instruction = "stop")
    BY <1>1
  <2>11. job'.by = job.by /\ job'.todo = job.todo \ {v} /\ working[q] # None /\ working'[q] # None
    BY <1>5, <2>2, <2>5
  <2> QED BY <1>0, <1>1, <2>6, <2>7, <2>8, <2>9, <2>10, <2>11, ItemHandled
<1>6. CASE OnQueued(v, held) /\ q \notin decided
  BY <1>0, <1>1, <1>3, <1>4, <1>6 DEF OnQueued
<1>7. CASE job' = Done(v) /\ UNCHANGED <<held, decided, working>>
  BY <1>3, <1>7
<1> QED BY <1>0, <1>2, <1>5, <1>6, <1>7 DEF Resume

\* One held back is taken up only where it was never sent.
LEMMA ReleaseHandled ==
    ASSUME Sound, Sound', AllStopped, Undisturbed', [Next]_vars,
           NEW v \in job.todo, job # None, ReleaseOne(v)
    PROVE  AllStopped'
<1>0. PICK q \in Placements : q = v.of
  BY DEF Sound, Typed, TypeOK, Jobs, PlacementViews
<1>1. /\ job \in Jobs /\ job.at = "next" /\ job.by = "release"
      /\ UNCHANGED <<book, status, told, sent, instruction>>
  BY DEF ReleaseOne, Doing, Sound, Typed, TypeOK, bookVars, venueVars
<1>2. Dealt(q) /\ (book[q] = "queued" => q \notin sent)
  BY <1>0, <1>1 DEF AllStopped, Handled, Booked, Answering
<1>3. working' = working /\ (job' = Done(v) \/ job' = Taking(v, "reach"))
  BY <1>0, <1>2 DEF ReleaseOne, OnQueued
<1>4. job'.by = job.by /\ job'.todo = job.todo \ {v} /\ job'.at \in {"next", "reach"}
  BY <1>1, <1>3, DoneAt, TakenAt
<1>5. \A p \in Placements : ~Cancelling(p)'
  BY <1>4 DEF Cancelling
<1> QED BY <1>0, <1>1, <1>2, <1>3, <1>4, <1>5, ItemHandled DEF Dealt

\* The stop marks its cancel as sent, of one not over and not cancelled before;
\* a read of the orders marks an order as known.
LEMMA WorkedItemHandled ==
    ASSUME Sound, Sound', AllStopped, Undisturbed', [Next]_vars,
           NEW v \in job.todo, job # None, StopOne(v) \/ ReadOrder(v)
    PROVE  AllStopped'
<1>0. PICK q \in Placements : q = v.of
  BY DEF Sound, Typed, TypeOK, Jobs, PlacementViews
<1>1. /\ job \in Jobs /\ job.at = "next" /\ job.by \in {"stop", "read"}
      /\ UNCHANGED <<book, status, told, sent, instruction>>
      /\ working \in [Placements -> Worked \cup {None}] /\ None \notin Worked
      /\ working[q] \in Worked
  BY <1>0, TraderAssumption
  DEF StopOne, ReadOrder, Doing, Sound, Typed, TypeOK, InHand, bookVars, venueVars,
      TraderAssumption
<1>2. working[q].order
  BY <1>0, <1>1 DEF AllStopped, Handled, Dealt
<1>3. job' = Done(v) \/ job' = Taking(v, "cancel") \/ job' = Taking(v, "status")
  BY DEF StopOne, ReadOrder
<1>4. /\ job'.by = job.by /\ job'.todo = job.todo \ {v}
      /\ job' = Done(v) => job'.at = "next"
      /\ job' = Taking(v, "cancel") => job'.at = "cancel" /\ job'.of = q
      /\ job' = Taking(v, "status") => job'.at = "status"
  BY <1>0, <1>1, <1>3, DoneAt, TakenAt
<1>5. job' # None
  <2>1. ~Finish /\ ~ReadOrders
    BY <1>0 DEF Finish, ReadOrders
  <2> QED BY <2>1, TaskKept, UndisturbedStep DEF AllStopped
<1>6. CASE job' = Done(v) /\ working' = working
  <2>1. \A p \in Placements : ~Cancelling(p)'
    BY <1>4, <1>6 DEF Cancelling
  <2>2. job.by = "stop" => working[q].ended # "no" \/ working[q].cancel_sent
    <3>1. job.by = "stop" => StopOne(v) /\ job' # Taking(v, "cancel")
      BY <1>4, <1>6 DEF ReadOrder
    <3> QED BY <1>0, <1>2, <3>1 DEF StopOne
  <2> QED BY <1>0, <1>1, <1>2, <1>4, <1>6, <2>1, <2>2, ItemHandled
<1>7. CASE StopOne(v) /\ job' = Taking(v, "cancel")
           /\ working' = [working EXCEPT ![q].cancel_sent = TRUE]
  <2>1. \A p \in Placements : p # q => working'[p] = working[p] /\ ~Cancelling(p)'
    BY <1>4, <1>7 DEF Cancelling
  <2>2. Cancelling(q)'
    BY <1>4, <1>5, <1>7 DEF Cancelling
  <2>3. /\ working'[q] # None /\ working'[q].order /\ working'[q].cancel_sent
        /\ working'[q].ended = working[q].ended
    <3>1. working'[q] = [working[q] EXCEPT !.cancel_sent = TRUE]
      BY <1>1, <1>7
    <3>2. 0 \in Nat
      OBVIOUS
    <3>3. /\ working'[q] # None /\ working'[q].order = working[q].order
          /\ working'[q].ended = working[q].ended /\ working'[q].cancel_sent = TRUE
      BY <1>1, <3>1, <3>2, MarkedWorked, Zenon
    <3> QED BY <1>2, <3>3
  <2> QED BY <1>0, <1>1, <1>4, <2>1, <2>2, <2>3, ItemHandled
<1>8. CASE ReadOrder(v) /\ job' = Taking(v, "status")
           /\ working' = [working EXCEPT ![q].order = TRUE, ![q].unanswered = FALSE]
  <2>1. \A p \in Placements : p # q => working'[p] = working[p]
    BY <1>1, <1>8
  <2>2. \A p \in Placements : ~Cancelling(p)'
    BY <1>4, <1>8 DEF Cancelling
  <2>3. /\ working'[q] # None /\ working'[q].order
        /\ working'[q].cancel_sent = working[q].cancel_sent
        /\ working'[q].ended = working[q].ended
    <3>1. working'[q] = [working[q] EXCEPT !.order = TRUE, !.unanswered = FALSE]
      BY <1>1, <1>8
    <3>2. /\ working'[q] # None /\ working'[q].order = TRUE
          /\ working'[q].ended = working[q].ended
          /\ working'[q].cancel_sent = working[q].cancel_sent
      BY <1>1, <3>1, ReadWorked, Zenon
    <3> QED BY <3>2
  <2>4. job.by # "stop"
    BY <1>8 DEF ReadOrder
  <2> QED BY <1>0, <1>1, <1>4, <2>1, <2>2, <2>3, <2>4, ItemHandled
<1> QED BY <1>0, <1>6, <1>7, <1>8 DEF StopOne, ReadOrder

\* Every step keeps it.
LEMMA AllStoppedStep ==
    ASSUME Sound, Sound', AllStopped, [Next]_vars
    PROVE  AllStopped'
<1>1. /\ Undisturbed' /\ ~GiveUp /\ ~ReadFails /\ ~ReportFails /\ ~Crash
      /\ \A v \in Items : ~Unfound(v)
      /\ ~Spend("unanswered") /\ ~Spend("refusal")
  BY UndisturbedStep DEF AllStopped
<1>2. CASE \E v \in Items : Resume(v) \/ StopOne(v) \/ ReleaseOne(v) \/ ReadOrder(v)
  BY <1>1, <1>2, ResumeHandled, ReleaseHandled, WorkedItemHandled DEF Items
<1>3. CASE UNCHANGED vars
  <2>1. \A p \in Placements : Handled(p)'
    BY <1>3 DEF AllStopped, vars, Handled, Dealt, Booked, Stopped, Stopping, Cancelling, Answering
  <2>2. InViews'
    BY <1>3 DEF AllStopped, vars, InViews, InView
  <2> QED BY <1>1, <2>1, <2>2 DEF AllStopped
<1>4. CASE Next /\ ~ \E v \in Items : Resume(v) \/ StopOne(v) \/ ReleaseOne(v) \/ ReadOrder(v)
  BY <1>1, <1>4, AroundHandled, TasksHandled, CancelHandled, NothingDueHandled, NoteHandled,
     SendHandled, ReportHandled
  DEF Next, Works, Hears
<1> QED BY <1>2, <1>3, <1>4

\* What each budget must leave no room for: an instruction, or a restart, a failed
\* read or report, an order not found, and a call to the venue unanswered or
\* refused.
Unhindered ==
    \A b \in Budgets :
        \/ b["ruling"] = 0
        \/ \A m \in {"crash", "report", "read", "unfound", "unanswered", "refusal"} : b[m] = 0

\* Under a stop every order known that the venue works was told to cancel: for
\* any placements, any number of instructions, cancels asked for and polls.
THEOREM StopCancelsAll ==
    ASSUME Unhindered
    PROVE  Spec => []StopCancels
<1>1. Init => Sound /\ (Unruled \/ AllStopped)
  <2> SUFFICES ASSUME Init PROVE Sound /\ (Unruled \/ AllStopped)
    OBVIOUS
  <2>1. /\ inbox = <<>> /\ job = None /\ phase = "down" /\ sent = {}
        /\ ruling = "active" /\ instruction = "active"
        /\ \A p \in Placements : working[p] = None /\ book[p] = "absent"
    BY DEF Init
  <2>2. CASE left["ruling"] = 0
    BY <2>1, <2>2, SoundInit DEF Unruled
  <2>3. CASE \A m \in {"crash", "report", "read", "unfound", "unanswered", "refusal"} : left[m] = 0
    <3>1. Undisturbed
      BY <2>1, <2>3 DEF Undisturbed, NeverRaised, Uncrashed, Ordered
    <3>2. InViews
      BY <2>1 DEF InViews
    <3>3. \A p \in Placements : Handled(p)
      BY <2>1 DEF Handled, Dealt, Booked, Stopped, InFlight, Cancelling
    <3> QED BY <3>1, <3>2, <3>3, SoundInit DEF AllStopped
  <2> QED BY <2>2, <2>3 DEF Init, Unhindered
<1>2. Sound /\ (Unruled \/ AllStopped) /\ [Next]_vars => Sound' /\ (Unruled \/ AllStopped)'
  BY SoundStep, UnruledStep, AllStoppedStep
<1>3. Sound /\ (Unruled \/ AllStopped) => StopCancels
  <2>1. CASE Unruled
    BY <2>1 DEF Unruled, StopCancels
  <2>2. CASE AllStopped
    BY <2>2 DEF AllStopped, Handled, Stopped, Stopping, Idle, StopCancels
  <2> QED BY <2>1, <2>2
<1> QED BY <1>1, <1>2, <1>3, PTL DEF Spec

=============================================================================
