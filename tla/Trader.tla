-------------------------------- MODULE Trader --------------------------------
(***************************************************************************)
(* A connectivity plugin working placements at one venue                   *)
(* (roles/connectivity/_trader.py, `Trader`, and _bookkeeping.py,          *)
(* `place_once` and `Sent`): it reads the book as it starts, hears         *)
(* placements and trading instructions, sends each placement to the venue  *)
(* under a note kept in storage, and reports what the venue's orders say   *)
(* each time it polls them.                                                *)
(*                                                                         *)
(* Every handler and the poll hold one lock, so at most one of them is at  *)
(* work: `job` is the one that is, and where it awaits.  What the venue    *)
(* fills is one unit; a placement's client order ID is the placement.      *)
(***************************************************************************)
EXTENDS Naturals, Sequences, FiniteSets

CONSTANTS
    Placements,  \* the placements naming this instance
    Unsupported, \* those it or the venue does not offer
    None,        \* nothing
    RuledEarly,  \* whether an instruction may change as the plugin starts
    Budgets      \* bounds, mishap -> how often: those that may come together

\* What the surroundings may do, each a bounded number of times: the process
\* dying, a report to the book or a read of it failing, an order not found in what
\* is read, a call to the venue going unanswered (a send or a cancel, the
\* accounts, the orders), a cancel refused, a status the adapter does not map;
\* and what ems and admins ask for, bounded alike.
Mishaps == {"crash", "report", "read", "unfound", "unanswered", "accounts", "orders", "refusal", "odd",
            "place", "ask", "ruling"}

Ended == {"filled", "cancelled", "rejected", "unsupported"}
BookStates == {"absent", "queued", "sent", "working"} \cup Ended
Statuses == {"none", "open", "odd", "filled", "cancelled", "rejected"}
Rulings == {"active", "pause", "stop"}

\* A placement the venue may hold an order for (`Worked`): its order is known,
\* or looked for.  `changes` is the last change request taken up.
Worked ==
    {w \in [order : BOOLEAN, unanswered : BOOLEAN, acknowledged : BOOLEAN,
            unknown : BOOLEAN, filled : BOOLEAN, cancel_sent : BOOLEAN,
            ended : {"no", "filled", "cancelled", "rejected"}, changes : Nat] :
        w.order # w.unanswered}

\* A placement as the book delivers or lists it; one of None is a trading
\* instruction of that value.
PlacementViews == [of : Placements, state : BookStates, ask : Nat]
Views == PlacementViews \cup [of : {None}, state : Rulings, ask : {0}]

Points == {"reading", "next", "reach", "unsupported", "note", "send", "refused",
           "unknown", "status", "cancel", "refusing", "fact", "raised"}
Between == {"reading", "next", "raised"}
Jobs ==
    {j \in [by : {"start", "poll", "read", "hear", "stop", "release"}, at : Points,
            of : Placements \cup {None}, todo : SUBSET PlacementViews,
            was : SUBSET Placements, seen : [Placements -> Statuses]] :
        j.at \notin Between => j.of \in Placements}

ASSUME TraderAssumption ==
    /\ None \notin Placements
    /\ None \notin Worked
    /\ None \notin PlacementViews
    /\ None \notin Jobs
    /\ Unsupported \subseteq Placements
    /\ RuledEarly \in BOOLEAN
    /\ Budgets \subseteq [Mishaps -> Nat]

VARIABLES
    book,        \* placement -> its state in the book
    asks,        \* placement -> cancels its ems has asked for
    pending,     \* placements whose last asked cancel is not answered
    ruling,      \* the trading instruction in force
    status,      \* placement -> its venue order's status
    orders,      \* placement -> venue orders made under its ID
    told,        \* placements whose cancel the venue took, or refused a stop
    sent,        \* the placements noted in storage (`Sent`)
    phase,       \* the process: down, starting, started
    hearing,     \* whether the delivery stream is open
    inbox,       \* deliveries sent and not yet handled
    changed,     \* placements changed since the watermark
    instruction, \* the instruction held (`instructions`)
    held,        \* placements held back (`held`)
    decided,     \* placements taken up (`decided`)
    working,     \* placement -> what is worked of it, or None (`working`)
    job,         \* who is at work, or None
    left         \* what remains of each bound

bookVars == <<book, asks, pending, ruling, changed, inbox>>
venueVars == <<status, orders, told>>
memory == <<instruction, held, decided, working>>
process == <<phase, hearing>>
vars == <<book, asks, pending, ruling, status, orders, told, sent, phase, hearing,
          inbox, changed, instruction, held, decided, working, job, left>>

Spend(m) ==
    /\ left[m] > 0
    /\ left' = [left EXCEPT ![m] = @ - 1]

-----------------------------------------------------------------------------
(* The book and the venue. *)

View(p) == [of |-> p, state |-> book[p], ask |-> IF p \in pending THEN asks[p] ELSE 0]

Delivered(v) == IF hearing THEN Append(inbox, v) ELSE inbox

\* The book writes a placement and delivers it; one that has ended stays so,
\* and nothing asked of it is pending.
Write(p, state, waits) ==
    LET now == IF book[p] \in Ended THEN book[p] ELSE state
        isPending == waits /\ now \notin Ended
    IN  /\ book' = [book EXCEPT ![p] = now]
        /\ pending' = IF isPending THEN pending \cup {p} ELSE pending \ {p}
        /\ changed' = changed \cup {p}
        /\ inbox' = Delivered([of |-> p, state |-> now,
                               ask |-> IF isPending THEN asks'[p] ELSE 0])
        /\ ruling' = ruling

\* An ems places, and asks for a cancel.
Place(p) ==
    /\ book[p] = "absent"
    /\ Spend("place")
    /\ asks' = asks
    /\ Write(p, "queued", FALSE)
    /\ UNCHANGED <<venueVars, sent, process, memory, job>>

AskCancel(p) ==
    /\ book[p] \in {"queued", "sent", "working"} /\ p \notin pending
    /\ Spend("ask")
    /\ asks' = [asks EXCEPT ![p] = @ + 1]
    /\ Write(p, book[p], TRUE)
    /\ UNCHANGED <<venueVars, sent, process, memory, job>>

\* An admin pauses or stops trading, or lifts either.
Rule(value) ==
    /\ value # ruling
    /\ RuledEarly \/ phase = "down" \/ (phase = "started" /\ hearing)
    /\ Spend("ruling")
    /\ ruling' = value
    /\ inbox' = Delivered([of |-> None, state |-> value, ask |-> 0])
    /\ UNCHANGED <<book, asks, pending, changed, venueVars, sent, process, memory, job>>

\* A venue order fills, ends, or stands in a status no mapping knows.
Moves(p) ==
    /\ \/ /\ status[p] \in {"open", "odd"}
          /\ \E s \in {"filled", "cancelled", "rejected"} : status' = [status EXCEPT ![p] = s]
          /\ UNCHANGED left
       \/ /\ status[p] = "open"
          /\ Spend("odd")
          /\ status' = [status EXCEPT ![p] = "odd"]
       \/ /\ status[p] = "odd"
          /\ status' = [status EXCEPT ![p] = "open"]
          /\ UNCHANGED left
    /\ UNCHANGED <<bookVars, orders, told, sent, process, memory, job>>

-----------------------------------------------------------------------------
(* The work under way. *)

Unseen == [p \in Placements |-> "none"]

Task(by, at, todo, was) ==
    [by |-> by, at |-> at, of |-> None, todo |-> todo, was |-> was, seen |-> Unseen]

At(point, p) == [job EXCEPT !.at = point, !.of = p]

\* The item in hand is done with: the next of the same task.
Done(v) ==
    [job EXCEPT !.at = "next", !.of = None, !.todo = @ \ {v},
                !.seen = IF job.by = "read" THEN @ ELSE Unseen]

\* Items leave `todo` as they are taken.
Over == Done(None)
Taking(v, point) == [At(point, v.of) EXCEPT !.todo = @ \ {v}]

Doing(point) == job # None /\ job.at = point

Raised == At("raised", None)

\* What a task raised ends it: the poll's watermark stays and the start is made
\* again.  A handler's ends the hearing, which begins anew without what was
\* delivered and not handled; or `follow` takes it for a failed read, opens the
\* stream again and reads what it has not handed on.
GiveUp ==
    /\ Doing("raised")
    /\ job' = None
    /\ changed' = changed \cup job.was
    /\ \/ UNCHANGED process /\ UNCHANGED inbox
       \/ job.by \in {"hear", "stop", "release"} /\ hearing' = FALSE /\ inbox' = <<>> /\ UNCHANGED phase
    /\ UNCHANGED <<book, asks, pending, ruling, venueVars, sent, memory, left>>

-----------------------------------------------------------------------------
(* Taking up a placement. *)

\* Slip: one worked again is not looked for.
AgainKnown(state) ==
    [order |-> state = "working", unanswered |-> FALSE,
     acknowledged |-> state = "working", unknown |-> FALSE, filled |-> FALSE,
     cancel_sent |-> FALSE, ended |-> "no", changes |-> 0]

\* A placement worked again, or asked about (`_worked`).
Again(state) ==
    [order |-> state = "working", unanswered |-> state # "working",
     acknowledged |-> state = "working", unknown |-> FALSE, filled |-> FALSE,
     cancel_sent |-> FALSE, ended |-> "no", changes |-> 0]

\* The order just placed.
Sending(answered) ==
    [order |-> answered, unanswered |-> ~answered, acknowledged |-> FALSE,
     unknown |-> FALSE, filled |-> FALSE, cancel_sent |-> FALSE,
     ended |-> "no", changes |-> 0]

\* Slip: a pause is not in force.
StopInForce == instruction = "stop"

InForce == instruction # "active"

\* `on_queued` for the item `v`: held back, asked about where it was sent
\* before this process, or decided on.
OnQueued(v, others) ==
    LET p == v.of
    IN  \/ /\ InForce
           /\ held' = others \cup {p}
           /\ job' = Done(v)
           /\ UNCHANGED <<decided, working>>
        \/ /\ ~InForce /\ p \in sent
           /\ working' = [working EXCEPT ![p] = Again("queued")]
           /\ decided' = decided \cup {p}
           /\ held' = others
           /\ job' = Done(v)
        \/ /\ ~InForce /\ p \notin sent
           /\ decided' = decided \cup {p}
           /\ held' = others
           /\ job' = Taking(v, "reach")
           /\ UNCHANGED working

\* Slip: the first request is taken for one taken up.
AskedAgain(w, v) ==
    /\ v.ask > w.changes + 1 /\ w.ended = "no"
    /\ w.acknowledged /\ w.order

\* Whether a cancel asked for is to be taken up (`_asked_to_change`).
Asked(w, v) ==
    /\ v.ask > w.changes /\ w.ended = "no"
    /\ w.acknowledged /\ w.order

\* Slip: one the book holds working is not worked again.
OnlySent == {"sent"}

InFlight == {"sent", "working"}

\* `_resume`: a placement in the book's answer or its delivery.
Resume(v) ==
    LET p == v.of
        w == IF working[p] = None THEN Again(v.state) ELSE working[p]
    IN  /\ Doing("next") /\ job.by \in {"start", "poll", "hear"}
        /\ v \in job.todo
        /\ \/ /\ working[p] # None \/ v.state \in InFlight
              /\ working' = [working EXCEPT ![p] =
                    IF Asked(w, v)
                    THEN [w EXCEPT !.changes = v.ask, !.cancel_sent = TRUE] ELSE w]
              /\ decided' = decided \cup {p}
              /\ job' = IF Asked(w, v) /\ ~w.cancel_sent THEN Taking(v, "cancel") ELSE Done(v)
              /\ UNCHANGED held
           \/ /\ working[p] = None /\ v.state = "queued" /\ p \notin decided
              /\ OnQueued(v, held)
           \/ /\ working[p] = None /\ v.state \notin InFlight
              /\ v.state # "queued" \/ p \in decided
              /\ job' = Done(v)
              /\ UNCHANGED <<held, decided, working>>
        /\ UNCHANGED <<bookVars, venueVars, sent, process, instruction, left>>

\* The order of an item is not in what the book answers (`_order_of` reads one
\* page): the item is passed over, decided on or not as it was, and one that
\* was held back is so no more.
Unfound(v) ==
    /\ Doing("next") /\ job.by \in {"start", "poll", "hear", "release"}
    /\ v \in job.todo /\ working[v.of] = None
    /\ v.state \in InFlight \/ (v.state = "queued" /\ v.of \notin decided /\ ~InForce)
    /\ Spend("unfound")
    /\ held' = IF job.by = "release" THEN held \ {v.of} ELSE held
    /\ job' = Done(v)
    /\ UNCHANGED <<bookVars, venueVars, sent, process, instruction, decided, working>>

\* The accounts are read, and one not reached is no account of the key's: a
\* read that went unanswered reaches none (`_reached`).  Where a read of the book
\* raises here the placement stays decided on (ReadFails).
Reach ==
    /\ Doing("reach")
    /\ \/ /\ job.of \notin Unsupported
          /\ job' = At("note", job.of)
          /\ UNCHANGED left
       \/ /\ job.of \in Unsupported
          /\ job' = At("unsupported", job.of)
          /\ UNCHANGED left
       \/ /\ Spend("accounts")
          /\ job' = At("unsupported", job.of)
    /\ UNCHANGED <<bookVars, venueVars, sent, process, memory>>

\* Slip: the note is not kept.
NoteUnwritten == sent' = sent

Noted == sent' = sent \cup {job.of}

\* `place_once`, up to its send: noted in storage first.
Note ==
    /\ Doing("note") /\ job.of \notin sent
    /\ Noted
    /\ job' = At("send", job.of)
    /\ UNCHANGED <<bookVars, venueVars, process, memory, left>>

\* The venue is asked to place: it answers its order or a refusal, or the
\* answer is lost, the order made or not.
Send ==
    LET p == job.of
        Made == /\ orders' = [orders EXCEPT ![p] = @ + 1]
                /\ status' = [status EXCEPT ![p] = "open"]
    IN  /\ Doing("send")
        /\ \/ /\ Made
              /\ working' = [working EXCEPT ![p] = Sending(TRUE)]
              /\ job' = [At("status", p) EXCEPT !.seen[p] = "open"]
              /\ UNCHANGED left
           \/ /\ job' = At("refused", p)
              /\ UNCHANGED <<orders, status, working, left>>
           \/ /\ Spend("unanswered")
              /\ Made \/ UNCHANGED <<orders, status>>
              /\ job' = At("unknown", p)
              /\ UNCHANGED working
        /\ UNCHANGED <<bookVars, told, sent, process, instruction, held, decided>>

-----------------------------------------------------------------------------
(* What is reported. *)

\* Slip: only a cancel that was sent is reported.
DueCancelSent(w, s) ==
    IF s = "odd" THEN IF w.unknown THEN "none" ELSE "odd"
    ELSE IF s = "rejected" /\ w.ended = "no" THEN "rejected"
    ELSE IF ~w.acknowledged \/ w.unknown THEN "working"
    ELSE IF s = "filled" /\ ~w.filled THEN "filled"
    ELSE IF s = "cancelled" /\ w.ended = "no" /\ w.cancel_sent THEN "cancelled"
    ELSE "none"

\* What the venue's record of an order says now and has not been reported
\* (`_report_status`): one fact at a time, in the code's order.
Due(w, s) ==
    IF s = "odd" THEN IF w.unknown THEN "none" ELSE "odd"
    ELSE IF s = "rejected" /\ w.ended = "no" THEN "rejected"
    ELSE IF ~w.acknowledged \/ w.unknown THEN "working"
    ELSE IF s = "filled" /\ ~w.filled THEN "filled"
    ELSE IF s = "cancelled" /\ w.ended = "no" THEN "cancelled"
    ELSE "none"

\* The fact about to be reported, and the state the book is in once it is.
Fact == IF job.at = "status" THEN Due(working[job.of], job.seen[job.of]) ELSE job.at

\* Slip: an unanswered send is reported rejected.
ReportedRejected ==
    CASE Fact \in {"refused", "unknown"} -> "rejected"
      [] Fact \in {"odd", "refusing", "fact"} -> book[job.of]
      [] OTHER -> Fact

Reported ==
    CASE Fact = "refused" -> "rejected"
      [] Fact = "unknown" -> IF book[job.of] = "queued" THEN "sent" ELSE book[job.of]
      [] Fact \in {"odd", "refusing", "fact"} -> book[job.of]
      [] OTHER -> Fact

Reporting ==
    /\ job # None
    /\ job.at \in {"unsupported", "refused", "unknown", "refusing", "fact", "status"}
    /\ Fact # "none"

\* What is marked before the report is made.
Marked ==
    LET w == working[job.of]
    IN  CASE job.at # "status" -> w
          [] job.at = "status" /\ Fact = "odd" -> [w EXCEPT !.unknown = TRUE]
          [] job.at = "status" /\ Fact \in {"rejected", "cancelled"} -> [w EXCEPT !.ended = Fact]
          [] job.at = "status" /\ Fact = "working" ->
                [w EXCEPT !.acknowledged = TRUE, !.unknown = FALSE]
          [] OTHER -> w

\* And what once it is.
Kept ==
    CASE Fact = "unknown" -> Sending(FALSE)
      [] Fact = "filled" -> [working[job.of] EXCEPT !.filled = TRUE]
      [] OTHER -> Marked

Recorded ==
    /\ asks' = asks
    /\ Write(job.of, Reported, job.of \in pending /\ Fact # "refusing")

Report ==
    /\ Reporting
    /\ Recorded
    /\ working' = [working EXCEPT ![job.of] = Kept]
    /\ job' = IF Fact \in {"working", "filled", "cancelled"} THEN job ELSE Over
    /\ UNCHANGED <<venueVars, sent, process, instruction, held, decided, left>>

\* The call failed, the book having recorded the fact or not.
ReportFails ==
    /\ Reporting
    /\ Spend("report")
    /\ Recorded \/ UNCHANGED bookVars
    /\ working' = [working EXCEPT ![job.of] = Marked]
    /\ job' = Raised
    /\ UNCHANGED <<venueVars, sent, process, instruction, held, decided>>

\* Nothing more to report of the order.
NothingDue ==
    /\ Doing("status") /\ Fact = "none"
    /\ working' = [working EXCEPT ![job.of].ended =
                        IF job.seen[job.of] = "filled" THEN "filled" ELSE @]
    /\ job' = Over
    /\ UNCHANGED <<bookVars, venueVars, sent, process, instruction, held, decided, left>>

-----------------------------------------------------------------------------
(* A cancel, at the venue (`_cancel`). *)

Cancel ==
    LET p == job.of
    IN  /\ Doing("cancel")
        /\ \/ /\ status[p] \in {"open", "odd"}
              /\ told' = told \cup {p}
              /\ job' = IF job.by = "stop" THEN At("fact", p) ELSE Over
              /\ UNCHANGED left
           \/ /\ IF status[p] \in {"open", "odd"} THEN Spend("refusal") ELSE UNCHANGED left
              /\ told' = IF job.by = "stop" THEN told \cup {p} ELSE told
              /\ job' = IF job.by = "stop" THEN Over ELSE At("refusing", p)
           \/ /\ Spend("unanswered")
              /\ told' \in {told, told \cup {p}}
              /\ job' = Over
        /\ UNCHANGED <<bookVars, status, orders, sent, process, memory>>

\* `_stop`, for one of those it is working.
StopOne(v) ==
    LET w == working[v.of]
    IN  /\ Doing("next") /\ job.by = "stop" /\ v \in job.todo
        /\ IF w.ended = "no" /\ ~w.cancel_sent /\ w.order
           THEN /\ working' = [working EXCEPT ![v.of].cancel_sent = TRUE]
                /\ job' = Taking(v, "cancel")
           ELSE job' = Done(v) /\ UNCHANGED working
        /\ UNCHANGED <<bookVars, venueVars, sent, process, instruction, held, decided, left>>

\* `_release_held`, for one of those held back.
ReleaseOne(v) ==
    /\ Doing("next") /\ job.by = "release" /\ v \in job.todo
    /\ IF book[v.of] = "queued"
       THEN OnQueued(v, held \ {v.of})
       ELSE /\ held' = held \ {v.of}
            /\ job' = Done(v)
            /\ UNCHANGED <<decided, working>>
    /\ UNCHANGED <<bookVars, venueVars, sent, process, instruction, left>>

-----------------------------------------------------------------------------
(* Hearing. *)

\* Handlers run one at a time, each delivery in its turn.
Heard == hearing /\ inbox # <<>> /\ phase = "started" /\ job = None

HearPlacement ==
    /\ Heard /\ Head(inbox).of # None
    /\ inbox' = Tail(inbox)
    /\ job' = Task("hear", "next", {Head(inbox)}, {})
    /\ UNCHANGED <<book, asks, pending, ruling, changed, venueVars, sent, process, memory, left>>

\* Slip: a stop cancels nothing.
CoveredNone(value) == IF value = "active" THEN held ELSE {}

\* Slip: nothing held back is released.
CoveredWorked(value) ==
    IF value = "stop" THEN {p \in Placements : working[p] # None} ELSE {}

Covered(value) ==
    CASE value = "stop" -> {p \in Placements : working[p] # None}
      [] value = "active" -> held
      [] value = "pause" -> {}

HearInstruction ==
    LET value == Head(inbox).state
    IN  /\ Heard /\ Head(inbox).of = None
        /\ inbox' = Tail(inbox)
        /\ instruction' = value
        /\ job' = CASE value = "stop" -> Task("stop", "next", {View(p) : p \in Covered(value)}, {})
                    [] value = "active" ->
                            Task("release", "next", {View(p) : p \in Covered(value)}, {})
                    [] value = "pause" -> None
        /\ UNCHANGED <<book, asks, pending, ruling, changed, venueVars, sent, process,
                       held, decided, working, left>>

\* What is heard before the book was read is the start's to find.
HearEarly ==
    /\ hearing /\ inbox # <<>> /\ phase = "starting"
    /\ inbox' = Tail(inbox)
    /\ UNCHANGED <<book, asks, pending, ruling, changed, venueVars, sent, process, memory,
                   job, left>>

OpenHearing ==
    /\ phase # "down" /\ ~hearing
    /\ hearing' = TRUE
    /\ UNCHANGED <<bookVars, venueVars, sent, phase, memory, job, left>>

-----------------------------------------------------------------------------
(* Starting, polling and the process. *)

Boot ==
    /\ phase = "down"
    /\ phase' = "starting"
    /\ UNCHANGED <<bookVars, venueVars, sent, hearing, memory, job, left>>

\* Slip: no instruction in force is read.
ListedNone == "active"

Listed == ruling

\* `start`: the instructions in force, then the book.
StartInstructions ==
    /\ phase = "starting" /\ job = None
    /\ instruction' = Listed
    /\ job' = Task("start", "reading", {}, {})
    /\ UNCHANGED <<bookVars, venueVars, sent, process, held, decided, working, left>>

StartBook ==
    /\ Doing("reading")
    /\ job' = Task("start", "next", {View(p) : p \in {q \in Placements : book[q] # "absent"}}, {})
    /\ changed' = {}
    /\ UNCHANGED <<book, asks, pending, ruling, inbox, venueVars, sent, process, memory, left>>

\* `poll`: what changed in the book since the watermark, then the orders.
Poll ==
    /\ phase = "started" /\ job = None
    /\ job' = Task("poll", "next", {View(p) : p \in changed}, changed)
    /\ changed' = {}
    /\ UNCHANGED <<book, asks, pending, ruling, inbox, venueVars, sent, process, memory, left>>

ReadOrders ==
    /\ Doing("next") /\ job.by = "poll" /\ job.todo = {}
    /\ \/ /\ job' = [Task("read", "next",
                          {View(p) : p \in {q \in Placements : working[q] # None}}, {})
                     EXCEPT !.seen = status]
          /\ UNCHANGED left
       \/ /\ Spend("orders")
          /\ job' = None
    /\ UNCHANGED <<bookVars, venueVars, sent, process, memory>>

\* `_read_orders`, for one of those worked: found by its tag where its send was
\* never answered.
ReadOrder(v) ==
    LET w == working[v.of]
    IN  /\ Doing("next") /\ job.by = "read" /\ v \in job.todo
        /\ IF w.ended # "no" \/ ~(w.order \/ w.unanswered) \/ job.seen[v.of] = "none"
           THEN job' = Done(v) /\ UNCHANGED working
           ELSE /\ job' = Taking(v, "status")
                /\ working' = [working EXCEPT ![v.of].order = TRUE, ![v.of].unanswered = FALSE]
        /\ UNCHANGED <<bookVars, venueVars, sent, process, instruction, held, decided, left>>

Finish ==
    /\ Doing("next") /\ job.by # "poll" /\ job.todo = {}
    /\ job' = None
    /\ phase' = IF job.by = "start" THEN "started" ELSE phase
    /\ UNCHANGED <<bookVars, venueVars, sent, hearing, memory, left>>

\* A read of the book raised: as it starts, of what an item needs, or of what
\* a placement decided on needs.
ReadFails ==
    /\ \/ Doing("reading") \/ Doing("reach")
       \/ Doing("next") /\ job.by # "read" /\ job.todo # {}
    /\ Spend("read")
    /\ job' = Raised
    /\ IF Doing("next") /\ job.by = "release"
       THEN \E v \in job.todo : held' = held \ {v.of}
       ELSE held' = held
    /\ UNCHANGED <<bookVars, venueVars, sent, process, instruction, decided, working>>

\* The process dies, or is stopped, wherever it is: what is in storage stays.
Crash ==
    /\ phase # "down"
    /\ Spend("crash")
    /\ phase' = "down" /\ hearing' = FALSE /\ inbox' = <<>>
    /\ instruction' = "active" /\ held' = {} /\ decided' = {}
    /\ working' = [p \in Placements |-> None]
    /\ job' = None
    /\ UNCHANGED <<book, asks, pending, ruling, changed, venueVars, sent>>

-----------------------------------------------------------------------------

Init ==
    /\ book = [p \in Placements |-> "absent"]
    /\ asks = [p \in Placements |-> 0]
    /\ pending = {} /\ ruling = "active"
    /\ status = [p \in Placements |-> "none"]
    /\ orders = [p \in Placements |-> 0]
    /\ told = {} /\ sent = {}
    /\ phase = "down" /\ hearing = FALSE /\ inbox = <<>> /\ changed = {}
    /\ instruction = "active" /\ held = {} /\ decided = {}
    /\ working = [p \in Placements |-> None]
    /\ job = None
    /\ left \in Budgets

Items == IF job = None THEN {} ELSE job.todo

\* What the plugin does of itself at its place in the work.
Works ==
    \/ GiveUp \/ Reach \/ Note \/ Send \/ Report \/ NothingDue \/ Cancel
    \/ StartBook \/ ReadOrders \/ Finish
    \/ \E v \in Items : Resume(v) \/ StopOne(v) \/ ReleaseOne(v) \/ ReadOrder(v)

Hears == HearPlacement \/ HearInstruction \/ HearEarly

Next ==
    \/ \E p \in Placements : Place(p) \/ AskCancel(p) \/ Moves(p)
    \/ \E value \in Rulings : Rule(value)
    \/ Works \/ Hears \/ OpenHearing
    \/ Boot \/ StartInstructions \/ Poll
    \/ ReportFails \/ ReadFails \/ (\E v \in Items : Unfound(v)) \/ Crash

Spec == Init /\ [][Next]_vars

\* The plugin's tasks all run, the lock is handed on in the order it is waited
\* for, the process is started again, and the venue ends what it was told to.
Cancels(p) == p \in told /\ Moves(p) /\ status'[p] \notin {"open", "odd"}

Fairness ==
    /\ WF_vars(Works) /\ WF_vars(OpenHearing)
    /\ WF_vars(Boot) /\ WF_vars(StartInstructions)
    /\ SF_vars(Hears) /\ SF_vars(Poll)
    /\ \A p \in Placements : SF_vars(Cancels(p))

FairSpec == Spec /\ Fairness

-----------------------------------------------------------------------------

\* What each variable may hold; a placement worked has its order known or
\* looked for, never neither (`Worked`).
TypeOK ==
    /\ book \in [Placements -> BookStates]
    /\ asks \in [Placements -> Nat]
    /\ pending \subseteq Placements /\ ruling \in Rulings
    /\ status \in [Placements -> Statuses]
    /\ orders \in [Placements -> Nat]
    /\ told \subseteq Placements /\ sent \subseteq Placements
    /\ phase \in {"down", "starting", "started"} /\ hearing \in BOOLEAN
    /\ inbox \in Seq(Views) /\ changed \subseteq Placements
    /\ instruction \in Rulings
    /\ held \subseteq Placements /\ decided \subseteq Placements
    /\ working \in [Placements -> Worked \cup {None}]
    /\ job \in Jobs \cup {None}
    /\ left \in [Mishaps -> Nat]

\* A placement is never sent twice, whatever crashes, calls unanswered and
\* reports that fail come between (_bookkeeping.py: "No double send").
NoDoubleSend == \A p \in Placements : orders[p] <= 1

\* What is promised of each placement (Placing.tla).
Promise == INSTANCE Placing
KeepsPromise == Promise!Spec

\* Under a pause or a stop it holds it sends nothing new.
NothingNewUnderHold ==
    [][\A p \in Placements : orders'[p] > orders[p] => instruction = "active"]_vars

Idle == phase = "started" /\ job = None
InstructionsHeard ==
    hearing /\ \A i \in 1..Len(inbox) : inbox[i].of # None

\* What was sent and has not ended in the book is worked: its order is looked
\* for at each poll (_bookkeeping.py: "one the book still holds queued after a
\* restart is asked about, never sent again").
SentIsWatched ==
    Idle => \A p \in sent : book[p] \in Ended \/ working[p] # None

\* Under a stop, every order the plugin knows the venue works was told to
\* cancel (_trader.py: "A stop cancels at the venue at once every placement it
\* is working that the stop covers").
StopCancels ==
    Idle /\ InstructionsHeard /\ instruction = "stop" =>
        \A p \in Placements :
            /\ status[p] \in {"open", "odd"}
            /\ working[p] # None /\ working[p].order
            => p \in told

\* The instruction held is the one in force, once what was delivered is heard.
InstructionIsKnown == Idle /\ InstructionsHeard => instruction = ruling

\* A placement rejected as unsupported is one that is.
RejectedIsUnsupported == \A p \in Placements : book[p] = "unsupported" => p \in Unsupported

\* What became of an order at the venue reaches the book.
EndIsReported ==
    \A p \in Placements :
        status[p] \in {"filled", "cancelled", "rejected"} ~> book[p] \in Ended

\* A placement queued for good with trading active is sent or answered.
QueuedIsTaken ==
    \A p \in Placements :
        (book[p] = "queued" /\ p \notin sent) ~> (book[p] # "queued" \/ p \in sent \/ ruling # "active")

\* A cancel asked for of an order the book holds working is answered, the
\* process dying or not in between.
CancelIsAnswered ==
    \A p \in Placements : (p \in pending /\ book[p] = "working") ~> p \notin pending

=============================================================================
