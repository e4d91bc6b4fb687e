--------------------------------- MODULE Fills ---------------------------------
(***************************************************************************)
(* The fills of one placement a connectivity plugin works                  *)
(* (roles/connectivity/_trader.py, `_report_status`, `_fills`, `_busts`,   *)
(* `_replaced`; _bookkeeping.py, `execution_id` and `filled_in_book`): how *)
(* what the venue's orders state filled, polled and streamed, comes to be  *)
(* executions in the book, over orders replaced, fills taken back and a    *)
(* process that dies.                                                      *)
(*                                                                         *)
(* The placement is acknowledged.  Prices, dates and the symbol are left   *)
(* out but for whether a settlement date is known.  The venue's orders for *)
(* the placement are numbered as each replaces the one before; a venue     *)
(* that changes an order in place, and one that states a fill without a    *)
(* price, are left out.                                                    *)
(***************************************************************************)
EXTENDS Naturals, Sequences, FiniteSets, FiniteSetsExt, Functions

CONSTANTS
    Orders,      \* how many orders the placement may come to have at the venue
    Quantity,    \* what the placement asks for
    EndedPolls,  \* ENDED_POLLS: how often a filled order is still read
    MaxUpdates,  \* bound: updates streamed and not yet handled
    None,        \* nothing
    Budgets      \* bounds, mishap -> how often: those that may come together

\* What may go wrong or be asked, each a bounded number of times: the process
\* dying; a report refused, or recorded with its answer lost; a settlement date
\* not known yet; fills taken back while the order works, or late, once it has
\* filled; a replace asked for, and not answered; a replace of the venue's own.
Mishaps == {"crash", "report", "lost", "date", "taken", "late", "replace", "unanswered", "restate"}

ASSUME FillsAssumption ==
    /\ Orders \in Nat \ {0} /\ Quantity \in Nat \ {0}
    /\ EndedPolls \in Nat /\ MaxUpdates \in Nat
    /\ Budgets \subseteq [Mishaps -> Nat]

Numbers == 1..Orders
Amounts == 0..Quantity

\* An order as the venue states it; `at` counts its changes (`updated_at`).
States == {"none", "open", "replaced", "cancelled", "filled"}
Records == [status : States, filled : Amounts, at : Nat]
Absent == [status |-> "none", filled |-> 0, at |-> 0]

\* An execution's ID is its order and the quantity it brought it to.
Ids == Numbers \X Amounts
Executions == [id : Ids, quantity : Amounts]

\* `Worked`, the fills it reported since this process began as `fills`.
Worked ==
    [order : Numbers, filled : Amounts, carried : Amounts,
     fills : SUBSET [id : Ids, cumulative : Amounts], ended : {"no", "cancelled", "filled"},
     seen : Nat, replacing : BOOLEAN, endedPolls : 0..EndedPolls]

\* A record in hand: of the order `of`, beside the others where it was `listed`
\* with them; `filled` is what it says of the placement, `over` whether a
\* replace is all there is to report.
Jobs ==
    [at : {"status", "fills", "end", "replaced", "cancelled"}, of : Numbers,
     orders : [Numbers -> Records], listed : BOOLEAN, filled : Nat, over : BOOLEAN]

ASSUME NoneAssumption == None \notin Worked /\ None \notin Jobs

VARIABLES
    venue,       \* order -> its record
    updates,     \* trade updates streamed and not yet handled
    executions,  \* the executions in the book
    busted,      \* the IDs of those busted there
    end,         \* how the book has the placement ended
    booked,      \* the venue order the book names
    worked,      \* what the plugin keeps, or None
    job,         \* the record it has in hand, or None
    peak,        \* the most the venue ever stated filled
    taken,       \* the IDs the venue took back
    left         \* what remains of each bound

venueVars == <<venue, updates, peak, taken>>
bookVars == <<executions, busted, end, booked>>
vars == <<venue, updates, executions, busted, end, booked, worked, job, peak, taken, left>>

Spend(m) ==
    /\ left[m] > 0
    /\ left' = [left EXCEPT ![m] = @ - 1]

-----------------------------------------------------------------------------
(* The venue. *)

Total(orders) == SumFunctionOnSet([o \in Numbers |-> orders[o].filled], Numbers)
Made == {o \in Numbers : venue[o].status # "none"}
Current == Max(Made)

\* A change of the order is streamed, or not.
Streams(o) ==
    \/ updates' = updates
    \/ /\ Len(updates) < MaxUpdates
       /\ updates' = Append(updates, [of |-> o, record |-> venue'[o]])

Restated(o, status, filled) ==
    venue' = [venue EXCEPT ![o] = [status |-> status, filled |-> filled, at |-> @.at + 1]]

FillsAtVenue ==
    \E n \in 1..Quantity :
        LET o == Current
        IN  /\ venue[o].status = "open" /\ Total(venue) + n <= Quantity
            /\ \/ Total(venue) + n < Quantity /\ Restated(o, "open", venue[o].filled + n)
               \/ Total(venue) + n = Quantity /\ Restated(o, "filled", venue[o].filled + n)
            /\ peak' = Max({peak, Total(venue')})
            /\ Streams(o)
            /\ UNCHANGED <<taken, bookVars, worked, job, left>>

\* Fills taken back: while the order works, or late.
TakesBack ==
    LET o == Current
    IN  /\ venue[o].filled > 0
        /\ \/ venue[o].status = "open" /\ Spend("taken")
           \/ venue[o].status = "filled" /\ Spend("late")
        /\ Restated(o, venue[o].status, venue[o].filled - 1)
        /\ taken' = taken \cup {<<o, venue[o].filled>>}
        /\ Streams(o)
        /\ UNCHANGED <<peak, bookVars, worked, job>>

CancelsAtVenue ==
    LET o == Current
    IN  /\ venue[o].status = "open"
        /\ Restated(o, "cancelled", venue[o].filled)
        /\ Streams(o)
        /\ UNCHANGED <<peak, taken, bookVars, worked, job, left>>

\* The order `o` is replaced by the next.
Replaces(o) ==
    /\ o + 1 \in Numbers /\ venue[o].status = "open"
    /\ venue' = [venue EXCEPT ![o].status = "replaced", ![o].at = @ + 1,
                              ![o + 1] = [status |-> "open", filled |-> 0, at |-> 1]]

\* The venue replaces it on its own (a corporate action, say).
ReplacesItself ==
    /\ Spend("restate")
    /\ Replaces(Current)
    /\ Streams(Current)
    /\ UNCHANGED <<peak, taken, bookVars, worked, job>>

-----------------------------------------------------------------------------
(* The book. *)

InBook == {e \in executions : e.id \notin busted}
Amount(held) == SumFunctionOnSet([e \in Executions |-> e.quantity], held)
BookFilled == Amount(InBook)

\* What the book holds filled by orders other than `o` (`filled_in_book`).
FilledBesides(o) == Amount({e \in InBook : e.id[1] # o})

BookWorks == end = "no" /\ BookFilled < Quantity

-----------------------------------------------------------------------------
(* The plugin: a record of the venue's, reported as facts. *)

Hand(at, o, orders, listed, over) ==
    [at |-> at, of |-> o, orders |-> orders, listed |-> listed, filled |-> 0, over |-> over]

Doing(point) == job # None /\ job.at = point

Record == job.orders[job.of]

\* Slip: older news is read as news.
AnyNews == TRUE

\* Slip: what was read once is not read again.
NewerNews == Record.at > worked.seen

\* What is older than the order was last read is passed over.
News == Record.at >= worked.seen

\* What the record says is filled: of this order, and those it replaced.
Filled == worked.carried + Record.filled

\* `_report_status`, up to its fills.
Judge ==
    /\ Doing("status")
    /\ IF News
       THEN /\ worked' = [worked EXCEPT !.seen = Record.at]
            /\ job' = [job EXCEPT !.at = "fills", !.filled = Filled]
       ELSE worked' = worked /\ job' = None
    /\ UNCHANGED <<venueVars, bookVars, left>>

\* The reported fills beyond what is now stated (`_busts`).
Doomed == {f \in worked.fills : f.cumulative > job.filled}

\* A fill taken back is busted in the book, the last first.
Bust ==
    /\ Doing("fills") /\ job.filled < worked.filled
    /\ \E f \in Doomed :
        /\ \A g \in Doomed : g.cumulative <= f.cumulative
        /\ \/ /\ busted' = busted \cup {f.id}
              /\ worked' = [worked EXCEPT !.fills = @ \ {f}]
              /\ UNCHANGED <<job, left>>
           \/ /\ \/ Spend("report") /\ UNCHANGED busted
                 \/ Spend("lost") /\ busted' = busted \cup {f.id}
              /\ job' = None
              /\ UNCHANGED worked
    /\ UNCHANGED <<venueVars, executions, end, booked>>

\* And what is left is what it has reported.
Busted ==
    LET stays == Max({f.cumulative : f \in worked.fills} \cup {0})
    IN  /\ Doing("fills") /\ job.filled < worked.filled /\ Doomed = {}
        /\ worked' = [worked EXCEPT !.filled = stays, !.carried = Min({@, stays})]
        /\ job' = [job EXCEPT !.at = IF job.filled > stays THEN "fills" ELSE "end"]
        /\ UNCHANGED <<venueVars, bookVars, left>>

\* The execution of what was filled since the last.
Grown == [id |-> <<worked.order, Record.filled>>, quantity |-> job.filled - worked.filled]

\* A key used again is answered as it first was, and applies nothing.
Used == \E e \in executions : e.id = Grown.id
Recorded == executions' = IF Used THEN executions ELSE executions \cup {Grown}
Conflicts == Used /\ Grown \notin executions

Execute ==
    /\ Doing("fills") /\ job.filled > worked.filled
    /\ \/ /\ ~Conflicts
          /\ Recorded
          /\ worked' = [worked EXCEPT !.filled = job.filled,
                            !.fills = @ \cup {[id |-> Grown.id, cumulative |-> job.filled]}]
          /\ job' = [job EXCEPT !.at = "end"]
          /\ UNCHANGED left
       \/ /\ Conflicts
          /\ job' = None
          /\ UNCHANGED <<executions, worked, left>>
       \/ /\ Spend("report")
          /\ job' = None
          /\ UNCHANGED <<executions, worked>>
       \/ /\ Spend("lost")
          /\ ~Conflicts
          /\ Recorded
          /\ job' = None
          /\ UNCHANGED worked
    /\ UNCHANGED <<venueVars, busted, end, booked>>

\* No settlement date yet: the fill waits, and what follows it does not.
Waits ==
    /\ Doing("fills") /\ job.filled > worked.filled
    /\ Spend("date")
    /\ job' = [job EXCEPT !.at = "end"]
    /\ UNCHANGED <<venueVars, bookVars, worked>>

NoneGrown ==
    /\ Doing("fills") /\ job.filled = worked.filled
    /\ job' = [job EXCEPT !.at = "end"]
    /\ UNCHANGED <<venueVars, bookVars, worked, left>>

\* After the fills: how the order stands.
Stands ==
    LET s == Record.status
    IN  /\ Doing("end")
        /\ \/ /\ s = "replaced" /\ job.listed
              /\ job' = [job EXCEPT !.at = "replaced", !.of = @ + 1]
              /\ UNCHANGED worked
           \/ /\ s = "cancelled" /\ worked.ended = "no"
              /\ worked' = [worked EXCEPT !.ended = "cancelled"]
              /\ job' = [job EXCEPT !.at = "cancelled"]
           \/ /\ s = "filled"
              /\ worked' = [worked EXCEPT !.ended = "filled"]
              /\ job' = None
           \/ /\ \/ s = "open"
                 \/ s = "replaced" /\ ~job.listed
                 \/ s = "cancelled" /\ worked.ended # "no"
              /\ job' = None
              /\ UNCHANGED worked
        /\ UNCHANGED <<venueVars, bookVars, left>>

Cancelled ==
    /\ Doing("cancelled")
    /\ \/ end' = "cancelled" /\ UNCHANGED left
       \/ Spend("report") /\ UNCHANGED end
    /\ job' = None
    /\ UNCHANGED <<venueVars, executions, busted, booked, worked>>

\* Slip: the fills of the order before are left behind.
MovedAfresh(o) ==
    [worked EXCEPT !.order = o, !.carried = 0, !.seen = 0, !.replacing = FALSE]

\* The placement's new order, the old one's fills carried.
Moved(o) ==
    [worked EXCEPT !.order = o, !.carried = worked.filled, !.seen = 0, !.replacing = FALSE]

\* `_replaced`: the new order followed, and the book told.
Replaced ==
    /\ Doing("replaced")
    /\ worked' = Moved(job.of)
    /\ \/ /\ booked' = job.of
          /\ job' = IF job.over THEN None ELSE [job EXCEPT !.at = "status"]
          /\ UNCHANGED left
       \/ /\ Spend("report")
          /\ job' = None
          /\ UNCHANGED booked
    /\ UNCHANGED <<venueVars, executions, busted, end>>

-----------------------------------------------------------------------------
(* What it hears and reads. *)

\* An order filled is still read for so many polls.
PollsStill(polls) == polls <= EndedPolls

\* The orders are read: this one unless it has ended, one filled for a while.
Poll ==
    LET polls == IF worked.ended = "no" THEN 0 ELSE worked.endedPolls + 1
    IN  /\ worked # None /\ job = None
        /\ worked.ended \in {"no", "filled"} /\ PollsStill(polls)
        /\ worked' = [worked EXCEPT !.endedPolls = polls]
        /\ job' = Hand("status", worked.order, venue, TRUE, FALSE)
        /\ UNCHANGED <<venueVars, bookVars, left>>

\* An update of the order, of one that replaces it where that is waited for,
\* or of another, passed over.
HearUpdate ==
    /\ worked # None /\ job = None /\ updates # <<>>
    /\ LET o == Head(updates).of
           orders == [venue EXCEPT ![o] = Head(updates).record]
       IN  job' = IF o = worked.order THEN Hand("status", o, orders, FALSE, FALSE)
                  ELSE IF o = worked.order + 1 /\ worked.replacing
                  THEN Hand("replaced", o, orders, FALSE, FALSE)
                  ELSE None
    /\ updates' = Tail(updates)
    /\ UNCHANGED <<venue, peak, taken, bookVars, worked, left>>

\* A replace its ems asks for: answered with a new order, refused, or not
\* answered, the order replaced or not.
Replace ==
    LET o == worked.order
    IN  /\ worked # None /\ job = None /\ worked.ended = "no"
        /\ Spend("replace")
        /\ \/ /\ Replaces(o)
              /\ job' = Hand("replaced", o + 1, venue', FALSE, TRUE)
              /\ UNCHANGED worked
           \/ UNCHANGED <<venue, job, worked>>
        /\ UNCHANGED <<updates, peak, taken, bookVars>>

ReplaceUnanswered ==
    LET o == worked.order
    IN  /\ worked # None /\ job = None /\ worked.ended = "no"
        /\ Spend("unanswered")
        /\ Replaces(o) \/ UNCHANGED venue
        /\ worked' = [worked EXCEPT !.replacing = TRUE]
        /\ UNCHANGED <<updates, peak, taken, bookVars, job>>

\* The process dies; started again, it works what the book holds working, from
\* what the book holds filled (`_resume`).
Crash ==
    /\ worked # None /\ Spend("crash")
    /\ worked' = None /\ job' = None /\ updates' = <<>>
    /\ UNCHANGED <<venue, peak, taken, bookVars>>

Fresh(o, filled, carried) ==
    [order |-> o, filled |-> filled, carried |-> carried, fills |-> {}, ended |-> "no",
     seen |-> 0, replacing |-> FALSE, endedPolls |-> 0]

\* Slip: nothing is taken from the book.
WorkedAfresh == Fresh(booked, 0, 0)

WorkedAgain == Fresh(booked, BookFilled, FilledBesides(booked))

Resume ==
    /\ worked = None /\ BookWorks
    /\ worked' = WorkedAgain
    /\ UNCHANGED <<venueVars, bookVars, job, left>>

-----------------------------------------------------------------------------

Init ==
    /\ venue = [o \in Numbers |-> IF o = 1 THEN [Absent EXCEPT !.status = "open"] ELSE Absent]
    /\ updates = <<>> /\ executions = {} /\ busted = {} /\ end = "no" /\ booked = 1
    /\ worked = Fresh(1, 0, 0) /\ job = None
    /\ peak = 0 /\ taken = {} /\ left \in Budgets

Reports ==
    Judge \/ Bust \/ Busted \/ Execute \/ Waits \/ NoneGrown \/ Stands \/ Cancelled \/ Replaced

Next ==
    \/ FillsAtVenue \/ TakesBack \/ CancelsAtVenue \/ ReplacesItself
    \/ Reports \/ Poll \/ HearUpdate \/ Replace \/ ReplaceUnanswered \/ Crash \/ Resume

Spec == Init /\ [][Next]_vars

\* The plugin polls, hands on what it hears, and is started again.
FairSpec == Spec /\ WF_vars(Reports) /\ SF_vars(Poll) /\ SF_vars(HearUpdate) /\ WF_vars(Resume)

-----------------------------------------------------------------------------

\* What each variable may hold: no order filled past the placement's quantity,
\* and no order read once it has been filled for ENDED_POLLS polls.
TypeOK ==
    /\ venue \in [Numbers -> Records] /\ updates \in Seq([of : Numbers, record : Records])
    /\ executions \subseteq Executions /\ busted \subseteq Ids
    /\ end \in {"no", "cancelled"} /\ booked \in Numbers
    /\ worked \in Worked \cup {None} /\ job \in Jobs \cup {None}
    /\ job # None => worked # None
    /\ peak \in Amounts /\ taken \subseteq Ids /\ left \in [Mishaps -> Nat]

\* The book never holds more filled than the venue ever stated.
NeverOver == BookFilled <= peak

\* A fill busted is one the venue took back: never one an older update left out.
BustIsTaken == busted \subseteq taken

\* A placement the book has ended holds every fill its orders had.
EndIsWhole == end # "no" => BookFilled = Total(venue)

\* Whatever replaces of the venue's own, failed reports and restarts come
\* between, the book comes to hold what the venue states filled.
FillsReachBook == <>[](BookFilled = Total(venue))

=============================================================================
