--------------------------------- MODULE Views ----------------------------------
(***************************************************************************)
(* A view of one selector a plugin keeps (views.py, `_Views`, `_Shared`):  *)
(* shared by its readers, dropped a while after the last of them leaves,   *)
(* read from the store and kept current by deliveries, which come on the   *)
(* views' own stream (`_hear`) or on that of the plugin's roles (`follow`  *)
(* in receive.py), whichever the sidecar put the subscription on.          *)
(*                                                                         *)
(* A row is known by the number of its last change, in one partition.  The *)
(* lock is held from one step to another only while a view is first        *)
(* opened.  What pages are sent (`_flush`, `events`) is left out, and so   *)
(* are trades, which are not read.                                         *)
(***************************************************************************)
EXTENDS Naturals, Sequences, FiniteSets, FiniteSetsExt

CONSTANTS
    Readers,    \* the plugin's pages that may hold the view
    Pages,      \* what of the selector's keys each call of a read answers
    None,       \* nothing
    MaxViews,   \* bound: how often the view is made
    MaxLog,     \* bound: changes the store makes
    QuietOpens, \* whether nothing changes or fails while a view is first read
    Budgets     \* bounds, mishap -> how often: those that may come together

Streams == {"own", "role"}
Keys == UNION Pages
Made == 1 .. MaxViews

\* What may happen, each a bounded number of times: a stream breaking, a
\* delivery on it lost and told of, a call failing.
Mishaps == {<<"break", s>> : s \in Streams} \cup {<<"lost", s>> : s \in Streams} \cup {<<"call", "fails">>}

Numbers == 0 .. MaxLog

\* A view (`_Shared`): `reading` is FALSE where `ready` is set.
Shared ==
    [rows : [Keys -> Numbers], watermark : Numbers, ready : BOOLEAN, held : Seq(Numbers),
     readers : Nat, lingering : BOOLEAN]

\* A read of a view under way: whether it is to be subscribed first, the pages
\* not answered yet, and what those answered say.
Jobs ==
    [view : Made, at : {"stream", "subscribe", "pages"}, pages : SUBSET Pages,
     rows : [Keys -> Numbers], watermark : Numbers]

ASSUME ViewsAssumption ==
    /\ Pages # {} /\ \A p, q \in Pages : p # q => p \cap q = {}
    /\ IsFiniteSet(Readers)
    /\ None \notin Streams /\ None \notin Nat /\ None \notin Readers /\ None \notin Jobs
    /\ MaxViews \in Nat \ {0} /\ MaxLog \in Nat /\ QuietOpens \in BOOLEAN
    /\ Budgets \subseteq [Mishaps -> Nat]

VARIABLES
    log,        \* the store's changes: of which key, numbered from 1
    on,         \* view -> the stream its subscription is on at the sidecar, or None
    up,         \* stream -> whether the sidecar still sends on it
    queue,      \* stream -> what was sent and not taken: [number, views], or Lost
    phase,      \* stream -> none, closed, reopened, hearing
    again,      \* stream -> whether it was open before
    rereads,    \* stream -> the views it has yet to read again
    job,        \* who reads -> the read under way, or None
    made,       \* how many views were made
    bySelector, \* the view found by its selector, or None
    byId,       \* those deliveries find (`by_id`)
    shared,     \* view -> its copy
    leaving,    \* those dropped and not yet unsubscribed
    reader,     \* reader -> away, opens, waits, reads
    of,         \* reader -> the view it was given, or None
    left        \* what remains of each bound

sidecarVars == <<log, on, up, queue>>
streamVars == <<phase, again, rereads>>
tableVars == <<made, bySelector, byId>>
readerVars == <<reader, of>>
vars == <<log, on, up, queue, phase, again, rereads, job, made, bySelector, byId, shared,
          leaving, reader, of, left>>

Spend(m) ==
    /\ left[m] > 0
    /\ left' = [left EXCEPT ![m] = @ - 1]

\* The lock is held while a view is first opened.
Opening == job["first"] # None
Undisturbed == QuietOpens /\ Opening => job["first"].at # "pages"

Lost == [number |-> 0, views |-> {}]

-----------------------------------------------------------------------------
(* The store and the sidecar. *)

Latest(k) == Max({0} \cup {i \in 1 .. Len(log) : log[i] = k})

\* A change, delivered on each stream to the subscriptions there, or lost on
\* one of them and told of.
Change(k) ==
    LET Named(s) == {v \in Made : on[v] = s}
        Sent(s) == IF up[s] /\ Named(s) # {}
                   THEN Append(queue[s], [number |-> Len(log) + 1, views |-> Named(s)]) ELSE queue[s]
    IN  /\ Len(log) < MaxLog /\ Undisturbed
        /\ log' = Append(log, k)
        /\ \/ queue' = [s \in Streams |-> Sent(s)] /\ UNCHANGED left
           \/ \E s \in Streams :
                /\ up[s] /\ Named(s) # {} /\ Spend(<<"lost", s>>)
                /\ queue' = [t \in Streams |-> IF t = s THEN Append(queue[s], Lost) ELSE Sent(t)]
        /\ UNCHANGED <<on, up, streamVars, job, tableVars, shared, leaving, readerVars>>

\* A stream breaks: the subscriptions on it are dropped, and what had not
\* reached the plugin is gone.
Break(s) ==
    /\ up[s] /\ Undisturbed /\ Spend(<<"break", s>>)
    /\ up' = [up EXCEPT ![s] = FALSE]
    /\ on' = [v \in Made |-> IF on[v] = s THEN None ELSE on[v]]
    /\ \E n \in 0 .. Len(queue[s]) : queue' = [queue EXCEPT ![s] = SubSeq(@, 1, n)]
    /\ UNCHANGED <<log, streamVars, job, tableVars, shared, leaving, readerVars>>

-----------------------------------------------------------------------------
(* A view's read. *)

Unread == [k \in Keys |-> 0]

Reading(v, at) == [view |-> v, at |-> at, pages |-> Pages, rows |-> Unread, watermark |-> 0]

\* The stream a view is first opened for is open (`_ensure_stream`).
StreamOpen ==
    /\ Opening /\ job["first"].at = "stream" /\ again["own"]
    /\ job' = [job EXCEPT !["first"].at = "subscribe"]
    /\ UNCHANGED <<sidecarVars, streamVars, tableVars, shared, leaving, readerVars, left>>

\* The subscription is put on a stream that is open; while it is, what is
\* delivered to a view in the table is held.
Subscribe(by) ==
    /\ job[by] # None /\ job[by].at = "subscribe"
    /\ \E s \in {t \in Streams : up[t]} : on' = [on EXCEPT ![job[by].view] = s]
    /\ job' = [job EXCEPT ![by].at = "pages"]
    /\ UNCHANGED <<log, up, queue, streamVars, tableVars, shared, leaving, readerVars, left>>

\* A page answered, as of now; the watermark is the highest any was answered at.
Answer(by) ==
    /\ job[by] # None /\ job[by].at = "pages"
    /\ \E page \in job[by].pages :
          job' = [job EXCEPT ![by].pages = @ \ {page},
                             ![by].rows = [k \in Keys |-> IF k \in page THEN Latest(k) ELSE @[k]],
                             ![by].watermark = Len(log)]
    /\ UNCHANGED <<sidecarVars, streamVars, tableVars, shared, leaving, readerVars, left>>

\* Slip: one the snapshot had already is applied as well.
AppliedAnyway(rows, number, watermark) == [rows EXCEPT ![log[number]] = number]

\* One delivery above the watermark applied (`_apply`).
Applied(rows, number, watermark) ==
    IF number > watermark THEN [rows EXCEPT ![log[number]] = number] ELSE rows

\* Slip: what was held meanwhile is let go.
AfterNone(rows, held, watermark) == rows

\* And those held, in the order they came.
After(rows, held, watermark) ==
    [k \in Keys |->
        LET heard == {i \in 1 .. Len(held) : held[i] > watermark /\ log[held[i]] = k}
        IN  IF heard = {} THEN rows[k] ELSE held[Max(heard)]]

\* The subscription finds no stream to be put on.
Homeless(by) == job[by].at = "subscribe" /\ \A s \in Streams : ~up[s]

\* A call of the read failed.
Unanswered(by) == Spend(<<"call", "fails">>) \/ (Homeless(by) /\ UNCHANGED left)

Whole(by) == job[by] # None /\ job[by].at = "pages" /\ job[by].pages = {}

\* Slip: its readers are not told.
FreshUnready(j) ==
    LET v == shared[j.view]
    IN  [v EXCEPT !.rows = After(j.rows, v.held, j.watermark),
                  !.watermark = j.watermark, !.held = <<>>]

\* `_read`, once its snapshot is there: the rows replaced, and what was held
\* meanwhile applied.
Fresh(j) ==
    LET v == shared[j.view]
    IN  [v EXCEPT !.rows = After(j.rows, v.held, j.watermark),
                  !.watermark = j.watermark, !.ready = TRUE, !.held = <<>>]

-----------------------------------------------------------------------------
(* Readers. *)

Blank ==
    [rows |-> Unread, watermark |-> 0, ready |-> FALSE, held |-> <<>>,
     readers |-> 0, lingering |-> FALSE]

\* Slip: one that finds the view there is not counted.
JoinedUncounted(v) == [v EXCEPT !.lingering = FALSE]

\* A reader more, and nothing lingers.
Joined(v) == [v EXCEPT !.readers = @ + 1, !.lingering = FALSE]

\* `subscribe`: the view there is, or a new one opened under the lock.
Ask(r) ==
    /\ reader[r] = "away" /\ ~Opening
    /\ \/ /\ bySelector # None
          /\ shared' = [shared EXCEPT ![bySelector] = Joined(@)]
          /\ reader' = [reader EXCEPT ![r] = "waits"] /\ of' = [of EXCEPT ![r] = bySelector]
          /\ UNCHANGED <<phase, job, made>>
       \/ /\ bySelector = None /\ made < MaxViews
          /\ made' = made + 1
          /\ job' = [job EXCEPT !["first"] = Reading(made', "stream")]
          /\ reader' = [reader EXCEPT ![r] = "opens"]
          /\ phase' = [phase EXCEPT !["own"] = IF @ = "none" THEN "closed" ELSE @]
          /\ UNCHANGED <<shared, of>>
    /\ UNCHANGED <<sidecarVars, again, rereads, bySelector, byId, leaving, left>>

\* The view opened, it is put where readers and deliveries find it.
Opened ==
    LET v == job["first"].view
    IN  /\ Whole("first")
        /\ shared' = [shared EXCEPT ![v] = [Fresh(job["first"]) EXCEPT !.readers = 1]]
        /\ bySelector' = v /\ byId' = byId \cup {v}
        /\ job' = [job EXCEPT !["first"] = None]
        /\ reader' = [r \in Readers |-> IF reader[r] = "opens" THEN "reads" ELSE reader[r]]
        /\ of' = [r \in Readers |-> IF reader[r] = "opens" THEN v ELSE of[r]]
        /\ UNCHANGED <<sidecarVars, streamVars, made, leaving, left>>

\* A call of it failed: its reader is told, and there is no view.
OpenFails ==
    /\ Opening /\ job["first"].at # "stream" /\ ~Whole("first")
    /\ Unanswered("first")
    /\ job' = [job EXCEPT !["first"] = None]
    /\ reader' = [r \in Readers |-> IF reader[r] = "opens" THEN "away" ELSE reader[r]]
    /\ UNCHANGED <<sidecarVars, streamVars, tableVars, shared, leaving, of>>

\* A reader handed its view once it is read.
Handed(r) ==
    /\ reader[r] = "waits" /\ shared[of[r]].ready
    /\ reader' = [reader EXCEPT ![r] = "reads"]
    /\ UNCHANGED <<sidecarVars, streamVars, job, tableVars, shared, leaving, of, left>>

\* `close`: the last reader gone, the view lingers.
Leave(r) ==
    LET v == of[r]
    IN  /\ reader[r] = "reads" /\ ~Opening
        /\ shared' = [shared EXCEPT ![v].readers = @ - 1,
                                    ![v].lingering = @ \/ shared[v].readers = 1]
        /\ reader' = [reader EXCEPT ![r] = "away"] /\ of' = [of EXCEPT ![r] = None]
        /\ UNCHANGED <<sidecarVars, streamVars, job, tableVars, leaving, left>>

\* `_linger`: the view is dropped, then unsubscribed.
Drop(v) ==
    /\ shared[v].lingering /\ v \in byId /\ ~Opening
    /\ shared[v].readers = 0
    /\ bySelector' = None /\ byId' = byId \ {v}
    /\ leaving' = leaving \cup {v}
    /\ UNCHANGED <<sidecarVars, streamVars, job, made, shared, readerVars, left>>

Unsubscribe(v) ==
    /\ v \in leaving
    /\ leaving' = leaving \ {v}
    /\ on' = [on EXCEPT ![v] = None]
    /\ UNCHANGED <<log, up, queue, streamVars, job, tableVars, shared, readerVars, left>>

-----------------------------------------------------------------------------
(* A stream. *)

\* It opens: where it was open before, each view is subscribed and read again.
OpenStream(s) ==
    /\ phase[s] = "closed"
    /\ up' = [up EXCEPT ![s] = TRUE]
    /\ again' = [again EXCEPT ![s] = TRUE]
    /\ phase' = [phase EXCEPT ![s] = IF again[s] THEN "reopened" ELSE "hearing"]
    /\ rereads' = [rereads EXCEPT ![s] = IF again[s] THEN byId ELSE {}]
    /\ UNCHANGED <<log, on, queue, job, tableVars, shared, leaving, readerVars, left>>

\* The next of the views it has to read again: in the order they were made.
ReadAgain(s) ==
    LET v == Min(rereads[s])
    IN  /\ job[s] = None /\ rereads[s] # {}
        /\ rereads' = [rereads EXCEPT ![s] = @ \ {v}]
        /\ shared' = [shared EXCEPT ![v].ready = FALSE]
        /\ job' = [job EXCEPT ![s] = Reading(v, IF phase[s] = "reopened" THEN "subscribe" ELSE "pages")]
        /\ UNCHANGED <<sidecarVars, phase, again, tableVars, leaving, readerVars, left>>

ReadOver(s) ==
    /\ Whole(s)
    /\ shared' = [shared EXCEPT ![job[s].view] = Fresh(job[s])]
    /\ job' = [job EXCEPT ![s] = None]
    /\ UNCHANGED <<sidecarVars, streamVars, tableVars, leaving, readerVars, left>>

Resumed(s) ==
    /\ phase[s] = "reopened" /\ job[s] = None /\ rereads[s] = {}
    /\ phase' = [phase EXCEPT ![s] = "hearing"]
    /\ UNCHANGED <<sidecarVars, again, rereads, job, tableVars, shared, leaving, readerVars, left>>

\* The stream is left, to be opened again.
Closed(s) ==
    /\ phase' = [phase EXCEPT ![s] = "closed"]
    /\ up' = [up EXCEPT ![s] = FALSE]
    /\ queue' = [queue EXCEPT ![s] = <<>>]
    /\ rereads' = [rereads EXCEPT ![s] = {}]
    /\ on' = [v \in Made |-> IF on[v] = s THEN None ELSE on[v]]

\* A call of a view's read failed, or the subscription found no stream open.
ReadFails(s) ==
    /\ job[s] # None /\ ~Whole(s) /\ Undisturbed
    /\ Unanswered(s)
    /\ job' = [job EXCEPT ![s] = None]
    /\ Closed(s)
    /\ UNCHANGED <<log, again, tableVars, shared, leaving, readerVars>>

\* It ended, or broke, and what came of it is taken.
SeeBreak(s) ==
    /\ phase[s] = "hearing" /\ job[s] = None /\ rereads[s] = {}
    /\ ~up[s] /\ queue[s] = <<>>
    /\ Closed(s)
    /\ UNCHANGED <<log, again, job, tableVars, shared, leaving, readerVars, left>>

Hearing(s) == phase[s] = "hearing" /\ job[s] = None /\ rereads[s] = {} /\ queue[s] # <<>>

\* `delivered`: a loss has each view read again.
HearLost(s) ==
    /\ Hearing(s) /\ Head(queue[s]) = Lost
    /\ queue' = [queue EXCEPT ![s] = Tail(@)]
    /\ rereads' = [rereads EXCEPT ![s] = byId]
    /\ UNCHANGED <<log, on, up, phase, again, job, tableVars, shared, leaving, readerVars, left>>

\* And a change is applied to those it names, or held for one being read.
Took(v, number) ==
    IF v.ready THEN [v EXCEPT !.rows = Applied(v.rows, number, v.watermark)]
    ELSE [v EXCEPT !.held = Append(@, number)]

HearChange(s) ==
    LET d == Head(queue[s])
    IN  /\ Hearing(s) /\ d # Lost
        /\ queue' = [queue EXCEPT ![s] = Tail(@)]
        /\ shared' = [v \in Made |->
                IF v \in d.views \cap byId THEN Took(shared[v], d.number) ELSE shared[v]]
        /\ UNCHANGED <<log, on, up, streamVars, job, tableVars, leaving, readerVars, left>>

-----------------------------------------------------------------------------

Init ==
    /\ log = <<>> /\ on = [v \in Made |-> None]
    /\ up = [s \in Streams |-> FALSE] /\ queue = [s \in Streams |-> <<>>]
    /\ \E roles \in BOOLEAN :
          phase = [s \in Streams |-> IF s = "role" /\ roles THEN "closed" ELSE "none"]
    /\ again = [s \in Streams |-> FALSE] /\ rereads = [s \in Streams |-> {}]
    /\ job = [by \in Streams \cup {"first"} |-> None]
    /\ made = 0 /\ bySelector = None /\ byId = {} /\ leaving = {}
    /\ shared = [v \in Made |-> Blank]
    /\ reader = [r \in Readers |-> "away"] /\ of = [r \in Readers |-> None]
    /\ left \in Budgets

Reads == \E by \in Streams \cup {"first"} : Subscribe(by) \/ Answer(by)
Opens == StreamOpen \/ Opened
Runs(s) ==
    \/ OpenStream(s) \/ ReadAgain(s) \/ ReadOver(s) \/ Resumed(s) \/ SeeBreak(s)
    \/ HearLost(s) \/ HearChange(s)
Lingering == \E v \in Made : Drop(v) \/ Unsubscribe(v)

Next ==
    \/ \E k \in Keys : Change(k)
    \/ \E s \in Streams : Break(s) \/ ReadFails(s) \/ Runs(s)
    \/ \E r \in Readers : Ask(r) \/ Handed(r) \/ Leave(r)
    \/ Reads \/ Opens \/ OpenFails \/ Lingering

Spec == Init /\ [][Next]_vars

-----------------------------------------------------------------------------

\* What each variable may hold: a view whose reads are done holds nothing back,
\* and its readers are those it was given to.
TypeOK ==
    /\ log \in Seq(Keys) /\ Len(log) <= MaxLog
    /\ on \in [Made -> Streams \cup {None}]
    /\ up \in [Streams -> BOOLEAN] /\ again \in [Streams -> BOOLEAN]
    /\ queue \in [Streams -> Seq([number : Numbers, views : SUBSET Made])]
    /\ phase \in [Streams -> {"none", "closed", "reopened", "hearing"}]
    /\ rereads \in [Streams -> SUBSET Made]
    /\ job \in [Streams \cup {"first"} -> Jobs \cup {None}]
    /\ made \in 0 .. MaxViews /\ bySelector \in Made \cup {None} /\ byId \subseteq Made
    /\ leaving \subseteq Made
    /\ shared \in [Made -> Shared]
    /\ \A v \in Made : shared[v].ready => shared[v].held = <<>>
    /\ reader \in [Readers -> {"away", "opens", "waits", "reads"}]
    /\ of \in [Readers -> Made \cup {None}]
    /\ left \in [Mishaps -> Nat]

\* A view once read, with nothing more to hear or to read, is the store's: what
\* was delivered while it was read, lost or on a stream that broke included
\* (views.py, "The order").
Quiet ==
    /\ \A by \in Streams \cup {"first"} : job[by] = None
    /\ \A s \in Streams :
          phase[s] # "none" => phase[s] = "hearing" /\ up[s] /\ queue[s] = <<>> /\ rereads[s] = {}

Current == Quiet => \A v \in byId : shared[v].rows = [k \in Keys |-> Latest(k)]

\* A row a page was shown never gives way to an earlier change of it.
NeverOlder ==
    [][\A v \in byId \cap byId', k \in Keys : shared'[v].rows[k] >= shared[v].rows[k]]_vars

\* A reader's view is the one there is: not dropped under it, nor made twice.
ReaderHasView ==
    \A r \in Readers : reader[r] \in {"waits", "reads"} => of[r] = bySelector /\ byId = {of[r]}

\* A view not ready is being read, or is going to be: no reader waits for one
\* nobody reads (`_hear`: "until then a view keeps its rows and holds what is
\* delivered to it").
ComingToBeRead ==
    {v \in byId : \E s \in Streams :
        \/ v \in rereads[s]
        \/ job[s] # None /\ job[s].view = v
        \/ again[s] /\ (~up[s] \/ phase[s] = "closed")}

NoneLeftUnready == \A v \in byId : shared[v].ready \/ v \in ComingToBeRead

=============================================================================
