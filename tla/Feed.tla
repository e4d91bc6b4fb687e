--------------------------------- MODULE Feed ---------------------------------
(***************************************************************************)
(* A pairs venue's data plugin keeping standing wants current              *)
(* (roles/data/pairs.py, `Feed`, and roles/data/_wants.py, `Wants`): what  *)
(* stands is put on the venue's stream, the trades heard are kept and sent *)
(* to the lake in batches, and what a restart or a dropped stream passed   *)
(* over is read back from the venue's history.                             *)
(*                                                                         *)
(* Three tasks interleave at their awaits: the handler of wants, the pass  *)
(* that keeps them current, and the stream's session.  A product is the    *)
(* subject it serves; a trade is its product and its venue sequence.       *)
(* Prices and quotes, which leave no gap, are left out; the venue's        *)
(* listing was read by an earlier process.                                 *)
(***************************************************************************)
EXTENDS Naturals, FiniteSets

CONSTANTS
    Wants,    \* the wants the deployment may have stand
    Products, \* the products they ask for
    Of,       \* want -> its product
    MaxTrade, \* bound: how many trades the venue makes of a product
    BATCH,    \* trades sent to the lake at once
    None,     \* nothing
    Budgets   \* bounds, mishap -> how often: those that may come together

Tasks == {"hear", "pass", "stream"}
Trades == Products \X (1 .. MaxTrade)

\* What may happen, each a bounded number of times: a trade at the venue, a want
\* asked, and withdrawn, a product not named in the map kept, its naming or the lake's
\* read failing, the venue's history unanswered, the lake refusing trades, the
\* stream dropped, the process dying, the daily reading of the listing, a want heard
\* while a restream of the pass is behind it.
Mishaps == {"trade", "ask", "withdraw", "unnamed", "naming", "lake", "history", "refused",
            "drop", "crash", "remap", "behind"}

\* A task at an await: the listing or the venue's ID asked for, naming or reading
\* `todo`, with the products of its restream, or sending `trades`; `lasts` are the
\* trades to read on from.
Jobs ==
    [at : {"list", "venue", "name", "lake", "history", "record", "catchup", "send"}, subjects : SUBSET Products,
     todo : SUBSET Products, lasts : SUBSET Trades, trades : SUBSET Trades]

ASSUME FeedAssumption ==
    /\ Of \in [Wants -> Products] /\ IsFiniteSet(Products)
    /\ MaxTrade \in Nat /\ BATCH \in Nat \ {0}
    /\ Budgets \subseteq [Mishaps -> Nat]
    /\ None \notin Jobs

VARIABLES
    asks,       \* want -> whether the deployment asks it
    made,       \* product -> trades the venue has made
    recorded,   \* the trades the lake holds
    said,       \* those whose loss was logged
    named,      \* the products the map names
    saved,      \* those it names in storage
    venueAsked, \* `venue.asked`: whether this process knows the venue's ID
    mapping,    \* whether the pass is to read the listing before anything else
    standing,   \* `Wants.standing`
    streams,    \* `streams`: the products on the stream
    wanted,     \* what the stream is to be subscribed to
    session,    \* the session open, or None: its names, and what it delivered
    pending,    \* `pending_trades`
    last,       \* product -> `last_trade`, 0 for none
    first,      \* product -> the first trade this process heard or read, or 0
    backfilled, \* `Wants.backfilled`
    jobs,       \* task -> the await it is at, or None
    left        \* what remains of each bound

world == <<asks, made>>
lake == <<recorded, said>>
venue == <<saved, venueAsked, mapping>>
memory == <<standing, backfilled>>
stream == <<streams, wanted, session>>
heard == <<pending, last, first>>
vars == <<asks, made, recorded, said, named, saved, venueAsked, mapping, standing, streams, wanted, session, pending, last,
          first, backfilled, jobs, left>>

Spend(m) ==
    /\ left[m] > 0
    /\ left' = [left EXCEPT ![m] = @ - 1]

Higher(m, n) == IF m > n THEN m ELSE n

\* The trades of `p` above the number `n`, as the venue's history states them.
After(p, n) == {<<p, k>> : k \in n + 1 .. made[p]}

\* The highest number of `p` in the lake (`latest_recorded`), 0 for none.
Latest(p) ==
    LET held == {k \in 1 .. MaxTrade : <<p, k>> \in recorded}
    IN  IF held = {} THEN 0 ELSE CHOOSE k \in held : \A j \in held : j <= k

-----------------------------------------------------------------------------
(* The deployment and the venue. *)

Ask(w) ==
    /\ asks[w] = "new"
    /\ Spend("ask")
    /\ asks' = [asks EXCEPT ![w] = "asked"]
    /\ UNCHANGED <<made, lake, named, venue, memory, stream, heard, jobs>>

Retract(w) ==
    /\ asks[w] = "asked"
    /\ Spend("withdraw")
    /\ asks' = [asks EXCEPT ![w] = "withdrawn"]
    /\ UNCHANGED <<made, lake, named, venue, memory, stream, heard, jobs>>

Trade(p) ==
    /\ made[p] < MaxTrade
    /\ Spend("trade")
    /\ made' = [made EXCEPT ![p] = @ + 1]
    /\ UNCHANGED <<asks, lake, named, venue, memory, stream, heard, jobs>>

Idle(t) == jobs[t] = None

NoJob == [t \in Tasks |-> None]

\* The process dies, and starts again with its storage and what the lake holds.
Crash ==
    /\ Spend("crash")
    /\ named' = saved /\ venueAsked' = FALSE /\ mapping' = FALSE
    /\ standing' = {} /\ backfilled' = {} /\ streams' = {} /\ wanted' = {} /\ session' = None
    /\ pending' = {} /\ jobs' = NoJob
    /\ last' = [p \in Products |-> 0] /\ first' = [p \in Products |-> 0]
    /\ UNCHANGED <<world, lake, saved>>

-----------------------------------------------------------------------------
(* `restream`. *)

\* At an await of a restream, with what is to be put on the stream: what stood
\* when it began.
Waiting(at, subjects, todo) ==
    [at |-> at, subjects |-> subjects, todo |-> todo, lasts |-> {}, trades |-> {}]
Reading(at, todo) == Waiting(at, {}, todo)

At(t, await) == jobs[t] # None /\ jobs[t].at = await

\* A restream is over, and with it the reading of the listing it ends.
Over(t) ==
    /\ jobs' = [jobs EXCEPT ![t] = None]
    /\ mapping' = (mapping /\ t # "pass")

\* The products put on the stream, those of this process's first time read back
\* first: marked before they are read.
Put(t, subjects) ==
    /\ streams' = subjects
    /\ IF subjects \subseteq backfilled
       THEN wanted' = subjects /\ Over(t) /\ UNCHANGED backfilled
       ELSE /\ backfilled' = backfilled \cup subjects
            /\ jobs' = [jobs EXCEPT ![t] = Reading("lake", subjects \ backfilled)]
            /\ UNCHANGED <<wanted, mapping>>

\* Put on the stream once each is named.
NameThese(t, subjects) ==
    IF subjects \subseteq named THEN Put(t, subjects)
    ELSE /\ jobs' = [jobs EXCEPT ![t] = Waiting("name", subjects, subjects \ named)]
         /\ UNCHANGED <<streams, wanted, backfilled, mapping>>

Subjects(stands) == {Of[w] : w \in stands}

\* Begun with what stands: the venue's ID is asked for where this process does not
\* know it yet, by each that finds it so.
Restream(t, stands) ==
    /\ IF stands # {} /\ ~venueAsked
       THEN /\ jobs' = [jobs EXCEPT ![t] = Waiting("venue", Subjects(stands), {})]
            /\ UNCHANGED <<streams, wanted, backfilled, mapping>>
       ELSE NameThese(t, Subjects(stands))
    /\ UNCHANGED <<named, saved, venueAsked>>

\* `ensure_mapped`: answered, the restream goes on with what it began with; one the
\* listing's reading ends with begins only now.
AskVenue(t) ==
    /\ At(t, "venue")
    /\ venueAsked' = TRUE
    /\ NameThese(t, IF jobs[t].subjects = {} THEN Subjects(standing) ELSE jobs[t].subjects)
    /\ UNCHANGED <<world, lake, named, saved, standing, session, heard, left>>

\* `name`: the map is saved once each is named, those another task has named
\* meanwhile passed over.
Name(t) ==
    /\ At(t, "name")
    /\ \E p \in jobs[t].todo : \E rest \in {jobs[t].todo \ (named \cup {p})} :
        /\ named' = named \cup {p}
        /\ IF rest = {}
           THEN saved' = named' /\ Put(t, jobs[t].subjects)
           ELSE /\ jobs' = [jobs EXCEPT ![t].todo = rest]
                /\ UNCHANGED <<saved, streams, wanted, backfilled, mapping>>
    /\ UNCHANGED <<world, lake, venueAsked, standing, session, heard, left>>

\* One of these calls raises: a want is declined, though it stands; a pass, and the
\* reading of the listing, is made again.
NameFails(t) ==
    /\ \E await \in {"list", "venue", "name"} : At(t, await)
    /\ Spend("naming")
    /\ jobs' = [jobs EXCEPT ![t] = None]
    /\ UNCHANGED <<world, lake, named, venue, memory, stream, heard>>

\* Read back or not, the stream is asked for what is on it.
Ends(t) == Over(t) /\ wanted' = streams

-----------------------------------------------------------------------------
(* `backfill`: a restart's gap. *)

\* Where the next of `lasts` is read on from, or the reading ends.
ReadOn(t, lasts) ==
    IF lasts = {} THEN Ends(t)
    ELSE /\ jobs' = [jobs EXCEPT ![t] = [Reading("history", {}) EXCEPT !.lasts = lasts]]
         /\ UNCHANGED <<wanted, mapping>>

Gaps(lasts) == UNION {After(r[1], r[2]) : r \in lasts}

ReadLake(t) ==
    /\ At(t, "lake")
    /\ ReadOn(t, {<<p, Latest(p)>> : p \in {q \in jobs[t].todo : Latest(q) # 0}})
    /\ UNCHANGED <<world, lake, named, saved, venueAsked, memory, streams, session, heard, left>>

\* Slip: the read's failure ends the restream.
LakeRaises(t) ==
    /\ At(t, "lake")
    /\ Spend("lake")
    /\ said' = said \cup UNION {After(p, Latest(p)) : p \in jobs[t].todo}
    /\ Over(t)
    /\ UNCHANGED <<world, recorded, named, saved, venueAsked, memory, stream, heard>>

\* A read that fails is said, and the stream asked for all the same.
LakeFails(t) ==
    /\ At(t, "lake")
    /\ Spend("lake")
    /\ said' = said \cup UNION {After(p, Latest(p)) : p \in jobs[t].todo}
    /\ Ends(t)
    /\ UNCHANGED <<world, recorded, named, saved, venueAsked, memory, streams, session, heard>>

\* The numbers from the first heard to `n` are had once those missed are.
FirstOf(p, n) == [first EXCEPT ![p] = IF @ = 0 \/ n < @ THEN n ELSE @]

\* The product's last trade becomes the newest read.
LastRead(p) == [last EXCEPT ![p] = Higher(@, made[p])]

\* `_missed`: the trades after the last one recorded.
ReadHistory(t) ==
    /\ At(t, "history")
    /\ \E r \in jobs[t].lasts :
        LET p == r[1]
            missed == IF p \in streams THEN After(p, r[2]) ELSE {}
            rest == jobs[t].lasts \ {r}
        IN  \/ /\ missed # {}
               /\ last' = LastRead(p)
               /\ first' = FirstOf(p, r[2] + 1)
               /\ jobs' = [jobs EXCEPT ![t] = [Reading("record", {}) EXCEPT !.lasts = rest, !.trades = missed]]
               /\ UNCHANGED <<said, wanted, mapping, left>>
            \/ /\ missed = {}
               /\ ReadOn(t, rest)
               /\ UNCHANGED <<said, last, first, left>>
            \/ /\ p \in streams
               /\ Spend("history")
               /\ said' = said \cup After(p, r[2])
               /\ ReadOn(t, rest)
               /\ UNCHANGED <<last, first>>
    /\ UNCHANGED <<world, recorded, named, saved, venueAsked, memory, streams, session, pending>>

\* They are sent; refused, nothing more is read back.
RecordMissed(t) ==
    /\ At(t, "record")
    /\ \/ /\ recorded' = recorded \cup jobs[t].trades
          /\ ReadOn(t, jobs[t].lasts)
          /\ UNCHANGED <<said, left>>
       \/ /\ Spend("refused")
          /\ said' = said \cup jobs[t].trades \cup Gaps(jobs[t].lasts)
          /\ Ends(t)
          /\ UNCHANGED recorded
    /\ UNCHANGED <<world, named, saved, venueAsked, memory, streams, session, heard>>

-----------------------------------------------------------------------------
(* Wants heard, and the pass that keeps them current. *)

\* A restream of the pass waits, with what stood before this one's want was heard.
Overtaking ==
    IF jobs["pass"] # None /\ jobs["pass"].subjects # {} THEN Spend("behind") ELSE UNCHANGED left

HearWant(w) ==
    /\ Idle("hear") /\ asks[w] = "asked" /\ w \notin standing
    /\ standing' = standing \cup {w}
    /\ Overtaking
    /\ Restream("hear", standing')
    /\ UNCHANGED <<world, lake, session, heard>>

HearWithdrawn(w) ==
    /\ Idle("hear") /\ asks[w] = "withdrawn" /\ w \in standing
    /\ standing' = standing \ {w}
    /\ Overtaking
    /\ Restream("hear", standing')
    /\ UNCHANGED <<world, lake, session, heard>>

\* What was heard is taken to be sent.
Sending(trades) == [Reading("send", {}) EXCEPT !.trades = trades]

\* Slip: a batch not full waits.
DueFull == Cardinality(pending) >= BATCH

Due == pending # {}

PassFlush ==
    /\ Idle("pass") /\ ~mapping /\ Due
    /\ jobs' = [jobs EXCEPT !["pass"] = Sending(pending)]
    /\ pending' = {}
    /\ UNCHANGED <<world, lake, named, venue, memory, stream, last, first, left>>

PassRestream ==
    /\ Idle("pass") /\ ~mapping /\ pending = {}
    /\ streams = {} /\ standing # {}
    /\ Restream("pass", standing)
    /\ UNCHANGED <<world, lake, standing, session, heard, left>>

\* Once a day the listing is read again, and where that fails the next time too.
ReadListing ==
    /\ Idle("pass")
    /\ mapping' = TRUE
    /\ jobs' = [jobs EXCEPT !["pass"] = Reading("list", {})]
    /\ UNCHANGED <<world, lake, named, saved, venueAsked, memory, stream, heard>>
Remap == ~mapping /\ Spend("remap") /\ ReadListing
RemapAgain == mapping /\ UNCHANGED left /\ ReadListing

\* `map_products`: the map is saved and the venue asked again before its restream.
Listed ==
    /\ At("pass", "list")
    /\ saved' = named /\ venueAsked' = FALSE
    /\ jobs' = [jobs EXCEPT !["pass"] = Reading("venue", {})]
    /\ UNCHANGED <<world, lake, named, mapping, memory, stream, heard, left>>

\* The trades taken are recorded, or refused whole and said.
Flushed(t) ==
    /\ At(t, "send")
    /\ \/ recorded' = recorded \cup jobs[t].trades /\ UNCHANGED <<said, left>>
       \/ Spend("refused") /\ said' = said \cup jobs[t].trades /\ UNCHANGED recorded
    /\ jobs' = [jobs EXCEPT ![t] = None]
    /\ UNCHANGED <<world, named, venue, memory, stream, heard>>

-----------------------------------------------------------------------------
(* The stream's session. *)

Open ==
    /\ session = None /\ wanted # {} /\ Idle("stream")
    /\ session' = [names |-> wanted, upto |-> made]
    /\ jobs' = [jobs EXCEPT !["stream"] = Reading("catchup", wanted)]
    /\ UNCHANGED <<world, lake, named, venue, memory, streams, wanted, heard, left>>

\* `_hear_trade`, of those not heard already.
Hear(p, trades) ==
    /\ pending' = pending \cup trades
    /\ last' = IF trades = {} THEN last ELSE [last EXCEPT ![p] = Higher(@, made[p])]

\* Slip: what the stream delivers from now on is enough.
CaughtUpNone(p) == {}

\* A product's trades since its last are read, where it has one.
CaughtUp(p) == IF p \in streams /\ last[p] # 0 THEN After(p, last[p]) ELSE {}

\* `on_opened`.
CatchUp ==
    /\ At("stream", "catchup")
    /\ \E p \in jobs["stream"].todo :
        /\ \/ Hear(p, CaughtUp(p)) /\ UNCHANGED <<said, left>>
           \/ /\ p \in streams /\ last[p] # 0
              /\ Spend("history")
              /\ said' = said \cup After(p, last[p])
              /\ UNCHANGED <<pending, last>>
        /\ jobs' = [jobs EXCEPT !["stream"].todo = @ \ {p}]
    /\ UNCHANGED <<world, recorded, named, venue, memory, stream, first>>

CatchUpEnds ==
    /\ At("stream", "catchup") /\ jobs["stream"].todo = {}
    /\ jobs' = [jobs EXCEPT !["stream"] = IF pending = {} THEN None ELSE Sending(pending)]
    /\ pending' = {}
    /\ UNCHANGED <<world, lake, named, venue, memory, stream, last, first, left>>

\* A message: a trade heard again is not kept again, and a full batch is sent.
Message(p) ==
    LET n == session.upto[p] + 1
        new == IF p \in streams /\ n > last[p] THEN {<<p, n>>} ELSE {}
        full == new # {} /\ Cardinality(pending \cup new) >= BATCH
    IN  /\ session # None /\ Idle("stream")
        /\ p \in session.names /\ session.upto[p] < made[p]
        /\ session' = [session EXCEPT !.upto[p] = n]
        /\ last' = IF new = {} THEN last ELSE [last EXCEPT ![p] = n]
        /\ first' = IF new = {} \/ first[p] # 0 THEN first ELSE FirstOf(p, n)
        /\ IF full
           THEN pending' = {} /\ jobs' = [jobs EXCEPT !["stream"] = Sending(pending \cup new)]
           ELSE pending' = pending \cup new /\ UNCHANGED jobs
        /\ UNCHANGED <<world, lake, named, venue, memory, streams, wanted, left>>

\* What is wanted changed: the session is opened anew, or closed.
Reopen ==
    /\ session # None /\ Idle("stream") /\ session.names # wanted
    /\ session' = None
    /\ UNCHANGED <<world, lake, named, venue, memory, streams, wanted, heard, jobs, left>>

Drop ==
    /\ session # None /\ Idle("stream")
    /\ Spend("drop")
    /\ session' = None
    /\ UNCHANGED <<world, lake, named, venue, memory, streams, wanted, heard, jobs>>

-----------------------------------------------------------------------------
Init ==
    /\ asks = [w \in Wants |-> "new"] /\ made = [p \in Products |-> 0]
    /\ recorded = {} /\ said = {}
    /\ standing = {} /\ streams = {} /\ wanted = {} /\ session = None
    /\ pending = {} /\ backfilled = {} /\ jobs = NoJob
    /\ last = [p \in Products |-> 0] /\ first = [p \in Products |-> 0]
    /\ left \in Budgets
    /\ named \in {these \in SUBSET Products : Cardinality(Products \ these) = left["unnamed"]}
    /\ saved = named /\ venueAsked = FALSE /\ mapping = FALSE

\* A restream under way in task `t`.
Restreams(t) == AskVenue(t) \/ Name(t) \/ ReadLake(t) \/ ReadHistory(t) \/ RecordMissed(t)

Hears == Restreams("hear") \/ \E w \in Wants : HearWant(w) \/ HearWithdrawn(w)
Passes == Restreams("pass") \/ PassFlush \/ PassRestream \/ Flushed("pass") \/ RemapAgain \/ Listed
Streams == Open \/ CatchUp \/ CatchUpEnds \/ Flushed("stream") \/ Reopen \/ \E p \in Products : Message(p)

Around ==
    \/ \E w \in Wants : Ask(w) \/ Retract(w)
    \/ \E p \in Products : Trade(p)
    \/ \E t \in {"hear", "pass"} : NameFails(t) \/ LakeFails(t)
    \/ Remap \/ Drop \/ Crash

Next == Hears \/ Passes \/ Streams \/ Around

Spec == Init /\ [][Next]_vars

\* Each task goes on: the deliveries are handled, the pass is made each second
\* and the session is kept open.
FairSpec ==
    /\ Spec
    /\ WF_vars(Hears) /\ WF_vars(Passes) /\ WF_vars(Streams)

-----------------------------------------------------------------------------
(* Properties. *)

TypeOK ==
    /\ asks \in [Wants -> {"new", "asked", "withdrawn"}]
    /\ made \in [Products -> 0 .. MaxTrade]
    /\ recorded \subseteq Trades /\ said \subseteq Trades /\ pending \subseteq Trades
    /\ named \subseteq Products /\ saved \subseteq Products /\ venueAsked \in BOOLEAN /\ mapping \in BOOLEAN
    /\ streams \subseteq Products /\ wanted \subseteq Products
    /\ standing \subseteq Wants /\ backfilled \subseteq Products
    /\ session = None \/ session \in [names : SUBSET Products, upto : [Products -> 0 .. MaxTrade]]
    /\ last \in [Products -> 0 .. MaxTrade] /\ first \in [Products -> 0 .. MaxTrade]
    /\ jobs \in [Tasks -> Jobs \cup {None}]
    /\ left \in [Mishaps -> Nat]
    /\ \A p \in Products : last[p] <= made[p]

\* On their way to the lake.
Underway == pending \cup UNION {IF jobs[t] = None THEN {} ELSE jobs[t].trades : t \in Tasks}

\* From the first trade of a product this process heard or read back to the
\* last, each is in the lake, on its way there, or its loss was logged: over
\* drops, restreams that overlap and reads back that race the stream.  The code
\* does not keep it of a product that leaves the stream and comes back before
\* its session is opened anew (MCFeed, Returned; README, Disagreements).
NoneSkipped ==
    \A p \in Products : last[p] # 0 =>
        \A n \in first[p] .. last[p] : <<p, n>> \in recorded \cup Underway \cup said

\* Each trade after the first of a product still streamed comes to the lake, or
\* its loss is logged.
Reaches(t) ==
    t[1] \in streams /\ first[t[1]] # 0 /\ t[2] >= first[t[1]] /\ t[2] <= made[t[1]]
InLake == \A t \in Trades : Reaches(t) ~> (t \in recorded \cup said \/ t[1] \notin streams)

\* What is asked of the stream comes to be what the deployment asks for, where no
\* want is heard while a restream of the pass waits and no naming fails beside
\* another want.  The code does not keep it beyond (MCFeed, Behind and Unnamed).
AsStands == <>[](wanted = Subjects({w \in Wants : asks[w] = "asked"}))

\* A drop or a restart leaves the lake no gap between two trades of a product.
\* The code does not keep it (MCFeed, Restarted; README, Disagreements).
NoGap ==
    \A p \in Products : \A m, n, k \in 1 .. MaxTrade :
        (m < n /\ n < k /\ <<p, m>> \in recorded /\ <<p, k>> \in recorded)
            => <<p, n>> \in recorded \cup Underway \cup said

=============================================================================
