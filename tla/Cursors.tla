------------------------------- MODULE Cursors --------------------------------
(***************************************************************************)
(* The rows of a plugin's one stream that no journal numbers (receive.py,  *)
(* `_Latest`, `_InFull`, `_Sequenced` and `follow`), heard by several      *)
(* roles (_run.py, `_Hearing` and `_keep`): prices, latest value first;    *)
(* trades, in full; instruments replaced, in the store's sequence, which a *)
(* role keeps in a `CurrentIdMap` (replacements.py).                       *)
(*                                                                         *)
(* A record is known by its number, which stands for its sequence in the   *)
(* lake's dataset or in the instrument store.  Each role hears every row.  *)
(* A read of the latest and one of trades are answered as of one moment;   *)
(* their pages, and the rows Follower models, are left out.                *)
(***************************************************************************)
EXTENDS Integers, FiniteSets, SequencesExt

CONSTANTS
    Roles,         \* the roles registered, in their order
    Seeders,       \* those with `seed` set
    Hearings,      \* sets of rows a plugin may hear
    Keys,          \* keys of prices, each of a subject of its own
    Datasets,      \* datasets trades are of
    Ids,           \* instrument IDs
    None,          \* nothing
    PageSize,      \* replacements a read answers at most
    HandlerRaises, \* what a handler may raise: a subset of {"call", "other"}
    MaxLog,        \* bound: records made
    Budgets        \* bound: by the rows heard, of each mishap the numbers there may be of it

\* Deliveries dropped and told of; a stream broken; a read that fails, or a
\* handler that raises, and ends the stream alone; one that ends `follow`; the
\* subjects a role names changed.
Mishaps == {"losses", "breaks", "fails", "ends", "renames"}

All == "replacements"
Lake == Keys \cup Datasets
Places == Lake \cup {All}

\* What is recorded: a price under its key, a trade `of` a key's subject in its
\* dataset, `from` replaced by `to`.
Records ==
    [row : {"latest"}, place : Keys, of : {None}, from : {None}, to : {None}]
        \cup [row : {"full"}, place : Datasets, of : Keys, from : {None}, to : {None}]
        \cup [row : {"sequenced"}, place : {All}, of : {None}, from : Ids, to : Ids]

Rows == {"latest", "full", "sequenced"}

\* A `CurrentIdMap`: what each replaced ID became, and the last sequence applied.
Maps == [became : [Ids -> Ids \cup {None}], sequence : Nat]

ASSUME CursorsAssumption ==
    /\ Seeders \subseteq ToSet(Roles)
    /\ Keys \cap Datasets = {} /\ All \notin Keys \cup Datasets
    /\ IsFiniteSet(Ids) /\ None \notin Ids /\ None \notin Nat
    /\ Hearings \subseteq SUBSET Rows
    /\ PageSize \in Nat \ {0} /\ MaxLog \in Nat
    /\ HandlerRaises \subseteq {"call", "other"}
    /\ Budgets \in [Hearings -> SUBSET [Mishaps -> Nat]]

VARIABLES
    heard,    \* the rows some role hears
    log,      \* the records, by number
    named,    \* the keys whose subjects the roles name now
    wanted,   \* those the stream was opened for
    reopen,   \* whether a role asked for the stream to be opened again
    stream,   \* deliveries sent and not taken, a loss in a dropped one's place; in their numbers' order
    up,       \* whether the sidecar still sends on the stream
    phase,    \* where the plugin is: starting, closed, reading, following
    started,  \* whether `follow` has seeded
    todo,     \* the rows it has still to read, in the order below
    after,    \* where its next page of replacements is read from, or None
    seen,     \* place -> the number last handed on
    value,    \* role -> key or dataset -> the number it was last handed
    had,      \* role -> the trades it was handed
    anew,     \* the records made when `follow` last ended and was to be run again
    since,    \* key -> the records made when its subject was last not asked for
    ids,      \* role -> its CurrentIdMap
    left      \* what remains of each bound

sidecarVars == <<heard, log, named, stream, up, left>>
handVars == <<seen, value, had, ids>>
vars == <<heard, log, named, wanted, reopen, stream, up, phase, started, todo, after,
          seen, value, had, anew, since, ids, left>>

Spend(m) ==
    /\ left[m] > 0
    /\ left' = [left EXCEPT ![m] = @ - 1]

Numbers == 1..Len(log)
Of(row) == {i \in Numbers : log[i].row = row}
LatestOf(place) == Max({0} \cup {i \in Numbers : log[i].place = place})

-----------------------------------------------------------------------------
(* A CurrentIdMap. *)

\* The record `id` names: followed through what each became, until one comes
\* a second time.
Current(became, id) ==
    LET walk[n \in 0..Cardinality(Ids)] ==
            IF n = 0 THEN [at |-> id, met |-> {id}, on |-> TRUE]
            ELSE LET w == walk[n - 1]
                     next == became[w.at]
                 IN  IF ~w.on \/ next = None THEN w
                     ELSE [at |-> next, met |-> w.met \cup {next}, on |-> next \notin w.met]
    IN  walk[Cardinality(Ids)].at

\* Slip: a replacement that names the way back leaves the earlier one.
BecameBoth(became, from, to) == [became EXCEPT ![from] = to]

\* `from` became `to`; one that names the way back undoes the earlier.
Became(became, from, to) ==
    [x \in Ids |->
        CASE x = from -> to
          [] x = to /\ Current(became, to) = from -> None
          [] OTHER -> became[x]]

\* `apply`: one at or below the sequence applied changes nothing.
Apply(map, i) ==
    IF i <= map.sequence THEN map
    ELSE [became |-> Became(map.became, log[i].from, log[i].to), sequence |-> i]

\* Of the replacements, those of `numbers` applied, one after another.
Applied(map, numbers) ==
    LET upTo[n \in 0..Len(log)] ==
            IF n = 0 THEN map
            ELSE IF n \in numbers THEN Apply(upTo[n - 1], n) ELSE upTo[n - 1]
    IN  upTo[Len(log)]

\* `catch_up`, on start, which reads until a read answers none.
CaughtUpMap(map) == Applied(map, Of("sequenced"))

-----------------------------------------------------------------------------
(* The stores and the sidecar. *)

\* What `id` names once the first `n` records stand: what replaces comes to
\* stand for all that stood for the one replaced.
Survivor(n) ==
    LET standing[m \in 0..n] ==
            IF m = 0 THEN [id \in Ids |-> id]
            ELSE LET before == standing[m - 1]
                 IN  [id \in Ids |-> IF before[id] = log[m].from THEN log[m].to ELSE before[id]]
    IN  standing[n]

\* Only an ID that stands is replaced, by one that stands or that it replaced.
Replaceable(record) ==
    LET now == Survivor(Len(log))
    IN  record.row = "sequenced" =>
            /\ record.from # record.to
            /\ now[record.from] = record.from
            /\ now[record.to] \in {record.from, record.to}

Item(i) == [lost |-> FALSE, number |-> i]
Lost(i) == [lost |-> TRUE, number |-> i]

\* What a later value of a key leaves in the stream of an earlier one.
Superseded(key) ==
    {item \in stream : item.lost \/ log[item.number].place # key}

\* A record made and, where the stream names its subject, sent; a price may
\* take the place of one not yet taken.
Record(record) ==
    LET i == Len(log) + 1
        sent == /\ up
                /\ record.row = "latest" => record.place \in wanted
                /\ record.row = "full" => record.of \in wanted
    IN  /\ i <= MaxLog
        /\ record.row \in heard
        /\ Replaceable(record)
        /\ log' = Append(log, record)
        /\ \/ stream' = (IF sent THEN stream \cup {Item(i)} ELSE stream) /\ UNCHANGED left
           \/ sent /\ Spend("losses") /\ stream' = stream \cup {Lost(i)}
           \/ /\ sent /\ record.row = "latest" /\ UNCHANGED left
              /\ stream' = Superseded(record.place) \cup {Item(i)}
        /\ UNCHANGED <<heard, named, wanted, reopen, up, phase, started, todo, after, handVars,
                       anew, since>>

Break ==
    /\ up /\ Spend("breaks")
    /\ up' = FALSE
    /\ \E n \in 0..Len(log) : stream' = {item \in stream : item.number <= n}
    /\ UNCHANGED <<heard, log, named, wanted, reopen, phase, started, todo, after, handVars,
                   anew, since>>

\* What a role's `subjects()` answers changes, and it calls `hear_again()`.
Rename(key) ==
    /\ phase # "starting" /\ Spend("renames")
    /\ named' = IF key \in named THEN named \ {key} ELSE named \cup {key}
    /\ reopen' = TRUE
    /\ UNCHANGED <<heard, log, wanted, stream, up, phase, started, todo, after, handVars, anew, since>>

-----------------------------------------------------------------------------
(* Handing on. *)

\* The roles handed, in order: while seeding, those that seed.
Hears(r, seeding) == seeding => r \in Seeders
Hearers(seeding) == SelectSeq(Roles, LAMBDA r : Hears(r, seeding))

\* Slip: handed on as it comes.
FreshAny(i) == TRUE

\* `hand`: one at or before the last handed on of its place is not again.
Fresh(i) == i > seen[log[i].place]

Due(numbers) == {i \in numbers : Fresh(i)}

\* What was handed on is had, though a handler has yet to answer.
Marked(numbers) ==
    [p \in Places |-> Max({seen[p]} \cup {i \in numbers : log[i].place = p})]

\* What each role holds once it is handed `got[r]`, in order.
Valued(got) ==
    value' = [r \in ToSet(Roles) |-> [p \in Lake |->
                 LET given == {i \in got[r] : log[i].place = p}
                 IN  IF given = {} THEN value[r][p] ELSE Max(given)]]

Mapped(got) ==
    ids' = [r \in ToSet(Roles) |-> Applied(ids[r], got[r] \cap Of("sequenced"))]

Handed(got) == Valued(got) /\ Mapped(got)

Trades(got) == [r \in ToSet(Roles) |-> had[r] \cup (got[r] \cap Of("full"))]

\* All that is due is handed to all that hear it.
Hand(numbers, seeding) ==
    \E due \in {Due(numbers)} :
    \E got \in {[r \in ToSet(Roles) |-> IF Hears(r, seeding) THEN due ELSE {}]} :
        /\ seen' = Marked(due)
        /\ Handed(got)
        /\ had' = Trades(got)

\* The stream's call is over, and with it what was sent down it.
Closed ==
    /\ phase' = "closed" /\ up' = FALSE /\ stream' = {}
    /\ todo' = {} /\ after' = None

\* `follow` itself is over, and is run again knowing nothing.
Afresh ==
    /\ seen' = [p \in Places |-> 0]
    /\ started' = FALSE
    /\ anew' = Len(log)

\* A handler raises at `at`, with some of what is due handed on before: the
\* roles after it are not called.  A failed call of its own ends the stream
\* alone; anything else `follow`.
Raise(numbers, seeding) ==
    LET due == Due(numbers)
        hears == Hearers(seeding)
    IN  \E at \in due, before \in SUBSET due, n \in 0..Len(hears) - 1, raised \in HandlerRaises :
          /\ at \notin before
          /\ \A i \in before \cup {at}, j \in due :
                log[j].place = log[i].place /\ j < i => j \in before
          /\ LET got == [r \in ToSet(Roles) |->
                            IF ~Hears(r, seeding) THEN {}
                            ELSE IF r \in ToSet(SubSeq(hears, 1, n)) THEN before \cup {at}
                            ELSE before]
             IN  Handed(got) /\ had' = Trades(got)
          /\ IF raised = "call"
             THEN Spend("fails") /\ seen' = Marked(before \cup {at}) /\ UNCHANGED <<started, anew>>
             ELSE Spend("ends") /\ Afresh
          /\ Closed
          /\ UNCHANGED <<heard, log, named, wanted, reopen, since>>

-----------------------------------------------------------------------------
(* The plugin. *)

\* Each role's map is caught up before the stream is opened.
OnStart ==
    /\ phase = "starting"
    /\ ids' = [r \in ToSet(Roles) |-> CaughtUpMap(ids[r])]
    /\ phase' = "closed"
    /\ UNCHANGED <<sidecarVars, wanted, reopen, started, todo, after, seen, value, had, anew, since>>

Seeded == Seeders # {}

\* Slip: trades are never read again.
RereadingAsAtStart ==
    {row \in {"latest", "sequenced"} : row = "latest" => Seeded}

\* Slip: prices are read on the start alone.
RereadingOnce == {row \in Rows : (row = "latest" => Seeded /\ ~started) /\ (row = "full" => started)}

\* The rows read as the stream opens: prices for a role that seeds, trades only
\* once `follow` had some.
Rereading == {row \in Rows : (row = "latest" => Seeded) /\ (row = "full" => started)}

\* Subscribed, for the subjects named now: the rows are read again.
Open ==
    /\ phase = "closed"
    /\ up' = TRUE /\ stream' = {}
    /\ wanted' = named
    /\ since' = [k \in Keys |-> IF k \in wanted \cap named THEN since[k] ELSE Len(log)]
    /\ todo' = Rereading \cap heard
    /\ IF todo' = {} THEN phase' = "following" /\ started' = TRUE
       ELSE phase' = "reading" /\ UNCHANGED started
    /\ UNCHANGED <<heard, log, named, reopen, after, handVars, anew, left>>

\* The rows are read in the order they were added: prices, trades, replacements.
Reading(row) ==
    /\ row \in todo
    /\ row = "full" => "latest" \notin todo
    /\ row = "sequenced" => todo = {row}
Seeding == phase = "reading" /\ (~started \/ Reading("latest"))

\* A row is read; the last read of those on opening, and the stream is followed.
RowRead(row) ==
    /\ todo' = todo \ {row}
    /\ IF todo' = {} THEN phase' = "following" /\ started' = TRUE
       ELSE UNCHANGED <<phase, started>>

\* `_Latest.read`: the latest of each key whose subject the stream names.
LatestWanted == {LatestOf(k) : k \in wanted} \ {0}

\* `_InFull.read`: the trades of the subjects the stream names after the watermark
\* last seen of their dataset.
AfterWatermark ==
    {i \in Of("full") : log[i].of \in wanted /\ seen[log[i].place] > 0 /\ i > seen[log[i].place]}

RowOf(row) == IF row = "latest" THEN LatestWanted ELSE AfterWatermark

ReadRow(row) ==
    /\ Reading(row)
    /\ Hand(RowOf(row), Seeding)
    /\ RowRead(row)
    /\ UNCHANGED <<sidecarVars, wanted, reopen, after, anew, since>>

\* `_Sequenced.read`, a page: the first replacements after the last page, or
\* after the last handed on.
ReadAfter == IF after = None THEN seen[All] ELSE after
Page == {i \in Of("sequenced") : i > ReadAfter
            /\ Cardinality({j \in Of("sequenced") : ReadAfter < j /\ j < i}) < PageSize}

\* Read until a read answers none.  Where no role seeds, what stood at the
\* start is passed over.
ReadReplacements ==
    /\ Reading("sequenced")
    /\ IF ~started /\ ~Seeded
       THEN seen' = Marked(Page) /\ UNCHANGED <<value, had, ids>>
       ELSE Hand(Page, Seeding)
    /\ IF Page = {} THEN after' = None /\ RowRead("sequenced")
       ELSE after' = Max(Page) /\ UNCHANGED <<todo, phase, started>>
    /\ UNCHANGED <<sidecarVars, wanted, reopen, anew, since>>

\* A read fails: one unanswered or refused by what answers it ends the stream
\* alone, any other `follow`.
ReadFails ==
    /\ todo # {}
    /\ \/ Spend("fails") /\ UNCHANGED <<seen, started, anew>>
       \/ Spend("ends") /\ Afresh
    /\ Closed
    /\ UNCHANGED <<heard, log, named, wanted, reopen, value, had, ids, since>>

RaiseReading ==
    \/ \E row \in {"latest", "full"} : Reading(row) /\ Raise(RowOf(row), Seeding)
    \/ Reading("sequenced") /\ (started \/ Seeded) /\ Raise(Page, Seeding)

\* The next delivery is taken.
Taking(item) ==
    /\ phase = "following" /\ todo = {}
    /\ \A other \in stream : item.number <= other.number

Hear(item) ==
    /\ Taking(item) /\ ~item.lost
    /\ Hand({item.number}, FALSE)
    /\ stream' = stream \ {item}
    /\ UNCHANGED <<heard, log, named, wanted, reopen, up, phase, started, todo, after, anew, since, left>>

RaiseHearing == \E item \in stream : Taking(item) /\ ~item.lost /\ Raise({item.number}, FALSE)

\* A loss: the row it names, or where it names none every row, is read.
HearLost(item) ==
    /\ Taking(item) /\ item.lost
    /\ todo' \in {{log[item.number].row}, heard}
    /\ stream' = stream \ {item}
    /\ UNCHANGED <<heard, log, named, wanted, reopen, up, phase, started, after, handVars, anew, since, left>>

\* The stream is found broken; a request to open it again may be met by that.
SeeBreak ==
    /\ phase = "following" /\ todo = {} /\ ~up /\ stream = {}
    /\ Closed
    /\ reopen' \in {reopen, FALSE}
    /\ UNCHANGED <<heard, log, named, wanted, started, handVars, anew, since, left>>

\* The call is cancelled, a role having asked for the stream again.
SeeReopen ==
    /\ phase = "following" /\ todo = {} /\ reopen
    /\ Closed
    /\ reopen' = FALSE
    /\ UNCHANGED <<heard, log, named, wanted, started, handVars, anew, since, left>>

-----------------------------------------------------------------------------
Init ==
    /\ heard \in Hearings
    /\ log = <<>>
    /\ named = Keys /\ wanted = {} /\ reopen = FALSE
    /\ stream = {} /\ up = FALSE
    /\ phase = "starting" /\ started = FALSE /\ todo = {} /\ after = None
    /\ seen = [p \in Places |-> 0]
    /\ value = [r \in ToSet(Roles) |-> [p \in Lake |-> 0]]
    /\ had = [r \in ToSet(Roles) |-> {}] /\ anew = 0 /\ since = [k \in Keys |-> 0]
    /\ ids = [r \in ToSet(Roles) |-> [became |-> [id \in Ids |-> None], sequence |-> 0]]
    /\ left \in Budgets[heard]

Sidecar == (\E record \in Records : Record(record)) \/ Break

Reads == ReadRow("latest") \/ ReadRow("full") \/ ReadReplacements

Fails == ReadFails \/ RaiseReading \/ RaiseHearing

Follow == OnStart \/ Open \/ (\E item \in stream : Hear(item) \/ HearLost(item)) \/ SeeBreak \/ SeeReopen

Next == Sidecar \/ (\E key \in Keys : Rename(key)) \/ Reads \/ Fails \/ Follow

Spec == Init /\ [][Next]_vars

\* `follow` is one task, run by the event loop whenever it can go on, and a read
\* under way is answered; nothing makes a record be made or a call fail.
FairSpec == Spec /\ WF_vars(Reads \/ Follow)

-----------------------------------------------------------------------------
(* What holds. *)

\* Every variable has its type, and nothing handed on, sent or read is past
\* what was made.
TypeOK ==
    /\ heard \subseteq Rows /\ log \in Seq(Records)
    /\ named \subseteq Keys /\ wanted \subseteq Keys /\ reopen \in BOOLEAN
    /\ stream \subseteq [lost : BOOLEAN, number : Numbers] /\ up \in BOOLEAN
    /\ phase \in {"starting", "closed", "reading", "following"} /\ started \in BOOLEAN
    /\ todo \subseteq Rows /\ after \in Numbers \cup {None}
    /\ seen \in [Places -> 0..Len(log)]
    /\ value \in [ToSet(Roles) -> [Lake -> 0..Len(log)]]
    /\ had \in [ToSet(Roles) -> SUBSET Of("full")]
    /\ anew \in 0..Len(log) /\ since \in [Keys -> 0..Len(log)]
    /\ ids \in [ToSet(Roles) -> Maps]
    /\ left \in [Mishaps -> Nat]

\* A role's map names, of every ID, the record that stood for it once the last
\* replacement applied was made, whichever were lost, read again, or handed
\* to another role alone (replacements.py: "in the store's sequence").
MapIsTrue ==
    \A r \in Seeders, id \in Ids :
        Current(ids[r].became, id) = Survivor(ids[r].sequence)[id]

\* A trade made since its subject was last not asked for, of one that is.
Owed(j) == log[j].of \in wanted /\ since[log[j].of] < j

\* Trade `j` is owed, between `i` and `k` of its dataset.
Between(i, j, k) ==
    /\ log[i].place = log[j].place /\ log[j].place = log[k].place
    /\ i < j /\ j < k /\ Owed(j)

\* Between two trades of a dataset handed to a role, of the subjects asked for none
\* is missing, over losses, breaks, failed reads and subjects that change, as long
\* as `follow` did not end between them (receive.py: "every one is handed on,
\* each once, in its dataset's order").
NoTradeMissing ==
    \A r \in ToSet(Roles) : \A i, k \in had[r] :
        \A j \in Of("full") : anew < i /\ Between(i, j, k) => j \in had[r]

\* The same of all a role was handed.  The code does not keep it: where one role's
\* failure ends `follow`, no role is handed what is made until the stream is open
\* again (MCCursors, Ended; README, Disagreements).
EveryTrade ==
    \A r \in ToSet(Roles) : \A i, k \in had[r] :
        \A j \in Of("full") : Between(i, j, k) => j \in had[r]

\* A role is never handed a price or a trade made before the one of its key or
\* dataset it was handed last, over reads, losses, restarts and subjects that
\* change (receive.py: "unless one recorded after it under the same key was
\* handed on already").
NeverOlder ==
    [][\A r \in ToSet(Roles), p \in Lake : value'[r][p] >= value[r][p]]_vars

\* Once nothing more is made, a role that seeds holds the latest of each key it
\* names and knows what each ID became, and each role was handed every trade it is
\* owed after its first: what a loss, a broken stream or a failed read took is read
\* again (receive.py: "so nothing changed after the read below is missed by the
\* stream").  Trades are read after the last `follow` handed on: what came before
\* it last ended is not asked of them.
AllHad ==
    /\ \A r \in Seeders :
          /\ \A k \in named : value[r][k] = LatestOf(k)
          /\ \A id \in Ids : Current(ids[r].became, id) = Survivor(Len(log))[id]
    /\ \A r \in ToSet(Roles), i \in Of("full") :
          (Owed(i) /\ \E k \in had[r] : log[k].place = log[i].place /\ anew < k /\ k < i)
              => i \in had[r]
Converges == <>[]AllHad

=============================================================================
