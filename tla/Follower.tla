------------------------------- MODULE Follower -------------------------------
(***************************************************************************)
(* One row a plugin hears through its journal (receive.py, `_Follower`,    *)
(* `follow` and `_watch_scope`): the store numbers each change, the        *)
(* sidecar sends each at most once down a stream that can drop, note a     *)
(* loss, or break, and the plugin reads the store, a page at a time, to    *)
(* catch up.                                                               *)
(*                                                                         *)
(* A cell is one record of one account (a position, an order).  The store  *)
(* answers a read with a cell's latest record, so a change is known by its *)
(* number alone.  All accounts share one partition.                        *)
(***************************************************************************)
EXTENDS Integers, Sequences, FiniteSets, FiniteSetsExt

CONSTANTS
    Accounts,     \* the accounts a record can be of
    Keys,         \* what tells two records of one account apart
    None,         \* no point, no scope yet
    Seeds,        \* whether the row is handed on as the stream first opens
    HandlerRaises,\* what a handler may raise: a subset of {"call", "other"}
    MaxLog,       \* bound: changes the store makes
    MaxDrops,     \* bound: deliveries dropped and not told of
    Budgets       \* bound: of each mishap, the numbers there may be of it

Cells == Accounts \X Keys
CatchUpTries == 3

\* Where a row's changes for an account are had to: everything at or below
\* `floor` was read, and `last` is the last heard above it.
Point == [floor : Nat, last : Nat]

\* A read of the store under way: what it is for, the accounts it asks of and
\* since when, where its first page was answered, and what is read and is not.
Jobs == [by : {"seed", "open", "lost", "delivery", "scope"},
         who : SUBSET Accounts, whole : BOOLEAN, since : Nat,
         answered : Nat \cup {None}, unread : SUBSET Cells, got : SUBSET Nat]

\* What the environment may do to the plugin, each a bounded number of times:
\* deliveries dropped, and dropped and told of by a Lost; the stream breaks; a
\* read fails or a handler raises; an account enters or leaves the read scope;
\* the scope stream breaks.  "lag" is not spent: it is how many changes a
\* read's answer may be behind the journal.
Mishaps == {"drops", "losses", "breaks", "fails", "moves", "scopeBreaks", "lag"}

ASSUME FollowerAssumption ==
    /\ None \notin Accounts
    /\ None \notin Nat
    /\ None \notin Point
    /\ None \notin Jobs
    /\ Seeds \in BOOLEAN
    /\ HandlerRaises \subseteq {"call", "other"}
    /\ MaxLog \in Nat /\ MaxDrops \in Nat
    /\ Budgets \subseteq [Mishaps -> Nat]

VARIABLES
    log,       \* the store's journal: [cell, previous], numbered from 1
    scope,     \* the accounts in the plugin's read scope
    stream,    \* deliveries sent and not yet taken: a number, or 0 for a Lost
    up,        \* whether the sidecar still sends on the stream
    phase,     \* where `follow` is: closed, opened, reading, following
    started,   \* whether `follow` has seeded
    points,    \* account -> where its changes are had to
    readTo,    \* where the last read of the whole scope was answered
    job,       \* the read under way under the lock, or None
    tries,     \* reads the delivery at the stream's head has prompted
    scopes,    \* scopes sent and not yet taken by `_watch_scope`
    watching,  \* whether `_watch_scope` still runs
    held,      \* the scope it last took
    entering,  \* accounts it holds the lock to catch up
    value,     \* cell -> the number of the record its handler was last handed
    left       \* what remains of each bound

storeVars == <<log, scope>>
streamVars == <<stream, up>>
scopeVars == <<scopes, watching, held, entering>>
vars == <<log, scope, stream, up, phase, started, points, readTo, job, tries,
          scopes, watching, held, entering, value, left>>

Spend(m) ==
    /\ left[m] > 0
    /\ left' = [left EXCEPT ![m] = @ - 1]

-----------------------------------------------------------------------------
(* The store and the sidecar. *)

Numbers == 1..Len(log)
MadeOf(a) == {i \in Numbers : log[i].cell[1] = a}
\* The number of a cell's latest record at or below `n`, 0 where it has none.
LatestAt(c, n) == Max({0} \cup {i \in 1..n : log[i].cell = c})
Latest(c) == LatestAt(c, Len(log))
LastOf(a) == Max({0} \cup MadeOf(a))

Lost == 0

\* A change numbered and, where its account is in scope and the stream is
\* open, sent, dropped, or dropped and told of.
Change(c) ==
    /\ Len(log) < MaxLog
    /\ log' = Append(log, [cell |-> c, previous |-> LastOf(c[1])])
    /\ \/ /\ stream' = IF up /\ c[1] \in scope THEN Append(stream, Len(log) + 1) ELSE stream
          /\ UNCHANGED left
       \/ /\ up /\ c[1] \in scope
          /\ Spend("drops")
          /\ UNCHANGED stream
       \/ /\ up /\ c[1] \in scope
          /\ Spend("losses")
          /\ stream' = Append(stream, Lost)
    /\ UNCHANGED <<scope, up, phase, started, points, readTo, job, tries,
                   scopes, watching, held, entering, value>>

\* Deliveries the plugin has taken and not done with: the one read for.
Taken == IF tries > 0 \/ (job # None /\ job.by = "delivery") THEN 1 ELSE 0

\* The stream breaks: what had not yet reached the plugin is gone.
Break ==
    /\ up
    /\ Spend("breaks")
    /\ up' = FALSE
    /\ \E n \in Taken..Len(stream) : stream' = SubSeq(stream, 1, n)
    /\ UNCHANGED <<log, scope, phase, started, points, readTo, job, tries,
                   scopes, watching, held, entering, value>>

\* An account enters the read scope or leaves it.
Move(a) ==
    /\ Spend("moves")
    /\ scope' = IF a \in scope THEN scope \ {a} ELSE scope \cup {a}
    /\ scopes' = IF watching THEN Append(scopes, scope') ELSE scopes
    /\ UNCHANGED <<log, stream, up, phase, started, points, readTo, job, tries,
                   watching, held, entering, value>>

-----------------------------------------------------------------------------
(* Where the plugin has its changes to. *)

Had(p) == IF p.last > p.floor THEN p.last ELSE p.floor

\* Slip: a change is handed on over a gap.
ContinuesAnywhere(p, previous) == TRUE

\* Whether the change after `previous` is the account's next.
Continues(p, previous) ==
    IF p.last > p.floor THEN previous = p.last ELSE previous <= p.floor

ReadTo(n) == [floor |-> n, last |-> n]

HadOf(a) == IF points[a] = None THEN -1 ELSE Had(points[a])

\* A read of the accounts `who` since `since`, by `by`, before its first page:
\* the store answers of those in the plugin's scope as it is asked.
Reading(by, who, whole, since) ==
    [by |-> by, who |-> who, whole |-> whole, since |-> since,
     answered |-> None, unread |-> (who \cap scope) \X Keys, got |-> {}]

\* `catch_up`: one account's changes since the last it had.
CatchUp(by, a) ==
    Reading(by, {a}, FALSE, IF points[a] = None THEN 0 ELSE Had(points[a]))

HadSoFar == {Had(points[a]) : a \in {b \in Accounts : points[b] # None}}

\* Slip: of the accounts something was had of alone.
CatchUpKnown(by) ==
    Reading(by, {a \in Accounts : points[a] # None}, TRUE, Min({readTo} \cup HadSoFar))

\* `catch_up_all`: every account's changes since the least any has.
CatchUpAll(by) == Reading(by, Accounts, TRUE, Min({readTo} \cup HadSoFar))

\* `seed`: every record, as the store holds them now.
Seed == Reading("seed", Accounts, TRUE, 0)

\* The handler is handed the records numbered `given`, in order: its copy
\* of each of their cells is the last of them.
Handing(given) ==
    value' = [c \in Cells |->
                LET of == {i \in given : log[i].cell = c}
                IN  IF of = {} THEN value[c] ELSE Max(of)]

Free == job = None /\ entering = {}

\* `follow` waits to open its stream again.
Closing ==
    /\ phase' = "closed"
    /\ up' = FALSE
    /\ stream' = <<>>
    /\ tries' = 0

\* `follow` ended and is run again: nothing had, a new watch of the scope.
Afresh ==
    /\ Closing
    /\ started' = FALSE
    /\ points' = [a \in Accounts |-> None]
    /\ readTo' = 0
    /\ scopes' = <<scope>>
    /\ watching' = TRUE
    /\ held' = None
    /\ entering' = {}

\* `_watch_scope` ends: nothing starts it again while `follow` runs.
WatchEnds ==
    /\ watching' = FALSE
    /\ scopes' = <<>>
    /\ entering' = {}
    /\ UNCHANGED held

-----------------------------------------------------------------------------
(* Opening the stream and reading the store. *)

\* The sidecar has subscribed the stream.
Open ==
    /\ phase = "closed"
    /\ phase' = "opened"
    /\ up' = TRUE
    /\ UNCHANGED <<log, scope, stream, started, points, readTo, job, tries,
                   scopes, watching, held, entering, value, left>>

\* With the stream open, the store is read: whole the first time, since what
\* was had after.
ReadOnOpen ==
    /\ phase = "opened"
    /\ Free
    /\ phase' = "reading"
    /\ job' = IF started THEN CatchUpAll("open") ELSE Seed
    /\ UNCHANGED <<log, scope, stream, up, started, points, readTo, tries,
                   scopes, watching, held, entering, value, left>>

\* Slip: as of the change after.
AnsweredNext(page, n) ==
    [by |-> job.by, who |-> job.who, whole |-> job.whole, since |-> job.since,
     answered |-> IF job.answered = None THEN n + 1 ELSE job.answered,
     unread |-> job.unread \ page,
     got |-> job.got \cup {i \in {LatestAt(c, n) : c \in page} : i > job.since}]

\* The job once a page of it is answered, as of the change numbered `n`: the
\* records of the cells in `page` changed since.
Answered(page, n) ==
    [by |-> job.by, who |-> job.who, whole |-> job.whole, since |-> job.since,
     answered |-> IF job.answered = None THEN n ELSE job.answered,
     unread |-> job.unread \ page,
     got |-> job.got \cup {i \in {LatestAt(c, n) : c \in page} : i > job.since}]

\* Where a page may be answered: no earlier than the pages before it.
AsOf ==
    {n \in 0..Len(log) : n >= Len(log) - left["lag"] /\ (job.answered # None => n >= job.answered)}

\* A page of several, more to come.
ReadPage ==
    /\ job # None
    /\ \E page \in SUBSET job.unread, n \in AsOf :
          /\ page \notin {{}, job.unread}
          /\ job' = Answered(page, n)
    /\ UNCHANGED <<log, scope, stream, up, phase, started, points, readTo, tries,
                   scopes, watching, held, entering, value, left>>

\* What the read `whole` of records is handed on: nothing had already.
ToHand(whole) ==
    IF whole.by = "seed" /\ ~Seeds THEN {}
    ELSE {i \in whole.got : i > HadOf(log[i].cell[1])}

\* Slip: a point is moved wherever the read was answered.
MovesWherever(whole, a) == TRUE

MovesOn(whole, a) == whole.answered > HadOf(a)

\* `_apply` up to handing: every account the records name, and each the read
\* was of, is had to where its first page was answered.
Moves(whole) ==
    LET named == {log[i].cell[1] : i \in whole.got}
        asked == CASE whole.by = "seed" -> {}
                   [] whole.by # "seed" /\ whole.whole -> {a \in Accounts : points[a] # None}
                   [] OTHER -> whole.who
    IN  [a \in Accounts |->
            IF a \in named \cup asked /\ MovesOn(whole, a)
            THEN ReadTo(whole.answered) ELSE points[a]]

\* The last page: the records are had, and handed on.
ReadLast ==
    /\ job # None
    /\ \E n \in AsOf :
          LET whole == Answered(job.unread, n)
          IN  /\ points' = Moves(whole)
              /\ readTo' = IF whole.whole THEN whole.answered ELSE readTo
              /\ Handing(ToHand(whole))
    /\ job' = None
    /\ IF job.by \in {"seed", "open"}
       THEN phase' = "following" /\ started' = TRUE
       ELSE UNCHANGED <<phase, started>>
    /\ tries' = IF job.by = "delivery" THEN tries + 1 ELSE tries
    /\ UNCHANGED <<log, scope, stream, up, scopes, watching, held, entering, left>>

\* A read fails: `follow` opens its stream again; the scope watch ends.
ReadFails ==
    /\ job # None
    /\ Spend("fails")
    /\ job' = None
    /\ IF job.by = "scope"
       THEN WatchEnds /\ UNCHANGED <<phase, up, stream, tries>>
       ELSE Closing /\ UNCHANGED scopeVars
    /\ UNCHANGED <<log, scope, started, points, readTo, value>>

\* The handler raises at the record numbered `at`, those before it handed on.
RaisesReading(raised, at, n) ==
    LET whole == Answered(job.unread, n)
    IN  /\ at \in ToHand(whole)
        /\ Handing({i \in ToHand(whole) : i < at})
        /\ CASE job.by = "scope" ->
                  /\ WatchEnds
                  /\ points' = Moves(whole)
                  /\ UNCHANGED <<phase, up, stream, tries, started, readTo>>
             [] job.by # "scope" /\ raised = "call" ->
                  /\ Closing
                  /\ points' = Moves(whole)
                  /\ readTo' = IF whole.whole THEN whole.answered ELSE readTo
                  /\ UNCHANGED <<started, scopes, watching, held, entering>>
             [] OTHER -> Afresh

HandlerRaisesReading ==
    /\ job # None
    /\ Spend("fails")
    /\ \E raised \in HandlerRaises, at \in Numbers, n \in AsOf : RaisesReading(raised, at, n)
    /\ job' = None
    /\ UNCHANGED <<log, scope>>

-----------------------------------------------------------------------------
(* Hearing the stream. *)

\* Where the delivery at the stream's head finds its account had to: the first
\* change the row ever made for it needs no read.
PointFor(i) ==
    IF points[log[i].cell[1]] = None /\ log[i].previous = 0
    THEN ReadTo(0) ELSE points[log[i].cell[1]]

Follows(i) ==
    /\ PointFor(i) # None
    /\ i > Had(PointFor(i))
    /\ Continues(PointFor(i), log[i].previous)

\* The point the delivery is handed on from, a gap read for in vain included.
HandedFrom(i) == IF PointFor(i) = None THEN ReadTo(0) ELSE PointFor(i)

MayRead == tries < CatchUpTries

Heard(i) == Follows(i) \/ (tries = CatchUpTries /\ i > Had(HandedFrom(i)))

Hearing ==
    /\ phase = "following"
    /\ Free
    /\ stream # <<>>

\* A Lost: every account's changes are read since the least any has.
TakeLost ==
    /\ Hearing
    /\ Head(stream) = Lost
    /\ stream' = Tail(stream)
    /\ job' = CatchUpAll("lost")
    /\ UNCHANGED <<log, scope, up, phase, started, points, readTo, tries,
                   scopes, watching, held, entering, value, left>>

\* A change had already is not handed on again.
SkipHad ==
    /\ Hearing
    /\ Head(stream) # Lost
    /\ PointFor(Head(stream)) # None
    /\ Head(stream) <= Had(PointFor(Head(stream)))
    /\ stream' = Tail(stream)
    /\ tries' = 0
    /\ UNCHANGED <<log, scope, up, phase, started, points, readTo, job,
                   scopes, watching, held, entering, value, left>>

\* A change that follows on is handed on, its number had before it is.
HandHeard ==
    /\ Hearing
    /\ Head(stream) # Lost
    /\ LET i == Head(stream)
       IN  /\ Heard(i)
           /\ points' = [points EXCEPT ![log[i].cell[1]] = [HandedFrom(i) EXCEPT !.last = i]]
           /\ Handing({i})
    /\ stream' = Tail(stream)
    /\ tries' = 0
    /\ UNCHANGED <<log, scope, up, phase, started, readTo, job,
                   scopes, watching, held, entering, left>>

\* A change that does not follow on: its account is read since its last.
ReadGap ==
    /\ Hearing
    /\ Head(stream) # Lost
    /\ LET i == Head(stream)
       IN  /\ MayRead
           /\ PointFor(i) # None => i > Had(PointFor(i))
           /\ ~Follows(i)
           /\ job' = CatchUp("delivery", log[i].cell[1])
    /\ UNCHANGED <<log, scope, stream, up, phase, started, points, readTo, tries,
                   scopes, watching, held, entering, value, left>>

\* The handler raises at a change heard: a failed call of its own passes for a
\* read that failed, and anything else ends `follow`.
HandlerRaisesHeard ==
    /\ Hearing
    /\ Spend("fails")
    /\ Head(stream) # Lost
    /\ LET i == Head(stream)
       IN  /\ Heard(i)
           /\ \/ /\ "call" \in HandlerRaises
                 /\ Closing
                 /\ points' = [points EXCEPT ![log[i].cell[1]] = [HandedFrom(i) EXCEPT !.last = i]]
                 /\ UNCHANGED <<started, readTo, scopes, watching, held, entering>>
              \/ "other" \in HandlerRaises /\ Afresh
    /\ UNCHANGED <<log, scope, job, value>>

\* The stream ended or broke, and all that had come of it is taken.
SeeBreak ==
    /\ phase \in {"opened", "following"}
    /\ phase = "following" => Free
    /\ ~up
    /\ stream = <<>>
    /\ Closing
    /\ UNCHANGED <<log, scope, started, points, readTo, job,
                   scopes, watching, held, entering, value, left>>

-----------------------------------------------------------------------------
(* `_watch_scope`. *)

\* A scope delivered: the accounts that left are forgotten and the lock kept
\* until each that entered is caught up; the first is only noted.
TakeScope ==
    /\ watching
    /\ scopes # <<>>
    /\ Free
    /\ scopes' = Tail(scopes)
    /\ held' = Head(scopes)
    /\ entering' = IF held = None THEN {} ELSE Head(scopes) \ held
    /\ points' = [a \in Accounts |->
                    IF held # None /\ a \in held \ Head(scopes) THEN None ELSE points[a]]
    /\ UNCHANGED <<log, scope, stream, up, phase, started, readTo, job, tries,
                   watching, value, left>>

ReadEntering(a) ==
    /\ job = None
    /\ a \in entering
    /\ entering' = entering \ {a}
    /\ job' = CatchUp("scope", a)
    /\ UNCHANGED <<log, scope, stream, up, phase, started, points, readTo, tries,
                   scopes, watching, held, value, left>>

\* The scope stream breaks: the watch ends, without a word.
ScopeBreaks ==
    /\ watching
    /\ job # None => job.by # "scope"
    /\ entering = {}
    /\ Spend("scopeBreaks")
    /\ WatchEnds
    /\ UNCHANGED <<log, scope, stream, up, phase, started, points, readTo, job, tries, value>>

-----------------------------------------------------------------------------
Init ==
    /\ log = <<>>
    /\ scope \in SUBSET Accounts
    /\ stream = <<>>
    /\ up = FALSE
    /\ phase = "closed"
    /\ started = FALSE
    /\ points = [a \in Accounts |-> None]
    /\ readTo = 0
    /\ job = None
    /\ tries = 0
    /\ scopes = <<scope>>
    /\ watching = TRUE
    /\ held = None
    /\ entering = {}
    /\ value = [c \in Cells |-> 0]
    /\ left \in Budgets
    /\ left["moves"] = 0 => scope = Accounts

Sidecar ==
    \/ \E c \in Cells : Change(c)
    \/ Break
    \/ \E a \in Accounts : Move(a)
    \/ ScopeBreaks

Fails == ReadFails \/ HandlerRaisesReading \/ HandlerRaisesHeard

Reads == ReadPage \/ ReadLast

Follow == Open \/ ReadOnOpen \/ TakeLost \/ SkipHad \/ HandHeard \/ ReadGap \/ SeeBreak

Watch == TakeScope \/ \E a \in Accounts : ReadEntering(a)

Next == Sidecar \/ Fails \/ Reads \/ Follow \/ Watch

Spec == Init /\ [][Next]_vars

\* The plugin's tasks are run by the event loop whenever they can go on, and a
\* read under way is answered; nothing makes the store change or a call fail.
Fairness == WF_vars(Reads) /\ WF_vars(Follow) /\ WF_vars(Watch)

FairSpec == Spec /\ Fairness

-----------------------------------------------------------------------------
(* What holds. *)

\* No point, and nothing read, is past the journal.
Bounded ==
    /\ \A a \in Accounts : HadOf(a) <= Len(log)
    /\ readTo <= Len(log)
    /\ \A i \in 1..Len(stream) : stream[i] <= Len(log)
    /\ job # None =>
          /\ job.since <= Len(log)
          /\ job.answered # None => job.answered <= Len(log)
          /\ job.got \subseteq Numbers

\* Every variable has its type; no point and no read is past the journal, and
\* a delivery never prompts more reads than CATCH_UP_TRIES.
TypeOK ==
    /\ log \in Seq([cell : Cells, previous : Nat])
    /\ scope \subseteq Accounts
    /\ stream \in Seq(Nat)
    /\ up \in BOOLEAN
    /\ phase \in {"closed", "opened", "reading", "following"}
    /\ started \in BOOLEAN
    /\ points \in [Accounts -> Point \cup {None}]
    /\ readTo \in Nat
    /\ job = None \/ job \in Jobs
    /\ tries \in 0..CatchUpTries
    /\ job # None /\ job.by = "delivery" => tries < CatchUpTries
    /\ scopes \in Seq(SUBSET Accounts)
    /\ watching \in BOOLEAN
    /\ held = None \/ held \subseteq Accounts
    /\ entering \subseteq Accounts
    /\ value \in [Cells -> Nat]
    /\ left \in [Mishaps -> Nat]
    /\ Bounded

\* The point an account is had to is kept honestly: the handler was handed, of
\* each of the account's records, the last change at or below it or a later
\* one.  What the point says is had is never asked for again, so a change under
\* it that was not handed on is lost (receive.py, `_Point`, `_apply`,
\* `delivered`).  It is asked of the accounts in scope once the scope watch has
\* taken every change of scope sent it.  The code does not keep it of an account
\* that enters the scope as the stream is opened again (MCFollower, Entered).
ScopeTaken == scopes = <<>> /\ entering = {} /\ (job # None => job.by # "scope")

HadIsHeld ==
    ScopeTaken => \A a \in scope : points[a] # None =>
        \A i \in 1..Had(points[a]) : log[i].cell[1] = a => value[log[i].cell] >= i

\* What an account is had to never goes back while the account is followed, or
\* changes had would be read and handed on again (`_apply`: a point moves only
\* where the read was answered past it).
PointsMoveForward ==
    [][\A a \in Accounts :
          points[a] # None /\ points'[a] # None => Had(points'[a]) >= Had(points[a])]_vars

\* Once the store is quiet, every record in scope is held as the store has it,
\* whatever was dropped and told of, however often the stream broke and however
\* the scope moved (receive.py: "Deliveries are at most once, so ... a plugin
\* catches up from the store").  A delivery dropped and not told of is found by
\* the next, a lagging read may answer too little, and the watch of the scope
\* ends with its stream: those three are not asked of.  Nor does it hold of an
\* account that enters the scope as the stream is opened again (HadIsHeld).
CaughtUp == \A c \in Cells : c[1] \in scope => value[c] = Latest(c)
Converges ==
    <>[](left["drops"] = MaxDrops /\ left["lag"] = 0 /\ watching => CaughtUp)

\* What a handler keeps of a record never goes back to an earlier change of it
\* (receive.py: "handing one on twice changes nothing a handler keeps").
NeverGoesBack == [][\A c \in Cells : value'[c] >= value[c]]_vars

=============================================================================
