# Verification of the Open Meridian plugin SDK

TLA+ models of the parts of the Python SDK (`src/src/meridian`) that keep state
over awaits: what a plugin hears and reads, the orders it works at a venue, the
sessions it holds with vendors and the views it keeps for its pages. TLC checks
each on small instances; TLAPS proves the most important properties for every
instance. Paths below are relative to `src/src/meridian/`.

## The system

A plugin is one asyncio process beside a sidecar, which it calls by gRPC. The
sidecar numbers what changes in the store, delivers it at most once down a
stream (`Receive`), and answers typed reads and reports. A plugin holds one role
or several (data, connectivity, custody, signal and so on), each a class whose
handlers the SDK calls. Everything runs in one event loop: a step of a model is
what runs from one `await` to the next.

| Part | State it keeps | Operations | What is hard | What makes it right |
|---|---|---|---|---|
| Following deliveries (`receive.py`) | per row and account the point its changes are had to; the read scope | `follow`, `seed`, `catch_up`, `catch_up_all`, `delivered`, `_watch_scope` | drops, losses told of, broken streams, paged reads answered behind, failing handlers, accounts entering the scope meanwhile | what a point says is had was handed on; all ends as the store has it |
| Rows no journal numbers (`receive.py`: `_Latest`, `_InFull`, `_Sequenced`) | what was last handed on, by key, dataset and row | `read`, `hand`, opening the stream with other subjects | reads that race the stream; a handler that fails between two roles | prices never go back, no trade is left out between two ends of `follow`, all ends as the store has it |
| Identifier replacements (`replacements.py`) | what each ID became, the last sequence applied | `apply`, `catch_up`, `current` | chains, the way back, several ways of hearing | an ID is followed to the record that stands |
| A plugin's run (`_run.py`) | the roles on each row, the tasks, their health | start, `until`, `_Hearing`, `_keep` | several roles hear one row, and one's failure runs the stream's task again for all | what one failure loses for the others is known (Disagreements) |
| Working placements (`roles/connectivity/_trader.py`) | placements worked, held, decided on; instructions; a watermark | `start`, `on_queued`, `poll`, `on_update`, `_stop`, `_release_held`, `_cancel`, `_replace`, reports | a crash or lost answer between note, send and report; stops and pauses against placements in flight | sent once at most; the book says what the venue says; held means held |
| Placing once (`roles/connectivity/_bookkeeping.py`) | names noted in storage | `place_once`, `Sent.note`, `resolve_unanswered` | the same | no double send |
| Fills (`_trader.py`) | filled, carried, fills reported, per order | `_fills`, `_busts`, `_replaced`, `_report_status` | polled and streamed news in either order; fills taken back; orders replaced | the book counts each fill once |
| A vendor session (`helpers/sessions.py`) | wanted, source, session, moments last heard, waits | `want`, `retarget`, `restart`, `run` | changes at any await; breaks with statements in flight | the session comes to be what was asked last; gaps are read back |
| Views (`views.py`) | one copy per selector, readers, held deliveries | `subscribe`, `close`, `_open`, `_read`, `delivered`, `_linger` | reads against deliveries, two streams, readers against lingering | a view at rest is the store's |
| Live values (`live.py`) | rows watched by a page | `watch`, refresh | conflation, staleness | a page sees the last value |
| Raw records and the edge lake (`_raw.py`, `edge.py`) | units in storage, in the archive and in the restore area; an index | `keep`, `archive`, `restore`, `delete`, `return_due`, `tend` | a crash between two steps of a move; a report that fails though it was recorded | a record leaves a place only when it is elsewhere or said deleted, and each move is done in the end |
| A pairs venue's feed (`roles/data/pairs.py`, `_wants.py`) | wants standing, products streamed, trades heard and not sent, the last of each product, the venue's ID and listing, backfills marked | wants heard and withdrawn, `restream`, `backfill`, `on_message`, `on_opened`, `flush` | three tasks at their awaits; reads back that race the stream; marks made before what they mark | no trade between two heard is passed over unsaid; the stream is what stands, once restreams do not overlap |
| Other data reading (`roles/data/_timetable.py`, `_reading.py`, `_groups.py`) | groups due, listings read | a pass on a timetable | | |
| Pricing, latency | batches, histograms | answer, report | refused reports | each answered once |
| Everything else | none between calls | conversions, generated calls, pages, analytics, market arithmetic, test runners | | |

How they meet: `_run.py` starts each role's `follow`, which hands a connectivity
role its placements and instructions; the same streams carry the views'
deliveries; `Supervisor` holds the session of a venue's feed and of its update
stream. A feed keeps each vendor answer as a raw record, which the mover later
archives. A connectivity role's handlers and its poll exclude one another by a
lock, and so do the mover's moves.

`PROJECT.json` lists every component with what is modelled of it, and the
hazards of the code by line.

## Modules

| Module | Of | About |
|---|---|---|
| `Follower` | `receive.py` 123-449, 800-1013 | one row heard through its journal |
| `Cursors`, `CursorsProofs` | `receive.py` 450-800, 843-1000, `_run.py` 131-310, `replacements.py` 48-121 | the rows beside the journal, heard by several roles; five theorems |
| `FollowerProofs` | | its types, the honesty of its points, and that they never go back, proved |
| `Placing` | module docs of `_trader.py`, `_bookkeeping.py` | the abstract promise: what may be told of a placement |
| `Trader` | `_trader.py`, `_bookkeeping.py`, part of `_run.py` | placements worked at a venue; implements `Placing` |
| `TraderProofs` | | types; no double send; hold; the refinement; what a stop, an instruction and a send come to, proved |
| `Fills`, `FillsProofs` | `_trader.py` 1308-1410, 1467-1490, 1701-2005, `_bookkeeping.py` 217-262 | one placement's fills in detail; four theorems |
| `Supervisor`, `SupervisorProofs` | `helpers/sessions.py` 284-520 | a vendor session; four theorems |
| `Views`, `ViewsProofs` | `views.py` 236-587 | a view, its readers and its streams; five theorems |
| `Lake` | module doc of `edge.py` | the abstract promise: when a record may leave storage or archive |
| `Mover`, `MoverProofs` | `edge.py` 500-960, `_raw.py` | a unit's moves, step by step; implements `Lake`; six theorems |
| `Feed`, `FeedProofs` | `roles/data/pairs.py` 997-1031, 1382-1660, `roles/data/_wants.py` 280-400 | a venue's trades, from stream and history to the lake; two theorems |
| `MC*` | | values of the constants, and which mishaps come together |

Conventions. A model's surroundings (the store, the sidecar, the book, a venue,
a vendor) act on their own, each mishap a bounded number of times: `left` holds
what remains of each bound, and `Budgets` the combinations a run allows. A
definition whose comment begins with "Slip" is a variant of the one below it, as
a plausible mistake would have it; nothing uses it, and each run's properties
are known to be broken by one of them.

### Follower

`log` is the store's journal: each change its cell (a record of an account) and
the number of the account's change before it. A change goes into `stream`, or is
dropped, or leaves a Lost there. `points` is `_Follower.points`; `job` the read
being made under the lock, page by page: `Answered` notes where the first page
was answered, `ReadLast` is `_apply`, moving the points and handing the records
on in one step because the code has no await between two handler calls that
another holder of the lock could use. `tries` counts the reads a delivery has
prompted. `phase`, `up`, `started` are `follow`'s loop; `scopes`, `held`,
`entering` are `_watch_scope`. `value` is a ghost: what a handler that keeps the
last record of each cell would hold.

### Trader and Placing

`book`, `asks`, `pending`, `ruling` are the book's; `status`, `orders`, `told`
the venue's; `sent` is in storage and outlives a crash; the rest is the
process's memory. All that holds the lock is one `job`, which stands at an await
(`at`) of a task (`by`) with placements still to take (`todo`): a poll, the start,
a delivery, a stop, a release. `Due` is `_report_status` as what it would report
next; `Marked` is what the code sets before the report and `Kept` what it sets
after, so that a failing report leaves exactly the marks the code leaves. A read
fails at any await of a job, those after `decided.add` among them (926-943): the
placement stays decided on. An order the book has may not be in the one page
`_order_of` reads (`Unfound`, `"unfound"` of the bounds): then `decided` is taken back.
`Placing` has three variables, and `Trader` maps to them by name: its `book`,
`status` and `orders`.

### Fills

One placement, its venue orders numbered as each replaces the last. A record in
hand (`job`) moves through `_report_status`: news or not, busts, the execution of
what grew, the order's end, the order that replaced it. `executions` and
`busted` are the book's, with its idempotency: a key used again applies nothing,
and one used again for something else is refused.

### Supervisor

`pc` stands at each await of `run`. `want`, `retarget` and `restart` come at any
of them. Statements are numbered as stated; `owed` is a ghost: statements of a
subject served without a break in the wanting, once anything was heard.

### Views

One selector. `shared` holds the copies, one for each time the view was made;
`job` the reads under way, one for the first opening and one for each stream.
The plugin may have only the views' own stream, or its roles' as well.

### Cursors

The store's records are numbered; each is a price under a key, a trade of a
dataset or one instrument replaced by another. `stream` carries deliveries,
with a loss in a dropped one's place, a set taken in the order of their numbers; `todo`
is the rows `follow` has still to read before it takes the next. `Roles` are called in their order: a handler that
raises hands on to those before it alone. `value`, `had` and `ids` are what the
roles hold: the last price of each key, every trade they were ever handed, and a
`CurrentIdMap`. A trade is `of` a subject: the stream and the reads bring those of
the subjects asked for as it was opened (`AfterWatermark`), though the watermark is
the dataset's. Two ghosts say since when trades are owed: `anew`, the records made
when `follow` last ended and began again with nothing seen, and `since`, by key,
those made when its subject was last not asked for. `Survivor` is the reference definition the map is checked
against: the store's own view of what stands for an ID after `n` replacements.

### Lake and Mover

A record is its unit (a day) and number. `storage`, `archive` and `restored` are
the disk and the object store, `state` and `files` the index, `told` what the
sidecar recorded. The lock's holder is one `move`, which stands at a step (`at`);
a crash drops it and keeps the rest. A report may fail with the move recorded or
not. Files are copied, forgotten and removed one at a time: `_forget` after a failed
copy or an undo (`ArchiveUndo`), and `_copy_back`, which clears its target before it
replaces it (`ClearTarget`, `Replace`). `Lake` has three variables; `Mover` maps `storage`, `archive` and `told` to
them.

### Feed

A product is the subject it serves, a trade its product and venue sequence. The
three tasks (the wants' handler, the pass, the stream's session) each stand at
an await (`jobs`) with what they took before it in hand. A restream takes what stands,
asks for the venue's ID (`ensure_mapped`) until the process knows it, and again while
the listing is being read anew, names what is not named yet, and sets the stream
last: two may be at their awaits at once. `saved` is the map in storage, written once
all of a naming are named; the listing was read by an earlier process. `made` is what the
venue's history states; `session` what the stream has delivered; `last` is
`last_trade`; `first` is a ghost, the first trade heard or read since the
process began; `said` those whose loss was logged.

## Runs

| Run | Shows | Bounds and why they suffice |
|---|---|---|
| `follower_kept` | `TypeOK` (three reads at most), `PointsMoveForward`, `Converges` | two accounts of one record each sharing the numbers, 3 changes; in turn all the stream's mishaps, a move of the scope with a scope break, the same with an answer behind |
| `follower_gaps` | `HadIsHeld` | two accounts of two records each, 3 changes: a gap is one change of an account dropped and the next, of its other record, delivered, with or without one of the other account between; two or three mishaps together, a move of the scope with a drop and an answer behind among them |
| `cursors_kept` | `MapIsTrue`, `NoTradeMissing`, `NeverOlder`, `Converges` | two roles, the second seeding, so that the first's failure can hide a change from it; 3 records, since a way back through a chain needs 3 IDs and a hole 3 trades; replacements, prices with trades, or trades alone of two subjects of one dataset; two mishaps of a kind each mix, and for trades a third, subjects left out and named again |
| `trader_promise` | `Trader` implements `Placing`; `NoDoubleSend`, `NothingNewUnderHold` | one placement with one of each of eight mishaps, all together; or two, one unsupported, with a crash, a failed read, an order not found and an instruction at any moment |
| `trader_lasts` | `SentIsWatched`, `StopCancels`, `InstructionIsKnown`, and `EndIsReported`, `CancelIsAnswered`, `QueuedIsTaken` under fairness | one placement; a crash and polls that say little, or two instructions |
| `fills_counted` | `NeverOver`, `BustIsTaken` | 3 units over 2 orders; the sets of mishaps in `MCFills!Counted` |
| `fills_whole` | `EndIsWhole`, `FillsReachBook` | two of crash, failed report, replace of the venue's own |
| `fills_lost` | the code breaks `NeverOver` where an execution is recorded and its answer lost | that one mishap |
| `supervisor_kept` | `AsAsked`, `NotForgotten`, `NothingMissed`, `ComesToHold` | two subjects, two sources, two changes of what is wanted, one statement in flight |
| `views_kept` | `Current`, `NeverOlder`, `ReaderHasView`, `NoneLeftUnready` | two readers, the view made twice, two changes, any two of break, loss and failure of one stream |
| `mover_kept` | `Mover` implements `Lake`; `Findable`, `AnsweredWhole`, `BoundKept`, and `MovesOn`, `ComesBack` under fairness | two units of two records, an archive of 3: the second unit fits only once the first has gone; two crashes, or one with any two other mishaps; all three settings |
| `feed_kept` | `NoneSkipped`, and `InLake`, `AsStands` under fairness | two products, batches of 2: a batch sent while more is heard; 3 trades (a hole needs three of a product) over a drop with two wants, or with one over refusals and unanswered history; 1 or 2 over a restart, a withdrawal, a listing read again, a naming that fails. A want is heard behind a waiting restream of the pass (`behind`) only where it is the only one |

Deadlock is not checked in any run: a plugin at rest with nothing left of its
bounds stops, and rightly. What must go on is asked for by liveness.

`follower_kept`, `cursors_kept`, `trader_lasts`, `fills_whole`, `supervisor_kept`,
`mover_kept` and `feed_kept` have liveness properties. `views_kept` uses symmetry
in readers and keys, `follower_gaps` in accounts and keys; they have no liveness
property.

## Fairness

Weak fairness of the plugin's own steps: the event loop runs every task that can
go on, and calls are answered (a call that fails is a mishap of its own, and
`follow`, `_keep` and `run` try again without bound). Strong fairness where
a task waits for a lock others take and give up for ever: asyncio's locks are
first come first served, so Trader's poll and hearing, and Fills' polls and
updates, get their turn. Trader also supposes that a venue ends an order it was
told to cancel, and that a process that died is started again. Nothing is
supposed of admins, ems or the market. In `Cursors` all is one task, `follow`, so
its steps share one weak fairness; in `Feed` each of the three tasks has its own,
since none waits for a lock another holds; in `Mover` the lock's holder goes on,
`tend` and the heartbeat come round, and days and restore periods pass.

## Proofs

All by TLAPS, from the constants' named assumptions alone unless said otherwise.

* **`FollowerProofs!TypeCorrect`**: types, no point past the journal, never more
  than `CATCH_UP_TRIES` reads for a delivery.
* **`FollowerProofs!PointIsHonest`**: `HadIsHeld`, for any accounts, records and
  bounds, assuming (`Promised`) reads answered as of now, a row that is seeded,
  handlers that do not raise a `CallFailed` of their own, and a read scope that
  stands still (budgets without "lag" and without "moves"). `HadIsHeld` is not inductive: it says nothing of a read halfway
  or of accounts without a point. `IInv` adds that the journal's `previous` is
  the account's last before (`Chained`), that a read under way asks since no
  later than what is had (`JobSince`) and has all it should of the pages
  answered (`JobCovers`), and that an account without a point had no change
  when the whole scope was last read (`Unheard`).
* **`FollowerProofs!PointsOnlyForward`**: `PointsMoveForward`, with nothing assumed of
  lag, the scope or handlers: a point is set by a read that began where it stood or
  later, or by the change that follows it.
* **`TraderProofs!TypeCorrect`**: types; every placement worked has its order
  known or looked for.
* **`TraderProofs!NeverSentTwice`, `NothingSentUnderHold`, `PromiseKept`**: for any
  number of placements, crashes, lost answers and failed reports. The invariant
  `Sound` adds that an order exists only for a placement noted (`Counted`), that
  the placement in hand is still queued without an order until sent (`AtHand`),
  that what is worked was decided on (`Watching`), that a delivery or list
  naming a placement queued is right or of one decided on (`NotStale`), and that
  the instruction is not heard between the decision and the send (`UnderHold`).
  `PromiseKept` is the refinement: initial states map to initial states, and
  each action to one of Placing's or to a stutter, case by case.
* **`TraderProofs!SentStaysWatched`**: `SentIsWatched`, for any placements, polls and
  lost answers, assuming (`Unmissed`) that no report fails, that each order is found, and that restarts
  and instructions do not come together: with the first the code reports an order
  refused to nobody, without the second it leaves one in flight unwatched, with the
  third a placement sent is held back again (all under Disagreements). `Followed` adds where a placement noted is when it is not yet
  worked: at the venue, between the note and what the send's answer leaves
  (`AtVenue`), or on the list the start has still to take up (`ToCome`); and that the
  start works alone (`Ordered`).
* **`TraderProofs!InstructionStaysKnown`**: `InstructionIsKnown`, for any number of
  instructions and restarts, assuming `RuledEarly` false and (`Unfailing`) that no report or read fails and each
  order is found: failures lose instructions in the code (Disagreements).
  `Heeded` says it of the deliveries still to come: the last instruction among
  them is the one in force, or none is and the one held is.
* **`TraderProofs!StopCancelsAll`**: `StopCancels`, assuming (`Unhindered`) that no
  budget has an instruction together with a restart, a failed call, an order not found,
  a call to the venue unanswered or a cancel refused: each leaves orders the code does not cancel
  (Disagreements). `AllStopped` adds that all that is worked has its order known and is
  told once its cancel is marked as sent, or is the one in hand (`Dealt`); that the
  book has nothing in flight that is not worked, and nothing sent still queued
  but the one whose answer is being told (`Booked`, so that nothing is looked for);
  that what a stop covers is in what its task has still to take (`Stopped`); and that
  no view is of one in flight and not worked (`InViews`).
* **`FillsProofs!TypeCorrect`, `NeverCountsOver`, `BustsWereTaken`**: types, `NeverOver`
  and `BustIsTaken`, for any number of orders and units, assuming of each set of
  bounds (`Counts`) that no report is recorded with its answer lost, that no fill
  is taken back with a restart, nor while its order works with a replace, and that
  reports refused, restarts and replaces do not all three come. All that
  `MCFills!Counted` allows is within these. What they leave out is where the code
  counts over (Disagreements: `fills_lost`, `Restarted`, `Forgotten`, `Overtaken`), but
  for a fill taken back late with a restart and one taken back with a replace of
  the venue's own, which are not proved. The invariant
  (`Right`) says of whatever comes that orders are in line, each made as the one
  before it was replaced (`Lined`); that what is known of an order (its record, and
  what is streamed, listed or in hand of it: `Known`) is what it once was, so
  that of two records the later states less only by what was `taken` between
  (`Stale`); that the record in hand is of the order worked or the next (`InHand`);
  and that what is kept counts no more than was ever stated (`Kept`). Beside it
  stands one of two ways of counting. Where no fill is taken back, `Exact`: what is
  reported is what the book holds, what is carried is what the book holds of other
  orders, and no record still to be read says less than the book holds of its
  order. Where some are, `Traced`: each execution is of a fill kept, what the
  fills up to any count amount to is no more than it, and a fill that a record as
  new as the last read leaves out was taken.
* **`FillsProofs!EndsWhole`**: `EndIsWhole`, assuming (`Settles`) besides that no fill
  is taken back or waits for a date, and that the ems asks for no replace: with a
  date or a replace the code ends placements with fills missing (Disagreements).
  `Settled` adds to `Right` that what the book holds by the orders
  before the one followed is all they filled, and that once `_report_status` comes
  to how an order stands, its fills are reported.
  `NeverOver` and `EndIsWhole` are about sums. The library's sum over a set is not
  a recursive definition tlapm can unfold but a fold by `CHOOSE`; `SumRemove`,
  `SumParts` and the others come from that definition by taking a subset of least
  cardinality for which they fail (`LeastExists`), in place of an induction.
* **`SupervisorProofs`**: `TypeCorrect`, `HeldAsAsked`, `NothingForgotten`, and
  `NothingIsMissed` assuming `MaxInFlight = 1`. The first needs `Asking`: what is
  asked is held already or `changed` says it is to be taken up, at each await. The
  last needs `Awaited`: a statement owed was handed on, is about to be, or is
  later than the moment its gap will be read from.
* **`MoverProofs!TypeCorrect`, `NothingLost`, `PromiseKept`**: for any days, records,
  windows, bounds and settings, over any crashes and failures, `Findable` and the
  refinement of `Lake`; `NothingLost` and `PromiseKept` assume `Timely`, that no
  record is kept later than its window. `Findable` is not inductive: it says nothing
  of a move halfway. `Sound` adds that what the index holds was said archived, is
  past its window and has what storage still holds of it among its files
  (`Settled`); that a unit being archived is past its window, has as `move.files`
  all it has in storage (as it is undone, some of it), and is indexed only once those
  are in the archive and said to be (`Archiving`); that one being fetched is held, and
  all of it in the archive (`Restoring`); that a deletion is said before its steps (`Deleting`);
  and that `tend` and the returns move only what they may. `Footprint` says which
  action may change which variable, so that each proof looks at those alone.
* **`MoverProofs!BoundAlwaysKept`**: `BoundKept`, without `Timely`. `Bounded` adds that
  the unit being archived, or brought back, was counted with what the index has
  before its files were copied, that its files are its own (`OwnFiles`), and that
  the lock held until it is indexed lets no other be counted meanwhile.
* **`MoverProofs!AnswersWhole`, `UncrashedAnswersWhole`**: whoever is answered a unit's
  path is answered all of it, or a unit said deleted; where the process never dies,
  `AnsweredWhole` itself. The first assumes `Apart`: no budget has a crash, a failed
  report and a person's ask together, as those of the run do not (Disagreements has
  what comes of it). The invariant (`Led`) follows what breaks a restored unit: the
  move removing it (`Clearing`), or a crash in one, after which the unit was said deleted
  or is past its restore period and among what the next move returns before it looks
  at anything (`Expected`). That needs files to be their units' own and more than
  none (`Filled`), or a unit cleared to the last file would pass for whole, and that
  only a unit not restored before is undone, without crashes (`Back`).
* **`ViewsProofs!TypeCorrect`, `ReaderAlwaysHasView`, `NeverLeftUnready`**: for any
  readers, keys, pages and mishaps, two streams reading again at once included.
  `ReaderHasView` rests on `Kept`: deliveries find the view readers do (`Found`), each
  reader was given that one (`Given`), one reader at most opens the first view, while
  there is none (`OneOpens`), and the view's count of readers is the number of those
  it was given to (`Counted`), so that one dropped has none. `NoneLeftUnready` needs
  `Begun`: a stream that reads, hears or has views to read was open, so that it will
  be found to have broken and read them all again. `TypeCorrect` needs `Counted`.
* **`ViewsProofs!RowsNeverOlder`**: `NeverOlder`, assuming `OneSided`: each budget leaves
  one stream without breaks and losses, so that two streams never read one view at
  once. Pages may be several, and changes may come while a view is first opened. The
  invariant (`Forward`) orders what a view knows: its rows and what it holds are of
  changes made (`Written`); what is answered of one read again is no older than what
  it shows (`Reread`); and what is still to come for it, above its watermark, is on
  one stream, in order (`Ordered`), newer than its rows and than all it holds
  (`FitReady`; `FitRead` once a read is answered whole). That a view is subscribed on
  one stream rests on the other being still (`Steady`), and on deliveries knowing
  nothing of a view not yet opened (`Unknown`).
* **`ViewsProofs!AlwaysCurrent`**: `Current`, assuming besides that a read is one call
  (`OnePaged`) and `QuietOpens`; without any one of the three the code leaves a view
  that is not the store's (Disagreements), and `views_kept` has all three. The
  invariant adds to `Forward` that a view found is subscribed unless it is to be
  (`Subscribed`), and that unless it is to be read again (`Ahead`: a stream it may be
  on broke, a loss is still to be heard, or it is among `rereads`) the last change of
  each key is among its rows, or held, or due to it (`Complete`): so for one ready, one
  whose read is answered whole, and one first opened. When all is quiet nothing is due
  or held, and the rows are all there is.
* **`CursorsProofs!ValuesOnlyForward`, `TradesWhole`, `EveryTradeHad`**: for any roles,
  rows, records and mishaps. `NeverOlder` rests on `Order`: a delivery not taken stands
  for one record (`Single`), and one that would be handed on is later than what every
  role holds of its place, though roles that do not seed are handed less than is
  marked (`Held`). `NoTradeMissing` is about every trade a role was ever handed, `follow`
  ended and run again included: of a subject asked for since the trade was made
  (`since`), none is missing between two handed to it, the first of them made since `follow` last
  ended (`anew`; of those before, each was had or missing before it ended). `EveryTrade` asks it of any two, and holds
  where nothing ends `follow` (no budget of "ends": `Unended`); where something does, it
  does not, for any role (Disagreements). Both assume that no handler lets a failed
  call of its own end the stream (then what is marked is not what every role had:
  `receive.py` 448's hazard). They rest on `Trading`: what a stream brings of a dataset
  leaves out nothing owed before what goes past it (`Whole`), it follows on the last trade
  handed on unless trades are still to be read (`FollowsOn`), and none is marked before
  `follow` has seeded (`Phases`), so that trades read are handed to every role (`AllSince`).
* **`CursorsProofs!MapsAreTrue`**: `MapIsTrue`, for any instrument IDs (finitely many),
  replacements, pages, roles and mishaps, with the same assumption. Two arguments
  meet in `Replacing`. One is of the map alone: what each ID became is a forest
  whose roots are the IDs that stand (`Tree`, with a rank that grows along it, so that
  `current`'s walk meets nothing twice and ends at a root: `CurrentStands`), and a
  replacement of one that stands by one that stands, or that it had replaced, leaves
  one (`BecameStands`: the way back is where the earlier one is undone). The other is of
  its delivery: what is marked is applied to every role that seeds (`Caught`), pages are read
  from what is marked (`Paged`), and the stream follows on what is marked unless
  replacements are still to be read (`InSequence`); so nothing handed on skips a
  replacement (`NoneSkipped`), in a page, from the stream, or before a handler that
  raises. A fold is a function taken from step to step, which exists
  (`StepsExist`) and is known by its steps (`AllUpTo`), both by least counterexample.
* **`CursorsProofs!TypeCorrect`**: its types, and that nothing handed on, sent or read is past
  what was made.
* **`FeedProofs!TypeCorrect`, `NoneIsSkipped`**: for any wants, products and trades, over
  any drops, crashes, refusals and failed reads, `NoneSkipped`. It assumes `Steady`: no
  budget has a want heard while a restream of the pass waits (`behind`), and each product
  has one want (`OneEach`) or none is withdrawn. Names may fail, products come to be known
  at any time, and restreams wait for the venue's ID. Without it a product
  leaves the stream and comes back before the session is opened anew, and the code
  passes over trades (Disagreements). The invariant adds what is held of the trades between a product's
  last and what its session delivered, once it caught up (`Heard`); that no
  trade is known beyond the last heard (`Bounded`: what the lake holds, a restart
  reads on from); that a product of the session has left the stream for
  good (`Served`), since a restream at an await is of what stands (`Stands`, `Calm`).

Only model-checked: every liveness property (fairness and ENABLED are out of the
prover's reach), `AnsweredWhole` where crashes, failed reports and asks come together, and
`HadIsHeld` under a moving scope.

## Disagreements

Met while modelling; each is a place where the code does not do what its own text
says. `fills_lost` is kept as a run. The others can be seen by giving a run the
constants named.

`receive.py`
* A handler's own `CallFailed` is taken for a failed read (963 and 448, against 17):
  the point has moved, the change is never handed on again. (`HandlerRaises` with
  "call", `HadIsHeld`.)
* The scope watch ends in silence when its stream breaks or a read on entering
  fails (1001, against 15); accounts that enter later wait for their next gap.
* An account that enters as the stream is opened again, or a loss is told of: the read
  of every account's changes since the last whole read has its point pass over what it
  changed before it entered (370-372), and the scope's watch reads on from that point
  (1007), against 998, "Read an account afresh when it enters". (`HadIsHeld` of
  `follower_gaps` with `MCFollower!Entered`.)
* A read answered behind a change already handed on may hand on an earlier
  record of a cell again (332 against 25): `NeverGoesBack` under a budget of "lag".
* Hearing takes three reads in vain and then skips the gap (448, against 364).

`roles/connectivity/_trader.py`, `_bookkeeping.py`
* `ended` is set before a cancelled or rejected order is reported (1834 against 23):
  where that report fails, the end is never told.
* A send refused whose report fails is left queued in the book and noted as sent
  (`_bookkeeping.py` 178 against `_trader.py` 38): it is looked for, not refused.
* A placement held back and sent before a restart is held again and not looked
  for until released (914 against 40).
* Under a stop, orders not found yet are not cancelled once they are (1280 against
  60), nor one whose cancel was refused (882), nor any already working where the
  stop was given while the plugin was down (675).
* An instruction heard after the list was read and before the book was is
  dropped (830 against 57): the reason for `RuledEarly`.
* An instruction delivered behind a handler whose failure is no failed call is not
  heard: `follow` is run again and this role does not seed (544, `_run.py` 264,
  against 57-60). (`InstructionIsKnown` with a report that fails and a ruling.)
* Accounts not read count as no account of the key's (2122 against 33): a
  supported placement is rejected as unsupported. `RejectedIsUnsupported`.
* A read of a placement's order that fails loses the delivery or the release it
  was for until the next poll or restart (926 against 19); one that raises after
  `decided.add` (926-943) leaves the placement queued and decided on, not taken up
  before a restart. (`QueuedIsTaken` under a budget of "read".)
* An order is looked for in one page of what the book answers (777): where it is not
  on it, a placement released is not taken up until it changes again or the plugin
  restarts (892), and one sent before a restart is not watched. (`QueuedIsTaken`,
  `SentIsWatched` under a budget of "unfound".)
* A cancel asked for again after one was refused is not sent again (1266 against 65).
* Fills: a recorded execution whose answer is lost is counted again with the
  next (`fills_lost`); a fill after a bust may use the key of the busted one;
  fills taken back after a restart are not busted; one taken back while its order is
  replaced is carried as filled (`Overtaken`); a replace whose report fails
  followed by a restart counts what was carried twice; a replace answered or
  not, or a date awaited, while the order ends leaves fills out of an ended
  placement (`MCFills`: `Refilled`, `Restarted`, `Forgotten`, `Raced`, `Unanswered`,
  `Undated`).

`helpers/sessions.py`
* With `reopen_on_want`, a want changed while the first `subscribe` is awaited is
  told to the open session after all (453, 485 against 40): `NeverToldAgain`.
* `last_heard` is the moment of receipt (507-517 against 35): with two statements
  in flight as a session breaks, one stated before the moment the other was
  received is not read back. (`MaxInFlight` 2, `NothingMissed`.)
* `Backoff.failed` measures steadiness from the last failure, the wait included
  (146-156): after a wait of `steady_s` the next failure starts over at `first_s`.

`views.py`
* A view is in `by_id` only once read (386, against 10-14): what is delivered
  meanwhile is dropped (`Current` with no mishap, `MCViews!Nothings`, and `QuietOpens`
  false), a loss told of meanwhile is not read for,
  and a stream that breaks meanwhile does not have it subscribed again.
  `QuietOpens` is the bound that leaves these out.
* Two streams may read one view at once; the one answered first may finish last,
  putting older rows and an older watermark back. (`MCViews!BothStreams`.)
* The watermark is the highest any page or account was answered at (533, 559): a
  change to what an earlier page answered, made before the last, is taken to be in
  the snapshot. (`MCViews!TwoPages`.) `receive.py` 276 takes the first page's.
* A view dropped while its stream is being reopened is subscribed again, and
  nothing unsubscribes it (478).

`receive.py`, `replacements.py` (Cursors)
* A `CallFailed` a handler of a replacement raises of its own: `seen` has moved
  (`receive.py` 762), and that role and those after it never get the change (17).
  (`HandlerRaises` with "call", `MapIsTrue`.)
* Where one role's handler fails, `follow` ends and `_keep` runs it again for all roles
  (`_run.py` 296) with nothing started and no watermark, and no trades are read on a
  start (893): those made before the stream is open again are handed to no role, while
  45 says "every one is handed on, each once, in its dataset's order", and 48-51 that
  those recorded after the watermark are read. (`EveryTrade` with `MCCursors!Ended`.)
* The watermark is the dataset's, the read is of the subjects named now (679, 696-707): a
  trade lost before its subject was left out is behind the watermark once it is named
  again, and is not read. The reason for `Owed` in `NoTradeMissing`.
* A role that does not seed and keeps a map as `replacements.py` 11-18 documents it
  misses what is replaced between its `catch_up` on start and the stream's
  opening, and the next one heard moves its sequence past that. (`MapIsTrue` over
  all `Roles`.)

`edge.py`
* A process that dies between the index saying a unit is deleted and its removal
  leaves it in storage, refused as deleted already ever after (837, 802).
  (`DeletedLeaves` with `MCMover!OneCrash`.)
* A record kept later than the unit's window, once the unit is archived, is removed
  with it unarchived when `archive` finds the unit again (713): the reason for
  `LateBy <= Window` in the run and `Timely` in the proofs.
* A return cut short by a crash while files are removed, whose report next fails,
  leaves part of a unit that `restore` answers as readable (764).
  (`AnsweredWhole` with a crash, a failed report and two asks.)
* So does a deletion of a restored unit that a crash cuts short in the restore area
  (815): said deleted, and answered as readable. (`AnsweredWhole` with two crashes and
  three asks.)
* A crash after a unit was copied back and before the index says so leaves the
  copy in the restore area, which nothing returns.
* Objects `_forget` could not delete, or a crash left, stay in the archive and are
  not counted in its bound (724).

`roles/data/pairs.py`, `_wants.py`
* A restart leaves a gap where a subject's read back fails, or where its stream is
  heard first: the subject is marked read back before it is (`_wants.py` 313), and
  the trades heard move the last one recorded past the gap (`pairs.py` 1425,
  against 1479-1482 and `_wants.py` 372). (`NoGap` with `MCFeed!Restarted`.)
* Trades the lake refused are not read back when the stream opens again, though
  1506-1508 say so: `last_trade` moved when they were heard.
* A message of a product just withdrawn is passed over (1469), and not read back
  where the product is wanted again before the session is opened anew, against
  1479-1482. (`NoneSkipped` with `MCFeed!Same` and `Returned`.)
* Of two restreams at once, the one answered last puts on the stream what stood when it
  began (1382-1404), against 71, "keeps every subject under a standing want of `live` or
  `trades` on it while any stands". A process's first restreams both wait for the
  venue's ID (1391, 1033-1037) even with every product named: where the pass's ends
  after that of a want heard meanwhile, that want's product leaves the stream, and the
  pass puts nothing back while something streams (1620). (`AsStands` with `MCFeed!Behind`.)
* A want stands before its restream (1574): where a call of that fails, the want is
  declined and stands, and with another streamed nothing puts it on the stream,
  against 71. (`AsStands` with `MCFeed!Unnamed`.)
* `NoneSkipped` is not kept either where restreams overlap and a want is withdrawn
  or the listing read again.

Read only: `_raw.py` 334 (a unit counted before the moves it awaits),
`receive.py` 711 (pages of one read of trades, answered at different moments under
one watermark), `roles/_latency.py` 433 (counts reset before a report that is
refused), `_trader.py` 739 (an order adopted again after a restart), 1492
(originated orders wait for every unanswered placement), 2103 (a charge noted
before it is reported).

## Not modelled

Generated calls, conversions of vendors' rows, pages, analytics, market
arithmetic, test runners: they keep nothing between calls, and make up most of the
repository's lines. Of the modelled parts: lengths of waits; prices, dates and
symbols of fills; a venue that changes an order in place; requests for quote; the
catalogue; orders originated at the venue and charges; what pages are sent of a
view; the pages of one read of prices or trades, and which conflated rows a stream
asks for; settings, health reports and the roles' own runs; compression and
checksums of archived files; a feed's quotes and daily prices, its switch between
live and sample data, how products nest under subjects, a first reading of its
listing, and a want withdrawn whose restream fails (which ends the wants' `follow`).

## Plan

1. Follower, proved. 2. Trader with Placing, proved. 3. Fills, proved. 4. Supervisor,
proved. 5. Views, proved. 6. Mover with Lake, proved. 7. Feed,
proved. 8. Cursors, with roles on
one row, proved. These are here. What could follow: `Originated` (orders of the venue's
own, adoption and charges, over Trader); `Lifecycle` (health reports, settings,
`Backoff` with its clock); the timetable of readings; `Live`.

Theorems to come: `HadIsHeld` under a moving scope.
