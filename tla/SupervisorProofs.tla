--------------------------- MODULE SupervisorProofs ---------------------------
(***************************************************************************)
(* What `Supervisor` does, proved for any subjects, sources and bounds:    *)
(* what is asked while it opens, subscribes, reads, closes or waits is     *)
(* never forgotten, and what it is served is never missed.                 *)
(***************************************************************************)
EXTENDS Supervisor, SequenceTheorems, TLAPS

\* The places where a session has been subscribed.
Subscribed == {"opened", "catching", "reading", "handing", "resubscribing"}

\* What is asked is held already, or `changed` says it is yet to be taken up.
Asking ==
    /\ session # None /\ ~restart /\ pc # "closing" => session.source = source
    /\ restart /\ ~changed => pc \in {"closing", "top"}
    /\ pc \in {"subscribing", "resubscribing"} /\ ~changed => telling = wanted
    /\ pc \in Subscribed \ {"resubscribing"} /\ ~changed => session.subscribed = wanted
    /\ pc = "idle" /\ ~changed => wanted = {} \/ source = None

\* What is served is wanted and subscribed to, and what is owed is of it.
Serving ==
    /\ served \subseteq wanted
    /\ pc \in Subscribed => served \subseteq session.subscribed
    /\ session # None /\ pc \notin Subscribed => session.subscribed = {}
    /\ \A i \in owed : stated[i] \in wanted /\ lastMessage > 0

\* At most one statement is in flight, stated after all that were heard.
Flying ==
    /\ \A s \in Subjects : lastHeard[s] <= lastMessage
    /\ lastMessage <= Len(stated)
    /\ Len(flying) <= 1
    /\ flying # <<>> => pc \in Subscribed /\ lastMessage < flying[1]

\* One that has opened is known to have; once anything was heard, a session
\* that opens is one opened again.
Reopening ==
    /\ pc \in Subscribed \cup {"subscribing"} => state.opened
    /\ lastMessage > 0 => /\ state.opened
                          /\ pc \in {"subscribing", "opened"} => state.reopened

\* A statement owed was handed on or is about to be; or it will be read back,
\* being later than the moment its subject's gap is read from.
Found(i) == i \in handed \/ i = handling \/ (flying # <<>> /\ i = flying[1])

Awaited ==
    /\ pc \in {"reading", "handing", "resubscribing"} => \A i \in owed : Found(i)
    /\ pc = "catching" =>
        \A i \in owed : Found(i) \/ (0 < since[stated[i]] /\ since[stated[i]] < i)
    /\ pc \notin {"reading", "handing", "resubscribing", "catching"} =>
        \A i \in owed : Found(i) \/ Gap(stated[i]) < i

-----------------------------------------------------------------------------

\* A sequence over a set is one over any that holds it.
LEMMA Widened ==
    ASSUME NEW S, NEW T, S \subseteq T, NEW q \in Seq(S)
    PROVE  q \in Seq(T)
OBVIOUS

\* What each variable may hold, part by part.
AskedTyped ==
    /\ wanted \subseteq Subjects /\ source \in Sources \cup {None} /\ reopens \in BOOLEAN
    /\ changed \in BOOLEAN /\ restart \in BOOLEAN /\ pc \in Places
    /\ telling \subseteq Subjects /\ waits \in BOOLEAN /\ served \subseteq Subjects

HoldingTyped ==
    /\ session \in Sessions \cup {None}
    /\ (session = None) <=> (pc \in {"top", "idle", "pausing"})

ShownTyped ==
    state \in [label : Labels, subscribed : SUBSET Subjects, opened : BOOLEAN, reopened : BOOLEAN]

HeardTyped ==
    /\ lastHeard \in [Subjects -> Nat] /\ lastMessage \in Nat /\ since \in [Subjects -> Nat]
    /\ handling \in 1 .. Moment \cup {None} /\ handed \subseteq 1 .. Moment
    /\ (handling = None) <=> (pc # "handing")

StatedTyped ==
    /\ stated \in Seq(Subjects) /\ flying \in Seq(1 .. Moment)
    /\ owed \subseteq 1 .. Moment

LeftTyped == left \in [Mishaps -> Nat]

Parts == AskedTyped /\ HoldingTyped /\ ShownTyped /\ HeardTyped /\ StatedTyped /\ LeftTyped

\* The parts are the whole.
LEMMA PartsWhole == TypeOK <=> Parts
BY DEF TypeOK, Parts, AskedTyped, HoldingTyped, ShownTyped, HeardTyped, StatedTyped, LeftTyped

\* Every step keeps it.
LEMMA AskedTypedStep ==
    ASSUME Parts, [Next]_vars
    PROVE  AskedTyped'
<1> USE SupervisorAssumption
<1>1. CASE UNCHANGED vars
  BY <1>1 DEF Parts, AskedTyped, HoldingTyped, ShownTyped, HeardTyped, StatedTyped, LeftTyped, Places, vars, askedVars, heardVars, sourceVars
<1>2. ASSUME NEW these \in SUBSET Subjects, Want(these)
      PROVE  AskedTyped'
  BY <1>2 DEF Parts, AskedTyped, HoldingTyped, ShownTyped, HeardTyped, StatedTyped, LeftTyped, Places, Want, Spend, askedVars, heardVars, sourceVars
<1>3. ASSUME NEW to \in Sources \cup {None}, Retarget(to)
      PROVE  AskedTyped'
  BY <1>3 DEF Parts, AskedTyped, HoldingTyped, ShownTyped, HeardTyped, StatedTyped, LeftTyped, Places, Retarget, Spend, askedVars, heardVars, sourceVars
<1>4. ASSUME NEW s \in Subjects, State(s)
      PROVE  AskedTyped'
  BY <1>4 DEF Parts, AskedTyped, HoldingTyped, ShownTyped, HeardTyped, StatedTyped, LeftTyped, Places, State, Spend, askedVars, heardVars, sourceVars
<1>5. CASE Top
  BY <1>5 DEF Parts, AskedTyped, HoldingTyped, ShownTyped, HeardTyped, StatedTyped, LeftTyped, Places, Top, Idle, askedVars, heardVars, sourceVars
<1>6. CASE Wake
  BY <1>6 DEF Parts, AskedTyped, HoldingTyped, ShownTyped, HeardTyped, StatedTyped, LeftTyped, Places, Wake, askedVars, heardVars, sourceVars
<1>7. CASE Open
  BY <1>7 DEF Parts, AskedTyped, HoldingTyped, ShownTyped, HeardTyped, StatedTyped, LeftTyped, Places, Open, OpenedStill, askedVars, heardVars, sourceVars
<1>8. CASE Break
  BY <1>8 DEF Parts, AskedTyped, HoldingTyped, ShownTyped, HeardTyped, StatedTyped, LeftTyped, Places, Break, Ending, Spend, askedVars, heardVars, sourceVars
<1>9. CASE Subscribe
  BY <1>9 DEF Parts, AskedTyped, HoldingTyped, ShownTyped, HeardTyped, StatedTyped, LeftTyped, Places, Subscribe, askedVars, heardVars, sourceVars
<1>10. CASE Opened
  BY <1>10 DEF Parts, AskedTyped, HoldingTyped, ShownTyped, HeardTyped, StatedTyped, LeftTyped, Places, Opened, Gap, askedVars, heardVars, sourceVars
<1>11. CASE CatchUp
  BY <1>11 DEF Parts, AskedTyped, HoldingTyped, ShownTyped, HeardTyped, StatedTyped, LeftTyped, Places, CatchUp, Spend, askedVars, heardVars, sourceVars
<1>12. CASE Change
  BY <1>12 DEF Parts, AskedTyped, HoldingTyped, ShownTyped, HeardTyped, StatedTyped, LeftTyped, Places, Change, Ends, Ending, askedVars, heardVars, sourceVars
<1>13. CASE Receive
  BY <1>13 DEF Parts, AskedTyped, HoldingTyped, ShownTyped, HeardTyped, StatedTyped, LeftTyped, Places, Receive, askedVars, heardVars, sourceVars
<1>14. CASE Handed
  BY <1>14 DEF Parts, AskedTyped, HoldingTyped, ShownTyped, HeardTyped, StatedTyped, LeftTyped, Places, Handed, Spend, askedVars, heardVars, sourceVars
<1>15. CASE Close
  BY <1>15 DEF Parts, AskedTyped, HoldingTyped, ShownTyped, HeardTyped, StatedTyped, LeftTyped, Places, Close, Closed, Pauses, askedVars, heardVars, sourceVars
<1>16. CASE Pause
  BY <1>16 DEF Parts, AskedTyped, HoldingTyped, ShownTyped, HeardTyped, StatedTyped, LeftTyped, Places, Pause, askedVars, heardVars, sourceVars
<1> QED
  BY <1>1, <1>2, <1>3, <1>4, <1>5, <1>6, <1>7, <1>8, <1>9, <1>10, <1>11, <1>12, <1>13, <1>14, <1>15, <1>16 DEF Next, Asked, Runs

\* Every step keeps it.
LEMMA HoldingTypedStep ==
    ASSUME Parts, [Next]_vars
    PROVE  HoldingTyped'
<1> USE SupervisorAssumption
<1>1. CASE UNCHANGED vars
  BY <1>1 DEF Parts, AskedTyped, HoldingTyped, ShownTyped, HeardTyped, StatedTyped, LeftTyped, Sessions, Places, vars, askedVars, heardVars, sourceVars
<1>2. ASSUME NEW these \in SUBSET Subjects, Want(these)
      PROVE  HoldingTyped'
  BY <1>2 DEF Parts, AskedTyped, HoldingTyped, ShownTyped, HeardTyped, StatedTyped, LeftTyped, Sessions, Places, Want, Spend, askedVars, heardVars, sourceVars
<1>3. ASSUME NEW to \in Sources \cup {None}, Retarget(to)
      PROVE  HoldingTyped'
  BY <1>3 DEF Parts, AskedTyped, HoldingTyped, ShownTyped, HeardTyped, StatedTyped, LeftTyped, Sessions, Places, Retarget, Spend, askedVars, heardVars, sourceVars
<1>4. ASSUME NEW s \in Subjects, State(s)
      PROVE  HoldingTyped'
  BY <1>4 DEF Parts, AskedTyped, HoldingTyped, ShownTyped, HeardTyped, StatedTyped, LeftTyped, Sessions, Places, State, Spend, askedVars, heardVars, sourceVars
<1>5. CASE Top
  BY <1>5 DEF Parts, AskedTyped, HoldingTyped, ShownTyped, HeardTyped, StatedTyped, LeftTyped, Sessions, Places, Top, Idle, askedVars, heardVars, sourceVars
<1>6. CASE Wake
  BY <1>6 DEF Parts, AskedTyped, HoldingTyped, ShownTyped, HeardTyped, StatedTyped, LeftTyped, Sessions, Places, Wake, askedVars, heardVars, sourceVars
<1>7. CASE Open
  BY <1>7 DEF Parts, AskedTyped, HoldingTyped, ShownTyped, HeardTyped, StatedTyped, LeftTyped, Sessions, Places, Open, OpenedStill, askedVars, heardVars, sourceVars
<1>8. CASE Break
  BY <1>8 DEF Parts, AskedTyped, HoldingTyped, ShownTyped, HeardTyped, StatedTyped, LeftTyped, Sessions, Places, Break, Ending, Spend, askedVars, heardVars, sourceVars
<1>9. CASE Subscribe
  BY <1>9 DEF Parts, AskedTyped, HoldingTyped, ShownTyped, HeardTyped, StatedTyped, LeftTyped, Sessions, Places, Subscribe, askedVars, heardVars, sourceVars
<1>10. CASE Opened
  BY <1>10 DEF Parts, AskedTyped, HoldingTyped, ShownTyped, HeardTyped, StatedTyped, LeftTyped, Sessions, Places, Opened, Gap, askedVars, heardVars, sourceVars
<1>11. CASE CatchUp
  BY <1>11 DEF Parts, AskedTyped, HoldingTyped, ShownTyped, HeardTyped, StatedTyped, LeftTyped, Sessions, Places, CatchUp, Spend, askedVars, heardVars, sourceVars
<1>12. CASE Change
  BY <1>12 DEF Parts, AskedTyped, HoldingTyped, ShownTyped, HeardTyped, StatedTyped, LeftTyped, Sessions, Places, Change, Ends, Ending, askedVars, heardVars, sourceVars
<1>13. CASE Receive
  BY <1>13 DEF Parts, AskedTyped, HoldingTyped, ShownTyped, HeardTyped, StatedTyped, LeftTyped, Sessions, Places, Receive, askedVars, heardVars, sourceVars
<1>14. CASE Handed
  BY <1>14 DEF Parts, AskedTyped, HoldingTyped, ShownTyped, HeardTyped, StatedTyped, LeftTyped, Sessions, Places, Handed, Spend, askedVars, heardVars, sourceVars
<1>15. CASE Close
  BY <1>15 DEF Parts, AskedTyped, HoldingTyped, ShownTyped, HeardTyped, StatedTyped, LeftTyped, Sessions, Places, Close, Closed, Pauses, askedVars, heardVars, sourceVars
<1>16. CASE Pause
  BY <1>16 DEF Parts, AskedTyped, HoldingTyped, ShownTyped, HeardTyped, StatedTyped, LeftTyped, Sessions, Places, Pause, askedVars, heardVars, sourceVars
<1> QED
  BY <1>1, <1>2, <1>3, <1>4, <1>5, <1>6, <1>7, <1>8, <1>9, <1>10, <1>11, <1>12, <1>13, <1>14, <1>15, <1>16 DEF Next, Asked, Runs

\* Every step keeps it.
LEMMA ShownTypedStep ==
    ASSUME Parts, [Next]_vars
    PROVE  ShownTyped'
<1> USE SupervisorAssumption
<1>1. CASE UNCHANGED vars
  BY <1>1 DEF Parts, AskedTyped, HoldingTyped, ShownTyped, HeardTyped, StatedTyped, LeftTyped, Labels, vars, askedVars, heardVars, sourceVars
<1>2. ASSUME NEW these \in SUBSET Subjects, Want(these)
      PROVE  ShownTyped'
  BY <1>2 DEF Parts, AskedTyped, HoldingTyped, ShownTyped, HeardTyped, StatedTyped, LeftTyped, Labels, Want, Spend, askedVars, heardVars, sourceVars
<1>3. ASSUME NEW to \in Sources \cup {None}, Retarget(to)
      PROVE  ShownTyped'
  BY <1>3 DEF Parts, AskedTyped, HoldingTyped, ShownTyped, HeardTyped, StatedTyped, LeftTyped, Labels, Retarget, Spend, askedVars, heardVars, sourceVars
<1>4. ASSUME NEW s \in Subjects, State(s)
      PROVE  ShownTyped'
  BY <1>4 DEF Parts, AskedTyped, HoldingTyped, ShownTyped, HeardTyped, StatedTyped, LeftTyped, Labels, State, Spend, askedVars, heardVars, sourceVars
<1>5. CASE Top
  BY <1>5 DEF Parts, AskedTyped, HoldingTyped, ShownTyped, HeardTyped, StatedTyped, LeftTyped, Labels, Top, Idle, askedVars, heardVars, sourceVars
<1>6. CASE Wake
  BY <1>6 DEF Parts, AskedTyped, HoldingTyped, ShownTyped, HeardTyped, StatedTyped, LeftTyped, Labels, Wake, askedVars, heardVars, sourceVars
<1>7. CASE Open
  BY <1>7 DEF Parts, AskedTyped, HoldingTyped, ShownTyped, HeardTyped, StatedTyped, LeftTyped, Labels, Open, OpenedStill, askedVars, heardVars, sourceVars
<1>8. CASE Break
  BY <1>8 DEF Parts, AskedTyped, HoldingTyped, ShownTyped, HeardTyped, StatedTyped, LeftTyped, Labels, Break, Ending, Spend, askedVars, heardVars, sourceVars
<1>9. CASE Subscribe
  BY <1>9 DEF Parts, AskedTyped, HoldingTyped, ShownTyped, HeardTyped, StatedTyped, LeftTyped, Labels, Subscribe, askedVars, heardVars, sourceVars
<1>10. CASE Opened
  BY <1>10 DEF Parts, AskedTyped, HoldingTyped, ShownTyped, HeardTyped, StatedTyped, LeftTyped, Labels, Opened, Gap, askedVars, heardVars, sourceVars
<1>11. CASE CatchUp
  BY <1>11 DEF Parts, AskedTyped, HoldingTyped, ShownTyped, HeardTyped, StatedTyped, LeftTyped, Labels, CatchUp, Spend, askedVars, heardVars, sourceVars
<1>12. CASE Change
  BY <1>12 DEF Parts, AskedTyped, HoldingTyped, ShownTyped, HeardTyped, StatedTyped, LeftTyped, Labels, Change, Ends, Ending, askedVars, heardVars, sourceVars
<1>13. CASE Receive
  BY <1>13 DEF Parts, AskedTyped, HoldingTyped, ShownTyped, HeardTyped, StatedTyped, LeftTyped, Labels, Receive, askedVars, heardVars, sourceVars
<1>14. CASE Handed
  BY <1>14 DEF Parts, AskedTyped, HoldingTyped, ShownTyped, HeardTyped, StatedTyped, LeftTyped, Labels, Handed, Spend, askedVars, heardVars, sourceVars
<1>15. CASE Close
  BY <1>15 DEF Parts, AskedTyped, HoldingTyped, ShownTyped, HeardTyped, StatedTyped, LeftTyped, Labels, Close, Closed, Pauses, askedVars, heardVars, sourceVars
<1>16. CASE Pause
  BY <1>16 DEF Parts, AskedTyped, HoldingTyped, ShownTyped, HeardTyped, StatedTyped, LeftTyped, Labels, Pause, askedVars, heardVars, sourceVars
<1> QED
  BY <1>1, <1>2, <1>3, <1>4, <1>5, <1>6, <1>7, <1>8, <1>9, <1>10, <1>11, <1>12, <1>13, <1>14, <1>15, <1>16 DEF Next, Asked, Runs

\* Every step keeps it.
LEMMA HeardTypedStep ==
    ASSUME Parts, [Next]_vars
    PROVE  HeardTyped'
<1> USE SupervisorAssumption
<1>1. CASE UNCHANGED vars
  BY <1>1 DEF Parts, AskedTyped, HoldingTyped, ShownTyped, HeardTyped, StatedTyped, LeftTyped, Moment, vars, askedVars, heardVars, sourceVars
<1>2. ASSUME NEW these \in SUBSET Subjects, Want(these)
      PROVE  HeardTyped'
  BY <1>2 DEF Parts, AskedTyped, HoldingTyped, ShownTyped, HeardTyped, StatedTyped, LeftTyped, Moment, Want, Spend, askedVars, heardVars, sourceVars
<1>3. ASSUME NEW to \in Sources \cup {None}, Retarget(to)
      PROVE  HeardTyped'
  BY <1>3 DEF Parts, AskedTyped, HoldingTyped, ShownTyped, HeardTyped, StatedTyped, LeftTyped, Moment, Retarget, Spend, askedVars, heardVars, sourceVars
<1>4. ASSUME NEW s \in Subjects, State(s)
      PROVE  HeardTyped'
  <2>1. stated' = Append(stated, s) /\ stated \in Seq(Subjects)
    BY <1>4 DEF Parts, StatedTyped, State
  <2>2. 1 .. Len(stated) \subseteq 1 .. Len(stated')
    BY <2>1
  <2>3. UNCHANGED <<lastHeard, lastMessage, since, handling, handed, pc>>
    BY <1>4 DEF State, heardVars
  <2> QED
    BY <2>2, <2>3 DEF Parts, HeardTyped, Moment
<1>5. CASE Top
  BY <1>5 DEF Parts, AskedTyped, HoldingTyped, ShownTyped, HeardTyped, StatedTyped, LeftTyped, Moment, Top, Idle, askedVars, heardVars, sourceVars
<1>6. CASE Wake
  BY <1>6 DEF Parts, AskedTyped, HoldingTyped, ShownTyped, HeardTyped, StatedTyped, LeftTyped, Moment, Wake, askedVars, heardVars, sourceVars
<1>7. CASE Open
  BY <1>7 DEF Parts, AskedTyped, HoldingTyped, ShownTyped, HeardTyped, StatedTyped, LeftTyped, Moment, Open, OpenedStill, askedVars, heardVars, sourceVars
<1>8. CASE Break
  BY <1>8 DEF Parts, AskedTyped, HoldingTyped, ShownTyped, HeardTyped, StatedTyped, LeftTyped, Moment, Break, Ending, Spend, askedVars, heardVars, sourceVars
<1>9. CASE Subscribe
  BY <1>9 DEF Parts, AskedTyped, HoldingTyped, ShownTyped, HeardTyped, StatedTyped, LeftTyped, Moment, Subscribe, askedVars, heardVars, sourceVars
<1>10. CASE Opened
  BY <1>10 DEF Parts, AskedTyped, HoldingTyped, ShownTyped, HeardTyped, StatedTyped, LeftTyped, Moment, Opened, Gap, askedVars, heardVars, sourceVars
<1>11. CASE CatchUp
  <2>1. DOMAIN stated = 1 .. Len(stated)
    BY DEF Parts, StatedTyped
  <2>2. handed' \subseteq 1 .. Len(stated)
    BY <1>11, <2>1 DEF Parts, HeardTyped, Moment, CatchUp
  <2> QED
    BY <1>11, <2>2 DEF Parts, HeardTyped, Moment, CatchUp, askedVars, heardVars, sourceVars
<1>12. CASE Change
  BY <1>12 DEF Parts, AskedTyped, HoldingTyped, ShownTyped, HeardTyped, StatedTyped, LeftTyped, Moment, Change, Ends, Ending, askedVars, heardVars, sourceVars
<1>13. CASE Receive
  BY <1>13 DEF Parts, AskedTyped, HoldingTyped, ShownTyped, HeardTyped, StatedTyped, LeftTyped, Moment, Receive, askedVars, heardVars, sourceVars
<1>14. CASE Handed
  <2>1. handling \in 1 .. Len(stated)
    BY <1>14 DEF Parts, HeardTyped, Moment, Handed
  <2>2. handed' \subseteq 1 .. Len(stated)
    BY <1>14, <2>1 DEF Parts, HeardTyped, Moment, Handed
  <2> QED
    BY <1>14, <2>2 DEF Parts, HeardTyped, Moment, Handed, askedVars, heardVars, sourceVars
<1>15. CASE Close
  BY <1>15 DEF Parts, AskedTyped, HoldingTyped, ShownTyped, HeardTyped, StatedTyped, LeftTyped, Moment, Close, Closed, Pauses, askedVars, heardVars, sourceVars
<1>16. CASE Pause
  BY <1>16 DEF Parts, AskedTyped, HoldingTyped, ShownTyped, HeardTyped, StatedTyped, LeftTyped, Moment, Pause, askedVars, heardVars, sourceVars
<1> QED
  BY <1>1, <1>2, <1>3, <1>4, <1>5, <1>6, <1>7, <1>8, <1>9, <1>10, <1>11, <1>12, <1>13, <1>14, <1>15, <1>16 DEF Next, Asked, Runs

\* Every step keeps it.
LEMMA StatedTypedStep ==
    ASSUME Parts, [Next]_vars
    PROVE  StatedTyped'
<1> USE SupervisorAssumption
<1>1. CASE UNCHANGED vars
  BY <1>1 DEF Parts, AskedTyped, HoldingTyped, ShownTyped, HeardTyped, StatedTyped, LeftTyped, Moment, vars, askedVars, heardVars, sourceVars
<1>2. ASSUME NEW these \in SUBSET Subjects, Want(these)
      PROVE  StatedTyped'
  BY <1>2 DEF Parts, AskedTyped, HoldingTyped, ShownTyped, HeardTyped, StatedTyped, LeftTyped, Moment, Want, Spend, askedVars, heardVars, sourceVars
<1>3. ASSUME NEW to \in Sources \cup {None}, Retarget(to)
      PROVE  StatedTyped'
  BY <1>3 DEF Parts, AskedTyped, HoldingTyped, ShownTyped, HeardTyped, StatedTyped, LeftTyped, Moment, Retarget, Spend, askedVars, heardVars, sourceVars
<1>4. ASSUME NEW s \in Subjects, State(s)
      PROVE  StatedTyped'
  <2>1. stated' = Append(stated, s) /\ stated \in Seq(Subjects)
    BY <1>4 DEF Parts, StatedTyped, State
  <2>2. stated' \in Seq(Subjects) /\ Len(stated') = Len(stated) + 1
    BY <2>1
  <2>3. 1 .. Len(stated) \subseteq 1 .. Len(stated') /\ Len(stated') \in 1 .. Len(stated')
    BY <2>1, <2>2
  <2>4. flying \in Seq(1 .. Len(stated'))
    BY <2>3, Widened DEF Parts, StatedTyped, Moment
  <2>5. flying' = flying \/ flying' = Append(flying, Len(stated'))
    BY <1>4 DEF State
  <2>6. flying' \in Seq(1 .. Len(stated'))
    BY <2>3, <2>4, <2>5
  <2>7. owed' \subseteq 1 .. Len(stated')
    BY <1>4, <2>3 DEF Parts, StatedTyped, State, Moment
  <2> QED
    BY <2>2, <2>6, <2>7 DEF StatedTyped, Moment
<1>5. CASE Top
  BY <1>5 DEF Parts, AskedTyped, HoldingTyped, ShownTyped, HeardTyped, StatedTyped, LeftTyped, Moment, Top, Idle, askedVars, heardVars, sourceVars
<1>6. CASE Wake
  BY <1>6 DEF Parts, AskedTyped, HoldingTyped, ShownTyped, HeardTyped, StatedTyped, LeftTyped, Moment, Wake, askedVars, heardVars, sourceVars
<1>7. CASE Open
  BY <1>7 DEF Parts, AskedTyped, HoldingTyped, ShownTyped, HeardTyped, StatedTyped, LeftTyped, Moment, Open, OpenedStill, askedVars, heardVars, sourceVars
<1>8. CASE Break
  BY <1>8 DEF Parts, AskedTyped, HoldingTyped, ShownTyped, HeardTyped, StatedTyped, LeftTyped, Moment, Break, Ending, Spend, askedVars, heardVars, sourceVars
<1>9. CASE Subscribe
  BY <1>9 DEF Parts, AskedTyped, HoldingTyped, ShownTyped, HeardTyped, StatedTyped, LeftTyped, Moment, Subscribe, askedVars, heardVars, sourceVars
<1>10. CASE Opened
  BY <1>10 DEF Parts, AskedTyped, HoldingTyped, ShownTyped, HeardTyped, StatedTyped, LeftTyped, Moment, Opened, Gap, askedVars, heardVars, sourceVars
<1>11. CASE CatchUp
  <2>1. owed' \subseteq owed /\ stated' = stated /\ flying' = flying
    BY <1>11 DEF CatchUp
  <2> QED
    BY <2>1 DEF Parts, StatedTyped, Moment
<1>12. CASE Change
  <2>1. owed' = owed /\ stated' = stated
    BY <1>12 DEF Change, sourceVars
  <2>2. flying' = flying \/ flying' = <<>>
    BY <1>12 DEF Change, Ending
  <2>3. <<>> \in Seq(1 .. Len(stated))
    OBVIOUS
  <2> QED
    BY <2>1, <2>2, <2>3 DEF Parts, StatedTyped, Moment
<1>13. CASE Receive
  BY <1>13 DEF Parts, AskedTyped, HoldingTyped, ShownTyped, HeardTyped, StatedTyped, LeftTyped, Moment, Receive, askedVars, heardVars, sourceVars
<1>14. CASE Handed
  BY <1>14 DEF Parts, AskedTyped, HoldingTyped, ShownTyped, HeardTyped, StatedTyped, LeftTyped, Moment, Handed, Spend, askedVars, heardVars, sourceVars
<1>15. CASE Close
  BY <1>15 DEF Parts, AskedTyped, HoldingTyped, ShownTyped, HeardTyped, StatedTyped, LeftTyped, Moment, Close, Closed, Pauses, askedVars, heardVars, sourceVars
<1>16. CASE Pause
  BY <1>16 DEF Parts, AskedTyped, HoldingTyped, ShownTyped, HeardTyped, StatedTyped, LeftTyped, Moment, Pause, askedVars, heardVars, sourceVars
<1> QED
  BY <1>1, <1>2, <1>3, <1>4, <1>5, <1>6, <1>7, <1>8, <1>9, <1>10, <1>11, <1>12, <1>13, <1>14, <1>15, <1>16 DEF Next, Asked, Runs

\* Every step keeps it.
LEMMA LeftTypedStep ==
    ASSUME Parts, [Next]_vars
    PROVE  LeftTyped'
<1> USE SupervisorAssumption
<1>1. CASE UNCHANGED vars
  BY <1>1 DEF Parts, AskedTyped, HoldingTyped, ShownTyped, HeardTyped, StatedTyped, LeftTyped, Mishaps, vars, askedVars, heardVars, sourceVars
<1>2. ASSUME NEW these \in SUBSET Subjects, Want(these)
      PROVE  LeftTyped'
  BY <1>2 DEF Parts, AskedTyped, HoldingTyped, ShownTyped, HeardTyped, StatedTyped, LeftTyped, Mishaps, Want, Spend, askedVars, heardVars, sourceVars
<1>3. ASSUME NEW to \in Sources \cup {None}, Retarget(to)
      PROVE  LeftTyped'
  BY <1>3 DEF Parts, AskedTyped, HoldingTyped, ShownTyped, HeardTyped, StatedTyped, LeftTyped, Mishaps, Retarget, Spend, askedVars, heardVars, sourceVars
<1>4. ASSUME NEW s \in Subjects, State(s)
      PROVE  LeftTyped'
  BY <1>4 DEF Parts, AskedTyped, HoldingTyped, ShownTyped, HeardTyped, StatedTyped, LeftTyped, Mishaps, State, Spend, askedVars, heardVars, sourceVars
<1>5. CASE Top
  BY <1>5 DEF Parts, AskedTyped, HoldingTyped, ShownTyped, HeardTyped, StatedTyped, LeftTyped, Mishaps, Top, Idle, askedVars, heardVars, sourceVars
<1>6. CASE Wake
  BY <1>6 DEF Parts, AskedTyped, HoldingTyped, ShownTyped, HeardTyped, StatedTyped, LeftTyped, Mishaps, Wake, askedVars, heardVars, sourceVars
<1>7. CASE Open
  BY <1>7 DEF Parts, AskedTyped, HoldingTyped, ShownTyped, HeardTyped, StatedTyped, LeftTyped, Mishaps, Open, OpenedStill, askedVars, heardVars, sourceVars
<1>8. CASE Break
  <2>1. \E m \in Mishaps : Spend(m)
    BY <1>8 DEF Break, Mishaps
  <2> QED
    BY <2>1 DEF Parts, LeftTyped, Spend
<1>9. CASE Subscribe
  BY <1>9 DEF Parts, AskedTyped, HoldingTyped, ShownTyped, HeardTyped, StatedTyped, LeftTyped, Mishaps, Subscribe, askedVars, heardVars, sourceVars
<1>10. CASE Opened
  BY <1>10 DEF Parts, AskedTyped, HoldingTyped, ShownTyped, HeardTyped, StatedTyped, LeftTyped, Mishaps, Opened, Gap, askedVars, heardVars, sourceVars
<1>11. CASE CatchUp
  BY <1>11 DEF Parts, AskedTyped, HoldingTyped, ShownTyped, HeardTyped, StatedTyped, LeftTyped, Mishaps, CatchUp, Spend, askedVars, heardVars, sourceVars
<1>12. CASE Change
  BY <1>12 DEF Parts, AskedTyped, HoldingTyped, ShownTyped, HeardTyped, StatedTyped, LeftTyped, Mishaps, Change, Ends, Ending, askedVars, heardVars, sourceVars
<1>13. CASE Receive
  BY <1>13 DEF Parts, AskedTyped, HoldingTyped, ShownTyped, HeardTyped, StatedTyped, LeftTyped, Mishaps, Receive, askedVars, heardVars, sourceVars
<1>14. CASE Handed
  BY <1>14 DEF Parts, AskedTyped, HoldingTyped, ShownTyped, HeardTyped, StatedTyped, LeftTyped, Mishaps, Handed, Spend, askedVars, heardVars, sourceVars
<1>15. CASE Close
  BY <1>15 DEF Parts, AskedTyped, HoldingTyped, ShownTyped, HeardTyped, StatedTyped, LeftTyped, Mishaps, Close, Closed, Pauses, askedVars, heardVars, sourceVars
<1>16. CASE Pause
  BY <1>16 DEF Parts, AskedTyped, HoldingTyped, ShownTyped, HeardTyped, StatedTyped, LeftTyped, Mishaps, Pause, askedVars, heardVars, sourceVars
<1> QED
  BY <1>1, <1>2, <1>3, <1>4, <1>5, <1>6, <1>7, <1>8, <1>9, <1>10, <1>11, <1>12, <1>13, <1>14, <1>15, <1>16 DEF Next, Asked, Runs

\* Every step keeps the types.
LEMMA TypeStep ==
    ASSUME TypeOK, [Next]_vars
    PROVE  TypeOK'
<1>1. Parts
  BY PartsWhole
<1>2. Parts'
  BY <1>1, AskedTypedStep, HoldingTypedStep, ShownTypedStep, HeardTypedStep, StatedTypedStep, LeftTypedStep DEF Parts
<1> QED
  BY <1>2, PartsWhole, PTL

\* Every step keeps what is asked in view.
LEMMA AskingStep ==
    ASSUME TypeOK, Asking, [Next]_vars
    PROVE  Asking'
<1> USE SupervisorAssumption
<1>1. CASE UNCHANGED vars
  BY <1>1 DEF Asking, TypeOK, Moment, Sessions, Subscribed, vars, askedVars, heardVars, sourceVars
<1>2. ASSUME NEW these \in SUBSET Subjects, Want(these)
      PROVE  Asking'
  BY <1>2 DEF Asking, TypeOK, Moment, Sessions, Subscribed, Want, Spend, askedVars, heardVars, sourceVars
<1>3. ASSUME NEW to \in Sources \cup {None}, Retarget(to)
      PROVE  Asking'
  BY <1>3 DEF Asking, TypeOK, Moment, Sessions, Subscribed, Retarget, Spend, askedVars, heardVars, sourceVars
<1>4. ASSUME NEW s \in Subjects, State(s)
      PROVE  Asking'
  BY <1>4 DEF Asking, TypeOK, Moment, Sessions, Subscribed, State, Spend, askedVars, heardVars, sourceVars
<1>5. CASE Top
  BY <1>5 DEF Asking, TypeOK, Moment, Sessions, Subscribed, Top, Idle, askedVars, heardVars, sourceVars
<1>6. CASE Wake
  BY <1>6 DEF Asking, TypeOK, Moment, Sessions, Subscribed, Wake, askedVars, heardVars, sourceVars
<1>7. CASE Open
  BY <1>7 DEF Asking, TypeOK, Moment, Sessions, Subscribed, Open, OpenedStill, askedVars, heardVars, sourceVars
<1>8. CASE Break
  BY <1>8 DEF Asking, TypeOK, Moment, Sessions, Subscribed, Break, Ending, Spend, askedVars, heardVars, sourceVars
<1>9. CASE Subscribe
  BY <1>9 DEF Asking, TypeOK, Moment, Sessions, Subscribed, Subscribe, askedVars, heardVars, sourceVars
<1>10. CASE Opened
  BY <1>10 DEF Asking, TypeOK, Moment, Sessions, Subscribed, Opened, askedVars, heardVars, sourceVars
<1>11. CASE CatchUp
  BY <1>11 DEF Asking, TypeOK, Moment, Sessions, Subscribed, CatchUp, Spend, askedVars, heardVars, sourceVars
<1>12. CASE Change
  BY <1>12 DEF Asking, TypeOK, Moment, Sessions, Subscribed, Change, Ends, Ending, askedVars, heardVars, sourceVars
<1>13. CASE Receive
  BY <1>13 DEF Asking, TypeOK, Moment, Sessions, Subscribed, Receive, askedVars, heardVars, sourceVars
<1>14. CASE Handed
  BY <1>14 DEF Asking, TypeOK, Moment, Sessions, Subscribed, Handed, Spend, askedVars, heardVars, sourceVars
<1>15. CASE Close
  BY <1>15 DEF Asking, TypeOK, Moment, Sessions, Subscribed, Close, Closed, Pauses, askedVars, heardVars, sourceVars
<1>16. CASE Pause
  BY <1>16 DEF Asking, TypeOK, Moment, Sessions, Subscribed, Pause, askedVars, heardVars, sourceVars
<1> QED
  BY <1>1, <1>2, <1>3, <1>4, <1>5, <1>6, <1>7, <1>8, <1>9, <1>10, <1>11, <1>12, <1>13, <1>14, <1>15, <1>16 DEF Next, Asked, Runs

\* Every step keeps what is served wanted and subscribed to.
LEMMA ServingStep ==
    ASSUME TypeOK, Serving, [Next]_vars
    PROVE  Serving'
<1> USE SupervisorAssumption
<1>1. CASE UNCHANGED vars
  BY <1>1 DEF Serving, TypeOK, Moment, Sessions, Subscribed, vars, askedVars, heardVars, sourceVars
<1>2. ASSUME NEW these \in SUBSET Subjects, Want(these)
      PROVE  Serving'
  BY <1>2 DEF Serving, TypeOK, Moment, Sessions, Subscribed, Want, Spend, askedVars, heardVars, sourceVars
<1>3. ASSUME NEW to \in Sources \cup {None}, Retarget(to)
      PROVE  Serving'
  BY <1>3 DEF Serving, TypeOK, Moment, Sessions, Subscribed, Retarget, Spend, askedVars, heardVars, sourceVars
<1>4. ASSUME NEW s \in Subjects, State(s)
      PROVE  Serving'
  BY <1>4 DEF Serving, TypeOK, Moment, Sessions, Subscribed, State, Spend, askedVars, heardVars, sourceVars
<1>5. CASE Top
  BY <1>5 DEF Serving, TypeOK, Moment, Sessions, Subscribed, Top, Idle, askedVars, heardVars, sourceVars
<1>6. CASE Wake
  BY <1>6 DEF Serving, TypeOK, Moment, Sessions, Subscribed, Wake, askedVars, heardVars, sourceVars
<1>7. CASE Open
  BY <1>7 DEF Serving, TypeOK, Moment, Sessions, Subscribed, Open, OpenedStill, askedVars, heardVars, sourceVars
<1>8. CASE Break
  BY <1>8 DEF Serving, TypeOK, Moment, Sessions, Subscribed, Break, Ending, Spend, askedVars, heardVars, sourceVars
<1>9. CASE Subscribe
  BY <1>9 DEF Serving, TypeOK, Moment, Sessions, Subscribed, Subscribe, askedVars, heardVars, sourceVars
<1>10. CASE Opened
  BY <1>10 DEF Serving, TypeOK, Moment, Sessions, Subscribed, Opened, askedVars, heardVars, sourceVars
<1>11. CASE CatchUp
  BY <1>11 DEF Serving, TypeOK, Moment, Sessions, Subscribed, CatchUp, Spend, askedVars, heardVars, sourceVars
<1>12. CASE Change
  BY <1>12 DEF Serving, TypeOK, Moment, Sessions, Subscribed, Change, Ends, Ending, askedVars, heardVars, sourceVars
<1>13. CASE Receive
  BY <1>13 DEF Serving, TypeOK, Moment, Sessions, Subscribed, Receive, askedVars, heardVars, sourceVars
<1>14. CASE Handed
  BY <1>14 DEF Serving, TypeOK, Moment, Sessions, Subscribed, Handed, Spend, askedVars, heardVars, sourceVars
<1>15. CASE Close
  BY <1>15 DEF Serving, TypeOK, Moment, Sessions, Subscribed, Close, Closed, Pauses, askedVars, heardVars, sourceVars
<1>16. CASE Pause
  BY <1>16 DEF Serving, TypeOK, Moment, Sessions, Subscribed, Pause, askedVars, heardVars, sourceVars
<1> QED
  BY <1>1, <1>2, <1>3, <1>4, <1>5, <1>6, <1>7, <1>8, <1>9, <1>10, <1>11, <1>12, <1>13, <1>14, <1>15, <1>16 DEF Next, Asked, Runs

\* Every step keeps one statement in flight, later than any heard.
LEMMA FlyingStep ==
    ASSUME MaxInFlight = 1, TypeOK, Serving, Flying, [Next]_vars
    PROVE  Flying'
<1> USE SupervisorAssumption
<1>1. CASE UNCHANGED vars
  BY <1>1 DEF Flying, TypeOK, Moment, Sessions, Subscribed, Serving, vars, askedVars, heardVars, sourceVars
<1>2. ASSUME NEW these \in SUBSET Subjects, Want(these)
      PROVE  Flying'
  BY <1>2 DEF Flying, TypeOK, Moment, Sessions, Subscribed, Serving, Want, Spend, askedVars, heardVars, sourceVars
<1>3. ASSUME NEW to \in Sources \cup {None}, Retarget(to)
      PROVE  Flying'
  BY <1>3 DEF Flying, TypeOK, Moment, Sessions, Subscribed, Serving, Retarget, Spend, askedVars, heardVars, sourceVars
<1>4. ASSUME NEW s \in Subjects, State(s)
      PROVE  Flying'
  <2>1. stated' = Append(stated, s) /\ stated \in Seq(Subjects)
    BY <1>4 DEF TypeOK, State
  <2>2. /\ Len(stated') = Len(stated) + 1 /\ Len(stated) \in Nat
        /\ stated'[Len(stated')] = s
        /\ \A i \in 1 .. Len(stated) : stated'[i] = stated[i]
    BY <2>1
  <2>3. flying \in Seq(Nat)
    BY Widened DEF TypeOK, Moment
  <2>4. CASE session # None /\ s \in session.subscribed
    <3>1. flying' = Append(flying, Len(stated')) /\ Len(flying) < 1
      BY <1>4, <2>4 DEF State
    <3>2. flying = <<>>
      BY <3>1, <2>3, EmptySeq
    <3>3. flying' = <<Len(stated')>>
      BY <3>1, <3>2
    <3>4. pc \in Subscribed
      BY <2>4 DEF Serving
    <3>5. pc' = pc /\ lastHeard' = lastHeard /\ lastMessage' = lastMessage
      BY <1>4 DEF State, heardVars
    <3>6. flying' # <<>> /\ Len(flying') = 1 /\ flying'[1] = Len(stated')
      BY <3>3
    <3>7. lastMessage \in Nat
      BY DEF TypeOK
    <3> QED
      BY <2>2, <3>4, <3>5, <3>6, <3>7 DEF Flying
  <2>5. CASE ~(session # None /\ s \in session.subscribed)
    BY <1>4, <2>2, <2>5 DEF Flying, TypeOK, State, askedVars, heardVars, sourceVars
  <2> QED
    BY <2>4, <2>5
<1>5. CASE Top
  BY <1>5 DEF Flying, TypeOK, Moment, Sessions, Subscribed, Serving, Top, Idle, askedVars, heardVars, sourceVars
<1>6. CASE Wake
  BY <1>6 DEF Flying, TypeOK, Moment, Sessions, Subscribed, Serving, Wake, askedVars, heardVars, sourceVars
<1>7. CASE Open
  BY <1>7 DEF Flying, TypeOK, Moment, Sessions, Subscribed, Serving, Open, OpenedStill, askedVars, heardVars, sourceVars
<1>8. CASE Break
  BY <1>8 DEF Flying, TypeOK, Moment, Sessions, Subscribed, Serving, Break, Ending, Spend, askedVars, heardVars, sourceVars
<1>9. CASE Subscribe
  BY <1>9 DEF Flying, TypeOK, Moment, Sessions, Subscribed, Serving, Subscribe, askedVars, heardVars, sourceVars
<1>10. CASE Opened
  BY <1>10 DEF Flying, TypeOK, Moment, Sessions, Subscribed, Serving, Opened, askedVars, heardVars, sourceVars
<1>11. CASE CatchUp
  BY <1>11 DEF Flying, TypeOK, Moment, Sessions, Subscribed, Serving, CatchUp, Spend, askedVars, heardVars, sourceVars
<1>12. CASE Change
  BY <1>12 DEF Flying, TypeOK, Moment, Sessions, Subscribed, Serving, Change, Ends, Ending, askedVars, heardVars, sourceVars
<1>13. CASE Receive
  BY <1>13 DEF Flying, TypeOK, Moment, Sessions, Subscribed, Serving, Receive, askedVars, heardVars, sourceVars
<1>14. CASE Handed
  BY <1>14 DEF Flying, TypeOK, Moment, Sessions, Subscribed, Serving, Handed, Spend, askedVars, heardVars, sourceVars
<1>15. CASE Close
  BY <1>15 DEF Flying, TypeOK, Moment, Sessions, Subscribed, Serving, Close, Closed, Pauses, askedVars, heardVars, sourceVars
<1>16. CASE Pause
  BY <1>16 DEF Flying, TypeOK, Moment, Sessions, Subscribed, Serving, Pause, askedVars, heardVars, sourceVars
<1> QED
  BY <1>1, <1>2, <1>3, <1>4, <1>5, <1>6, <1>7, <1>8, <1>9, <1>10, <1>11, <1>12, <1>13, <1>14, <1>15, <1>16 DEF Next, Asked, Runs

\* Every step keeps it.
LEMMA ReopeningStep ==
    ASSUME TypeOK, Reopening, Flying, [Next]_vars
    PROVE  Reopening'
<1> USE SupervisorAssumption
<1>1. CASE UNCHANGED vars
  BY <1>1 DEF Reopening, TypeOK, Moment, Sessions, Flying, Subscribed, vars, askedVars, heardVars, sourceVars
<1>2. ASSUME NEW these \in SUBSET Subjects, Want(these)
      PROVE  Reopening'
  BY <1>2 DEF Reopening, TypeOK, Moment, Sessions, Flying, Subscribed, Want, Spend, askedVars, heardVars, sourceVars
<1>3. ASSUME NEW to \in Sources \cup {None}, Retarget(to)
      PROVE  Reopening'
  BY <1>3 DEF Reopening, TypeOK, Moment, Sessions, Flying, Subscribed, Retarget, Spend, askedVars, heardVars, sourceVars
<1>4. ASSUME NEW s \in Subjects, State(s)
      PROVE  Reopening'
  BY <1>4 DEF Reopening, TypeOK, Moment, Sessions, Flying, Subscribed, State, Spend, askedVars, heardVars, sourceVars
<1>5. CASE Top
  BY <1>5 DEF Reopening, TypeOK, Moment, Sessions, Flying, Subscribed, Top, Idle, askedVars, heardVars, sourceVars
<1>6. CASE Wake
  BY <1>6 DEF Reopening, TypeOK, Moment, Sessions, Flying, Subscribed, Wake, askedVars, heardVars, sourceVars
<1>7. CASE Open
  BY <1>7 DEF Reopening, TypeOK, Moment, Sessions, Flying, Subscribed, Open, OpenedStill, askedVars, heardVars, sourceVars
<1>8. CASE Break
  BY <1>8 DEF Reopening, TypeOK, Moment, Sessions, Flying, Subscribed, Break, Ending, Spend, askedVars, heardVars, sourceVars
<1>9. CASE Subscribe
  BY <1>9 DEF Reopening, TypeOK, Moment, Sessions, Flying, Subscribed, Subscribe, askedVars, heardVars, sourceVars
<1>10. CASE Opened
  BY <1>10 DEF Reopening, TypeOK, Moment, Sessions, Flying, Subscribed, Opened, askedVars, heardVars, sourceVars
<1>11. CASE CatchUp
  BY <1>11 DEF Reopening, TypeOK, Moment, Sessions, Flying, Subscribed, CatchUp, Spend, askedVars, heardVars, sourceVars
<1>12. CASE Change
  BY <1>12 DEF Reopening, TypeOK, Moment, Sessions, Flying, Subscribed, Change, Ends, Ending, askedVars, heardVars, sourceVars
<1>13. CASE Receive
  BY <1>13 DEF Reopening, TypeOK, Moment, Sessions, Flying, Subscribed, Receive, askedVars, heardVars, sourceVars
<1>14. CASE Handed
  BY <1>14 DEF Reopening, TypeOK, Moment, Sessions, Flying, Subscribed, Handed, Spend, askedVars, heardVars, sourceVars
<1>15. CASE Close
  BY <1>15 DEF Reopening, TypeOK, Moment, Sessions, Flying, Subscribed, Close, Closed, Pauses, askedVars, heardVars, sourceVars
<1>16. CASE Pause
  BY <1>16 DEF Reopening, TypeOK, Moment, Sessions, Flying, Subscribed, Pause, askedVars, heardVars, sourceVars
<1> QED
  BY <1>1, <1>2, <1>3, <1>4, <1>5, <1>6, <1>7, <1>8, <1>9, <1>10, <1>11, <1>12, <1>13, <1>14, <1>15, <1>16 DEF Next, Asked, Runs

\* Every step keeps each statement owed found, or to be read back.
LEMMA AwaitedStep ==
    ASSUME MaxInFlight = 1, TypeOK, Serving, Flying, Reopening, Awaited, [Next]_vars
    PROVE  Awaited'
<1> USE SupervisorAssumption
<1>1. CASE UNCHANGED vars
  BY <1>1 DEF Awaited, TypeOK, Moment, Sessions, Subscribed, Serving, Flying, Reopening, Found, Gap, vars, askedVars, heardVars, sourceVars
<1>2. ASSUME NEW these \in SUBSET Subjects, Want(these)
      PROVE  Awaited'
  BY <1>2 DEF Awaited, TypeOK, Moment, Sessions, Subscribed, Serving, Flying, Reopening, Found, Gap, Want, Spend, askedVars, heardVars, sourceVars
<1>3. ASSUME NEW to \in Sources \cup {None}, Retarget(to)
      PROVE  Awaited'
  BY <1>3 DEF Awaited, TypeOK, Moment, Sessions, Subscribed, Serving, Flying, Reopening, Found, Gap, Retarget, Spend, askedVars, heardVars, sourceVars
<1>4. ASSUME NEW s \in Subjects, State(s)
      PROVE  Awaited'
  <2>1. stated' = Append(stated, s) /\ stated \in Seq(Subjects)
    BY <1>4 DEF TypeOK, State
  <2>2. /\ Len(stated') = Len(stated) + 1 /\ Len(stated) \in Nat
        /\ stated'[Len(stated')] = s
        /\ \A i \in 1 .. Len(stated) : stated'[i] = stated[i]
    BY <2>1
  <2>3. flying \in Seq(Nat)
    BY Widened DEF TypeOK, Moment
  <2>4. CASE session # None /\ s \in session.subscribed
    <3>1. flying' = Append(flying, Len(stated')) /\ Len(flying) < 1
      BY <1>4, <2>4 DEF State
    <3>2. flying = <<>>
      BY <3>1, <2>3, EmptySeq
    <3>3. flying' = <<Len(stated')>>
      BY <3>1, <3>2
    <3>4. pc \in Subscribed
      BY <2>4 DEF Serving
    <3>5. /\ pc' = pc /\ handed' = handed /\ handling' = handling /\ since' = since
          /\ owed' \subseteq owed \cup {Len(stated')}
      BY <1>4 DEF State, askedVars, heardVars, sourceVars
    <3>6. \A i : Found(i) \/ i = Len(stated') => Found(i)'
      BY <3>2, <3>3, <3>5 DEF Found
    <3>7. \A i \in owed : stated'[i] = stated[i] /\ (Gap(stated[i]))' = Gap(stated[i])
      BY <1>4, <2>2 DEF TypeOK, Moment, State, Gap, askedVars, heardVars, sourceVars
    <3> QED
      BY <2>2, <3>4, <3>5, <3>6, <3>7 DEF Awaited, Subscribed, Gap
  <2>5. CASE ~(session # None /\ s \in session.subscribed)
    <3>1. /\ pc' = pc /\ handed' = handed /\ handling' = handling /\ since' = since
          /\ flying' = flying /\ lastHeard' = lastHeard /\ lastMessage' = lastMessage
      BY <1>4, <2>5 DEF State, askedVars, heardVars, sourceVars
    <3>2. \A i : Found(i) => Found(i)'
      BY <3>1 DEF Found
    <3>3. ASSUME NEW i \in owed'
          PROVE  \/ i \in owed /\ stated'[i] = stated[i]
                 \/ i = Len(stated') /\ stated'[i] = s /\ s \in served
      BY <1>4, <2>2 DEF TypeOK, Moment, State
    <3>4. CASE pc \in Subscribed
      <4>1. s \notin served
        BY <2>5, <3>4 DEF Serving, TypeOK, Subscribed
      <4> QED
        BY <3>1, <3>2, <3>3, <4>1 DEF Awaited, Gap
    <3>5. CASE pc \notin Subscribed
      <4>1. Gap(s) < Len(stated')
        BY <2>2 DEF Flying, TypeOK, Gap
      <4> QED
        BY <3>1, <3>2, <3>3, <3>5, <4>1 DEF Awaited, Subscribed, Gap
    <3> QED
      BY <3>4, <3>5
  <2> QED
    BY <2>4, <2>5
<1>5. CASE Top
  BY <1>5 DEF Awaited, TypeOK, Moment, Sessions, Subscribed, Serving, Flying, Reopening, Found, Gap, Top, Idle, askedVars, heardVars, sourceVars
<1>6. CASE Wake
  BY <1>6 DEF Awaited, TypeOK, Moment, Sessions, Subscribed, Serving, Flying, Reopening, Found, Gap, Wake, askedVars, heardVars, sourceVars
<1>7. CASE Open
  BY <1>7 DEF Awaited, TypeOK, Moment, Sessions, Subscribed, Serving, Flying, Reopening, Found, Gap, Open, OpenedStill, askedVars, heardVars, sourceVars
<1>8. CASE Break
  <2>1. /\ pc' = "closing" /\ handed' = handed /\ handling' = handling /\ owed' = owed
        /\ stated' = stated /\ lastHeard' = lastHeard /\ lastMessage' = lastMessage
    BY <1>8 DEF Break, Ending, askedVars, heardVars, sourceVars
  <2>2. ASSUME NEW i \in owed
        PROVE  Found(i)' \/ Gap(stated[i]) < i
    <3>1. CASE i \in handed \/ i = handling
      BY <2>1, <3>1 DEF Found
    <3>2. CASE flying # <<>> /\ i = flying[1]
      <4>1. stated[i] \in Subjects
        BY DEF TypeOK, Moment
      <4>2. Gap(stated[i]) <= lastMessage /\ Gap(stated[i]) \in Nat
        BY <4>1 DEF Flying, TypeOK, Gap
      <4>3. lastMessage < i /\ i \in Nat /\ lastMessage \in Nat
        BY <3>2 DEF Flying, TypeOK, Moment
      <4> QED
        BY <4>2, <4>3
    <3>3. CASE ~Found(i)
      <4>1. pc \in {"opening", "subscribing", "resubscribing", "reading"}
        BY <1>8 DEF Break
      <4> QED
        BY <3>3, <4>1 DEF Awaited
    <3> QED
      BY <3>1, <3>2, <3>3 DEF Found
  <2> QED
    BY <2>1, <2>2 DEF Awaited, Gap
<1>9. CASE Subscribe
  BY <1>9 DEF Awaited, TypeOK, Moment, Sessions, Subscribed, Serving, Flying, Reopening, Found, Gap, Subscribe, askedVars, heardVars, sourceVars
<1>10. CASE Opened
  BY <1>10 DEF Awaited, TypeOK, Moment, Sessions, Subscribed, Serving, Flying, Reopening, Found, Gap, Opened, askedVars, heardVars, sourceVars
<1>11. CASE CatchUp
  <2>1. /\ pc = "catching" /\ pc' = "reading" /\ stated' = stated
        /\ flying' = flying /\ handling' = handling
    BY <1>11 DEF CatchUp
  <2>2. CASE owed' = {}
    BY <2>1, <2>2 DEF Awaited
  <2>3. CASE owed' # {}
    <3>1. /\ owed' = owed
          /\ handed' = handed \cup {i \in DOMAIN stated : since[stated[i]] > 0 /\ i > since[stated[i]]}
      BY <1>11, <2>3 DEF CatchUp
    <3>2. owed \subseteq DOMAIN stated
      BY DEF TypeOK, Moment
    <3>3. ASSUME NEW i \in owed
          PROVE  Found(i)'
      <4>1. CASE Found(i)
        BY <2>1, <3>1, <4>1 DEF Found
      <4>2. CASE 0 < since[stated[i]] /\ since[stated[i]] < i
        <5>1. i \in DOMAIN stated /\ stated[i] \in Subjects
          BY <3>2 DEF TypeOK
        <5>2. since[stated[i]] \in Nat /\ i \in Nat
          BY <5>1 DEF TypeOK, Moment
        <5>3. i \in handed'
          BY <3>1, <4>2, <5>1, <5>2
        <5> QED
          BY <5>3 DEF Found
      <4> QED
        BY <2>1, <4>1, <4>2 DEF Awaited
    <3> QED
      BY <2>1, <3>1, <3>3 DEF Awaited
  <2> QED
    BY <2>2, <2>3
<1>12. CASE Change
  BY <1>12 DEF Awaited, TypeOK, Moment, Sessions, Subscribed, Serving, Flying, Reopening, Found, Gap, Change, Ends, Ending, askedVars, heardVars, sourceVars
<1>13. CASE Receive
  BY <1>13 DEF Awaited, TypeOK, Moment, Sessions, Subscribed, Serving, Flying, Reopening, Found, Gap, Receive, askedVars, heardVars, sourceVars
<1>14. CASE Handed
  BY <1>14 DEF Awaited, TypeOK, Moment, Sessions, Subscribed, Serving, Flying, Reopening, Found, Gap, Handed, Spend, askedVars, heardVars, sourceVars
<1>15. CASE Close
  BY <1>15 DEF Awaited, TypeOK, Moment, Sessions, Subscribed, Serving, Flying, Reopening, Found, Gap, Close, Closed, Pauses, askedVars, heardVars, sourceVars
<1>16. CASE Pause
  BY <1>16 DEF Awaited, TypeOK, Moment, Sessions, Subscribed, Serving, Flying, Reopening, Found, Gap, Pause, askedVars, heardVars, sourceVars
<1> QED
  BY <1>1, <1>2, <1>3, <1>4, <1>5, <1>6, <1>7, <1>8, <1>9, <1>10, <1>11, <1>12, <1>13, <1>14, <1>15, <1>16 DEF Next, Asked, Runs

-----------------------------------------------------------------------------

\* Nothing is asked, said or owed to begin with.
LEMMA Initially ==
    ASSUME Init
    PROVE  TypeOK /\ Asking /\ Serving /\ Flying /\ Reopening /\ Awaited
<1> USE SupervisorAssumption
<1>1. stated = <<>> /\ flying = <<>> /\ Len(stated) = 0 /\ Len(flying) = 0
  BY DEF Init
<1>2. stated \in Seq(Subjects) /\ flying \in Seq(1 .. Moment)
  BY <1>1
<1>3. Parts
  <2>1. AskedTyped
    BY DEF Init, AskedTyped, Places
  <2>2. HoldingTyped
    BY DEF Init, HoldingTyped
  <2>3. ShownTyped
    BY DEF Init, ShownTyped, Labels
  <2>4. HeardTyped
    BY DEF Init, HeardTyped
  <2>5. StatedTyped
    BY <1>2 DEF Init, StatedTyped
  <2>6. LeftTyped
    BY DEF Init, LeftTyped
  <2> QED
    BY <2>1, <2>2, <2>3, <2>4, <2>5, <2>6 DEF Parts
<1>4. Asking
  BY DEF Init, Asking, Subscribed
<1>5. Serving
  BY DEF Init, Serving, Subscribed
<1>6. Flying
  BY <1>1 DEF Init, Flying
<1>7. Reopening
  BY DEF Init, Reopening, Subscribed
<1>8. Awaited
  BY DEF Init, Awaited
<1> QED
  BY <1>3, <1>4, <1>5, <1>6, <1>7, <1>8, PartsWhole

\* Every variable keeps to its type.
THEOREM TypeCorrect == Spec => []TypeOK
<1>1. Init => TypeOK
  BY Initially
<1>2. TypeOK /\ [Next]_vars => TypeOK'
  BY TypeStep
<1> QED
  BY <1>1, <1>2, PTL DEF Spec

\* What is asked is in view in every state.
LEMMA InView == Spec => []Asking
<1>1. Init => Asking
  BY Initially
<1>2. TypeOK /\ Asking /\ [Next]_vars => Asking'
  BY AskingStep
<1> QED
  BY <1>1, <1>2, TypeCorrect, PTL DEF Spec

\* A session waiting to be told anything is subscribed to exactly what is
\* wanted, and was made with the source there is now, whatever changed while it
\* opened, subscribed or closed (sessions.py, `Supervisor.run`).
THEOREM HeldAsAsked == Spec => []AsAsked
<1>1. TypeOK /\ Asking => AsAsked
  BY SupervisorAssumption DEF TypeOK, Asking, AsAsked, Subscribed
<1> QED
  BY <1>1, TypeCorrect, InView, PTL

\* Nothing asked while it closes, waits or is idle is forgotten: `changed` wakes
\* it, however the change and the wait fall (sessions.py, `retarget`, `restart`).
THEOREM NothingForgotten == Spec => []NotForgotten
<1>1. TypeOK /\ Asking => NotForgotten
  BY DEF TypeOK, Asking, NotForgotten
<1> QED
  BY <1>1, TypeCorrect, InView, PTL

\* While the source has at most one statement in flight, none it made of a
\* subject served is missed, however the session breaks, is refused or is made
\* anew: each is handed on, or read back from the moment its subject was last
\* heard (sessions.py, `_caught_up`).
THEOREM NothingIsMissed ==
    ASSUME MaxInFlight = 1
    PROVE  Spec => []NothingMissed
<1> DEFINE Sound == TypeOK /\ Serving /\ Flying /\ Reopening /\ Awaited
<1>1. Init => Sound
  BY Initially
<1>2. Sound /\ [Next]_vars => Sound'
  BY TypeStep, ServingStep, FlyingStep, ReopeningStep, AwaitedStep
<1>3. Sound => NothingMissed
  BY SupervisorAssumption DEF TypeOK, Awaited, Found, NothingMissed, Moment
<1> QED
  BY <1>1, <1>2, <1>3, PTL DEF Spec

=============================================================================
