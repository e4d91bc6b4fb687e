------------------------------ MODULE Supervisor ------------------------------
(***************************************************************************)
(* A session with a source, kept open while anything is wanted of it       *)
(* (helpers/sessions.py, `Supervisor`).  What is wanted, and the source,   *)
(* change while the session opens, subscribes, reads, closes or waits; its *)
(* statements may be under way when it breaks; a reopened one reads back   *)
(* what was missed since each subject was last heard.                      *)
(*                                                                         *)
(* How long a wait is (`Backoff`, `retry_after`) is left out: a wait ends, *)
(* or is cut short.  So is `run(once=True)`.                               *)
(***************************************************************************)
EXTENDS Naturals, Sequences

CONSTANTS
    Subjects,    \* what can be wanted
    Sources,     \* what a session can be made with
    None,        \* nothing; as a source, no key
    MaxInFlight, \* bound: statements sent and not yet received
    Budgets      \* bounds, mishap -> how often: those that may come together

\* What may come, each a bounded number of times: what is wanted or the source
\* changing; a statement; a session that breaks, is refused or goes silent; a
\* handler that fails.
Mishaps == {"want", "source", "state", "break", "refuse", "silent", "handler"}

Sessions == [source : Sources, subscribed : SUBSET Subjects]

ASSUME SupervisorAssumption ==
    /\ None \notin Sources /\ None \notin Sessions /\ None \notin Nat
    /\ MaxInFlight \in Nat \ {0}
    /\ Budgets \subseteq [Mishaps -> Nat]

\* Where `run` stands, each at an await but "top".
Places == {"top", "idle", "opening", "subscribing", "opened", "catching", "reading",
           "handing", "resubscribing", "closing", "pausing"}
Labels == {"off", "no_key", "connecting", "open", "waiting", "refused"}

VARIABLES
    wanted,     \* the subjects wanted
    source,     \* what `link` makes a session with, or None
    reopens,    \* `reopen_on_want`
    changed,    \* the event `_changed`
    restart,    \* `_restart`
    pc,         \* where `run` stands
    session,    \* the session: with which source, what it is subscribed to
    telling,    \* what a `subscribe` under way was given
    state,      \* `SessionState`: its label, what is subscribed, how often opened
    waits,      \* whether a wait follows the close
    lastHeard,  \* subject -> moment last heard, 0 for never
    lastMessage,\* moment anything was
    since,      \* subject -> moment the gap is read from, as `caught_up` was given
    stated,     \* the source's statements, each known by its place: its subject
    flying,     \* those sent on the session and not yet received
    handling,   \* the statement its handler has, or None
    handed,     \* those handed on
    served,     \* the subjects last subscribed to and wanted ever since
    owed,       \* those stated of a subject served, once anything was heard
    left        \* what remains of each bound

askedVars == <<wanted, source, reopens>>
heardVars == <<lastHeard, lastMessage, since, handling, handed>>
sourceVars == <<stated, owed>>
vars == <<wanted, source, reopens, changed, restart, pc, session, telling, state, waits,
          lastHeard, lastMessage, since, stated, flying, handling, handed, served, owed, left>>

Spend(m) ==
    /\ left[m] > 0
    /\ left' = [left EXCEPT ![m] = @ - 1]

Moment == Len(stated)

-----------------------------------------------------------------------------
(* What is asked of it. *)

Want(these) ==
    /\ these # wanted
    /\ Spend("want")
    /\ wanted' = these /\ changed' = TRUE
    /\ served' = served \cap these
    /\ owed' = {i \in owed : stated[i] \in these}
    /\ UNCHANGED <<source, reopens, restart, pc, session, telling, state, waits,
                   heardVars, stated, flying>>

\* `retarget`, and `restart` where the key or the source changed.
Retarget(to) ==
    /\ Spend("source")
    /\ source' = to
    /\ restart' = TRUE /\ changed' = TRUE
    /\ UNCHANGED <<wanted, reopens, pc, session, telling, state, waits,
                   heardVars, sourceVars, flying, served>>

-----------------------------------------------------------------------------
(* The source. *)

\* A statement, sent to a session subscribed to its subject.
State(s) ==
    /\ Spend("state")
    /\ stated' = Append(stated, s)
    /\ IF session # None /\ s \in session.subscribed
       THEN /\ Len(flying) < MaxInFlight
            /\ flying' = Append(flying, Len(stated'))
       ELSE UNCHANGED flying
    /\ owed' = IF s \in served /\ lastMessage > 0
               THEN owed \cup {Len(stated')} ELSE owed
    /\ UNCHANGED <<askedVars, changed, restart, pc, session, telling, state, waits,
                   heardVars, served>>

-----------------------------------------------------------------------------
(* `run`. *)

\* Nothing to hold: said, and waited until that changes.
Idle(label) ==
    /\ pc' = "idle"
    /\ state' = [state EXCEPT !.label = label, !.subscribed = {}]
    /\ changed' = FALSE /\ restart' = FALSE
    /\ UNCHANGED session

Top ==
    /\ pc = "top"
    /\ \/ wanted = {} /\ Idle("off")
       \/ wanted # {} /\ source = None /\ Idle("no_key")
       \/ /\ wanted # {} /\ source # None
          /\ pc' = "opening"
          /\ session' = [source |-> source, subscribed |-> {}]
          /\ state' = [state EXCEPT !.label = "connecting"]
          /\ restart' = FALSE /\ changed' = FALSE
    /\ UNCHANGED <<askedVars, telling, waits, heardVars, sourceVars, flying, served, left>>

\* Slip: only a restart wakes it.
WokenByRestart == restart

Woken == changed

Wake ==
    /\ pc = "idle" /\ Woken
    /\ pc' = "top"
    /\ UNCHANGED <<askedVars, changed, restart, session, telling, state, waits,
                   heardVars, sourceVars, flying, served, left>>

\* Slip: what was asked while the session opened is forgotten.
OpenedAnew == FALSE

\* The event, once the session has opened.
OpenedStill == changed

Open ==
    /\ pc = "opening"
    /\ pc' = "subscribing" /\ telling' = wanted
    /\ changed' = OpenedStill
    /\ state' = [state EXCEPT !.opened = TRUE, !.reopened = state.opened]
    /\ UNCHANGED <<askedVars, restart, session, waits, heardVars, sourceVars, flying, served, left>>

\* What ends is sent nothing more, and what was under way is not read.
Ending ==
    /\ pc' = "closing"
    /\ session' = [session EXCEPT !.subscribed = {}]
    /\ flying' = <<>>

\* The session is refused, breaks, or goes silent with nothing to read.
Break ==
    /\ pc \in {"opening", "subscribing", "resubscribing", "reading"}
    /\ \/ Spend("refuse") /\ state' = [state EXCEPT !.label = "refused"]
       \/ Spend("break") /\ UNCHANGED state
       \/ pc = "reading" /\ flying = <<>> /\ Spend("silent") /\ UNCHANGED state
    /\ Ending
    /\ waits' = TRUE
    /\ UNCHANGED <<askedVars, changed, restart, telling, heardVars, sourceVars, served>>

\* Subscribed to what it was told, and shown as what is wanted by now.
Subscribe ==
    /\ pc \in {"subscribing", "resubscribing"}
    /\ session' = [session EXCEPT !.subscribed = telling]
    /\ state' = [state EXCEPT !.label = "open", !.subscribed = wanted]
    /\ pc' = IF pc = "subscribing" THEN "opened" ELSE "reading"
    /\ served' = telling \cap wanted
    /\ UNCHANGED <<askedVars, changed, restart, telling, waits, heardVars, sourceVars, flying, left>>

\* Slip: a subject never heard has no gap.
GapOfHeard(s) == lastHeard[s]

\* When a subject was last heard, or anything was.
Gap(s) == IF lastHeard[s] > 0 THEN lastHeard[s] ELSE lastMessage

\* `opened` has been called; a session opened before reads back what it missed.
Opened ==
    /\ pc = "opened"
    /\ LET gaps == [s \in Subjects |-> IF s \in wanted THEN Gap(s) ELSE 0]
           catches == state.reopened /\ \E s \in Subjects : gaps[s] > 0
       IN  /\ since' = IF catches THEN gaps ELSE since
           /\ pc' = IF catches THEN "catching" ELSE "reading"
    /\ UNCHANGED <<askedVars, changed, restart, session, telling, state, waits, lastHeard,
                   lastMessage, handling, handed, sourceVars, flying, served, left>>

\* The plugin's hook reads the source's history; one that fails is passed over.
CatchUp ==
    /\ pc = "catching"
    /\ pc' = "reading"
    /\ \/ /\ handed' = handed \cup {i \in DOMAIN stated : since[stated[i]] > 0
                                                        /\ i > since[stated[i]]}
          /\ UNCHANGED <<owed, left>>
       \/ /\ Spend("handler")
          /\ owed' = {}
          /\ UNCHANGED handed
    /\ UNCHANGED <<askedVars, changed, restart, session, telling, state, waits, lastHeard,
                   lastMessage, since, stated, handling, flying, served>>

\* The session ends for a new one, or for none.
Ends ==
    \/ restart
    \/ wanted = {}
    \/ reopens /\ wanted # state.subscribed

\* What is asked has changed.
Change ==
    /\ pc = "reading" /\ changed
    /\ changed' = FALSE
    /\ IF Ends
       THEN /\ Ending
            /\ waits' = FALSE
            /\ UNCHANGED telling
       ELSE /\ pc' = "resubscribing" /\ telling' = wanted
            /\ UNCHANGED <<waits, flying, session>>
    /\ UNCHANGED <<askedVars, restart, state, heardVars, sourceVars, served, left>>

\* A statement received, `_heard`.
Receive ==
    /\ pc = "reading" /\ flying # <<>>
    /\ pc' = "handing"
    /\ handling' = Head(flying) /\ flying' = Tail(flying)
    /\ lastHeard' = [lastHeard EXCEPT ![stated[Head(flying)]] = Moment] /\ lastMessage' = Moment
    /\ UNCHANGED <<askedVars, changed, restart, session, telling, state, waits, since, handed,
                   sourceVars, served, left>>

Handed ==
    /\ pc = "handing"
    /\ pc' = "reading" /\ handling' = None
    /\ \/ /\ handed' = handed \cup {handling}
          /\ UNCHANGED <<owed, left>>
       \/ /\ Spend("handler")
          /\ owed' = owed \ {handling}
          /\ UNCHANGED handed
    /\ UNCHANGED <<askedVars, changed, restart, session, telling, state, waits, lastHeard, lastMessage,
                   since, stated, flying, served>>

\* Slip: the session is left open.
LeftOpen == session

Closed == None

\* Slip: whatever ended the session, its wait is kept.
PausesAlways == waits

\* A wait follows, unless the session is to be made anew.
Pauses == waits /\ ~restart

Close ==
    /\ pc = "closing"
    /\ session' = Closed
    /\ IF Pauses
       THEN /\ pc' = "pausing" /\ changed' = FALSE
       ELSE pc' = "top" /\ UNCHANGED changed
    /\ state' = [state EXCEPT !.label = IF waits /\ @ # "refused" THEN "waiting" ELSE @]
    /\ UNCHANGED <<askedVars, restart, telling, waits, heardVars, sourceVars, flying, served, left>>

\* A wait is over, or cut short.
Pause ==
    /\ pc = "pausing"
    /\ pc' = "top"
    /\ UNCHANGED <<askedVars, changed, restart, session, telling, state, waits,
                   heardVars, sourceVars, flying, served, left>>

-----------------------------------------------------------------------------

Init ==
    /\ wanted = {} /\ source \in Sources \cup {None} /\ reopens \in BOOLEAN
    /\ changed = FALSE /\ restart = FALSE /\ pc = "top"
    /\ session = None /\ telling = {} /\ waits = FALSE
    /\ state = [label |-> "off", subscribed |-> {}, opened |-> FALSE, reopened |-> FALSE]
    /\ lastHeard = [s \in Subjects |-> 0] /\ lastMessage = 0 /\ since = [s \in Subjects |-> 0]
    /\ stated = <<>> /\ flying = <<>> /\ handling = None /\ handed = {}
    /\ served = {} /\ owed = {} /\ left \in Budgets

Asked ==
    \/ \E these \in SUBSET Subjects : Want(these)
    \/ \E to \in Sources \cup {None} : Retarget(to)
    \/ \E s \in Subjects : State(s)

Runs ==
    \/ Top \/ Wake \/ Open \/ Subscribe \/ Opened \/ CatchUp
    \/ Change \/ Receive \/ Handed \/ Close \/ Pause

Next == Asked \/ Break \/ Runs

Spec == Init /\ [][Next]_vars

FairSpec == Spec /\ WF_vars(Runs)

-----------------------------------------------------------------------------

\* What each variable may hold.
TypeOK ==
    /\ wanted \subseteq Subjects /\ source \in Sources \cup {None} /\ reopens \in BOOLEAN
    /\ changed \in BOOLEAN /\ restart \in BOOLEAN /\ pc \in Places
    /\ session \in Sessions \cup {None}
    /\ (session = None) <=> (pc \in {"top", "idle", "pausing"})
    /\ telling \subseteq Subjects /\ waits \in BOOLEAN
    /\ state \in [label : Labels, subscribed : SUBSET Subjects, opened : BOOLEAN, reopened : BOOLEAN]
    /\ lastHeard \in [Subjects -> Nat] /\ lastMessage \in Nat /\ since \in [Subjects -> Nat]
    /\ stated \in Seq(Subjects) /\ flying \in Seq(1 .. Moment)
    /\ handling \in 1 .. Moment \cup {None} /\ handed \subseteq 1 .. Moment
    /\ (handling = None) <=> (pc # "handing")
    /\ served \subseteq Subjects /\ owed \subseteq 1 .. Moment
    /\ left \in [Mishaps -> Nat]

\* A session waiting to be told anything is subscribed to exactly what is
\* wanted, and was made with the source there is now.
AsAsked ==
    pc = "reading" /\ ~changed =>
        session.subscribed = wanted /\ session.source = source

\* One that is idle has nothing to hold, and one that waits was not asked to
\* be made anew.
NotForgotten ==
    ~changed => /\ pc = "idle" => wanted = {} \/ source = None
                /\ pc = "pausing" => ~restart

\* What was stated of a subject ever since it was first served is handed on, or
\* read back, once the session has nothing more to read: nothing in flight as a
\* session broke or was made anew is missed.
NothingMissed == pc = "reading" /\ flying = <<>> => owed \subseteq handed

\* Whatever was asked last comes to hold.
Settled ==
    \/ /\ pc = "idle"
       /\ wanted = {} \/ source = None
    \/ /\ session # None
       /\ session.subscribed = wanted /\ session.source = source

ComesToHold == <>[]Settled

\* A source that takes no subscription on an open session is never given one.
NeverToldAgain == reopens => pc # "resubscribing"

=============================================================================
