------------------------------- MODULE Placing --------------------------------
(***************************************************************************)
(* What a connectivity plugin promises of the placements it is sent        *)
(* (_trader.py and _bookkeeping.py, module docs): each is placed at the    *)
(* venue once at most, an answer that nothing was placed is given only     *)
(* where nothing was, and the book is told nothing of a venue order that   *)
(* the order's own status does not say.                                    *)
(***************************************************************************)
EXTENDS Naturals

CONSTANT Placements

VARIABLES book, status, orders

Open == {"open", "odd"}
Closed == {"filled", "cancelled", "rejected"}
promised == <<book, status, orders>>

\* An ems queues a placement.
Queue(p) ==
    /\ book[p] = "absent"
    /\ book' = [book EXCEPT ![p] = "queued"]
    /\ UNCHANGED <<status, orders>>

\* It is placed at the venue.
Make(p) ==
    /\ book[p] = "queued" /\ orders[p] = 0
    /\ orders' = [orders EXCEPT ![p] = 1]
    /\ status' = [status EXCEPT ![p] = "open"]
    /\ UNCHANGED book

\* The venue's order stands elsewhere: once closed it stays so.
Move(p) ==
    /\ status[p] \in Open
    /\ \E s \in (Open \cup Closed) \ {status[p]} : status' = [status EXCEPT ![p] = s]
    /\ UNCHANGED <<book, orders>>

\* The book is told that nothing was placed.
Refuse(p) ==
    /\ book[p] = "queued" /\ orders[p] = 0
    /\ \E answer \in {"unsupported", "rejected"} : book' = [book EXCEPT ![p] = answer]
    /\ UNCHANGED <<status, orders>>

\* It is told that no answer came.
Doubt(p) ==
    /\ book[p] = "queued"
    /\ book' = [book EXCEPT ![p] = "sent"]
    /\ UNCHANGED <<status, orders>>

\* It is told that the order works, or how it ended.
Tell(p) ==
    /\ book[p] \in {"queued", "sent", "working"} /\ orders[p] = 1
    /\ \E s \in {"working"} \cup ({status[p]} \cap Closed) : book' = [book EXCEPT ![p] = s]
    /\ UNCHANGED <<status, orders>>

Init ==
    /\ book = [p \in Placements |-> "absent"]
    /\ status = [p \in Placements |-> "none"]
    /\ orders = [p \in Placements |-> 0]

Next ==
    \E p \in Placements :
        Queue(p) \/ Make(p) \/ Move(p) \/ Refuse(p) \/ Doubt(p) \/ Tell(p)

Spec == Init /\ [][Next]_promised

=============================================================================
