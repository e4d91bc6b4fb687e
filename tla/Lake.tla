--------------------------------- MODULE Lake ---------------------------------
(***************************************************************************)
(* What the edge lake promises of the raw records an instance keeps        *)
(* (edge.py, module doc: "reports the move through the sidecar, and only   *)
(* then removes it from storage"): a record leaves the storage once its    *)
(* unit was said deleted, or said archived with the archive holding it,    *)
(* and the archive drops one the storage still holds, or one said deleted. *)
(***************************************************************************)
EXTENDS Naturals

CONSTANTS
    Units,   \* what is moved: a day's records
    Numbers  \* records of a unit

Records == Units \X Numbers
Outcomes == {"archived", "restored", "returned", "deleted"}

VARIABLES
    stored,   \* the records in storage
    archived, \* those whose file the archive has
    told      \* the moves the deployment recorded: <<unit, outcome>>

lake == <<stored, archived, told>>

\* A vendor's answer is kept.
Keep(r) ==
    /\ stored' = stored \cup {r}
    /\ UNCHANGED <<archived, told>>

\* It is copied to the archive.
Copy(r) ==
    /\ r \in stored
    /\ archived' = archived \cup {r}
    /\ UNCHANGED <<stored, told>>

\* A move is recorded.
Tell(u, outcome) ==
    /\ told' = told \cup {<<u, outcome>>}
    /\ UNCHANGED <<stored, archived>>

\* A record leaves the storage.
Leave(r) ==
    /\ \/ <<r[1], "deleted">> \in told
       \/ <<r[1], "archived">> \in told /\ r \in archived
    /\ stored' = stored \ {r}
    /\ UNCHANGED <<archived, told>>

\* The archive drops records.
Drop(gone) ==
    /\ \A r \in gone : r \in stored \/ <<r[1], "deleted">> \in told
    /\ archived' = archived \ gone
    /\ UNCHANGED <<stored, told>>

Init == stored = {} /\ archived = {} /\ told = {}

Next ==
    \/ \E r \in Records : Keep(r) \/ Copy(r) \/ Leave(r)
    \/ \E u \in Units, outcome \in Outcomes : Tell(u, outcome)
    \/ \E gone \in SUBSET Records : Drop(gone)

Spec == Init /\ [][Next]_lake

=============================================================================
