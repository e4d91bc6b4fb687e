-------------------------------- MODULE Mover ---------------------------------
(***************************************************************************)
(* The raw records an edge plugin keeps in its storage, one unit a day     *)
(* (_raw.py, `RawStore`), and their moves to the archive and back (edge.py,*)
(* `_Mover`), over crashes between any two steps.                          *)
(*                                                                         *)
(* A move holds the lock from its first step to its last; a call that      *)
(* waits for it has changed nothing and is one that has not begun.  What   *)
(* an object or a file says is left out: a record is in storage, in the    *)
(* archive or in the restore area, or it is not.                           *)
(***************************************************************************)
EXTENDS Naturals, FiniteSets

CONSTANTS
    Days,       \* bound: the days on which records are kept
    PerDay,     \* bound: how many a day
    Window,     \* the kind's window, in days
    LateBy,     \* days after which a record received may still be kept
    Most,       \* the archive's bound (here in records), or 0
    Choices,    \* the past-window settings the admin may choose
    None,       \* nothing
    Budgets     \* bounds, mishap -> how often: those that may come together

Units == 1 .. Days
Numbers == 1 .. PerDay
Records == Units \X Numbers
Outcomes == {"archived", "restored", "returned", "deleted"}
Held == {"archived", "restored"}
Past == {"archived", "kept", "deleted"}

\* What may happen, each a bounded number of times: the process dying, a
\* report or a copy failing, an object of the archive not deleted, a person
\* asking, the admin choosing otherwise.
Mishaps == {"crash", "report", "copy", "object", "person", "choice"}

ASSUME MoverAssumption ==
    /\ Days \in Nat \ {0} /\ PerDay \in Nat \ {0} /\ Window \in Nat /\ LateBy \in Nat /\ Most \in Nat
    /\ Choices \subseteq Past /\ Choices # {}
    /\ Budgets \subseteq [Mishaps -> Nat]

\* A call under the lock: whether a person asked, whether `tend` did; the unit
\* it returns now and those yet to return, and the files it copies or forgets.
Moves ==
    [op : {"return", "archive", "restore", "delete"}, unit : Units, caller : BOOLEAN, tends : BOOLEAN,
     at : {"due", "returned", "copy", "target", "report", "undo", "forget", "clear", "index", "remove",
           "answer"},
     now : Units, due : SUBSET Units, files : SUBSET Records]

VARIABLES
    today,    \* the day it is
    kept,     \* the records ever kept
    storage,  \* those in storage
    archive,  \* those whose object the archive has
    restored, \* those in the restore area
    state,    \* unit -> its state in the index
    files,    \* unit -> the files the index says it was archived as
    told,     \* the moves the sidecar recorded, <<unit, outcome>>
    elapsed,  \* the units restored longer than the restore period
    past,     \* the past-window setting
    given,    \* whether the archive is given
    tending,  \* the pass of `tend` under way, or None
    move,     \* the move under the lock, or None
    left      \* what remains of each bound

diskVars == <<storage, archive, restored, state, files>>
aroundVars == <<today, kept, elapsed, past, given>>
vars == <<today, kept, storage, archive, restored, state, files, told, elapsed, past, given,
          tending, move, left>>

Of(u, these) == {r \in these : r[1] = u}

Spend(m) ==
    /\ left[m] > 0
    /\ left' = [left EXCEPT ![m] = @ - 1]

-----------------------------------------------------------------------------
(* The storage, the days and the admin. *)

\* `keep`: an answer received today, or a little before.
Keep(u) ==
    /\ u <= today /\ today <= u + LateBy
    /\ Cardinality(Of(u, kept)) < PerDay
    /\ LET r == <<u, Cardinality(Of(u, kept)) + 1>>
       IN  kept' = kept \cup {r} /\ storage' = storage \cup {r}
    /\ UNCHANGED <<today, archive, restored, state, files, told, elapsed, past, given, tending, move, left>>

Midnight ==
    /\ today < Days + Window + 1
    /\ today' = today + 1
    /\ UNCHANGED <<kept, storage, archive, restored, state, files, told, elapsed, past, given,
                   tending, move, left>>

\* A unit's restore period passes.
Elapse(u) ==
    /\ state[u] = "restored" /\ u \notin elapsed
    /\ elapsed' = elapsed \cup {u}
    /\ UNCHANGED <<today, kept, storage, archive, restored, state, files, told, past, given,
                   tending, move, left>>

Choose(choice) ==
    /\ choice # past
    /\ Spend("choice")
    /\ past' = choice
    /\ UNCHANGED <<today, kept, storage, archive, restored, state, files, told, elapsed, given,
                   tending, move>>

\* The process dies, and starts again with the archive given or not.
Crash ==
    /\ Spend("crash")
    /\ tending' = None /\ move' = None
    /\ given' \in BOOLEAN
    /\ UNCHANGED <<today, kept, storage, archive, restored, state, files, told, elapsed, past>>

-----------------------------------------------------------------------------
(* A move takes the lock and begins by returning what is due. *)

\* Slip: what is in the restore area, where the index is what counts.
DueReadable == {v \in elapsed : state[v] = "restored" /\ Of(v, restored) # {}}

Due == {v \in elapsed : state[v] = "restored"}

Begin(op, u, caller, tends) ==
    /\ move = None
    /\ move' = [op |-> op, unit |-> u, caller |-> caller, tends |-> tends, at |-> "due", now |-> u,
                due |-> Due, files |-> {}]

PastWindow(u) == u + Window < today

\* `tend`: what is in storage past the window, with what to do of it.
Tend ==
    /\ tending = None /\ (move # None => ~move.tends)
    /\ past # "kept"
    /\ LET listed == {u \in Units : Of(u, storage) # {} /\ PastWindow(u)}
       IN  listed # {} /\ tending' = [chosen |-> past, units |-> listed]
    /\ UNCHANGED <<diskVars, aroundVars, told, move, left>>

\* Its next unit, the oldest first; archiving it is refused where no archive is
\* given, before anything is returned.
TendNext ==
    /\ tending # None
    /\ \E u \in tending.units :
        /\ \A v \in tending.units : u <= v
        /\ IF tending.chosen = "archived" /\ ~given THEN UNCHANGED move
           ELSE Begin(IF tending.chosen = "archived" THEN "archive" ELSE "delete", u, FALSE, TRUE)
        /\ tending' = IF tending.units = {u} THEN None ELSE [tending EXCEPT !.units = @ \ {u}]
    /\ UNCHANGED <<diskVars, aroundVars, told, left>>

\* A person asks for a unit back, or has it deleted.
Ask(op, u) ==
    /\ op \in {"restore", "delete"}
    /\ Spend("person")
    /\ Begin(op, u, TRUE, FALSE)
    /\ UNCHANGED <<diskVars, aroundVars, told, tending>>

\* The heartbeat returns what is due.
Beat ==
    /\ \E u \in Due : Begin("return", u, FALSE, FALSE)
    /\ UNCHANGED <<diskVars, aroundVars, told, tending, left>>

-----------------------------------------------------------------------------
At(op, step) == move # None /\ move.op = op /\ move.at = step

Goes(step) == move' = [move EXCEPT !.at = step]

\* A move reported: recorded, or failed with or without it recorded.
Recorded(u, outcome) ==
    /\ told' = told \cup {<<u, outcome>>}
    /\ UNCHANGED left
Refused(u, outcome) ==
    /\ Spend("report")
    /\ told' \in {told, told \cup {<<u, outcome>>}}

\* `return_due`: a unit's return reported, passed over where that fails.
ReturnReport ==
    /\ move # None /\ move.at = "due"
    /\ \E v \in move.due :
        \/ Recorded(v, "returned") /\ move' = [move EXCEPT !.at = "returned", !.now = v]
        \/ Refused(v, "returned") /\ move' = [move EXCEPT !.due = @ \ {v}]
    /\ UNCHANGED <<diskVars, aroundVars, tending>>

\* It is removed from the restore area file by file, then from the index.
Clear(u) ==
    /\ \E r \in Of(u, restored) : restored' = restored \ {r}
    /\ UNCHANGED <<storage, archive, state, files, aroundVars, told, tending, move, left>>
ReturnClear == move # None /\ move.at = "returned" /\ Clear(move.now)
ReturnIndex ==
    /\ move # None /\ move.at = "returned"
    /\ Of(move.now, restored) = {}
    /\ state' = [state EXCEPT ![move.now] = "archived"]
    /\ move' = [move EXCEPT !.at = "due", !.due = @ \ {move.now}]
    /\ UNCHANGED <<storage, archive, restored, files, aroundVars, told, tending, left>>

\* What was due has been looked at: the move itself begins.
Ready(op) == At(op, "due") /\ move.due = {}

Ends == move' = None

ReturnEnds ==
    /\ Ready("return")
    /\ Ends
    /\ UNCHANGED <<diskVars, aroundVars, told, tending, left>>

-----------------------------------------------------------------------------
(* `archive`. *)

Unit == move.unit
InStorage == Of(Unit, storage)

\* The archive's use by the index, with this unit added, is past its bound.
\* Slip: a restored unit not counted.
UsedArchivedOnly == {r \in Records : state[r[1]] = "archived" /\ r \in files[r[1]]}

Used == {r \in Records : state[r[1]] \in Held /\ r \in files[r[1]]}
PastBound == Most # 0 /\ Cardinality(Used) + Cardinality(InStorage) > Most

\* Slips: a unit archived before is refused; the archive is asked, not the index.
ArchivedNever == FALSE
ArchivedByFiles == Ready("archive") /\ given /\ InStorage # {} /\ InStorage \subseteq archive

\* Archived and recorded before a restart removed it: removed now.
ArchivedAlready == Ready("archive") /\ given /\ state[Unit] \in Held /\ InStorage # {}

ArchiveAgain ==
    /\ ArchivedAlready
    /\ Goes("remove")
    /\ UNCHANGED <<diskVars, aroundVars, told, tending, left>>

Archivable ==
    /\ Ready("archive") /\ given
    /\ state[Unit] \notin Held /\ InStorage # {}
    /\ past = "archived" /\ ~PastBound

ArchiveRefused ==
    /\ Ready("archive") /\ ~ArchivedAlready /\ ~Archivable
    /\ Ends
    /\ UNCHANGED <<diskVars, aroundVars, told, tending, left>>

\* `_copy_out`: the unit's files as they are listed, one by one in their order;
\* one the archive has of an earlier attempt is written again.
CopyOut ==
    /\ Archivable
    /\ move' = [move EXCEPT !.at = "copy", !.files = InStorage]
    /\ UNCHANGED <<diskVars, aroundVars, told, tending, left>>

NextToCopy(r) == r \in move.files /\ \A s \in move.files : s[2] < r[2] => s \in archive

CopyFile ==
    /\ At("archive", "copy")
    /\ \E r \in Records \ archive : NextToCopy(r) /\ archive' = archive \cup {r}
    /\ UNCHANGED <<storage, restored, state, files, aroundVars, told, tending, move, left>>

\* A file fails, landed or not: those tried so far are to be forgotten.
CopyFails ==
    /\ At("archive", "copy")
    /\ Spend("copy")
    /\ \E r \in Records :
        /\ NextToCopy(r)
        /\ archive' \in {archive, archive \cup {r}}
        /\ move' = [move EXCEPT !.at = "undo", !.files = {s \in @ : s[2] <= r[2]}]
    /\ UNCHANGED <<storage, restored, state, files, aroundVars, told, tending>>

\* Slip: a report that failed is passed over.
ArchiveReportAnyhow ==
    /\ At("archive", "copy") /\ move.files \subseteq archive
    /\ Recorded(Unit, "archived") \/ Refused(Unit, "archived")
    /\ Goes("index")
    /\ UNCHANGED <<diskVars, aroundVars, tending>>

\* The move is reported once each file landed.
ArchiveReport ==
    /\ At("archive", "copy") /\ move.files \subseteq archive
    /\ \/ Recorded(Unit, "archived") /\ Goes("index")
       \/ Refused(Unit, "archived") /\ Goes("undo")
    /\ UNCHANGED <<diskVars, aroundVars, tending>>

\* `_forget`: each object deleted from the archive, or left where that fails.
Forgets ==
    /\ \E r \in move.files :
        /\ move' = [move EXCEPT !.files = @ \ {r}]
        /\ \/ archive' = archive \ {r} /\ UNCHANGED left
           \/ Spend("object") /\ UNCHANGED archive
    /\ UNCHANGED <<storage, restored, state, files, aroundVars, told, tending>>

\* Not recorded, so not archived: what was copied is forgotten.
ArchiveUndo ==
    /\ At("archive", "undo")
    /\ Forgets

ArchiveUndone ==
    /\ At("archive", "undo") /\ move.files = {}
    /\ Ends
    /\ UNCHANGED <<diskVars, aroundVars, told, tending, left>>

ArchiveIndex ==
    /\ At("archive", "index")
    /\ state' = [state EXCEPT ![Unit] = "archived"]
    /\ files' = [files EXCEPT ![Unit] = move.files]
    /\ Goes("remove")
    /\ UNCHANGED <<storage, archive, restored, aroundVars, told, tending, left>>

\* The unit removed from storage, file by file, archived or deleted.
Remove ==
    /\ move # None /\ move.at = "remove"
    /\ \E r \in InStorage :
        /\ storage' = storage \ {r}
        /\ move' = IF InStorage = {r} THEN None ELSE move
    /\ UNCHANGED <<archive, restored, state, files, aroundVars, told, tending, left>>

-----------------------------------------------------------------------------
(* `restore`. *)

Readable == Of(Unit, restored)

RestoredAlready == Ready("restore") /\ state[Unit] = "restored" /\ Readable # {}

\* Slip: what comes back from the archive is not checked.
RestorableUnchecked == Ready("restore") /\ state[Unit] \in Held /\ given

\* Every file can be had from the archive and is as it was archived.
Restorable == Ready("restore") /\ state[Unit] \in Held /\ given /\ files[Unit] \subseteq archive

RestoreRefused ==
    /\ Ready("restore") /\ ~RestoredAlready /\ ~Restorable
    /\ Ends
    /\ UNCHANGED <<diskVars, aroundVars, told, tending, left>>

RestoreAgain ==
    /\ RestoredAlready
    /\ Goes("answer")
    /\ UNCHANGED <<diskVars, aroundVars, told, tending, left>>

\* `_copy_back`: the whole unit is fetched beside the restore area; what the
\* area had of it is removed, file by file, and the unit put in its place.
CopyBack ==
    /\ Restorable /\ ~RestoredAlready
    /\ Goes("target")
    /\ UNCHANGED <<diskVars, aroundVars, told, tending, left>>

ClearTarget == At("restore", "target") /\ Clear(Unit)

Replace ==
    /\ At("restore", "target") /\ Readable = {}
    /\ restored' = restored \cup (files[Unit] \cap archive)
    /\ Goes("report")
    /\ UNCHANGED <<storage, archive, state, files, aroundVars, told, tending, left>>

RestoreReport ==
    /\ At("restore", "report")
    /\ \/ Recorded(Unit, "restored") /\ Goes("index")
       \/ Refused(Unit, "restored") /\ Goes("undo")
    /\ UNCHANGED <<diskVars, aroundVars, tending>>

RestoreUndo ==
    /\ At("restore", "undo")
    /\ Clear(Unit)
RestoreUndone ==
    /\ At("restore", "undo") /\ Readable = {}
    /\ Ends
    /\ UNCHANGED <<diskVars, aroundVars, told, tending, left>>

RestoreIndex ==
    /\ At("restore", "index")
    /\ state' = [state EXCEPT ![Unit] = "restored"]
    /\ elapsed' = elapsed \ {Unit}
    /\ Goes("answer")
    /\ UNCHANGED <<today, kept, storage, archive, restored, files, told, past, given, tending, left>>

\* The person is told where it is readable.
Answer ==
    /\ At("restore", "answer")
    /\ Ends
    /\ UNCHANGED <<diskVars, aroundVars, told, tending, left>>

-----------------------------------------------------------------------------
(* `delete`. *)

\* From the archive, an admin's act, or from storage, by the window's rule or
\* the person's.
Deletable ==
    /\ Ready("delete")
    /\ \/ state[Unit] \in Held /\ move.caller
       \/ state[Unit] = "none" /\ InStorage # {} /\ (move.caller \/ past = "deleted")

DeleteRefused ==
    /\ Ready("delete") /\ ~Deletable
    /\ Ends
    /\ UNCHANGED <<diskVars, aroundVars, told, tending, left>>

\* The deletion is reported before anything is removed.
DeleteReport ==
    /\ Deletable
    /\ \/ /\ Recorded(Unit, "deleted")
          /\ move' = IF state[Unit] \in Held
                     THEN [move EXCEPT !.at = "forget", !.files = IF given THEN files[Unit] ELSE {}]
                     ELSE [move EXCEPT !.at = "index"]
       \/ Refused(Unit, "deleted") /\ Ends
    /\ UNCHANGED <<diskVars, aroundVars, tending>>

Forget ==
    /\ At("delete", "forget")
    /\ Forgets

Forgotten ==
    /\ At("delete", "forget") /\ move.files = {}
    /\ Goes("clear")
    /\ UNCHANGED <<diskVars, aroundVars, told, tending, left>>

DeleteClear == At("delete", "clear") /\ Clear(Unit)

\* One that was archived is done with once the index says so; one in storage
\* is then removed.
Cleared == At("delete", "clear") /\ Readable = {}

DeleteIndex ==
    /\ Cleared \/ At("delete", "index")
    /\ state' = [state EXCEPT ![Unit] = "deleted"]
    /\ IF Cleared THEN Ends ELSE Goes("remove")
    /\ UNCHANGED <<storage, archive, restored, files, aroundVars, told, tending, left>>

-----------------------------------------------------------------------------
Init ==
    /\ today = 1 /\ kept = {} /\ storage = {} /\ archive = {} /\ restored = {}
    /\ state = [u \in Units |-> "none"] /\ files = [u \in Units |-> {}]
    /\ told = {} /\ elapsed = {}
    /\ past \in Choices /\ given = TRUE
    /\ tending = None /\ move = None
    /\ left \in Budgets

Returns == ReturnReport \/ ReturnClear \/ ReturnIndex \/ ReturnEnds

Archives ==
    \/ ArchiveAgain \/ ArchiveRefused \/ CopyOut \/ CopyFile \/ CopyFails \/ ArchiveReport
    \/ ArchiveUndo \/ ArchiveUndone \/ ArchiveIndex \/ Remove

Restores ==
    \/ RestoreRefused \/ RestoreAgain \/ CopyBack \/ ClearTarget \/ Replace \/ RestoreReport
    \/ RestoreUndo \/ RestoreUndone \/ RestoreIndex \/ Answer

Deletes == DeleteRefused \/ DeleteReport \/ Forget \/ Forgotten \/ DeleteClear \/ DeleteIndex

Works == Returns \/ Archives \/ Restores \/ Deletes

Around ==
    \/ \E u \in Units : Keep(u) \/ Elapse(u) \/ \E op \in {"restore", "delete"} : Ask(op, u)
    \/ Midnight \/ Crash \/ \E choice \in Choices : Choose(choice)

Next == Works \/ Tend \/ TendNext \/ Beat \/ Around

Spec == Init /\ [][Next]_vars

\* The plugin's loop goes on tending, its heartbeat goes on, a move under the
\* lock is worked to its end and the days pass.
FairSpec ==
    /\ Spec
    /\ WF_vars(Works) /\ WF_vars(Tend) /\ WF_vars(TendNext) /\ WF_vars(Beat) /\ WF_vars(Midnight)
    /\ \A u \in Units : WF_vars(Elapse(u))

-----------------------------------------------------------------------------
(* Properties. *)

TypeOK ==
    /\ today \in 1 .. Days + Window + 1 /\ kept \subseteq Records
    /\ storage \subseteq kept /\ archive \subseteq Records /\ restored \subseteq Records
    /\ state \in [Units -> {"none", "archived", "restored", "deleted"}]
    /\ files \in [Units -> SUBSET Records]
    /\ told \subseteq Units \X Outcomes /\ elapsed \subseteq Units
    /\ past \in Past /\ given \in BOOLEAN
    /\ tending \in [chosen : {"archived", "deleted"}, units : SUBSET Units] \cup {None}
    /\ move \in Moves \cup {None}
    /\ left \in [Mishaps -> Nat]

\* Nothing leaves storage before its move was reported, nor the archive while
\* it is the only copy: the mover implements Lake, over crashes between report,
\* index and removal, and reports that fail though they were recorded.
Promise == INSTANCE Lake WITH stored <- storage, archived <- archive
KeepsPromise == Promise!Spec

\* A record kept is in storage, or the index leads to it whole in the archive,
\* unless the deletion of its unit was reported.
Findable ==
    \A r \in kept :
        \/ r \in storage
        \/ state[r[1]] \in Held /\ r \in files[r[1]] \cap archive
        \/ <<r[1], "deleted">> \in told

\* A person is answered a unit's path with everything it was archived as.
AnsweredWhole == (move # None /\ move.at = "answer") => Readable = files[Unit]

\* What the index says is in the archive stays within its bound, a restored
\* unit still counted.
BoundKept == Most # 0 => Cardinality(UNION {files[u] : u \in {v \in Units : state[v] \in Held}}) <= Most

\* Where the admin settles on archiving, a unit past its window is out of
\* storage in the end, or the archive has no room for it, whatever step of a
\* move a crash or a failure came at.
Room(u) == Most = 0 \/ Cardinality(Used) + Cardinality(Of(u, storage)) <= Most
MovesOn ==
    <>[](past = "archived" /\ given) =>
        \A u \in Units : (PastWindow(u) /\ Of(u, storage) # {} /\ Room(u)) ~> (Of(u, storage) = {} \/ ~Room(u))

\* A unit restored is returned to the archive alone in the end, or deleted.
ComesBack == \A u \in Units : (state[u] = "restored") ~> (state[u] # "restored")

\* A unit said deleted is out of storage in the end.  The code does not keep it
\* (MCMover, OneCrash; README, Disagreements).
DeletedLeaves == \A u \in Units : (state[u] = "deleted") ~> (Of(u, storage) = {})

=============================================================================
