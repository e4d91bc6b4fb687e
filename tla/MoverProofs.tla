----------------------------- MODULE MoverProofs ------------------------------
(***************************************************************************)
(* What the mover does with raw records, proved for any days, records and  *)
(* settings, any number of crashes and of failed reports: where records    *)
(* are kept no later than the window allows, none is lost and none leaves  *)
(* storage before its move was reported; the archive stays within its      *)
(* bound, and a unit asked back is answered whole.                         *)
(***************************************************************************)
EXTENDS Mover, FiniteSetTheorems, TLAPS

\* Records of a day are not kept once it is past the window.
Timely == LateBy <= Window

\* What the index leads to in the archive was said archived and is past its
\* window; what of it is in storage still is among the files archived.
Settled ==
    \A u \in Units : state[u] \in Held =>
        /\ PastWindow(u) /\ <<u, "archived">> \in told
        /\ Of(u, storage) \subseteq files[u] \cap archive \/ <<u, "deleted">> \in told

\* A unit's files are its own.
FilesOwn == \A u \in Units : \A r \in files[u] : r[1] = u

\* What `tend` moves is past the window.
TendsPast == tending # None => \A u \in tending.units : PastWindow(u)

\* Units being returned are held by the index, and are returned first.
ReturnsHeld ==
    move # None =>
        /\ \A v \in move.due : state[v] \in Held
        /\ move.at = "returned" => state[move.now] \in Held
        /\ move.at \notin {"due", "returned"} => move.due = {}

\* A unit being archived: its files are all it has in storage, until the index
\* has it; those to be forgotten are some of them.
Archiving ==
    (move # None /\ move.op = "archive") =>
        /\ PastWindow(Unit)
        /\ move.at \in {"copy", "undo", "index"} => state[Unit] \notin Held /\ move.files \subseteq InStorage
        /\ move.at \in {"copy", "index"} => move.files = InStorage
        /\ move.at = "index" => move.files \subseteq archive /\ <<Unit, "archived">> \in told
        /\ move.at = "remove" => state[Unit] \in Held

\* A unit being restored is held, and the archive has all of it as it is
\* fetched; one being deleted was said to be.
Restoring ==
    (move # None /\ move.op = "restore") =>
        /\ move.at \in {"target", "report", "index", "undo"} => state[Unit] \in Held
        /\ move.at = "target" =>
              files[Unit] \subseteq archive /\ (state[Unit] = "restored" => Readable = {})
Deleting ==
    (move # None /\ move.op = "delete") =>
        /\ move.at \in {"forget", "clear", "index", "remove"} => <<Unit, "deleted">> \in told
        /\ move.at = "forget" => \A r \in move.files : r[1] = Unit

\* Only a unit archived or deleted is removed.
Removing == (move # None /\ move.at = "remove") => move.op \in {"archive", "delete"}

\* What holds however late a record is kept.
Steady == TypeOK /\ ReturnsHeld /\ Restoring

Sound ==
    /\ TypeOK /\ Settled /\ FilesOwn /\ TendsPast /\ ReturnsHeld
    /\ Archiving /\ Restoring /\ Deleting /\ Removing /\ Findable

-----------------------------------------------------------------------------
\* Which steps change what.
LEMMA Footprint ==
    ASSUME [Next]_vars
    PROVE  /\ UNCHANGED today \/ Midnight
           /\ UNCHANGED kept \/ (\E u \in Units : Keep(u))
           /\ UNCHANGED storage \/ (\E u \in Units : Keep(u)) \/ Remove
           /\ UNCHANGED archive \/ CopyFile \/ CopyFails \/ ArchiveUndo \/ Forget
           /\ UNCHANGED restored \/ ReturnClear \/ ClearTarget \/ Replace \/ RestoreUndo \/ DeleteClear
           /\ UNCHANGED elapsed \/ (\E u \in Units : Elapse(u)) \/ RestoreIndex
           /\ UNCHANGED past \/ (\E choice \in Choices : Choose(choice))
           /\ UNCHANGED given \/ Crash
           /\ UNCHANGED state \/ ReturnIndex \/ ArchiveIndex \/ RestoreIndex \/ DeleteIndex
           /\ UNCHANGED files \/ ArchiveIndex
           /\ UNCHANGED told \/ ReturnReport \/ ArchiveReport \/ RestoreReport \/ DeleteReport
           /\ UNCHANGED tending \/ Crash \/ Tend \/ TendNext
           /\ UNCHANGED move \/ (\E u \in Units, op \in {"restore", "delete"} : Ask(op, u))
                \/ Crash \/ TendNext \/ Beat \/ ReturnReport \/ ReturnIndex \/ ReturnEnds
                \/ ArchiveAgain \/ ArchiveRefused \/ CopyOut \/ CopyFails \/ ArchiveReport
                \/ ArchiveUndo \/ ArchiveUndone \/ ArchiveIndex \/ Remove \/ RestoreRefused
                \/ RestoreAgain \/ CopyBack \/ Replace \/ RestoreReport \/ RestoreUndone \/ RestoreIndex \/ Answer
                \/ DeleteRefused \/ DeleteReport \/ Forget \/ Forgotten \/ DeleteIndex
           /\ UNCHANGED left \/ (\E u \in Units, op \in {"restore", "delete"} : Ask(op, u))
                \/ (\E choice \in Choices : Choose(choice)) \/ Crash \/ ReturnReport
                \/ CopyFails \/ ArchiveReport \/ ArchiveUndo \/ RestoreReport \/ DeleteReport
                \/ Forget
<1>1. CASE (\E u \in Units : Keep(u))
  BY <1>1 DEF Keep, diskVars, aroundVars
<1>2. CASE (\E u \in Units : Elapse(u))
  BY <1>2 DEF Elapse, diskVars, aroundVars
<1>3. CASE (\E u \in Units, op \in {"restore", "delete"} : Ask(op, u)) \/ CopyFails
  BY <1>3 DEF Ask, CopyFails, diskVars, aroundVars
<1>4. CASE (\E choice \in Choices : Choose(choice))
  BY <1>4 DEF Choose, diskVars, aroundVars
<1>5. CASE Midnight
  BY <1>5 DEF Midnight, diskVars, aroundVars
<1>6. CASE Crash
  BY <1>6 DEF Crash, diskVars, aroundVars
<1>7. CASE Tend
  BY <1>7 DEF Tend, diskVars, aroundVars
<1>8. CASE TendNext
  BY <1>8 DEF TendNext, diskVars, aroundVars
<1>9. CASE Beat \/ ReturnEnds \/ ArchiveAgain \/ ArchiveRefused \/ CopyOut \/ ArchiveUndone \/ RestoreRefused
          \/ RestoreAgain \/ CopyBack \/ RestoreUndone \/ Answer \/ DeleteRefused \/ Forgotten
  BY <1>9 DEF Beat, ReturnEnds, ArchiveAgain, ArchiveRefused, CopyOut, ArchiveUndone, RestoreRefused,
         RestoreAgain, CopyBack, RestoreUndone, Answer, DeleteRefused, Forgotten, diskVars, aroundVars
<1>10. CASE ReturnReport \/ ArchiveReport \/ RestoreReport \/ DeleteReport
  BY <1>10 DEF ReturnReport, ArchiveReport, RestoreReport, DeleteReport, diskVars, aroundVars
<1>11. CASE ReturnClear \/ ClearTarget \/ RestoreUndo \/ DeleteClear
  BY <1>11 DEF ReturnClear, ClearTarget, RestoreUndo, DeleteClear, Clear, diskVars, aroundVars
<1>12. CASE ReturnIndex \/ DeleteIndex
  BY <1>12 DEF ReturnIndex, DeleteIndex, diskVars, aroundVars
<1>13. CASE CopyFile
  BY <1>13 DEF CopyFile, diskVars, aroundVars
<1>14. CASE ArchiveUndo \/ Forget
  BY <1>14 DEF ArchiveUndo, Forget, Forgets, diskVars, aroundVars
<1>15. CASE ArchiveIndex
  BY <1>15 DEF ArchiveIndex, diskVars, aroundVars
<1>16. CASE Remove
  BY <1>16 DEF Remove, diskVars, aroundVars
<1>17. CASE Replace
  BY <1>17 DEF Replace, diskVars, aroundVars
<1>18. CASE RestoreIndex
  BY <1>18 DEF RestoreIndex, diskVars, aroundVars
<1>19. CASE UNCHANGED vars
  BY <1>19 DEF vars
<1> QED BY <1>1, <1>2, <1>3, <1>4, <1>5, <1>6, <1>7, <1>8, <1>9, <1>10, <1>11, <1>12, <1>13,
           <1>14, <1>15, <1>16, <1>17, <1>18, <1>19
        DEF Next, Works, Returns, Archives, Restores, Deletes, Around

-----------------------------------------------------------------------------
(* Types. *)

\* What each variable may hold, part by part.
StoreTyped ==
    /\ today \in 1 .. Days + Window + 1 /\ kept \subseteq Records
    /\ storage \subseteq kept /\ archive \subseteq Records /\ restored \subseteq Records
    /\ elapsed \subseteq Units /\ past \in Past /\ given \in BOOLEAN

IndexTyped ==
    /\ state \in [Units -> {"none", "archived", "restored", "deleted"}]
    /\ files \in [Units -> SUBSET Records]
    /\ told \subseteq Units \X Outcomes

MoveTyped ==
    /\ tending \in [chosen : {"archived", "deleted"}, units : SUBSET Units] \cup {None}
    /\ move \in Moves \cup {None}

LeftTyped == left \in [Mishaps -> Nat]

Parts == StoreTyped /\ IndexTyped /\ MoveTyped /\ LeftTyped

\* The parts are the whole.
LEMMA PartsWhole == TypeOK <=> Parts
BY DEF TypeOK, Parts, StoreTyped, IndexTyped, MoveTyped, LeftTyped

\* Every step keeps the types of what is stored.
LEMMA StoreTypedStep ==
    ASSUME Parts, [Next]_vars
    PROVE  StoreTyped'
<1> USE MoverAssumption DEF MoverAssumption
<1>1. CASE UNCHANGED <<today, kept, storage, archive, restored, elapsed, past, given>>
  BY <1>1 DEF Parts, StoreTyped
<1>2. ASSUME NEW u \in Units, Keep(u) PROVE StoreTyped'
  <2>1. Cardinality(Of(u, kept)) + 1 \in 1 .. PerDay
    <3>1. IsFiniteSet(Records)
      <4>1. IsFiniteSet(Units) /\ IsFiniteSet(Numbers)
        BY FS_Interval DEF Units, Numbers
      <4> QED BY <4>1, FS_Product DEF Records
    <3>2. IsFiniteSet(Of(u, kept))
      BY <3>1, FS_Subset DEF Parts, StoreTyped, Of
    <3>3. Cardinality(Of(u, kept)) \in Nat
      BY <3>2, FS_CardinalityType
    <3> QED BY <3>3, <1>2 DEF Keep
  <2>2. <<u, Cardinality(Of(u, kept)) + 1>> \in Records
    BY <2>1 DEF Records, Numbers
  <2> QED BY <2>2, <1>2 DEF Parts, StoreTyped, Keep
<1>3. ASSUME NEW u \in Units, Elapse(u) PROVE StoreTyped'
  BY <1>3 DEF Parts, StoreTyped, IndexTyped, MoveTyped, Moves, Past, Elapse, diskVars, aroundVars, Unit, InStorage, Readable
<1>4. ASSUME NEW choice \in Choices, Choose(choice) PROVE StoreTyped'
  BY <1>4 DEF Parts, StoreTyped, IndexTyped, MoveTyped, Moves, Past, Choose, Spend, diskVars, aroundVars, Unit, InStorage, Readable
<1>5. CASE Midnight
  BY <1>5 DEF Parts, StoreTyped, IndexTyped, MoveTyped, Moves, Past, Midnight, diskVars, aroundVars, Unit, InStorage, Readable
<1>6. CASE Crash
  BY <1>6 DEF Parts, StoreTyped, IndexTyped, MoveTyped, Moves, Past, Crash, Spend, diskVars, aroundVars, Unit, InStorage, Readable
<1>7. CASE ReturnClear
  BY <1>7 DEF Parts, StoreTyped, IndexTyped, MoveTyped, Moves, Past, ReturnClear, Clear, diskVars, aroundVars, Unit, InStorage, Readable
<1>8. CASE CopyFile
  BY <1>8 DEF Parts, StoreTyped, IndexTyped, MoveTyped, Moves, Past, CopyFile, NextToCopy, At, diskVars, aroundVars, Unit, InStorage, Readable
<1>9. CASE ArchiveUndo
  BY <1>9 DEF Parts, StoreTyped, IndexTyped, MoveTyped, Moves, Past, ArchiveUndo, Forgets, At, Spend, diskVars, aroundVars, Unit, InStorage, Readable
<1>10. CASE Remove
  BY <1>10 DEF Parts, StoreTyped, IndexTyped, MoveTyped, Moves, Past, Remove, diskVars, aroundVars, Unit, InStorage, Readable
<1>11. CASE ClearTarget \/ Replace
  BY <1>11 DEF Parts, StoreTyped, IndexTyped, MoveTyped, Moves, Past, ClearTarget, Clear, Replace, At, diskVars, aroundVars, Unit, InStorage, Readable
<1>12. CASE RestoreUndo
  BY <1>12 DEF Parts, StoreTyped, IndexTyped, MoveTyped, Moves, Past, RestoreUndo, At, Clear, diskVars, aroundVars, Unit, InStorage, Readable
<1>13. CASE RestoreIndex
  BY <1>13 DEF Parts, StoreTyped, IndexTyped, MoveTyped, Moves, Past, RestoreIndex, At, Goes, diskVars, aroundVars, Unit, InStorage, Readable
<1>14. CASE Forget
  BY <1>14 DEF Parts, StoreTyped, IndexTyped, MoveTyped, Moves, Past, Forget, Forgets, At, Spend, diskVars, aroundVars, Unit, InStorage, Readable
<1>15. CASE DeleteClear
  BY <1>15 DEF Parts, StoreTyped, IndexTyped, MoveTyped, Moves, Past, DeleteClear, At, Clear, diskVars, aroundVars, Unit, InStorage, Readable
<1>16. CASE CopyFails
  BY <1>16 DEF Parts, StoreTyped, IndexTyped, MoveTyped, Moves, CopyFails, NextToCopy, At, aroundVars
<1> QED BY Footprint, <1>1, <1>2, <1>3, <1>4, <1>5, <1>6, <1>7, <1>8, <1>9, <1>10, <1>11, <1>12,
           <1>13, <1>14, <1>15, <1>16

\* Every step keeps the types of the index and of what was said.
LEMMA IndexTypedStep ==
    ASSUME Parts, [Next]_vars
    PROVE  IndexTyped'
<1>1. CASE UNCHANGED <<state, files, told>>
  BY <1>1 DEF Parts, IndexTyped
<1>2. CASE ReturnReport
  BY <1>2 DEF Parts, IndexTyped, MoveTyped, Moves, Outcomes, ReturnReport, Recorded, Refused, Spend, diskVars, aroundVars, Unit, InStorage, Readable
<1>3. CASE ReturnIndex
  BY <1>3 DEF Parts, IndexTyped, MoveTyped, Moves, Outcomes, ReturnIndex, diskVars, aroundVars, Unit, InStorage, Readable
<1>4. CASE ArchiveReport
  BY <1>4 DEF Parts, IndexTyped, MoveTyped, Moves, Outcomes, ArchiveReport, At, Recorded, Refused, Spend, Goes, diskVars, aroundVars, Unit, InStorage, Readable
<1>5. CASE ArchiveIndex
  BY <1>5 DEF Parts, IndexTyped, MoveTyped, Moves, Outcomes, ArchiveIndex, At, Goes, diskVars, aroundVars, Unit, InStorage, Readable
<1>6. CASE RestoreReport
  BY <1>6 DEF Parts, IndexTyped, MoveTyped, Moves, Outcomes, RestoreReport, At, Recorded, Refused, Spend, Goes, diskVars, aroundVars, Unit, InStorage, Readable
<1>7. CASE RestoreIndex
  BY <1>7 DEF Parts, IndexTyped, MoveTyped, Moves, Outcomes, RestoreIndex, At, Goes, diskVars, aroundVars, Unit, InStorage, Readable
<1>8. CASE DeleteReport
  BY <1>8 DEF Parts, IndexTyped, MoveTyped, Moves, Outcomes, DeleteReport, Deletable, Ready, At, Recorded, Refused, Spend, Ends, diskVars, aroundVars, Unit, InStorage, Readable
<1>9. CASE DeleteIndex
  BY <1>9 DEF Parts, IndexTyped, MoveTyped, Moves, Outcomes, DeleteIndex, Cleared, At, Ends, Goes, diskVars, aroundVars, Unit, InStorage, Readable
<1> QED BY Footprint, <1>1, <1>2, <1>3, <1>4, <1>5, <1>6, <1>7, <1>8, <1>9

\* Every step keeps the types of the moves.
LEMMA MoveTypedStep ==
    ASSUME Parts, [Next]_vars
    PROVE  MoveTyped'
<1>1. CASE UNCHANGED <<tending, move>>
  BY <1>1 DEF Parts, MoveTyped
<1>2. ASSUME NEW op \in {"restore", "delete"}, NEW u \in Units, Ask(op, u) PROVE MoveTyped'
  BY <1>2 DEF Parts, StoreTyped, IndexTyped, MoveTyped, Moves, Ask, Begin, Spend, Due, diskVars, aroundVars, Unit, InStorage, Readable
<1>3. CASE Crash
  BY <1>3 DEF Parts, StoreTyped, IndexTyped, MoveTyped, Moves, Crash, Spend, diskVars, aroundVars, Unit, InStorage, Readable
<1>4. CASE Tend
  BY <1>4 DEF Past, Parts, StoreTyped, IndexTyped, MoveTyped, Moves, Tend, diskVars, aroundVars, Unit, InStorage, Readable
<1>5. CASE TendNext
  <2>1. PICK u \in tending.units :
            /\ tending' = IF tending.units = {u} THEN None ELSE [tending EXCEPT !.units = @ \ {u}]
            /\ \/ UNCHANGED move
               \/ \E op \in {"archive", "delete"} : Begin(op, u, FALSE, TRUE)
    BY <1>5 DEF TendNext
  <2>2. u \in Units /\ Due \in SUBSET Units /\ tending # None
    BY <2>1, <1>5 DEF TendNext, Due, Parts, StoreTyped, MoveTyped
  <2>3. tending' \in [chosen : {"archived", "deleted"}, units : SUBSET Units] \cup {None}
    BY <2>1, <2>2 DEF Parts, MoveTyped
  <2>4. move' \in Moves \cup {None}
    <3>1. CASE UNCHANGED move
      BY <3>1 DEF Parts, MoveTyped
    <3>2. ASSUME NEW op \in {"archive", "delete"}, Begin(op, u, FALSE, TRUE)
          PROVE  move' \in Moves \cup {None}
      BY <2>2, <3>2 DEF Begin, Moves
    <3> QED BY <2>1, <3>1, <3>2
  <2> QED BY <2>3, <2>4 DEF MoveTyped
<1>6. CASE Beat
  BY <1>6 DEF Parts, StoreTyped, IndexTyped, MoveTyped, Moves, Beat, Begin, Due, diskVars, aroundVars, Unit, InStorage, Readable
<1>7. CASE ReturnReport
  BY <1>7 DEF Parts, StoreTyped, IndexTyped, MoveTyped, Moves, ReturnReport, Recorded, Refused, Spend, diskVars, aroundVars, Unit, InStorage, Readable
<1>8. CASE ReturnIndex
  BY <1>8 DEF Parts, StoreTyped, IndexTyped, MoveTyped, Moves, ReturnIndex, diskVars, aroundVars, Unit, InStorage, Readable
<1>9. CASE ReturnEnds
  BY <1>9 DEF Parts, StoreTyped, IndexTyped, MoveTyped, Moves, ReturnEnds, Ends, Ready, At, diskVars, aroundVars, Unit, InStorage, Readable
<1>10. CASE ArchiveAgain
  BY <1>10 DEF Parts, StoreTyped, IndexTyped, MoveTyped, Moves, ArchiveAgain, ArchivedAlready, Goes, Ready, At, diskVars, aroundVars, Unit, InStorage, Readable
<1>11. CASE ArchiveRefused
  BY <1>11 DEF Parts, StoreTyped, IndexTyped, MoveTyped, Moves, ArchiveRefused, Ready, At, Ends, diskVars, aroundVars, Unit, InStorage, Readable
<1>12. CASE CopyOut
  <2>1. InStorage \in SUBSET Records /\ move \in Moves
    BY <1>12 DEF Parts, StoreTyped, MoveTyped, InStorage, Of, CopyOut, Archivable, Ready, At
  <2>2. [move EXCEPT !.at = "copy", !.files = InStorage] \in Moves
    BY <2>1 DEF Moves
  <2> QED BY <2>2, <1>12 DEF Parts, MoveTyped, CopyOut
<1>13. CASE CopyFails
  BY <1>13 DEF Parts, StoreTyped, IndexTyped, MoveTyped, Moves, CopyFails, NextToCopy, At, Spend, diskVars, aroundVars, Unit, InStorage, Readable
<1>14. CASE ArchiveReport
  BY <1>14 DEF Parts, StoreTyped, IndexTyped, MoveTyped, Moves, ArchiveReport, At, Recorded, Refused, Spend, Goes, diskVars, aroundVars, Unit, InStorage, Readable
<1>15. CASE ArchiveUndo
  BY <1>15 DEF Parts, StoreTyped, IndexTyped, MoveTyped, Moves, ArchiveUndo, Forgets, At, Spend, diskVars, aroundVars, Unit, InStorage, Readable
<1>16. CASE ArchiveIndex
  BY <1>16 DEF Parts, StoreTyped, IndexTyped, MoveTyped, Moves, ArchiveIndex, At, Goes, diskVars, aroundVars, Unit, InStorage, Readable
<1>17. CASE Remove
  BY <1>17 DEF Parts, StoreTyped, IndexTyped, MoveTyped, Moves, Remove, diskVars, aroundVars, Unit, InStorage, Readable
<1>18. CASE RestoreRefused
  BY <1>18 DEF Parts, StoreTyped, IndexTyped, MoveTyped, Moves, RestoreRefused, Ready, At, Ends, diskVars, aroundVars, Unit, InStorage, Readable
<1>19. CASE RestoreAgain
  BY <1>19 DEF Parts, StoreTyped, IndexTyped, MoveTyped, Moves, RestoreAgain, RestoredAlready, Ready, At, Goes, diskVars, aroundVars, Unit, InStorage, Readable
<1>20. CASE CopyBack \/ Replace
  BY <1>20 DEF Parts, StoreTyped, IndexTyped, MoveTyped, Moves, CopyBack, Replace, Restorable, Ready, At, Goes, diskVars, aroundVars, Unit, InStorage, Readable
<1>21. CASE RestoreReport
  BY <1>21 DEF Parts, StoreTyped, IndexTyped, MoveTyped, Moves, RestoreReport, At, Recorded, Refused, Spend, Goes, diskVars, aroundVars, Unit, InStorage, Readable
<1>22. CASE RestoreUndone
  BY <1>22 DEF Parts, StoreTyped, IndexTyped, MoveTyped, Moves, RestoreUndone, At, Ends, diskVars, aroundVars, Unit, InStorage, Readable
<1>23. CASE RestoreIndex
  BY <1>23 DEF Parts, StoreTyped, IndexTyped, MoveTyped, Moves, RestoreIndex, At, Goes, diskVars, aroundVars, Unit, InStorage, Readable
<1>24. CASE Answer
  BY <1>24 DEF Parts, StoreTyped, IndexTyped, MoveTyped, Moves, Answer, At, Ends, diskVars, aroundVars, Unit, InStorage, Readable
<1>25. CASE DeleteRefused
  BY <1>25 DEF Parts, StoreTyped, IndexTyped, MoveTyped, Moves, DeleteRefused, Ready, At, Ends, diskVars, aroundVars, Unit, InStorage, Readable
<1>26. CASE DeleteReport
  <2>1. move \in Moves /\ files[Unit] \in SUBSET Records
    BY <1>26 DEF Parts, IndexTyped, MoveTyped, DeleteReport, Deletable, Ready, At, Unit, Moves
  <2>2. \A these \in SUBSET Records : [move EXCEPT !.at = "forget", !.files = these] \in Moves
    BY <2>1 DEF Moves
  <2>3. [move EXCEPT !.at = "index"] \in Moves
    BY <2>1 DEF Moves
  <2>4. (IF given THEN files[Unit] ELSE {}) \in SUBSET Records
    BY <2>1
  <2>5. move' \in Moves \cup {None} /\ UNCHANGED tending
    BY <2>2, <2>3, <2>4, <1>26 DEF DeleteReport, Ends
  <2> QED BY <2>5 DEF Parts, MoveTyped
<1>27. CASE Forget
  BY <1>27 DEF Parts, StoreTyped, IndexTyped, MoveTyped, Moves, Forget, Forgets, At, Spend, diskVars, aroundVars, Unit, InStorage, Readable
<1>28. CASE Forgotten
  BY <1>28 DEF Parts, StoreTyped, IndexTyped, MoveTyped, Moves, Forgotten, At, Goes, diskVars, aroundVars, Unit, InStorage, Readable
<1>29. CASE DeleteIndex
  BY <1>29 DEF Parts, StoreTyped, IndexTyped, MoveTyped, Moves, DeleteIndex, Cleared, At, Ends, Goes, diskVars, aroundVars, Unit, InStorage, Readable
<1>30. CASE ArchiveUndone
  BY <1>30 DEF Parts, MoveTyped, ArchiveUndone, Ends
<1> QED BY Footprint, <1>1, <1>2, <1>3, <1>4, <1>5, <1>6, <1>7, <1>8, <1>9, <1>10, <1>11, <1>12,
           <1>13, <1>14, <1>15, <1>16, <1>17, <1>18, <1>19, <1>20, <1>21, <1>22, <1>23, <1>24,
           <1>25, <1>26, <1>27, <1>28, <1>29, <1>30

\* Every step keeps the types of the bounds.
LEMMA LeftTypedStep ==
    ASSUME Parts, [Next]_vars
    PROVE  LeftTyped'
<1>1. CASE UNCHANGED left
  BY <1>1 DEF Parts, LeftTyped
<1>2. ASSUME NEW op \in {"restore", "delete"}, NEW u \in Units, Ask(op, u) PROVE LeftTyped'
  BY <1>2 DEF Parts, LeftTyped, Mishaps, Ask, Begin, Spend, Due, diskVars, aroundVars, Unit, InStorage, Readable
<1>3. ASSUME NEW choice \in Choices, Choose(choice) PROVE LeftTyped'
  BY <1>3 DEF Parts, LeftTyped, Mishaps, Choose, Spend, diskVars, aroundVars, Unit, InStorage, Readable
<1>4. CASE Crash
  BY <1>4 DEF Parts, LeftTyped, Mishaps, Crash, Spend, diskVars, aroundVars, Unit, InStorage, Readable
<1>5. CASE ReturnReport
  BY <1>5 DEF Parts, LeftTyped, Mishaps, ReturnReport, Recorded, Refused, Spend, diskVars, aroundVars, Unit, InStorage, Readable
<1>6. CASE CopyFails
  BY <1>6 DEF Parts, LeftTyped, Mishaps, CopyFails, NextToCopy, At, Spend, diskVars, aroundVars, Unit, InStorage, Readable
<1>7. CASE ArchiveReport
  BY <1>7 DEF Parts, LeftTyped, Mishaps, ArchiveReport, At, Recorded, Refused, Spend, Goes, diskVars, aroundVars, Unit, InStorage, Readable
<1>8. CASE ArchiveUndo
  BY <1>8 DEF Parts, LeftTyped, Mishaps, ArchiveUndo, Forgets, At, Spend, diskVars, aroundVars, Unit, InStorage, Readable
<1>9. CASE RestoreReport
  BY <1>9 DEF Parts, LeftTyped, Mishaps, RestoreReport, At, Recorded, Refused, Spend, Goes, diskVars, aroundVars, Unit, InStorage, Readable
<1>10. CASE DeleteReport
  BY <1>10 DEF Parts, LeftTyped, Mishaps, DeleteReport, Deletable, Ready, At, Recorded, Refused, Spend, Ends, diskVars, aroundVars, Unit, InStorage, Readable
<1>11. CASE Forget
  BY <1>11 DEF Parts, LeftTyped, Mishaps, Forget, Forgets, At, Spend, diskVars, aroundVars, Unit, InStorage, Readable
<1> QED BY Footprint, <1>1, <1>2, <1>3, <1>4, <1>5, <1>6, <1>7, <1>8, <1>9, <1>10, <1>11

\* Every step keeps the types.
LEMMA TypeStep ==
    ASSUME TypeOK, [Next]_vars
    PROVE  TypeOK'
<1>1. StoreTyped' /\ IndexTyped' /\ MoveTyped' /\ LeftTyped'
  BY PartsWhole, StoreTypedStep, IndexTypedStep, MoveTypedStep, LeftTypedStep
<1> QED BY <1>1 DEF TypeOK, StoreTyped, IndexTyped, MoveTyped, LeftTyped

\* Every variable of Mover keeps its type, for any days, records and bounds.
THEOREM TypeCorrect == Spec => []TypeOK
<1>1. Init => TypeOK
  BY MoverAssumption DEF MoverAssumption, Init, TypeOK, Past
<1>2. TypeOK /\ [Next]_vars => TypeOK'
  BY TypeStep
<1> QED BY <1>1, <1>2, PTL DEF Spec

-----------------------------------------------------------------------------
(* What holds between the storage, the archive, the index and what was said. *)

\* A day past the window stays so.
LEMMA PastStays ==
    ASSUME TypeOK, [Next]_vars, NEW u \in Units, PastWindow(u)
    PROVE  PastWindow(u)'
<1>1. CASE Midnight
  BY <1>1, MoverAssumption DEF MoverAssumption, Midnight, PastWindow, TypeOK, Units
<1>2. CASE UNCHANGED today
  BY <1>2 DEF PastWindow
<1> QED BY Footprint, <1>1, <1>2

\* A unit's files stay its own.
LEMMA FilesOwnStep ==
    ASSUME Sound, [Next]_vars
    PROVE  FilesOwn'
<1>1. CASE UNCHANGED files
  BY <1>1 DEF Sound, FilesOwn
<1>2. CASE ArchiveIndex
  BY <1>2 DEF Sound, TypeOK, FilesOwn, Archiving, Of, ArchiveIndex, At, Goes, diskVars, aroundVars, Unit, InStorage, Readable
<1> QED BY Footprint, <1>1, <1>2

\* What `tend` moves is past the window.
LEMMA TendsPastStep ==
    ASSUME Sound, [Next]_vars
    PROVE  TendsPast'
<1> USE MoverAssumption DEF MoverAssumption
<1>1. CASE UNCHANGED <<tending, today>>
  BY <1>1 DEF Sound, TendsPast, PastWindow
<1>2. CASE Midnight
  BY <1>2 DEF Sound, TypeOK, TendsPast, PastWindow, Units, Midnight, diskVars, aroundVars, Unit, InStorage, Readable
<1>3. CASE Crash
  BY <1>3 DEF Sound, TypeOK, TendsPast, PastWindow, Units, Crash, Spend, diskVars, aroundVars, Unit, InStorage, Readable
<1>4. CASE Tend
  BY <1>4 DEF Sound, TypeOK, TendsPast, PastWindow, Units, Tend, diskVars, aroundVars, Unit, InStorage, Readable
<1>5. CASE TendNext
  BY <1>5 DEF Sound, TypeOK, TendsPast, PastWindow, Units, TendNext, Begin, Due, diskVars, aroundVars, Unit, InStorage, Readable
<1> QED BY Footprint, <1>1, <1>2, <1>3, <1>4, <1>5

\* Units being returned are held by the index.
LEMMA ReturnsHeldStep ==
    ASSUME Steady, [Next]_vars
    PROVE  ReturnsHeld'
<1>1. CASE UNCHANGED <<move, state>>
  BY <1>1 DEF Steady, ReturnsHeld
<1>2. CASE Crash \/ ReturnEnds \/ ArchiveRefused \/ ArchiveUndone \/ RestoreRefused \/ RestoreUndone
          \/ Answer \/ DeleteRefused
  <2>1. move' = None
    BY <1>2 DEF Crash, ReturnEnds, ArchiveRefused, ArchiveUndone, RestoreRefused, RestoreUndone, Answer,
           DeleteRefused, Ends
  <2> QED BY <2>1 DEF ReturnsHeld
<1>3. ASSUME NEW op \in {"restore", "delete"}, NEW u \in Units, Ask(op, u) PROVE ReturnsHeld'
  BY <1>3 DEF Steady, TypeOK, Moves, ReturnsHeld, Archiving, Held, Due, Ask, Begin, Spend, Due, diskVars, aroundVars, Unit, InStorage, Readable
<1>4. CASE TendNext
  BY <1>4 DEF Steady, TypeOK, Moves, ReturnsHeld, Archiving, Held, Due, TendNext, Begin, Due, diskVars, aroundVars, Unit, InStorage, Readable
<1>5. CASE Beat
  BY <1>5 DEF Steady, TypeOK, Moves, ReturnsHeld, Archiving, Held, Due, Beat, Begin, Due, diskVars, aroundVars, Unit, InStorage, Readable
<1>6. CASE ReturnReport
  <2>1. PICK v \in move.due :
            \/ move' = [move EXCEPT !.at = "returned", !.now = v]
            \/ move' = [move EXCEPT !.due = move.due \ {v}]
    BY <1>6 DEF ReturnReport
  <2>2. UNCHANGED state /\ move # None /\ move \in Moves /\ state[v] \in Held /\ move.at = "due"
    BY <2>1, <1>6 DEF ReturnReport, diskVars, Steady, TypeOK, ReturnsHeld
  <2>3. CASE move' = [move EXCEPT !.at = "returned", !.now = v]
    <3>1. move'.at = "returned" /\ move'.now = v /\ move'.due = move.due
      BY <2>2, <2>3 DEF Moves
    <3> QED BY <2>2, <3>1 DEF Steady, ReturnsHeld
  <2>4. CASE move' = [move EXCEPT !.due = move.due \ {v}]
    <3>1. move'.at = "due" /\ move'.due = move.due \ {v}
      BY <2>2, <2>4 DEF Moves
    <3> QED BY <2>2, <3>1 DEF Steady, ReturnsHeld
  <2> QED BY <2>1, <2>3, <2>4
<1>7. CASE ReturnIndex
  BY <1>7 DEF Steady, TypeOK, Moves, ReturnsHeld, Archiving, Held, Due, ReturnIndex, diskVars, aroundVars, Unit, InStorage, Readable
<1>8. CASE ArchiveAgain
  BY <1>8 DEF Steady, TypeOK, Moves, ReturnsHeld, Archiving, Held, Due, ArchiveAgain, ArchivedAlready, Goes, Ready, At, diskVars, aroundVars, Unit, InStorage, Readable
<1>9. CASE CopyOut
  BY <1>9 DEF Steady, TypeOK, Moves, ReturnsHeld, Archiving, Held, Due, CopyOut, Archivable, Ready, At, Of, diskVars, aroundVars, Unit, InStorage, Readable
<1>10. CASE CopyFails
  BY <1>10 DEF Steady, TypeOK, Moves, ReturnsHeld, Archiving, Held, Due, CopyFails, NextToCopy, At, Spend, diskVars, aroundVars, Unit, InStorage, Readable
<1>11. CASE ArchiveReport
  BY <1>11 DEF Steady, TypeOK, Moves, ReturnsHeld, Archiving, Held, Due, ArchiveReport, At, Recorded, Refused, Spend, Goes, diskVars, aroundVars, Unit, InStorage, Readable
<1>12. CASE ArchiveUndo
  BY <1>12 DEF Steady, TypeOK, Moves, ReturnsHeld, Archiving, Held, Due, ArchiveUndo, Forgets, At, Spend, diskVars, aroundVars, Unit, InStorage, Readable
<1>13. CASE ArchiveIndex
  BY <1>13 DEF Steady, TypeOK, Moves, ReturnsHeld, Archiving, Held, Due, ArchiveIndex, At, Goes, diskVars, aroundVars, Unit, InStorage, Readable
<1>14. CASE Remove
  BY <1>14 DEF Steady, TypeOK, Moves, ReturnsHeld, Archiving, Held, Due, Remove, diskVars, aroundVars, Unit, InStorage, Readable
<1>15. CASE RestoreAgain
  BY <1>15 DEF Steady, TypeOK, Moves, ReturnsHeld, Archiving, Held, Due, RestoreAgain, RestoredAlready, Ready, At, Goes, diskVars, aroundVars, Unit, InStorage, Readable
<1>16. CASE CopyBack \/ Replace
  BY <1>16 DEF Steady, TypeOK, Moves, ReturnsHeld, Archiving, Held, Due, CopyBack, Replace, Restorable, Ready, At, Goes, diskVars, aroundVars, Unit, InStorage, Readable
<1>17. CASE RestoreReport
  BY <1>17 DEF Steady, TypeOK, Moves, ReturnsHeld, Archiving, Held, Due, RestoreReport, At, Recorded, Refused, Spend, Goes, diskVars, aroundVars, Unit, InStorage, Readable
<1>18. CASE RestoreIndex
  BY <1>18 DEF Steady, TypeOK, Moves, ReturnsHeld, Archiving, Held, Due, RestoreIndex, At, Goes, diskVars, aroundVars, Unit, InStorage, Readable
<1>19. CASE DeleteReport
  <2>1. move \in Moves /\ move.due = {} /\ move.at = "due"
    BY <1>19 DEF DeleteReport, Deletable, Ready, At, Steady, TypeOK
  <2>2. CASE move' = None
    BY <2>2 DEF ReturnsHeld
  <2>3. CASE move' = IF state[Unit] \in Held
                     THEN [move EXCEPT !.at = "forget", !.files = IF given THEN files[Unit] ELSE {}]
                     ELSE [move EXCEPT !.at = "index"]
    <3>1. move'.due = {} /\ move'.at \in {"forget", "index"}
      BY <2>1, <2>3 DEF Moves
    <3> QED BY <3>1 DEF ReturnsHeld
  <2> QED BY <2>2, <2>3, <1>19 DEF DeleteReport, Ends
<1>20. CASE Forget
  BY <1>20 DEF Steady, TypeOK, Moves, ReturnsHeld, Archiving, Held, Due, Forget, Forgets, At, Spend, diskVars, aroundVars, Unit, InStorage, Readable
<1>21. CASE Forgotten
  BY <1>21 DEF Steady, TypeOK, Moves, ReturnsHeld, Archiving, Held, Due, Forgotten, At, Goes, diskVars, aroundVars, Unit, InStorage, Readable
<1>22. CASE DeleteIndex
  BY <1>22 DEF Steady, TypeOK, Moves, ReturnsHeld, Archiving, Held, Due, DeleteIndex, Cleared, At, Ends, Goes, diskVars, aroundVars, Unit, InStorage, Readable
<1> QED BY Footprint, <1>1, <1>2, <1>3, <1>4, <1>5, <1>6, <1>7, <1>8, <1>9, <1>10, <1>11, <1>12,
           <1>13, <1>14, <1>15, <1>16, <1>17, <1>18, <1>19, <1>20, <1>21, <1>22

\* A unit being restored is held.
LEMMA RestoringStep ==
    ASSUME Steady, [Next]_vars
    PROVE  Restoring'
<1>1. CASE UNCHANGED <<move, state, files, archive, restored>>
  BY <1>1 DEF Steady, Restoring, Unit, Readable, Of
<1>2. CASE Crash \/ ReturnEnds \/ ArchiveRefused \/ ArchiveUndone \/ RestoreRefused \/ RestoreUndone
          \/ Answer \/ DeleteRefused
  <2>1. move' = None
    BY <1>2 DEF Crash, ReturnEnds, ArchiveRefused, ArchiveUndone, RestoreRefused, RestoreUndone, Answer,
           DeleteRefused, Ends
  <2> QED BY <2>1 DEF Restoring
<1>3. ASSUME NEW op \in {"restore", "delete"}, NEW u \in Units, Ask(op, u) PROVE Restoring'
  BY <1>3 DEF Steady, TypeOK, Moves, Restoring, Held, Ask, Begin, Spend, Due, diskVars, aroundVars, Unit, InStorage, Readable
<1>4. CASE TendNext
  BY <1>4 DEF Steady, TypeOK, Moves, Restoring, Held, TendNext, Begin, Due, diskVars, aroundVars, Unit, InStorage, Readable
<1>5. CASE Beat
  BY <1>5 DEF Steady, TypeOK, Moves, Restoring, Held, Beat, Begin, Due, diskVars, aroundVars, Unit, InStorage, Readable
<1>6. CASE ReturnReport
  BY <1>6 DEF Steady, TypeOK, Moves, Restoring, Held, ReturnReport, Recorded, Refused, Spend, diskVars, aroundVars, Unit, InStorage, Readable
<1>7. CASE ReturnIndex
  BY <1>7 DEF Steady, TypeOK, Moves, Restoring, Held, ReturnIndex, diskVars, aroundVars, Unit, InStorage, Readable
<1>8. CASE ArchiveAgain
  BY <1>8 DEF Steady, TypeOK, Moves, Restoring, Held, ArchiveAgain, ArchivedAlready, Goes, Ready, At, diskVars, aroundVars, Unit, InStorage, Readable
<1>9. CASE CopyOut
  BY <1>9 DEF Steady, TypeOK, Moves, Restoring, Held, CopyOut, Archivable, Ready, At, Of, diskVars, aroundVars, Unit, InStorage, Readable
<1>10. CASE CopyFails
  BY <1>10 DEF Steady, TypeOK, Moves, Restoring, Held, CopyFails, NextToCopy, At, Spend, diskVars, aroundVars, Unit, InStorage, Readable
<1>11. CASE ArchiveReport
  BY <1>11 DEF Steady, TypeOK, Moves, Restoring, Held, ArchiveReport, At, Recorded, Refused, Spend, Goes, diskVars, aroundVars, Unit, InStorage, Readable
<1>12. CASE ArchiveUndo
  BY <1>12 DEF Steady, TypeOK, Moves, Restoring, Held, ArchiveUndo, Forgets, At, Spend, diskVars, aroundVars, Unit, InStorage, Readable
<1>13. CASE ArchiveIndex
  BY <1>13 DEF Steady, TypeOK, Moves, Restoring, Held, ArchiveIndex, At, Goes, diskVars, aroundVars, Unit, InStorage, Readable
<1>14. CASE Remove
  BY <1>14 DEF Steady, TypeOK, Moves, Restoring, Held, Remove, diskVars, aroundVars, Unit, InStorage, Readable
<1>15. CASE RestoreAgain
  BY <1>15 DEF Steady, TypeOK, Moves, Restoring, Held, RestoreAgain, RestoredAlready, Ready, At, Goes, diskVars, aroundVars, Unit, InStorage, Readable
<1>16. CASE CopyBack \/ Replace
  <2>1. CASE CopyBack
    BY <2>1 DEF Steady, TypeOK, Moves, Restoring, Held, CopyBack, Restorable, RestoredAlready, Ready,
           At, Goes, diskVars, Unit, Readable, Of
  <2>2. CASE Replace
    BY <2>2 DEF Steady, TypeOK, Moves, Restoring, Replace, At, Goes, Unit
  <2> QED BY <1>16, <2>1, <2>2
<1>17. CASE RestoreReport
  BY <1>17 DEF Steady, TypeOK, Moves, Restoring, Held, RestoreReport, At, Recorded, Refused, Spend, Goes, diskVars, aroundVars, Unit, InStorage, Readable
<1>18. CASE RestoreIndex
  BY <1>18 DEF Steady, TypeOK, Moves, Restoring, Held, RestoreIndex, At, Goes, diskVars, aroundVars, Unit, InStorage, Readable
<1>19. CASE DeleteReport
  BY <1>19 DEF Steady, TypeOK, Moves, Restoring, Held, DeleteReport, Deletable, Ready, At, Recorded, Refused, Spend, Ends, diskVars, aroundVars, Unit, InStorage, Readable
<1>20. CASE Forget
  BY <1>20 DEF Steady, TypeOK, Moves, Restoring, Held, Forget, Forgets, At, Spend, diskVars, aroundVars, Unit, InStorage, Readable
<1>21. CASE Forgotten
  BY <1>21 DEF Steady, TypeOK, Moves, Restoring, Held, Forgotten, At, Goes, diskVars, aroundVars, Unit, InStorage, Readable
<1>22. CASE DeleteIndex
  BY <1>22 DEF Steady, TypeOK, Moves, Restoring, Held, DeleteIndex, Cleared, At, Ends, Goes, diskVars, aroundVars, Unit, InStorage, Readable
<1>23. CASE CopyFile
  BY <1>23 DEF CopyFile, At, Restoring
<1>24. CASE ReturnClear \/ DeleteClear
  BY <1>24 DEF ReturnClear, DeleteClear, Clear, At, Restoring, Steady, Unit
<1>25. CASE ClearTarget \/ RestoreUndo
  BY <1>25 DEF ClearTarget, RestoreUndo, Clear, At, Restoring, Steady, Unit, Readable
<1> QED BY Footprint, <1>1, <1>2, <1>3, <1>4, <1>5, <1>6, <1>7, <1>8, <1>9, <1>10, <1>11, <1>12,
           <1>13, <1>14, <1>15, <1>16, <1>17, <1>18, <1>19, <1>20, <1>21, <1>22, <1>23, <1>24,
           <1>25

\* A unit being deleted was said to be.
LEMMA DeletingStep ==
    ASSUME Sound, [Next]_vars
    PROVE  Deleting'
<1>1. CASE UNCHANGED <<move, told>>
  BY <1>1 DEF Sound, Deleting, Unit
<1>2. CASE Crash \/ ReturnEnds \/ ArchiveRefused \/ ArchiveUndone \/ RestoreRefused \/ RestoreUndone
          \/ Answer \/ DeleteRefused
  <2>1. move' = None
    BY <1>2 DEF Crash, ReturnEnds, ArchiveRefused, ArchiveUndone, RestoreRefused, RestoreUndone, Answer,
           DeleteRefused, Ends
  <2> QED BY <2>1 DEF Deleting
<1>3. ASSUME NEW op \in {"restore", "delete"}, NEW u \in Units, Ask(op, u) PROVE Deleting'
  BY <1>3 DEF Sound, TypeOK, Moves, Deleting, FilesOwn, Ask, Begin, Spend, Due, diskVars, aroundVars, Unit, InStorage, Readable
<1>4. CASE TendNext
  BY <1>4 DEF Sound, TypeOK, Moves, Deleting, FilesOwn, TendNext, Begin, Due, diskVars, aroundVars, Unit, InStorage, Readable
<1>5. CASE Beat
  BY <1>5 DEF Sound, TypeOK, Moves, Deleting, FilesOwn, Beat, Begin, Due, diskVars, aroundVars, Unit, InStorage, Readable
<1>6. CASE ReturnReport
  BY <1>6 DEF Sound, TypeOK, Moves, Deleting, FilesOwn, ReturnReport, Recorded, Refused, Spend, diskVars, aroundVars, Unit, InStorage, Readable
<1>7. CASE ReturnIndex
  BY <1>7 DEF Sound, TypeOK, Moves, Deleting, FilesOwn, ReturnIndex, diskVars, aroundVars, Unit, InStorage, Readable
<1>8. CASE ArchiveAgain
  BY <1>8 DEF Sound, TypeOK, Moves, Deleting, FilesOwn, ArchiveAgain, ArchivedAlready, Goes, Ready, At, diskVars, aroundVars, Unit, InStorage, Readable
<1>9. CASE CopyOut
  BY <1>9 DEF Sound, TypeOK, Moves, Deleting, FilesOwn, CopyOut, Archivable, Ready, At, Of, diskVars, aroundVars, Unit, InStorage, Readable
<1>10. CASE CopyFails
  BY <1>10 DEF Sound, TypeOK, Moves, Deleting, FilesOwn, CopyFails, NextToCopy, At, Spend, diskVars, aroundVars, Unit, InStorage, Readable
<1>11. CASE ArchiveReport
  BY <1>11 DEF Sound, TypeOK, Moves, Deleting, FilesOwn, ArchiveReport, At, Recorded, Refused, Spend, Goes, diskVars, aroundVars, Unit, InStorage, Readable
<1>12. CASE ArchiveUndo
  BY <1>12 DEF Sound, TypeOK, Moves, Deleting, FilesOwn, ArchiveUndo, Forgets, At, Spend, diskVars, aroundVars, Unit, InStorage, Readable
<1>13. CASE ArchiveIndex
  BY <1>13 DEF Sound, TypeOK, Moves, Deleting, FilesOwn, ArchiveIndex, At, Goes, diskVars, aroundVars, Unit, InStorage, Readable
<1>14. CASE Remove
  BY <1>14 DEF Sound, TypeOK, Moves, Deleting, FilesOwn, Remove, diskVars, aroundVars, Unit, InStorage, Readable
<1>15. CASE RestoreAgain
  BY <1>15 DEF Sound, TypeOK, Moves, Deleting, FilesOwn, RestoreAgain, RestoredAlready, Ready, At, Goes, diskVars, aroundVars, Unit, InStorage, Readable
<1>16. CASE CopyBack \/ Replace
  BY <1>16 DEF Sound, TypeOK, Moves, Deleting, FilesOwn, CopyBack, Replace, Restorable, Ready, At, Goes, diskVars, aroundVars, Unit, InStorage, Readable
<1>17. CASE RestoreReport
  BY <1>17 DEF Sound, TypeOK, Moves, Deleting, FilesOwn, RestoreReport, At, Recorded, Refused, Spend, Goes, diskVars, aroundVars, Unit, InStorage, Readable
<1>18. CASE RestoreIndex
  BY <1>18 DEF Sound, TypeOK, Moves, Deleting, FilesOwn, RestoreIndex, At, Goes, diskVars, aroundVars, Unit, InStorage, Readable
<1>19. CASE DeleteReport
  <2>1. move \in Moves /\ move.op = "delete" /\ move.unit \in Units
    BY <1>19 DEF DeleteReport, Deletable, Ready, At, Sound, TypeOK, Moves
  <2>2. CASE Recorded(Unit, "deleted") /\ move' = IF state[Unit] \in Held
                     THEN [move EXCEPT !.at = "forget", !.files = IF given THEN files[Unit] ELSE {}]
                     ELSE [move EXCEPT !.at = "index"]
    <3>1. /\ move'.unit = move.unit /\ move'.at \in {"forget", "index"}
          /\ move'.at = "forget" => move'.files \in {files[move.unit], {}}
      BY <2>1, <2>2 DEF Moves, Unit
    <3>2. <<move.unit, "deleted">> \in told' /\ \A r \in files[move.unit] : r[1] = move.unit
      BY <2>1, <2>2 DEF Recorded, Unit, Sound, FilesOwn
    <3> QED BY <3>1, <3>2 DEF Deleting, Unit
  <2>3. CASE Ends
    BY <2>3 DEF Ends, Deleting
  <2> QED BY <2>2, <2>3, <1>19 DEF DeleteReport
<1>20. CASE Forget
  BY <1>20 DEF Sound, TypeOK, Moves, Deleting, FilesOwn, Forget, Forgets, At, Spend, diskVars, aroundVars, Unit, InStorage, Readable
<1>21. CASE Forgotten
  BY <1>21 DEF Sound, TypeOK, Moves, Deleting, FilesOwn, Forgotten, At, Goes, diskVars, aroundVars, Unit, InStorage, Readable
<1>22. CASE DeleteIndex
  BY <1>22 DEF Sound, TypeOK, Moves, Deleting, FilesOwn, DeleteIndex, Cleared, At, Ends, Goes, diskVars, aroundVars, Unit, InStorage, Readable
<1> QED BY Footprint, <1>1, <1>2, <1>3, <1>4, <1>5, <1>6, <1>7, <1>8, <1>9, <1>10, <1>11, <1>12,
           <1>13, <1>14, <1>15, <1>16, <1>17, <1>18, <1>19, <1>20, <1>21, <1>22

\* Only a unit archived or deleted is removed.
LEMMA RemovingStep ==
    ASSUME Sound, [Next]_vars
    PROVE  Removing'
<1>1. CASE UNCHANGED move
  BY <1>1 DEF Sound, Removing
<1>2. CASE Crash \/ ReturnEnds \/ ArchiveRefused \/ ArchiveUndone \/ RestoreRefused \/ RestoreUndone
          \/ Answer \/ DeleteRefused
  <2>1. move' = None
    BY <1>2 DEF Crash, ReturnEnds, ArchiveRefused, ArchiveUndone, RestoreRefused, RestoreUndone, Answer,
           DeleteRefused, Ends
  <2> QED BY <2>1 DEF Removing
<1>3. ASSUME NEW op \in {"restore", "delete"}, NEW u \in Units, Ask(op, u) PROVE Removing'
  BY <1>3 DEF Sound, TypeOK, Moves, Removing, Ask, Begin, Spend, Due, diskVars, aroundVars, Unit, InStorage, Readable
<1>4. CASE TendNext
  BY <1>4 DEF Sound, TypeOK, Moves, Removing, TendNext, Begin, Due, diskVars, aroundVars, Unit, InStorage, Readable
<1>5. CASE Beat
  BY <1>5 DEF Sound, TypeOK, Moves, Removing, Beat, Begin, Due, diskVars, aroundVars, Unit, InStorage, Readable
<1>6. CASE ReturnReport
  BY <1>6 DEF Sound, TypeOK, Moves, Removing, ReturnReport, Recorded, Refused, Spend, diskVars, aroundVars, Unit, InStorage, Readable
<1>7. CASE ReturnIndex
  BY <1>7 DEF Sound, TypeOK, Moves, Removing, ReturnIndex, diskVars, aroundVars, Unit, InStorage, Readable
<1>8. CASE ArchiveAgain
  BY <1>8 DEF Sound, TypeOK, Moves, Removing, ArchiveAgain, ArchivedAlready, Goes, Ready, At, diskVars, aroundVars, Unit, InStorage, Readable
<1>9. CASE CopyOut
  BY <1>9 DEF Sound, TypeOK, Moves, Removing, CopyOut, Archivable, Ready, At, Of, diskVars, aroundVars, Unit, InStorage, Readable
<1>10. CASE CopyFails
  BY <1>10 DEF Sound, TypeOK, Moves, Removing, CopyFails, NextToCopy, At, Spend, diskVars, aroundVars, Unit, InStorage, Readable
<1>11. CASE ArchiveReport
  BY <1>11 DEF Sound, TypeOK, Moves, Removing, ArchiveReport, At, Recorded, Refused, Spend, Goes, diskVars, aroundVars, Unit, InStorage, Readable
<1>12. CASE ArchiveUndo
  BY <1>12 DEF Sound, TypeOK, Moves, Removing, ArchiveUndo, Forgets, At, Spend, diskVars, aroundVars, Unit, InStorage, Readable
<1>13. CASE ArchiveIndex
  BY <1>13 DEF Sound, TypeOK, Moves, Removing, ArchiveIndex, At, Goes, diskVars, aroundVars, Unit, InStorage, Readable
<1>14. CASE Remove
  BY <1>14 DEF Sound, TypeOK, Moves, Removing, Remove, diskVars, aroundVars, Unit, InStorage, Readable
<1>15. CASE RestoreAgain
  BY <1>15 DEF Sound, TypeOK, Moves, Removing, RestoreAgain, RestoredAlready, Ready, At, Goes, diskVars, aroundVars, Unit, InStorage, Readable
<1>16. CASE CopyBack \/ Replace
  BY <1>16 DEF Sound, TypeOK, Moves, Removing, CopyBack, Replace, Restorable, Ready, At, Goes, diskVars, aroundVars, Unit, InStorage, Readable
<1>17. CASE RestoreReport
  BY <1>17 DEF Sound, TypeOK, Moves, Removing, RestoreReport, At, Recorded, Refused, Spend, Goes, diskVars, aroundVars, Unit, InStorage, Readable
<1>18. CASE RestoreIndex
  BY <1>18 DEF Sound, TypeOK, Moves, Removing, RestoreIndex, At, Goes, diskVars, aroundVars, Unit, InStorage, Readable
<1>19. CASE DeleteReport
  BY <1>19 DEF Sound, TypeOK, Moves, Removing, DeleteReport, Deletable, Ready, At, Recorded, Refused, Spend, Ends, diskVars, aroundVars, Unit, InStorage, Readable
<1>20. CASE Forget
  BY <1>20 DEF Sound, TypeOK, Moves, Removing, Forget, Forgets, At, Spend, diskVars, aroundVars, Unit, InStorage, Readable
<1>21. CASE Forgotten
  BY <1>21 DEF Sound, TypeOK, Moves, Removing, Forgotten, At, Goes, diskVars, aroundVars, Unit, InStorage, Readable
<1>22. CASE DeleteIndex
  BY <1>22 DEF Sound, TypeOK, Moves, Removing, DeleteIndex, Cleared, At, Ends, Goes, diskVars, aroundVars, Unit, InStorage, Readable
<1> QED BY Footprint, <1>1, <1>2, <1>3, <1>4, <1>5, <1>6, <1>7, <1>8, <1>9, <1>10, <1>11, <1>12,
           <1>13, <1>14, <1>15, <1>16, <1>17, <1>18, <1>19, <1>20, <1>21, <1>22

\* What is settled stays so where nothing is kept of it and the archive drops
\* none of it, unless it was said deleted.
LEMMA SettledLasts ==
    ASSUME Sound, [Next]_vars, told \subseteq told',
           \A u \in Units : state'[u] \in Held =>
               /\ state[u] \in Held /\ files'[u] = files[u]
               /\ Of(u, storage)' \subseteq Of(u, storage)
               /\ files[u] \cap archive \subseteq archive' \/ <<u, "deleted">> \in told
    PROVE  Settled'
<1> SUFFICES ASSUME NEW u \in Units, state'[u] \in Held
             PROVE  /\ PastWindow(u)' /\ <<u, "archived">> \in told'
                    /\ Of(u, storage)' \subseteq (files[u] \cap archive)' \/ <<u, "deleted">> \in told'
  BY DEF Settled
<1>1. /\ PastWindow(u) /\ <<u, "archived">> \in told
      /\ Of(u, storage) \subseteq files[u] \cap archive \/ <<u, "deleted">> \in told
  BY DEF Sound, Settled
<1>2. PastWindow(u)'
  BY <1>1, PastStays DEF Sound
<1> QED BY <1>1, <1>2

\* A record is kept only of a day that is not past the window.
LEMMA KeptInTime ==
    ASSUME Timely, TypeOK, NEW u \in Units, NEW v \in Units, Keep(v), PastWindow(u)
    PROVE  u # v /\ Of(u, storage)' = Of(u, storage)
<1>1. u # v
  BY MoverAssumption DEF MoverAssumption, Timely, TypeOK, Keep, PastWindow, Units
<1> QED BY <1>1 DEF Keep, Of

\* What is settled stays so, and what the index takes is.
LEMMA SettledStep ==
    ASSUME Timely, Sound, [Next]_vars
    PROVE  Settled'
<1>1. CASE UNCHANGED <<state, files, told, storage, archive, today>>
  BY <1>1, SettledLasts DEF Of
<1>2. ASSUME NEW u \in Units, Keep(u) PROVE Settled'
  <2>1. \A v \in Units : state[v] \in Held => Of(v, storage)' = Of(v, storage)
    BY <1>2, KeptInTime DEF Sound, Settled
  <2> QED BY <2>1, <1>2, SettledLasts DEF Keep
<1>3. CASE Midnight
  BY <1>3, SettledLasts DEF Of, Midnight, diskVars, aroundVars, Unit, InStorage, Readable
<1>4. CASE ReturnReport
  BY <1>4, SettledLasts DEF Of, ReturnReport, Recorded, Refused, Spend, diskVars, aroundVars, Unit, InStorage, Readable
<1>5. CASE ReturnIndex
  <2>1. state[move.now] \in Held /\ move.now \in Units
    BY <1>5 DEF ReturnIndex, Sound, TypeOK, Moves, ReturnsHeld
  <2> QED BY <2>1, <1>5, SettledLasts DEF ReturnIndex, aroundVars, Of, Sound, TypeOK, Held
<1>6. CASE CopyFile
  BY <1>6, SettledLasts DEF Of, CopyFile, NextToCopy, At, diskVars, aroundVars, Unit, InStorage, Readable
<1>7. CASE ArchiveReport
  BY <1>7, SettledLasts DEF Of, ArchiveReport, At, Recorded, Refused, Spend, Goes, diskVars, aroundVars, Unit, InStorage, Readable
<1>8. CASE ArchiveUndo
  <2>1. Unit \in Units /\ state[Unit] \notin Held /\ move.files \subseteq InStorage
    BY <1>8 DEF ArchiveUndo, At, Sound, TypeOK, Moves, Archiving, Unit
  <2>2. \A u \in Units : state[u] \in Held => files[u] \cap archive \subseteq archive'
    BY <2>1, <1>8 DEF ArchiveUndo, Forgets, InStorage, Of, Sound, FilesOwn
  <2> QED BY <2>2, <1>8, SettledLasts DEF ArchiveUndo, Forgets, aroundVars, Of
<1>9. CASE ArchiveIndex
  <2>1. /\ Unit \in Units /\ PastWindow(Unit) /\ move.files = InStorage
        /\ move.files \subseteq archive /\ <<Unit, "archived">> \in told
    BY <1>9 DEF ArchiveIndex, At, Sound, TypeOK, Moves, Archiving, Unit
  <2> SUFFICES ASSUME NEW u \in Units, state'[u] \in Held
               PROVE  /\ PastWindow(u)' /\ <<u, "archived">> \in told'
                      /\ Of(u, storage)' \subseteq (files[u] \cap archive)' \/ <<u, "deleted">> \in told'
    BY DEF Settled
  <2>3. CASE u = move.unit
    BY <2>1, <2>3, <1>9 DEF ArchiveIndex, aroundVars, PastWindow, Unit, InStorage, Of, Sound, TypeOK
  <2>4. CASE u # move.unit
    BY <2>4, <1>9 DEF ArchiveIndex, aroundVars, PastWindow, Unit, Of, Sound, Settled, TypeOK
  <2> QED BY <2>3, <2>4
<1>10. CASE Remove
  BY <1>10, SettledLasts DEF Of, Remove, diskVars, aroundVars, Unit, InStorage, Readable
<1>11. CASE RestoreReport
  BY <1>11, SettledLasts DEF Of, RestoreReport, At, Recorded, Refused, Spend, Goes, diskVars, aroundVars, Unit, InStorage, Readable
<1>12. CASE RestoreIndex
  <2>1. state[Unit] \in Held /\ Unit \in Units
    BY <1>12 DEF RestoreIndex, At, Sound, TypeOK, Moves, Restoring, Unit
  <2> QED BY <2>1, <1>12, SettledLasts DEF RestoreIndex, Of, Sound, TypeOK, Held
<1>13. CASE DeleteReport
  BY <1>13, SettledLasts DEF Of, DeleteReport, Deletable, Ready, At, Recorded, Refused, Spend, Ends, diskVars, aroundVars, Unit, InStorage, Readable
<1>14. CASE Forget
  <2>1. <<Unit, "deleted">> \in told /\ Unit \in Units /\ \A r \in move.files : r[1] = Unit
    BY <1>14 DEF Forget, At, Sound, TypeOK, Moves, Deleting, Unit
  <2>2. \A u \in Units : files[u] \cap archive \subseteq archive' \/ <<u, "deleted">> \in told
    BY <2>1, <1>14 DEF Forget, Forgets, Sound, FilesOwn
  <2> QED BY <2>2, <1>14, SettledLasts DEF Forget, Forgets, aroundVars, Of
<1>15. CASE DeleteIndex
  <2>1. Unit \in Units
    BY <1>15 DEF DeleteIndex, Cleared, At, Sound, TypeOK, Moves, Unit
  <2> QED BY <2>1, <1>15, SettledLasts DEF DeleteIndex, aroundVars, Of, Sound, TypeOK, Held
<1>16. CASE CopyFails
  BY <1>16, SettledLasts DEF Of, CopyFails, aroundVars
<1> QED BY Footprint, <1>1, <1>2, <1>3, <1>4, <1>5, <1>6, <1>7, <1>8, <1>9, <1>10, <1>11, <1>12,
           <1>13, <1>14, <1>15, <1>16

\* What is copied to the archive stays all that its unit has in storage.
LEMMA ArchivingStep ==
    ASSUME Timely, Sound, [Next]_vars
    PROVE  Archiving'
<1>1. CASE UNCHANGED <<move, state, storage, archive, told, today>>
  BY <1>1 DEF Sound, Archiving, PastWindow, Unit, InStorage, Of
<1>2. CASE Crash \/ ReturnEnds \/ ArchiveRefused \/ ArchiveUndone \/ RestoreRefused \/ RestoreUndone
          \/ Answer \/ DeleteRefused
  <2>1. move' = None
    BY <1>2 DEF Crash, ReturnEnds, ArchiveRefused, ArchiveUndone, RestoreRefused, RestoreUndone, Answer,
           DeleteRefused, Ends
  <2> QED BY <2>1 DEF Archiving
<1>3. ASSUME NEW u \in Units, Keep(u) PROVE Archiving'
  <2> SUFFICES ASSUME move # None, move.op = "archive" PROVE Archiving'
    BY <1>3 DEF Keep, Archiving
  <2>1. Unit \in Units /\ PastWindow(Unit)
    BY DEF Sound, TypeOK, Moves, Archiving, Unit
  <2>2. Of(Unit, storage)' = Of(Unit, storage)
    BY <2>1, <1>3, KeptInTime DEF Sound, Keep, Unit
  <2> QED BY <2>2, <1>3 DEF Keep, Sound, Archiving, Unit, InStorage, PastWindow
<1>4. ASSUME NEW op \in {"restore", "delete"}, NEW u \in Units, Ask(op, u) PROVE Archiving'
  BY <1>4 DEF Sound, TypeOK, Moves, Archiving, Held, PastWindow, Of, Ask, Begin, Spend, Due, diskVars, aroundVars, Unit, InStorage, Readable
<1>5. CASE Midnight
  <2> SUFFICES ASSUME move # None, move.op = "archive" PROVE Archiving'
    BY <1>5 DEF Midnight, Archiving
  <2>1. PastWindow(Unit)'
    BY <1>5, PastStays DEF Midnight, Sound, TypeOK, Moves, Archiving, Unit, PastWindow
  <2> QED BY <2>1, <1>5 DEF Midnight, Sound, Archiving, Unit, InStorage, Of
<1>6. CASE TendNext
  <2>1. CASE UNCHANGED move
    BY <2>1, <1>6 DEF TendNext, diskVars, aroundVars, Sound, Archiving, PastWindow, Unit, InStorage, Of
  <2>2. CASE ~UNCHANGED move
    <3>1. PICK u \in tending.units : /\ tending # None /\ move'.unit = u /\ move'.at = "due"
      BY <2>2, <1>6 DEF TendNext, Begin
    <3>2. PastWindow(u)
      BY <3>1 DEF Sound, TendsPast
    <3> QED BY <3>1, <3>2, <1>6 DEF TendNext, aroundVars, PastWindow, Archiving, Unit
  <2> QED BY <2>1, <2>2
<1>7. CASE Beat
  BY <1>7 DEF Sound, TypeOK, Moves, Archiving, Held, PastWindow, Of, Beat, Begin, Due, diskVars, aroundVars, Unit, InStorage, Readable
<1>8. CASE ReturnReport
  <2> SUFFICES ASSUME move' # None, move'.op = "archive" PROVE Archiving'
    BY DEF Archiving
  <2>1. move # None /\ move \in Moves /\ move'.unit = move.unit /\ move.op = "archive" /\ move'.at \in {"due", "returned"}
    BY <1>8 DEF ReturnReport, Recorded, Refused, Sound, TypeOK, Moves
  <2> QED BY <2>1, <1>8 DEF ReturnReport, Recorded, Refused, aroundVars, Sound, Archiving, Unit, PastWindow
<1>9. CASE ReturnIndex
  <2> SUFFICES ASSUME move' # None, move'.op = "archive" PROVE Archiving'
    BY DEF Archiving
  <2>1. move # None /\ move \in Moves /\ move'.unit = move.unit /\ move.op = "archive" /\ move'.at \in {"due", "returned"}
    BY <1>9 DEF ReturnIndex, Sound, TypeOK, Moves
  <2> QED BY <2>1, <1>9 DEF ReturnIndex, aroundVars, Sound, Archiving, Unit, PastWindow
<1>10. CASE ArchiveAgain
  BY <1>10 DEF Sound, TypeOK, Moves, Archiving, Held, PastWindow, Of, ArchiveAgain, ArchivedAlready, Goes, Ready, At, diskVars, aroundVars, Unit, InStorage, Readable
<1>11. CASE CopyOut
  BY <1>11 DEF Sound, TypeOK, Moves, Archiving, Held, PastWindow, Of, CopyOut, Archivable, Ready, At, Of, diskVars, aroundVars, Unit, InStorage, Readable
<1>12. CASE CopyFile
  BY <1>12 DEF Sound, TypeOK, Moves, Archiving, Held, PastWindow, Of, CopyFile, NextToCopy, At, diskVars, aroundVars, Unit, InStorage, Readable
<1>13. CASE CopyFails
  BY <1>13 DEF Sound, TypeOK, Moves, Archiving, Held, PastWindow, Of, CopyFails, NextToCopy, At, Spend, diskVars, aroundVars, Unit, InStorage, Readable
<1>14. CASE ArchiveReport
  <2>1. /\ move \in Moves /\ move.op = "archive" /\ UNCHANGED <<state, storage, archive, today>>
        /\ PastWindow(Unit) /\ state[Unit] \notin Held /\ move.files = InStorage /\ move.files \subseteq archive
    BY <1>14 DEF ArchiveReport, At, Sound, TypeOK, Archiving, diskVars, aroundVars
  <2>2. CASE Recorded(Unit, "archived") /\ Goes("index")
    BY <2>1, <2>2 DEF Recorded, Goes, Moves, Archiving, Unit, InStorage, Of, PastWindow
  <2>3. CASE Goes("undo")
    BY <2>1, <2>3 DEF Goes, Moves, Archiving, Unit, InStorage, Of, PastWindow
  <2> QED BY <2>2, <2>3, <1>14 DEF ArchiveReport
<1>15. CASE ArchiveUndo
  BY <1>15 DEF Sound, TypeOK, Moves, Archiving, Held, PastWindow, Of, ArchiveUndo, Forgets, At, Spend, diskVars, aroundVars, Unit, InStorage, Readable
<1>16. CASE ArchiveIndex
  BY <1>16 DEF Sound, TypeOK, Moves, Archiving, Held, PastWindow, Of, ArchiveIndex, At, Goes, diskVars, aroundVars, Unit, InStorage, Readable
<1>17. CASE Remove
  <2> SUFFICES ASSUME move' # None, move'.op = "archive" PROVE Archiving'
    BY DEF Archiving
  <2>1. move' = move
    BY <1>17 DEF Remove
  <2> QED BY <2>1, <1>17 DEF Remove, Sound, TypeOK, Moves, Archiving, Unit, aroundVars, PastWindow
<1>18. CASE RestoreAgain
  BY <1>18 DEF Sound, TypeOK, Moves, Archiving, Held, PastWindow, Of, RestoreAgain, RestoredAlready, Ready, At, Goes, diskVars, aroundVars, Unit, InStorage, Readable
<1>19. CASE CopyBack \/ Replace
  BY <1>19 DEF Sound, TypeOK, Moves, Archiving, Held, PastWindow, Of, CopyBack, Replace, Restorable, Ready, At, Goes, diskVars, aroundVars, Unit, InStorage, Readable
<1>20. CASE RestoreReport
  BY <1>20 DEF Sound, TypeOK, Moves, Archiving, Held, PastWindow, Of, RestoreReport, At, Recorded, Refused, Spend, Goes, diskVars, aroundVars, Unit, InStorage, Readable
<1>21. CASE RestoreIndex
  BY <1>21 DEF Sound, TypeOK, Moves, Archiving, Held, PastWindow, Of, RestoreIndex, At, Goes, diskVars, aroundVars, Unit, InStorage, Readable
<1>22. CASE DeleteReport
  BY <1>22 DEF Sound, TypeOK, Moves, Archiving, Held, PastWindow, Of, DeleteReport, Deletable, Ready, At, Recorded, Refused, Spend, Ends, diskVars, aroundVars, Unit, InStorage, Readable
<1>23. CASE Forget
  BY <1>23 DEF Sound, TypeOK, Moves, Archiving, Held, PastWindow, Of, Forget, Forgets, At, Spend, diskVars, aroundVars, Unit, InStorage, Readable
<1>24. CASE Forgotten
  BY <1>24 DEF Sound, TypeOK, Moves, Archiving, Held, PastWindow, Of, Forgotten, At, Goes, diskVars, aroundVars, Unit, InStorage, Readable
<1>25. CASE DeleteIndex
  BY <1>25 DEF Sound, TypeOK, Moves, Archiving, Held, PastWindow, Of, DeleteIndex, Cleared, At, Ends, Goes, diskVars, aroundVars, Unit, InStorage, Readable
<1> QED BY Footprint, <1>1, <1>2, <1>3, <1>4, <1>5, <1>6, <1>7, <1>8, <1>9, <1>10, <1>11, <1>12,
           <1>13, <1>14, <1>15, <1>16, <1>17, <1>18, <1>19, <1>20, <1>21, <1>22, <1>23, <1>24,
           <1>25

\* A record stays findable where it is.
LEMMA FindableLasts ==
    ASSUME Sound, told \subseteq told', kept' = kept,
           \A r \in kept :
               \/ <<r[1], "deleted">> \in told
               \/ /\ r \in storage => r \in storage'
                  /\ state[r[1]] \in Held /\ r \in files[r[1]] \cap archive
                       => state'[r[1]] \in Held /\ r \in files'[r[1]] \cap archive'
    PROVE  Findable'
BY DEF Sound, Findable

\* No step loses a record.
LEMMA FindableStep ==
    ASSUME Sound, [Next]_vars
    PROVE  Findable'
<1>1. CASE UNCHANGED <<kept, storage, state, files, archive, told>>
  BY <1>1, FindableLasts DEF Sound, Findable
<1>2. ASSUME NEW u \in Units, Keep(u) PROVE Findable'
  <2>1. kept' \ kept \subseteq storage' /\ storage \subseteq storage'
    BY <1>2 DEF Keep
  <2> QED BY <2>1, <1>2 DEF Keep, Sound, Findable
<1>3. CASE ReturnReport
  BY <1>3, FindableLasts DEF ReturnReport, Recorded, Refused, Spend, diskVars, aroundVars, Unit, InStorage, Readable
<1>4. CASE ReturnIndex
  <2>2. \A r \in kept : r[1] \in Units
    BY DEF Sound, TypeOK, Records
  <2> QED BY <2>2, <1>4, FindableLasts DEF ReturnIndex, At, aroundVars, Sound, TypeOK, Held
<1>5. CASE CopyFile
  BY <1>5, FindableLasts DEF CopyFile, NextToCopy, At, diskVars, aroundVars, Unit, InStorage, Readable
<1>6. CASE ArchiveReport
  BY <1>6, FindableLasts DEF ArchiveReport, At, Recorded, Refused, Spend, Goes, diskVars, aroundVars, Unit, InStorage, Readable
<1>7. CASE ArchiveUndo
  <2>1. Unit \in Units /\ state[Unit] \notin Held /\ move.files \subseteq InStorage
    BY <1>7 DEF ArchiveUndo, At, Sound, TypeOK, Moves, Archiving, Unit
  <2> QED BY <2>1, <1>7, FindableLasts DEF ArchiveUndo, Forgets, aroundVars, InStorage, Of
<1>8. CASE ArchiveIndex
  <2>1. Unit \in Units /\ state[Unit] \notin Held
    BY <1>8 DEF ArchiveIndex, At, Sound, TypeOK, Moves, Archiving, Unit
  <2>2. \A r \in kept : r[1] \in Units
    BY DEF Sound, TypeOK, Records
  <2> QED BY <2>1, <2>2, <1>8, FindableLasts DEF ArchiveIndex, aroundVars, Sound, TypeOK
<1>9. CASE Remove
  <2>1. PICK r \in InStorage : storage' = storage \ {r}
    BY <1>9 DEF Remove
  <2>2. <<Unit, "deleted">> \in told \/ (state[Unit] \in Held /\ r \in files[Unit] \cap archive)
    <3>1. move.op \in {"archive", "delete"} /\ Unit \in Units
      BY <1>9 DEF Remove, Sound, TypeOK, Moves, Removing, Unit
    <3>2. CASE move.op = "delete"
      BY <3>2, <1>9 DEF Remove, Sound, Deleting
    <3>3. CASE move.op = "archive"
      <4>1. state[Unit] \in Held
        BY <3>3, <1>9 DEF Remove, Sound, Archiving
      <4> QED BY <2>1, <3>1, <4>1 DEF Sound, Settled, InStorage
    <3> QED BY <3>1, <3>2, <3>3
  <2>3. r[1] = Unit
    BY <2>1 DEF InStorage, Of
  <2> QED BY <2>1, <2>2, <2>3, <1>9 DEF Remove, aroundVars, Sound, Findable
<1>10. CASE RestoreReport
  BY <1>10, FindableLasts DEF RestoreReport, At, Recorded, Refused, Spend, Goes, diskVars, aroundVars, Unit, InStorage, Readable
<1>11. CASE RestoreIndex
  <2>2. \A r \in kept : r[1] \in Units
    BY DEF Sound, TypeOK, Records
  <2> QED BY <2>2, <1>11, FindableLasts DEF RestoreIndex, At, aroundVars, Sound, TypeOK, Held
<1>12. CASE DeleteReport
  BY <1>12, FindableLasts DEF DeleteReport, Deletable, Ready, At, Recorded, Refused, Spend, Ends, diskVars, aroundVars, Unit, InStorage, Readable
<1>13. CASE Forget
  <2>1. <<Unit, "deleted">> \in told /\ \A r \in move.files : r[1] = Unit
    BY <1>13 DEF Forget, At, Sound, Deleting
  <2> QED BY <2>1, <1>13, FindableLasts DEF Forget, Forgets, aroundVars
<1>14. CASE DeleteIndex
  <2>1. <<Unit, "deleted">> \in told /\ Unit \in Units
    BY <1>14 DEF DeleteIndex, Cleared, At, Sound, TypeOK, Moves, Deleting, Unit
  <2>2. \A r \in kept : r[1] \in Units
    BY DEF Sound, TypeOK, Records
  <2> QED BY <2>1, <2>2, <1>14, FindableLasts DEF DeleteIndex, aroundVars, Sound, TypeOK
<1>15. CASE CopyFails
  BY <1>15, FindableLasts DEF CopyFails, aroundVars
<1> QED BY Footprint, <1>1, <1>2, <1>3, <1>4, <1>5, <1>6, <1>7, <1>8, <1>9, <1>10, <1>11, <1>12,
           <1>13, <1>14, <1>15

\* It all holds from the beginning on.
LEMMA SoundAlways ==
    ASSUME Timely
    PROVE  Spec => []Sound
<1>1. Init => Sound
  BY MoverAssumption
  DEF MoverAssumption, Init, Sound, TypeOK, Past, Settled, FilesOwn, TendsPast, ReturnsHeld, Archiving,
      Restoring, Deleting, Removing, Findable, Held
<1>2. Sound /\ [Next]_vars => TypeOK'
  BY TypeStep DEF Sound
<1>3. Sound /\ [Next]_vars => Sound'
  BY <1>2, SettledStep, FilesOwnStep, TendsPastStep, ReturnsHeldStep, ArchivingStep, RestoringStep,
     DeletingStep, RemovingStep, FindableStep
  DEF Sound, Steady
<1> QED BY <1>1, <1>3, PTL DEF Spec

\* Where records are kept in time, none is lost: it is in storage, or the index
\* leads to it in the archive, or its unit was said deleted, over any number of
\* crashes and failed reports.
THEOREM NothingLost ==
    ASSUME Timely
    PROVE  Spec => []Findable
BY SoundAlways, PTL DEF Sound

-----------------------------------------------------------------------------
(* The archive stays within its bound, however late a record is kept. *)

\* A unit on its way to the archive, whose files are counted with it.
OnItsWay == move # None /\ move.op = "archive" /\ move.at \in {"copy", "index"}

\* Files are their unit's own, those on their way too.
OwnFiles == FilesOwn /\ (OnItsWay => \A r \in move.files : r[1] = Unit)

\* What the index leads to, and what is on its way, is within the bound.
Within ==
    Most # 0 =>
        /\ Cardinality(Used) <= Most
        /\ OnItsWay => Cardinality(Used) + Cardinality(move.files) <= Most

Bounded == Steady /\ OwnFiles /\ Within

\* Sets of records are finite.
LEMMA FewRecords ==
    ASSUME NEW S \in SUBSET Records
    PROVE  IsFiniteSet(S) /\ Cardinality(S) \in Nat
<1>1. IsFiniteSet(Units) /\ IsFiniteSet(Numbers)
  BY MoverAssumption, FS_Interval DEF MoverAssumption, Units, Numbers
<1>2. IsFiniteSet(Records)
  BY <1>1, FS_Product DEF Records
<1> QED BY <1>2, FS_Subset, FS_CardinalityType

\* What is on its way was so before, with the same files, or is taken now.
LEMMA WayStep ==
    ASSUME TypeOK, [Next]_vars, OnItsWay'
    PROVE  CopyOut \/ (OnItsWay /\ move'.files = move.files /\ move'.unit = move.unit)
<1>1. CASE UNCHANGED move
  BY <1>1 DEF OnItsWay
<1>2. move' # None /\ move'.op = "archive" /\ move'.at \in {"copy", "index"}
  BY DEF OnItsWay
<1>3. CASE (\E u \in Units, op \in {"restore", "delete"} : Ask(op, u)) \/ Beat
          \/ (TendNext /\ ~UNCHANGED move)
  BY <1>2, <1>3 DEF Ask, TendNext, Beat, Begin
<1>4. CASE Crash \/ ReturnEnds \/ ArchiveRefused \/ ArchiveUndone \/ RestoreRefused \/ RestoreUndone
          \/ Answer \/ DeleteRefused
  BY <1>2, <1>4 DEF Crash, ReturnEnds, ArchiveRefused, ArchiveUndone, RestoreRefused, RestoreUndone, Answer,
         DeleteRefused, Ends
<1>5. CASE ReturnReport \/ ReturnIndex
  <2>1. move \in Moves /\ move.at \in {"due", "returned"}
    BY <1>5 DEF ReturnReport, ReturnIndex, TypeOK
  <2>2. move'.at \in {"due", "returned"}
    BY <1>5, <2>1 DEF ReturnReport, ReturnIndex, Moves
  <2> QED BY <1>2, <2>2
<1>6. CASE ArchiveAgain \/ CopyFails \/ ArchiveUndo \/ ArchiveIndex \/ RestoreAgain \/ CopyBack \/ Replace
          \/ RestoreIndex \/ Forgotten
  BY <1>2, <1>6 DEF ArchiveAgain, ArchivedAlready, CopyFails, ArchiveUndo, Forgets, ArchiveIndex, RestoreAgain,
         RestoredAlready, CopyBack, Restorable, Replace, RestoreIndex, Forgotten, Ready, At, Goes, TypeOK, Moves
<1>7. CASE ArchiveReport
  BY <1>2, <1>7 DEF ArchiveReport, At, Goes, OnItsWay, TypeOK, Moves
<1>8. CASE Remove
  BY <1>2, <1>8 DEF Remove, OnItsWay
<1>9. CASE RestoreReport
  BY <1>2, <1>9 DEF RestoreReport, At, Goes, TypeOK, Moves
<1>10. CASE DeleteReport \/ Forget \/ DeleteIndex
  <2>1. CASE DeleteReport
    BY <1>2, <2>1 DEF DeleteReport, Deletable, Ready, At, Ends, TypeOK, Moves
  <2>2. CASE Forget
    BY <1>2, <2>2 DEF Forget, Forgets, At, TypeOK, Moves
  <2>3. CASE DeleteIndex
    <3>1. move \in Moves /\ move.op = "delete"
      BY <2>3 DEF DeleteIndex, Cleared, At, TypeOK
    <3>2. move' = None \/ move'.op = "delete"
      BY <2>3, <3>1 DEF DeleteIndex, Ends, Goes, Moves
    <3> QED BY <1>2, <3>2
  <2> QED BY <1>10, <2>1, <2>2, <2>3
<1> QED BY Footprint, <1>1, <1>3, <1>4, <1>5, <1>6, <1>7, <1>8, <1>9, <1>10

\* The files indexed, and those on their way, stay their unit's own.
LEMMA OwnFilesStep ==
    ASSUME Bounded, [Next]_vars
    PROVE  OwnFiles'
<1> USE DEF Bounded, Steady
<1>1. FilesOwn'
  <2>1. CASE UNCHANGED files
    BY <2>1 DEF OwnFiles, FilesOwn
  <2>2. CASE ArchiveIndex
    <3>1. files' = [files EXCEPT ![Unit] = move.files] /\ OnItsWay
      BY <2>2 DEF ArchiveIndex, At, OnItsWay
    <3> QED BY <3>1 DEF OwnFiles, FilesOwn, TypeOK
  <2> QED BY Footprint, <2>1, <2>2
<1>2. ASSUME OnItsWay' PROVE \A r \in move'.files : r[1] = Unit'
  <2>1. CASE CopyOut
    <3>1. move'.files = InStorage /\ move'.unit = Unit
      BY <2>1 DEF CopyOut, Archivable, Ready, At, TypeOK, Moves, Unit
    <3> QED BY <3>1 DEF InStorage, Of, Unit
  <2>2. CASE OnItsWay /\ move'.files = move.files /\ move'.unit = move.unit
    BY <2>2 DEF OwnFiles, Unit
  <2> QED BY <1>2, <2>1, <2>2, WayStep
<1> QED BY <1>1, <1>2 DEF OwnFiles

\* Only a unit archived adds to what the index leads to.
LEMMA UsedStep ==
    ASSUME Bounded, [Next]_vars
    PROVE  /\ ArchiveIndex => Used' \subseteq Used \cup move.files
           /\ ~ArchiveIndex => Used' \subseteq Used
<1> USE DEF Bounded, Steady
<1>1. CASE ArchiveIndex
  BY <1>1 DEF ArchiveIndex, At, Used, Records, Unit, TypeOK, Moves, Held
<1>2. ASSUME ~ArchiveIndex PROVE Used' \subseteq Used
  <2>1. UNCHANGED files
    BY <1>2, Footprint
  <2>2. SUFFICES ASSUME NEW u \in Units, state'[u] \in Held PROVE state[u] \in Held
    BY <2>1 DEF Used, Records
  <2>3. CASE UNCHANGED state
    BY <2>2, <2>3
  <2>4. CASE ReturnIndex
    BY <2>2, <2>4 DEF ReturnIndex, ReturnsHeld, TypeOK, Moves
  <2>5. CASE RestoreIndex
    BY <2>2, <2>5 DEF RestoreIndex, At, Restoring, TypeOK, Moves, Unit
  <2>6. CASE DeleteIndex
    BY <2>2, <2>6 DEF DeleteIndex, Held, TypeOK
  <2> QED BY Footprint, <1>2, <2>3, <2>4, <2>5, <2>6
<1> QED BY <1>1, <1>2

\* The bound is looked at before a unit is copied, and the lock is held until
\* the index has it.
LEMMA WithinStep ==
    ASSUME Bounded, [Next]_vars
    PROVE  Within'
<1> USE DEF Bounded, Steady
<1> SUFFICES ASSUME Most # 0 PROVE Within'
  BY DEF Within
<1>1. Most \in Nat /\ Used \in SUBSET Records /\ Used' \in SUBSET Records
  BY MoverAssumption DEF MoverAssumption, Used, Records
<1>2. Cardinality(Used') <= Most
  <2>1. CASE ArchiveIndex
    <3>1. OnItsWay /\ move.files \in SUBSET Records
      BY <2>1 DEF ArchiveIndex, At, OnItsWay, TypeOK, Moves
    <3>2. Cardinality(Used \cup move.files) <= Cardinality(Used) + Cardinality(move.files)
      <4>1. Cardinality(Used \cap move.files) \in Nat
        BY <1>1, FewRecords
      <4>2. /\ IsFiniteSet(Used) /\ IsFiniteSet(move.files)
            /\ Cardinality(Used) \in Nat /\ Cardinality(move.files) \in Nat
        BY <1>1, <3>1, FewRecords
      <4>3. Cardinality(Used \cup move.files)
              = Cardinality(Used) + Cardinality(move.files) - Cardinality(Used \cap move.files)
        BY <4>2, FS_Union
      <4> QED BY <4>1, <4>2, <4>3
    <3>3. Used \cup move.files \in SUBSET Records /\ Used' \subseteq Used \cup move.files
      BY <1>1, <3>1, <2>1, UsedStep
    <3>4. Cardinality(Used') <= Cardinality(Used \cup move.files)
      BY <3>3, FewRecords, FS_Subset
    <3> QED BY <1>1, <3>1, <3>2, <3>3, <3>4, FewRecords DEF Within
  <2>2. CASE ~ArchiveIndex
    <3>1. Cardinality(Used') <= Cardinality(Used)
      BY <1>1, <2>2, UsedStep, FewRecords, FS_Subset
    <3> QED BY <1>1, <3>1, FewRecords DEF Within
  <2> QED BY <2>1, <2>2
<1>3. ASSUME OnItsWay' PROVE Cardinality(Used') + Cardinality(move'.files) <= Most
  <2>1. ~ArchiveIndex
    BY <1>3 DEF ArchiveIndex, At, Goes, OnItsWay, TypeOK, Moves
  <2>2. Cardinality(Used') <= Cardinality(Used)
    BY <1>1, <2>1, UsedStep, FewRecords, FS_Subset
  <2>3. CASE CopyOut
    <3>1. move'.files = InStorage /\ ~PastBound
      BY <2>3 DEF CopyOut, Archivable, Ready, At, TypeOK, Moves
    <3>2. InStorage \in SUBSET Records
      BY DEF InStorage, Of, TypeOK
    <3> QED BY <1>1, <2>2, <3>1, <3>2, FewRecords DEF PastBound
  <2>4. CASE OnItsWay /\ move'.files = move.files
    <3>1. move.files \in SUBSET Records
      BY <2>4 DEF OnItsWay, TypeOK, Moves
    <3> QED BY <1>1, <2>2, <2>4, <3>1, FewRecords DEF Within
  <2> QED BY <1>3, <2>3, <2>4, WayStep
<1> QED BY <1>2, <1>3 DEF Within

\* It all holds at first, and every step keeps it.
LEMMA BoundedFirst == Init => Bounded
<1> SUFFICES ASSUME Init PROVE Bounded
  OBVIOUS
<1>1. Steady /\ FilesOwn /\ ~OnItsWay
  BY MoverAssumption
  DEF MoverAssumption, Init, Steady, TypeOK, Past, ReturnsHeld, Restoring, FilesOwn, OnItsWay
<1>2. Used = {}
  BY DEF Init, Used, Records, Held
<1> QED BY <1>1, <1>2, FS_EmptySet, MoverAssumption DEF MoverAssumption, Bounded, OwnFiles, Within

LEMMA BoundedStep == Bounded /\ [Next]_vars => Bounded'
BY TypeStep, ReturnsHeldStep, RestoringStep, OwnFilesStep, WithinStep DEF Bounded, Steady

\* What the index says is in the archive stays within its bound, restored units
\* counted, for any days, bounds and settings, over any crashes and failures.
THEOREM BoundAlwaysKept == Spec => []BoundKept
<1>1. Bounded => BoundKept
  <2> SUFFICES ASSUME Bounded PROVE BoundKept
    OBVIOUS
  <2>1. UNION {files[u] : u \in {v \in Units : state[v] \in Held}} = Used
    BY DEF Bounded, Steady, TypeOK, OwnFiles, FilesOwn, Used, Records
  <2> QED BY <2>1 DEF Bounded, Within, BoundKept
<1> QED BY <1>1, BoundedFirst, BoundedStep, PTL DEF Spec

-----------------------------------------------------------------------------
(* Whoever asks a unit back is answered all of it. *)

\* No budget lets a crash, a failed report and a person's ask come together:
\* a return cut short whose report next fails leaves part of a unit readable.
Apart == \A b \in Budgets : b["crash"] = 0 \/ b["report"] = 0 \/ b["person"] = 0

\* What the index leads to is more than nothing, what is on its way there too.
Filled ==
    /\ \A u \in Units : state[u] \in Held => files[u] # {}
    /\ OnItsWay => move.files # {}

\* What is returned is past its restore period, and only a restore is answered.
Returning ==
    move # None =>
        /\ move.due \subseteq elapsed
        /\ move.at = "returned" => move.now \in move.due
        /\ move.at = "answer" => move.op = "restore"

\* A unit is deleted from the archive once its deletion is said.
SaidFirst ==
    (move # None /\ move.op = "delete" /\ move.at \in {"forget", "clear"}) => <<Unit, "deleted">> \in told

Leading == Bounded /\ Filled /\ Returning /\ SaidFirst

Whole(u) == Of(u, restored) = files[u]

\* A unit restored, of which the restore area does not have everything.
Broken(u) == state[u] = "restored" /\ ~Whole(u)

\* The move under the lock removes it from there.
Clearing(u) ==
    /\ move # None
    /\ \/ move.at = "returned" /\ move.now = u
       \/ move.op = "delete" /\ move.at = "clear" /\ Unit = u

\* It is returned before any move looks at it.
Expected(u) == u \in elapsed /\ (move # None => u \in move.due)

\* A crash cut a return or a deletion short.
Cut(b, u) == b["crash"] > 0 /\ (<<u, "deleted">> \in told \/ Expected(u))

\* What is left is within a budget.
Affords(b) == \A m \in Mishaps : left[m] <= b[m]

Mended(b) == \A u \in Units : Broken(u) => Clearing(u) \/ Cut(b, u)

\* A unit copied back is whole until the person is answered, and what is undone
\* was not restored before.
Back(b) ==
    (move # None /\ move.op = "restore") =>
        /\ move.at \in {"report", "index"} => Whole(Unit)
        /\ move.at = "answer" => Whole(Unit) \/ (b["crash"] > 0 /\ <<Unit, "deleted">> \in told)
        /\ (move.at \in {"target", "report", "undo"} /\ b["crash"] = 0) => state[Unit] # "restored"
        /\ move.at = "undo" => b["report"] > 0

\* Where nobody asks, nothing is restored.
Unasked(b) ==
    b["person"] = 0 => (\A u \in Units : state[u] # "restored") /\ (move # None => move.op # "restore")

Spared(b) == Affords(b) /\ Mended(b) /\ Back(b) /\ Unasked(b)

\* A move takes the lock.
Begun ==
    /\ move = None
    /\ move'.at = "due" /\ move'.due = Due
    /\ move'.op = "restore" => left["person"] > 0

\* A move lets go of the lock, in the midst of removing only where the process
\* dies.
Released ==
    /\ move' = None
    /\ Crash \/ DeleteIndex \/ (move # None /\ move.at \notin {"returned", "clear"})

\* A move under the lock goes on.
Stays == move # None /\ move'.op = move.op /\ move'.unit = move.unit

\* It returns what is due.
DueTurn ==
    /\ Stays
    /\ \/ /\ ReturnReport /\ move.at = "due"
          /\ \E v \in move.due :
              \/ move'.at = "returned" /\ move'.now = v /\ move'.due = move.due
              \/ move'.at = "due" /\ move'.due = move.due \ {v} /\ left["report"] > 0
       \/ ReturnIndex /\ move.at = "returned" /\ move'.at = "due" /\ move'.due = move.due \ {move.now}

ArchiveTurn ==
    /\ move.op = "archive"
    /\ \/ ArchiveAgain /\ move'.at = "remove"
       \/ CopyOut /\ move'.at = "copy"
       \/ CopyFails /\ move'.at = "undo"
       \/ ArchiveReport /\ move'.at \in {"index", "undo"}
       \/ ArchiveUndo /\ move'.at = "undo"
       \/ ArchiveIndex /\ move'.at = "remove"

RestoreTurn ==
    /\ move.op = "restore"
    /\ \/ RestoreAgain /\ move.at = "due" /\ move'.at = "answer"
       \/ CopyBack /\ move.at = "due" /\ move'.at = "target"
       \/ Replace /\ move.at = "target" /\ move'.at = "report"
       \/ RestoreReport /\ move.at = "report" /\ move'.at = "index"
       \/ RestoreReport /\ move.at = "report" /\ move'.at = "undo" /\ left["report"] > 0
       \/ RestoreIndex /\ move.at = "index" /\ move'.at = "answer"

DeleteTurn ==
    /\ move.op = "delete"
    /\ \/ DeleteReport /\ move.at = "due" /\ move'.at = "forget" /\ <<Unit, "deleted">> \in told'
       \/ DeleteReport /\ move.at = "due" /\ move'.at = "index"
       \/ Forget /\ move.at = "forget" /\ move'.at = "forget"
       \/ Forgotten /\ move.at = "forget" /\ move'.at = "clear"
       \/ DeleteIndex /\ move.at = "index" /\ move'.at = "remove"

\* It is worked, once nothing is due.
WorkTurn ==
    /\ Stays /\ move.due = {} /\ move'.due = {} /\ move.at # "returned"
    /\ ArchiveTurn \/ RestoreTurn \/ DeleteTurn

\* How a step moves the move under the lock.
LEMMA Turns ==
    ASSUME Steady, [Next]_vars
    PROVE  UNCHANGED move \/ Released \/ Begun \/ DueTurn \/ WorkTurn
<1> USE DEF Steady
<1>1. CASE Crash \/ ReturnEnds \/ ArchiveRefused \/ ArchiveUndone \/ RestoreRefused \/ RestoreUndone
          \/ Answer \/ DeleteRefused
  BY <1>1 DEF Crash, ReturnEnds, ArchiveRefused, ArchiveUndone, RestoreRefused, RestoreUndone, Answer,
         DeleteRefused, Ends, Ready, At, Released
<1>2. CASE Remove
  BY <1>2 DEF Remove, Released
<1>3. ASSUME NEW op \in {"restore", "delete"}, NEW u \in Units, Ask(op, u) PROVE Begun
  BY <1>3 DEF Ask, Begin, Begun, Spend, TypeOK, Moves
<1>4. CASE TendNext
  BY <1>4 DEF TendNext, Begin, Begun, TypeOK, Moves
<1>21. CASE ArchiveUndo
  BY <1>21 DEF ArchiveUndo, Forgets, At, WorkTurn, Stays, ArchiveTurn, ReturnsHeld, TypeOK, Moves
<1>5. CASE Beat
  BY <1>5 DEF Beat, Begin, Begun, TypeOK, Moves
<1>6. CASE ReturnReport
  <2>1. PICK v \in move.due :
            \/ move' = [move EXCEPT !.at = "returned", !.now = v]
            \/ move' = [move EXCEPT !.due = move.due \ {v}] /\ left["report"] > 0
    BY <1>6 DEF ReturnReport, Refused, Spend
  <2>2. move # None /\ move \in Moves /\ move.at = "due"
    BY <1>6 DEF ReturnReport, TypeOK
  <2>3. CASE move' = [move EXCEPT !.at = "returned", !.now = v]
    <3>1. /\ move'.at = "returned" /\ move'.now = v /\ move'.due = move.due
          /\ move'.op = move.op /\ move'.unit = move.unit /\ move' \in Moves
      BY <2>2, <2>3, TypeStep DEF Moves, TypeOK
    <3> QED BY <2>2, <3>1, <1>6 DEF DueTurn, Stays
  <2>4. CASE move' = [move EXCEPT !.due = move.due \ {v}] /\ left["report"] > 0
    <3>1. /\ move'.at = "due" /\ move'.due = move.due \ {v}
          /\ move'.op = move.op /\ move'.unit = move.unit
      BY <2>2, <2>4 DEF Moves
    <3>2. \E w \in move.due : move'.at = "due" /\ move'.due = move.due \ {w} /\ left["report"] > 0
      BY <2>4, <3>1
    <3> QED BY <2>2, <3>1, <3>2, <1>6 DEF DueTurn, Stays
  <2> QED BY <2>1, <2>3, <2>4
<1>7. CASE ArchiveAgain
  BY <1>7 DEF ArchiveAgain, ArchivedAlready, Goes, Ready, At, Released, WorkTurn, Stays, ArchiveTurn, ReturnsHeld, TypeOK, Moves, Unit
<1>8. CASE CopyOut
  BY <1>8 DEF CopyOut, Archivable, Ready, At, Of, Released, WorkTurn, Stays, ArchiveTurn, ReturnsHeld, TypeOK, Moves, Unit
<1>9. CASE CopyFails
  BY <1>9 DEF CopyFails, NextToCopy, At, Spend, Released, WorkTurn, Stays, ArchiveTurn, ReturnsHeld, TypeOK, Moves, Unit
<1>10. CASE ArchiveReport
  BY <1>10 DEF ArchiveReport, At, Recorded, Refused, Spend, Goes, Released, WorkTurn, Stays, ArchiveTurn, ReturnsHeld, TypeOK, Moves, Unit
<1>11. CASE ArchiveIndex
  BY <1>11 DEF ArchiveIndex, At, Goes, Released, WorkTurn, Stays, ArchiveTurn, ReturnsHeld, TypeOK, Moves, Unit
<1>12. CASE RestoreAgain
  BY <1>12 DEF RestoreAgain, RestoredAlready, Ready, At, Goes, Released, WorkTurn, Stays, RestoreTurn, ReturnsHeld, TypeOK, Moves, Unit
<1>13. CASE CopyBack \/ Replace
  BY <1>13 DEF CopyBack, Replace, Restorable, Ready, At, Goes, Released, WorkTurn, Stays, RestoreTurn, ReturnsHeld, TypeOK, Moves, Unit
<1>14. CASE RestoreReport
  BY <1>14 DEF RestoreReport, At, Recorded, Refused, Spend, Goes, Released, WorkTurn, Stays, RestoreTurn, ReturnsHeld, TypeOK, Moves, Unit
<1>15. CASE RestoreIndex
  BY <1>15 DEF RestoreIndex, At, Goes, Released, WorkTurn, Stays, RestoreTurn, ReturnsHeld, TypeOK, Moves, Unit
<1>16. CASE DeleteReport
  BY <1>16 DEF DeleteReport, Deletable, Ready, At, Recorded, Refused, Spend, Ends, Released, WorkTurn, Stays, DeleteTurn, ReturnsHeld, TypeOK, Moves, Unit
<1>17. CASE Forget
  BY <1>17 DEF Forget, Forgets, At, Spend, Released, WorkTurn, Stays, DeleteTurn, ReturnsHeld, TypeOK, Moves, Unit
<1>18. CASE Forgotten
  BY <1>18 DEF Forgotten, At, Goes, Released, WorkTurn, Stays, DeleteTurn, ReturnsHeld, TypeOK, Moves, Unit
<1>19. CASE DeleteIndex
  BY <1>19 DEF DeleteIndex, Cleared, At, Ends, Goes, Released, WorkTurn, Stays, DeleteTurn, ReturnsHeld, TypeOK, Moves, Unit
<1>20. CASE ReturnIndex
  BY <1>20 DEF ReturnIndex, DueTurn, Stays, TypeOK, Moves
<1> QED BY Footprint, <1>1, <1>2, <1>3, <1>4, <1>5, <1>6, <1>7, <1>8, <1>9, <1>10, <1>11, <1>12,
           <1>13, <1>14, <1>15, <1>16, <1>17, <1>18, <1>19, <1>20, <1>21

\* What the index leads to stays more than nothing.
LEMMA FilledStep ==
    ASSUME Bounded, Filled, [Next]_vars
    PROVE  Filled'
<1> USE DEF Bounded, Steady
<1>1. ASSUME NEW u \in Units, state'[u] \in Held PROVE files'[u] # {}
  <2>1. CASE UNCHANGED <<state, files>>
    BY <1>1, <2>1 DEF Filled
  <2>2. CASE ArchiveIndex
    <3>1. files' = [files EXCEPT ![Unit] = move.files] /\ OnItsWay
      BY <2>2 DEF ArchiveIndex, At, OnItsWay
    <3>2. state' = [state EXCEPT ![Unit] = "archived"]
      BY <2>2 DEF ArchiveIndex
    <3> QED BY <1>1, <3>1, <3>2 DEF Filled, TypeOK
  <2>3. CASE ReturnIndex
    BY <1>1, <2>3 DEF ReturnIndex, ReturnsHeld, Filled, TypeOK, Moves
  <2>4. CASE RestoreIndex
    BY <1>1, <2>4 DEF RestoreIndex, At, Restoring, Filled, TypeOK, Moves, Unit
  <2>5. CASE DeleteIndex
    BY <1>1, <2>5 DEF DeleteIndex, Held, Filled, TypeOK
  <2>6. UNCHANGED files \/ ArchiveIndex
    BY Footprint
  <2>7. UNCHANGED state \/ ReturnIndex \/ ArchiveIndex \/ RestoreIndex \/ DeleteIndex
    BY Footprint
  <2> QED BY <2>1, <2>2, <2>3, <2>4, <2>5, <2>6, <2>7
<1>2. ASSUME OnItsWay' PROVE move'.files # {}
  <2>1. CASE CopyOut
    BY <2>1 DEF CopyOut, Archivable, Ready, At, TypeOK, Moves
  <2>2. CASE OnItsWay /\ move'.files = move.files
    BY <2>2 DEF Filled
  <2> QED BY <1>2, <2>1, <2>2, WayStep
<1> QED BY <1>1, <1>2 DEF Filled

\* What is due stays past its restore period while it is returned.
LEMMA ReturningStep ==
    ASSUME Steady, Returning, [Next]_vars
    PROVE  Returning'
<1>1. elapsed \subseteq elapsed' \/ RestoreIndex
  BY Footprint DEF Elapse
<1>2. CASE UNCHANGED move
  <2>1. ~RestoreIndex \/ move.due = {}
    BY DEF RestoreIndex, At, Steady, ReturnsHeld
  <2> QED BY <1>1, <1>2, <2>1 DEF Returning
<1>3. CASE Released
  BY <1>3 DEF Released, Returning
<1>4. CASE Begun
  <2>1. ~RestoreIndex
    BY <1>4 DEF Begun, RestoreIndex, At
  <2> QED BY <1>1, <1>4, <2>1 DEF Begun, Returning, Due
<1>5. CASE DueTurn
  <2>1. ~RestoreIndex
    BY <1>5 DEF DueTurn, RestoreIndex, At
  <2> QED BY <1>1, <1>5, <2>1 DEF DueTurn, Stays, Returning
<1>6. CASE WorkTurn
  BY <1>6 DEF WorkTurn, Stays, ArchiveTurn, RestoreTurn, DeleteTurn, Returning
<1> QED BY <1>2, <1>3, <1>4, <1>5, <1>6, Turns

\* What is said stays said.
LEMMA ToldStays ==
    ASSUME [Next]_vars
    PROVE  told \subseteq told'
<1>1. ASSUME NEW u, NEW outcome, Recorded(u, outcome) \/ Refused(u, outcome) PROVE told \subseteq told'
  BY <1>1 DEF Recorded, Refused
<1>2. CASE ReturnReport
  BY <1>1, <1>2 DEF ReturnReport
<1>3. CASE ArchiveReport
  BY <1>1, <1>3 DEF ArchiveReport
<1>4. CASE RestoreReport
  BY <1>1, <1>4 DEF RestoreReport
<1>5. CASE DeleteReport
  BY <1>1, <1>5 DEF DeleteReport
<1> QED BY Footprint, <1>2, <1>3, <1>4, <1>5

\* A deletion is said before anything is removed.
LEMMA SaidFirstStep ==
    ASSUME Steady, SaidFirst, [Next]_vars
    PROVE  SaidFirst'
<1>1. CASE UNCHANGED move
  BY <1>1, ToldStays DEF SaidFirst, Unit
<1>2. CASE Released
  BY <1>2 DEF Released, SaidFirst
<1>3. CASE Begun \/ DueTurn
  BY <1>3 DEF Begun, DueTurn, SaidFirst
<1>4. CASE WorkTurn
  BY <1>4, ToldStays DEF WorkTurn, Stays, ArchiveTurn, RestoreTurn, DeleteTurn, SaidFirst, Unit
<1> QED BY <1>1, <1>2, <1>3, <1>4, Turns

\* What is left only lessens.
LEMMA AffordsStep ==
    ASSUME TypeOK, NEW b \in Budgets, Affords(b), [Next]_vars
    PROVE  Affords(b)'
<1>1. ASSUME NEW m \in Mishaps, Spend(m) PROVE Affords(b)'
  BY <1>1, MoverAssumption DEF MoverAssumption, TypeOK, Affords, Spend
<1>2. ASSUME UNCHANGED left PROVE Affords(b)'
  BY <1>2 DEF Affords
<1>3. ASSUME NEW u, NEW outcome, Recorded(u, outcome) \/ Refused(u, outcome) PROVE Affords(b)'
  BY <1>1, <1>2, <1>3 DEF Recorded, Refused, Mishaps
<1>4. CASE (\E u \in Units, op \in {"restore", "delete"} : Ask(op, u))
  BY <1>1, <1>4 DEF Ask, Mishaps
<1>5. CASE (\E choice \in Choices : Choose(choice))
  BY <1>1, <1>5 DEF Choose, Mishaps
<1>6. CASE Crash \/ CopyFails
  BY <1>1, <1>6 DEF Crash, CopyFails, Mishaps
<1>7. CASE ReturnReport
  BY <1>3, <1>7 DEF ReturnReport
<1>8. CASE ArchiveReport
  BY <1>3, <1>8 DEF ArchiveReport
<1>9. CASE RestoreReport
  BY <1>3, <1>9 DEF RestoreReport
<1>10. CASE DeleteReport
  BY <1>3, <1>10 DEF DeleteReport
<1>11. CASE ArchiveUndo \/ Forget
  BY <1>1, <1>2, <1>11 DEF ArchiveUndo, Forget, Forgets, Mishaps
<1> QED BY Footprint, <1>2, <1>4, <1>5, <1>6, <1>7, <1>8, <1>9, <1>10, <1>11

\* What is left of a budget that has none is none.
LEMMA NoneLeft ==
    ASSUME TypeOK, NEW b \in Budgets, Affords(b), NEW m \in Mishaps, left[m] > 0
    PROVE  b[m] > 0
BY MoverAssumption DEF MoverAssumption, TypeOK, Affords

\* A unit is restored by a restore.
LEMMA RestoredBy ==
    ASSUME TypeOK, [Next]_vars, NEW u \in Units, state'[u] = "restored"
    PROVE  state[u] = "restored" \/ (RestoreIndex /\ Unit = u)
BY Footprint DEF ReturnIndex, ArchiveIndex, RestoreIndex, DeleteIndex, TypeOK

\* Where nobody asks, nothing is restored.
LEMMA UnaskedStep ==
    ASSUME Steady, NEW b \in Budgets, Affords(b), Unasked(b), [Next]_vars
    PROVE  Unasked(b)'
<1> SUFFICES ASSUME b["person"] = 0
             PROVE  (\A u \in Units : state'[u] # "restored") /\ (move' # None => move'.op # "restore")
  BY DEF Unasked
<1>1. ~RestoreIndex
  BY DEF RestoreIndex, At, Unasked
<1>2. \A u \in Units : state'[u] # "restored"
  BY <1>1, RestoredBy DEF Steady, Unasked
<1>3. CASE Begun
  <2>1. ~(left["person"] > 0)
    BY NoneLeft, MoverAssumption DEF MoverAssumption, Steady, Mishaps
  <2> QED BY <1>2, <1>3, <2>1 DEF Begun
<1>4. CASE UNCHANGED move \/ Released \/ DueTurn \/ WorkTurn
  BY <1>2, <1>4 DEF Released, DueTurn, WorkTurn, Stays, Unasked
<1> QED BY <1>3, <1>4, Turns

\* A unit copied back is whole.
LEMMA CopiedWhole ==
    ASSUME Bounded, Replace
    PROVE  Of(Unit, restored') = files[Unit] /\ \A u \in Units \ {Unit} : Of(u, restored') = Of(u, restored)
<1>1. Unit \in Units /\ files[Unit] \subseteq archive /\ Readable = {}
  BY DEF Replace, At, Bounded, Steady, Restoring, TypeOK, Moves, Unit
<1>2. \A r \in files[Unit] : r[1] = Unit
  BY <1>1 DEF Bounded, OwnFiles, FilesOwn
<1>3. restored' = restored \cup files[Unit]
  BY <1>1 DEF Replace
<1> QED BY <1>1, <1>2, <1>3 DEF Of, Readable

\* What the restore area has of a unit, and what it should, change in few ways.
LEMMA WholeStays ==
    ASSUME Bounded, [Next]_vars, NEW u \in Units,
           ~(ReturnClear /\ move.now = u), ~(RestoreUndo /\ Unit = u), ~(DeleteClear /\ Unit = u),
           ~(ClearTarget /\ Unit = u), ~(Replace /\ Unit = u)
    PROVE  Of(u, restored') = Of(u, restored)
<1>1. ASSUME NEW v \in Units, v # u, Clear(v) PROVE Of(u, restored') = Of(u, restored)
  BY <1>1 DEF Clear, Of
<1>2. move # None => Unit \in Units /\ move.now \in Units
  BY DEF Bounded, Steady, TypeOK, Moves, Unit
<1>3. CASE ReturnClear
  BY <1>1, <1>2, <1>3 DEF ReturnClear
<1>4. CASE RestoreUndo
  BY <1>1, <1>2, <1>4 DEF RestoreUndo, At
<1>5. CASE DeleteClear
  BY <1>1, <1>2, <1>5 DEF DeleteClear, At
<1>6. CASE Replace
  BY <1>6, CopiedWhole
<1>7. CASE ClearTarget
  BY <1>1, <1>2, <1>7 DEF ClearTarget, At
<1>8. CASE UNCHANGED restored
  BY <1>8
<1> QED BY Footprint, <1>3, <1>4, <1>5, <1>6, <1>7, <1>8

\* What a unit was archived as changes as it is archived.
LEMMA FilesStay ==
    ASSUME TypeOK, [Next]_vars, NEW u \in Units, ~(ArchiveIndex /\ Unit = u)
    PROVE  files'[u] = files[u]
BY Footprint DEF ArchiveIndex, TypeOK

\* A unit copied back stays whole until the person is answered.
LEMMA BackStep ==
    ASSUME Leading, NEW b \in Budgets, Spared(b), [Next]_vars
    PROVE  Back(b)'
<1> USE DEF Leading, Bounded, Steady, Spared
<1>1. CASE UNCHANGED move /\ move # None /\ move.op = "restore" /\ move.at \in {"target", "report", "index", "answer", "undo"}
  <2>1. /\ Unit \in Units /\ Unit' = Unit
        /\ ~ReturnClear /\ ~DeleteClear /\ ~Replace /\ ~ArchiveIndex
    BY <1>1 DEF TypeOK, Moves, Unit, ReturnClear, DeleteClear, Replace, At, Goes, ArchiveIndex
  <2>2. (RestoreUndo => move.at = "undo") /\ (ClearTarget => move.at = "target")
    BY DEF RestoreUndo, ClearTarget, At
  <2>3. move.at \notin {"target", "undo"} => Whole(Unit)' = Whole(Unit)
    BY <2>1, <2>2, WholeStays, FilesStay DEF Whole
  <2>4. RestoreIndex => move.at = "index"
    BY DEF RestoreIndex, At
  <2>5. (move.at \in {"target", "report", "undo"} /\ b["crash"] = 0) => state'[Unit] # "restored"
    BY <1>1, <2>1, <2>4, RestoredBy DEF Back
  <2> QED BY <1>1, <2>1, <2>3, <2>5, ToldStays DEF Back
<1>2. CASE RestoreTurn /\ Stays /\ move.due = {}
  <2>1. Unit \in Units /\ Unit' = Unit
    BY <1>2 DEF TypeOK, Moves, Unit, Stays
  <2>2. Broken(Unit) /\ move.at = "due" => b["crash"] > 0 /\ <<Unit, "deleted">> \in told
    BY <1>2, <2>1 DEF Stays, Mended, Clearing, Cut, Expected
  <2>3. CASE RestoreAgain
    <3>1. move.at = "due" /\ move'.at = "answer" /\ state[Unit] = "restored" /\ UNCHANGED <<restored, files, told>>
      BY <2>3 DEF RestoreAgain, RestoredAlready, Ready, At, Goes, diskVars, TypeOK, Moves
    <3>2. Whole(Unit)' = Whole(Unit)
      BY <2>1, <3>1 DEF Whole, Of
    <3> QED BY <2>1, <2>2, <3>1, <3>2 DEF Back, Broken
  <2>4. CASE CopyBack
    <3>1. move.at = "due" /\ move'.at = "target" /\ UNCHANGED <<state, files>>
      BY <2>4 DEF CopyBack, Restorable, Ready, At, Goes, diskVars, TypeOK, Moves
    <3>3. state[Unit] = "restored" => Broken(Unit)
      <4>1. state[Unit] = "restored" => Readable = {}
        BY <2>4 DEF CopyBack, RestoredAlready, Restorable
      <4>2. state[Unit] = "restored" => files[Unit] # {}
        BY <2>1 DEF Filled, Held
      <4> QED BY <4>1, <4>2 DEF Broken, Whole, Readable
    <3>4. b["crash"] = 0 => state[Unit] # "restored"
      BY <2>2, <3>1, <3>3, MoverAssumption DEF MoverAssumption, Mishaps
    <3> QED BY <2>1, <3>1, <3>4 DEF Back
  <2>7. CASE Replace
    <3>1. move.at = "target" /\ move'.at = "report" /\ UNCHANGED <<state, files>>
      BY <2>7 DEF Replace, At, Goes, TypeOK, Moves
    <3>2. Whole(Unit)'
      BY <2>1, <2>7, <3>1, CopiedWhole DEF Whole
    <3> QED BY <1>2, <2>1, <3>1, <3>2 DEF Back, RestoreTurn, Stays
  <2>5. CASE RestoreReport
    <3>1. /\ move.at = "report" /\ move.op = "restore" /\ move # None
          /\ move'.at = "index" \/ (move'.at = "undo" /\ left["report"] > 0)
          /\ UNCHANGED <<state, files, restored>>
      BY <1>2, <2>5 DEF RestoreReport, RestoreTurn, At, diskVars, RestoreAgain, CopyBack, Replace, RestoreIndex,
         RestoredAlready, Restorable, Ready
    <3>2. left["report"] > 0 => b["report"] > 0
      BY NoneLeft DEF Mishaps
    <3>3. Whole(Unit)' = Whole(Unit)
      BY <2>1, <3>1 DEF Whole, Of
    <3> QED BY <2>1, <3>1, <3>2, <3>3 DEF Back
  <2>6. CASE RestoreIndex
    <3>1. /\ move.at = "index" /\ move.op = "restore" /\ move # None /\ move'.at = "answer"
          /\ UNCHANGED <<files, restored>>
      BY <2>6 DEF RestoreIndex, At, Goes, TypeOK, Moves
    <3>2. Whole(Unit)' = Whole(Unit)
      BY <2>1, <3>1 DEF Whole, Of
    <3> QED BY <2>1, <3>1, <3>2 DEF Back
  <2> QED BY <1>2, <2>3, <2>4, <2>5, <2>6, <2>7 DEF RestoreTurn
<1>3. CASE Begun \/ DueTurn \/ Released
  BY <1>3 DEF Begun, DueTurn, Released, Back
<1>4. CASE WorkTurn /\ ~RestoreTurn
  BY <1>4 DEF WorkTurn, Stays, ArchiveTurn, DeleteTurn, Back
<1>5. CASE UNCHANGED move /\ ~(move # None /\ move.op = "restore" /\ move.at \in {"target", "report", "index", "answer", "undo"})
  BY <1>5 DEF Back
<1> QED BY <1>1, <1>2, <1>3, <1>4, <1>5, Turns DEF WorkTurn

\* A unit restored breaks as it is removed from the restore area.
LEMMA Breaks ==
    ASSUME Leading, NEW b \in Budgets, Spared(b), [Next]_vars, NEW u \in Units, Broken(u)'
    PROVE  \/ Broken(u)
           \/ ReturnClear /\ move.now = u
           \/ RestoreUndo /\ Unit = u /\ state[u] = "restored"
           \/ DeleteClear /\ Unit = u
<1> USE DEF Leading, Bounded, Steady, Spared
<1> SUFFICES ASSUME ~(ReturnClear /\ move.now = u), ~(RestoreUndo /\ Unit = u /\ state[u] = "restored"),
                    ~(DeleteClear /\ Unit = u)
             PROVE  Broken(u)
  OBVIOUS
<1>1. state'[u] = "restored" /\ Of(u, restored') # files'[u]
  BY DEF Broken, Whole, Of
<1>2. ~(ArchiveIndex /\ Unit = u)
  BY <1>1 DEF ArchiveIndex, TypeOK
<1>3. files'[u] = files[u]
  BY <1>2, FilesStay
<1>4. CASE RestoreIndex /\ Unit = u
  <2>1. Whole(u) /\ UNCHANGED restored
    BY <1>4 DEF RestoreIndex, At, Back
  <2> QED BY <1>1, <1>3, <2>1 DEF Whole
<1>5. CASE ~(RestoreIndex /\ Unit = u)
  <2>1. state[u] = "restored"
    BY <1>1, <1>5, RestoredBy
  <2>2. ~(RestoreUndo /\ Unit = u)
    BY <2>1
  <2>3. ~(Replace /\ Unit = u) /\ ~(ClearTarget /\ Unit = u)
    <3>1. ~(ClearTarget /\ Unit = u)
      BY <2>1 DEF ClearTarget, At, Clear, Restoring, Readable
    <3> QED BY <1>1, <1>3, <3>1, CopiedWhole
  <2>4. Of(u, restored') = Of(u, restored)
    BY <2>2, <2>3, WholeStays
  <2> QED BY <1>1, <1>3, <2>1, <2>4 DEF Broken, Whole
<1> QED BY <1>4, <1>5

\* One that breaks is being removed, for good or until its return is done.
LEMMA MendedStep ==
    ASSUME Apart, Leading, NEW b \in Budgets, Spared(b), [Next]_vars
    PROVE  Mended(b)'
<1> USE DEF Leading, Bounded, Steady, Spared
<1> SUFFICES ASSUME NEW u \in Units, Broken(u)'
             PROVE  Clearing(u)' \/ Cut(b, u)'
  BY DEF Mended
<1>1. b \in [Mishaps -> Nat] /\ (b["crash"] = 0 \/ b["report"] = 0 \/ b["person"] = 0)
  BY MoverAssumption DEF MoverAssumption, Apart
<1>2. CASE ReturnClear /\ move.now = u
  BY <1>2 DEF ReturnClear, Clear, Clearing
<1>3. CASE DeleteClear /\ Unit = u
  BY <1>3 DEF DeleteClear, At, Clear, Clearing, Unit
<1>4. CASE RestoreUndo /\ Unit = u /\ state[u] = "restored"
  <2>1. b["report"] > 0 /\ b["crash"] # 0
    BY <1>4 DEF RestoreUndo, At, Back
  <2>2. b["person"] # 0
    BY <1>4 DEF Unasked
  <2> QED BY <1>1, <2>1, <2>2
<1>5. CASE Broken(u)
  <2>1. state[u] = "restored" /\ state'[u] = "restored" /\ (Clearing(u) \/ Cut(b, u))
    BY <1>5 DEF Broken, Mended
  <2>2. b["crash"] > 0 /\ <<u, "deleted">> \in told => Cut(b, u)'
    BY ToldStays DEF Cut
  <2>3. CASE UNCHANGED move
    <3>1. Clearing(u) => Clearing(u)'
      BY <2>3 DEF Clearing, Unit
    <3>2. Expected(u) => Expected(u)'
      <4>1. u \in elapsed' \/ u \notin elapsed \/ RestoreIndex
        BY Footprint DEF Elapse
      <4>2. RestoreIndex => move # None /\ move.due = {}
        BY DEF RestoreIndex, At, ReturnsHeld
      <4> QED BY <2>3, <4>1, <4>2 DEF Expected
    <3> QED BY <2>1, <2>2, <3>1, <3>2 DEF Cut
  <2>4. CASE Released
    <3>1. CASE Crash
      <4>1. left["crash"] > 0 /\ UNCHANGED <<elapsed, told>>
        BY <3>1 DEF Crash, Spend
      <4>2. b["crash"] > 0
        BY <4>1, NoneLeft DEF Mishaps
      <4>3. move' = None
        BY <2>4 DEF Released
      <4>4. Clearing(u) => <<u, "deleted">> \in told \/ u \in elapsed
        BY DEF Clearing, SaidFirst, Returning
      <4> QED BY <2>1, <4>1, <4>2, <4>3, <4>4 DEF Cut, Expected
    <3>2. CASE DeleteIndex
      <4>1. move # None /\ u # Unit /\ move.at \notin {"due", "returned"} /\ move.due = {}
        BY <2>1, <3>2 DEF DeleteIndex, Cleared, At, TypeOK, ReturnsHeld
      <4> QED BY <2>1, <2>2, <4>1 DEF Clearing, Cut, Expected
    <3>3. CASE ~Crash /\ move # None /\ move.at \notin {"returned", "clear"}
      <4>1. u \in elapsed => u \in elapsed' \/ move.due = {}
        BY Footprint DEF Elapse, RestoreIndex, At, ReturnsHeld
      <4>2. Expected(u) => Expected(u)'
        BY <2>4, <3>3, <4>1 DEF Released, Expected
      <4>3. ~Clearing(u)
        BY <3>3 DEF Clearing
      <4> QED BY <2>1, <2>2, <4>2, <4>3 DEF Cut
    <3> QED BY <2>4, <3>1, <3>2, <3>3 DEF Released
  <2>5. CASE Begun
    <3>1. ~Clearing(u) /\ ~RestoreIndex
      BY <2>5 DEF Begun, Clearing, RestoreIndex, At
    <3>2. elapsed \subseteq elapsed'
      BY <3>1, Footprint DEF Elapse
    <3>3. Expected(u) => Expected(u)'
      BY <2>1, <2>5, <3>2 DEF Begun, Due, Expected
    <3> QED BY <2>1, <2>2, <3>1, <3>3 DEF Cut
  <2>6. CASE DueTurn
    <3>1. move # None /\ ~RestoreIndex
      BY <2>6 DEF DueTurn, Stays, RestoreIndex, At
    <3>2. elapsed \subseteq elapsed'
      BY <3>1, Footprint DEF Elapse
    <3>3. CASE ReturnReport /\ move.at = "due"
      <4>1. ~Clearing(u)
        BY <3>3 DEF Clearing
      <4>2. b["crash"] > 0 /\ b["person"] > 0
        BY <1>1, <2>1, <4>1 DEF Cut, Unasked, Mishaps
      <4>3. ~(left["report"] > 0)
        BY <1>1, <4>2, NoneLeft DEF Mishaps
      <4>4. move'.due = move.due
        BY <2>6, <3>3, <4>3 DEF DueTurn, ReturnIndex
      <4> QED BY <2>1, <2>2, <3>1, <3>2, <4>1, <4>4 DEF Cut, Expected
    <3>4. CASE ReturnIndex /\ move.at = "returned" /\ move'.due = move.due \ {move.now}
      <4>1. u # move.now
        BY <2>1, <3>4 DEF ReturnIndex, TypeOK
      <4>2. ~Clearing(u)
        BY <3>4, <4>1 DEF Clearing
      <4> QED BY <2>1, <2>2, <3>1, <3>2, <3>4, <4>1, <4>2 DEF Cut, Expected
    <3> QED BY <2>6, <3>3, <3>4 DEF DueTurn
  <2>7. CASE WorkTurn
    <3>1. move # None /\ move.due = {} /\ ~Clearing(u)
      BY <2>7 DEF WorkTurn, Stays, ArchiveTurn, RestoreTurn, DeleteTurn, Clearing
    <3> QED BY <2>1, <2>2, <3>1 DEF Cut, Expected
  <2> QED BY <2>3, <2>4, <2>5, <2>6, <2>7, Turns
<1> QED BY <1>2, <1>3, <1>4, <1>5, Breaks

\* What leads to a whole answer, in every budget.
Led == Leading /\ \E b \in Budgets : Spared(b)

\* It holds from the beginning on.
LEMMA LedAlways ==
    ASSUME Apart
    PROVE  Spec => []Led
<1>1. Init => Led
  <2> SUFFICES ASSUME Init PROVE Led
    OBVIOUS
  <2>1. Bounded
    BY BoundedFirst
  <2>2. Filled /\ Returning /\ SaidFirst
    BY DEF Init, Filled, OnItsWay, Returning, SaidFirst, Held
  <2>3. left \in Budgets /\ left \in [Mishaps -> Nat]
    BY MoverAssumption DEF MoverAssumption, Init
  <2>4. Affords(left)
    BY <2>3 DEF Affords
  <2>5. Mended(left) /\ Back(left) /\ Unasked(left)
    BY DEF Init, Mended, Broken, Back, Unasked
  <2> QED BY <2>1, <2>2, <2>3, <2>4, <2>5 DEF Led, Leading, Spared
<1>2. Led /\ [Next]_vars => Led'
  <2> SUFFICES ASSUME Led, [Next]_vars PROVE Led'
    OBVIOUS
  <2>1. Leading'
    BY BoundedStep, FilledStep, ReturningStep, SaidFirstStep DEF Led, Leading, Bounded
  <2>2. PICK b \in Budgets : Spared(b)
    BY DEF Led
  <2>3. Affords(b)' /\ Mended(b)' /\ Back(b)' /\ Unasked(b)'
    BY <2>2, AffordsStep, MendedStep, BackStep, UnaskedStep DEF Led, Leading, Bounded, Steady, Spared
  <2> QED BY <2>1, <2>3 DEF Led, Spared
<1> QED BY <1>1, <1>2, PTL DEF Spec

\* Whoever is answered a unit's path is answered all it was archived as, or a
\* unit said deleted, for any days, records and settings, over crashes or failed
\* reports: what a crash left of a return is returned before it is looked at.
THEOREM AnswersWhole ==
    ASSUME Apart
    PROVE  Spec => [](AnsweredWhole \/ <<Unit, "deleted">> \in told)
<1>1. Led => (AnsweredWhole \/ <<Unit, "deleted">> \in told)
  BY DEF Led, Leading, Returning, Spared, Back, AnsweredWhole, Whole, Readable
<1> QED BY <1>1, LedAlways, PTL

\* Where the process never dies, all of it, over any number of reports and
\* copies that fail.
THEOREM UncrashedAnswersWhole ==
    ASSUME \A b \in Budgets : b["crash"] = 0
    PROVE  Spec => []AnsweredWhole
<1>1. Apart
  BY DEF Apart
<1>2. Led => AnsweredWhole
  <2> SUFFICES ASSUME Led PROVE AnsweredWhole
    OBVIOUS
  <2>1. PICK b \in Budgets : Spared(b)
    BY DEF Led
  <2>2. ~(b["crash"] > 0)
    OBVIOUS
  <2> QED BY <2>1, <2>2 DEF Led, Leading, Returning, Spared, Back, AnsweredWhole, Whole, Readable
<1> QED BY <1>1, <1>2, LedAlways, PTL

-----------------------------------------------------------------------------
(* The mover implements Lake. *)

\* What changes nothing of the lake is a stutter of it.
LEMMA StutterStep ==
    ASSUME UNCHANGED <<storage, archive, told>>
    PROVE  UNCHANGED Promise!lake
BY DEF Promise!lake

\* A move reported, recorded or not.
LEMMA TellStep ==
    ASSUME NEW u \in Units, NEW outcome \in Outcomes,
           UNCHANGED <<storage, archive>>, told' \in {told, told \cup {<<u, outcome>>}}
    PROVE  [Promise!Next]_(Promise!lake)
<1>1. CASE told' = told
  BY <1>1, StutterStep
<1>2. CASE told' = told \cup {<<u, outcome>>}
  <2>1. Promise!Tell(u, outcome)
    BY <1>2 DEF Promise!Tell
  <2> QED BY <2>1 DEF Promise!Next, Promise!Outcomes, Outcomes
<1> QED BY <1>1, <1>2

\* Objects dropped where storage has them, or once said deleted.
LEMMA DropStep ==
    ASSUME TypeOK, UNCHANGED <<storage, told>>, NEW gone \in SUBSET Records, archive' = archive \ gone,
           \A r \in gone : r \in storage \/ <<r[1], "deleted">> \in told
    PROVE  [Promise!Next]_(Promise!lake)
<1>1. Promise!Drop(gone)
  BY DEF Promise!Drop
<1> QED BY <1>1 DEF Promise!Next, Promise!Records, Records

\* Every step is one of the lake's, or changes nothing of it.
LEMMA PromiseStep ==
    ASSUME Timely, Sound, [Next]_vars
    PROVE  [Promise!Next]_(Promise!lake)
<1>1. ASSUME NEW u \in Units, Keep(u) PROVE [Promise!Next]_(Promise!lake)
  <2> DEFINE r == <<u, Cardinality(Of(u, kept)) + 1>>
  <2>1. r \in kept' /\ storage' = storage \cup {r} /\ UNCHANGED <<archive, told>>
    BY <1>1 DEF Keep
  <2>2. r \in Records
    BY <2>1, TypeStep DEF Sound, TypeOK
  <2>3. Promise!Keep(r)
    BY <2>1 DEF Promise!Keep
  <2> QED BY <2>2, <2>3 DEF Promise!Next, Promise!Records, Records
<1>2. CASE ReturnReport
  <2>1. PICK v \in move.due : told' \in {told, told \cup {<<v, "returned">>}}
    BY <1>2 DEF ReturnReport, Recorded, Refused
  <2>2. v \in Units /\ UNCHANGED <<storage, archive>>
    BY <1>2, <2>1 DEF ReturnReport, Sound, TypeOK, Moves, diskVars
  <2> QED BY <2>1, <2>2, TellStep DEF Outcomes
<1>3. CASE ArchiveReport
  <2>1. told' \in {told, told \cup {<<Unit, "archived">>}}
    BY <1>3 DEF ArchiveReport, Recorded, Refused
  <2>2. Unit \in Units /\ UNCHANGED <<storage, archive>>
    BY <1>3 DEF ArchiveReport, At, Sound, TypeOK, Moves, diskVars, Unit
  <2> QED BY <2>1, <2>2, TellStep DEF Outcomes
<1>4. CASE RestoreReport
  <2>1. told' \in {told, told \cup {<<Unit, "restored">>}}
    BY <1>4 DEF RestoreReport, Recorded, Refused
  <2>2. Unit \in Units /\ UNCHANGED <<storage, archive>>
    BY <1>4 DEF RestoreReport, At, Sound, TypeOK, Moves, diskVars, Unit
  <2> QED BY <2>1, <2>2, TellStep DEF Outcomes
<1>5. CASE DeleteReport
  <2>1. told' \in {told, told \cup {<<Unit, "deleted">>}}
    BY <1>5 DEF DeleteReport, Recorded, Refused
  <2>2. Unit \in Units /\ UNCHANGED <<storage, archive>>
    BY <1>5 DEF DeleteReport, Deletable, Ready, At, Sound, TypeOK, Moves, diskVars, Unit
  <2> QED BY <2>1, <2>2, TellStep DEF Outcomes
<1>6. CASE CopyFile
  <2>1. PICK r \in move.files : archive' = archive \cup {r}
    BY <1>6 DEF CopyFile, NextToCopy
  <2>2. r \in storage /\ r \in Records /\ UNCHANGED <<storage, told>>
    BY <1>6, <2>1 DEF CopyFile, At, Sound, TypeOK, Moves, Archiving, InStorage, Of
  <2>3. Promise!Copy(r)
    BY <2>1, <2>2 DEF Promise!Copy
  <2> QED BY <2>2, <2>3 DEF Promise!Next, Promise!Records, Records
<1>7. CASE ArchiveUndo
  <2>1. PICK r \in move.files : archive' = archive \ {r} \/ UNCHANGED archive
    BY <1>7 DEF ArchiveUndo, Forgets
  <2>2. r \in InStorage /\ UNCHANGED <<storage, told>>
    BY <1>7, <2>1 DEF ArchiveUndo, Forgets, At, Sound, Archiving
  <2>3. {r} \in SUBSET Records /\ r \in storage
    BY <2>2 DEF InStorage, Of, Sound, TypeOK
  <2>4. CASE archive' = archive \ {r}
    BY <2>2, <2>3, <2>4, DropStep DEF Sound
  <2>5. CASE UNCHANGED archive
    BY <2>2, <2>5, StutterStep
  <2> QED BY <2>1, <2>4, <2>5
<1>8. CASE Forget
  <2>1. PICK r \in move.files : archive' = archive \ {r} \/ UNCHANGED archive
    BY <1>8 DEF Forget, Forgets
  <2>2. /\ UNCHANGED <<storage, told>> /\ {r} \in SUBSET Records
        /\ <<r[1], "deleted">> \in told
    BY <1>8, <2>1 DEF Forget, Forgets, At, Sound, TypeOK, Moves, Deleting, Unit
  <2>3. CASE archive' = archive \ {r}
    BY <2>2, <2>3, DropStep DEF Sound
  <2>4. CASE UNCHANGED archive
    BY <2>2, <2>4, StutterStep
  <2> QED BY <2>1, <2>3, <2>4
<1>9. CASE Remove
  <2>1. PICK r \in InStorage : storage' = storage \ {r}
    BY <1>9 DEF Remove
  <2>2. r \in Records /\ r[1] = Unit /\ UNCHANGED <<archive, told>>
    BY <1>9, <2>1 DEF Remove, InStorage, Of, Sound, TypeOK
  <2>3. <<Unit, "deleted">> \in told \/ (<<Unit, "archived">> \in told /\ r \in archive)
    <3>1. move.op \in {"archive", "delete"} /\ Unit \in Units
      BY <1>9 DEF Remove, Sound, TypeOK, Moves, Removing, Unit
    <3>2. CASE move.op = "delete"
      BY <3>2, <1>9 DEF Remove, Sound, Deleting
    <3>3. CASE move.op = "archive"
      <4>1. state[Unit] \in Held
        BY <3>3, <1>9 DEF Remove, Sound, Archiving
      <4> QED BY <2>1, <3>1, <4>1 DEF Sound, Settled, InStorage
    <3> QED BY <3>1, <3>2, <3>3
  <2>4. Promise!Leave(r)
    BY <2>1, <2>2, <2>3 DEF Promise!Leave
  <2> QED BY <2>2, <2>4 DEF Promise!Next, Promise!Records, Records
<1>10. CASE \/ ReturnClear \/ ReturnIndex \/ ReturnEnds \/ ArchiveAgain \/ ArchiveRefused \/ CopyOut
           \/ ArchiveUndone \/ ArchiveIndex \/ RestoreRefused \/ RestoreAgain \/ CopyBack
           \/ ClearTarget \/ Replace \/ RestoreUndo
           \/ RestoreUndone \/ RestoreIndex \/ Answer \/ DeleteRefused \/ Forgotten \/ DeleteClear
           \/ DeleteIndex
  BY <1>10, StutterStep
  DEF ReturnClear, ReturnIndex, ReturnEnds, ArchiveAgain, ArchiveRefused, CopyOut, ArchiveUndone,
      ArchiveIndex, RestoreRefused, RestoreAgain, CopyBack, ClearTarget, Replace, RestoreUndo, RestoreUndone, RestoreIndex,
      Answer, DeleteRefused, Forgotten, DeleteClear, DeleteIndex, Clear, diskVars
<1>11. CASE \/ Tend \/ TendNext \/ Beat \/ Midnight \/ Crash \/ \E choice \in Choices : Choose(choice)
           \/ \E u \in Units : Elapse(u) \/ \E op \in {"restore", "delete"} : Ask(op, u)
  BY <1>11, StutterStep DEF Tend, TendNext, Beat, Midnight, Crash, Choose, Elapse, Ask, diskVars
<1>12. CASE UNCHANGED vars
  BY <1>12, StutterStep DEF vars
<1>13. CASE CopyFails
  <2>1. PICK r \in move.files : archive' \in {archive, archive \cup {r}}
    BY <1>13 DEF CopyFails, NextToCopy
  <2>2. r \in storage /\ r \in Records /\ UNCHANGED <<storage, told>>
    BY <1>13, <2>1 DEF CopyFails, At, Sound, TypeOK, Moves, Archiving, InStorage, Of
  <2>3. CASE archive' = archive \cup {r}
    <3>1. Promise!Copy(r)
      BY <2>2, <2>3 DEF Promise!Copy
    <3> QED BY <2>2, <3>1 DEF Promise!Next, Promise!Records, Records
  <2>4. CASE UNCHANGED archive
    BY <2>2, <2>4, StutterStep
  <2> QED BY <2>1, <2>3, <2>4
<1> QED BY <1>1, <1>2, <1>3, <1>4, <1>5, <1>6, <1>7, <1>8, <1>9, <1>10, <1>11, <1>12, <1>13
        DEF Next, Works, Returns, Archives, Restores, Deletes, Around

\* Where records are kept in time, the mover implements Lake: nothing leaves
\* storage before its move was said, and the archive drops no only copy.
THEOREM PromiseKept ==
    ASSUME Timely
    PROVE  Spec => KeepsPromise
<1>1. Init => Promise!Init
  BY DEF Init, Promise!Init
<1>2. Sound /\ [Next]_vars => [Promise!Next]_(Promise!lake)
  BY PromiseStep
<1> QED BY <1>1, <1>2, SoundAlways, PTL DEF Spec, KeepsPromise, Promise!Spec

=============================================================================
