---------------------------- MODULE FollowerProofs ----------------------------
(***************************************************************************)
(* Proofs about Follower: its types, and that a point never passes a       *)
(* change its handler was not handed.                                      *)
(***************************************************************************)
EXTENDS Follower, SequenceTheorems, WellFoundedInduction, TLAPS

-----------------------------------------------------------------------------
(* The least and the greatest of naturals. *)

\* Every set of naturals that is not empty has a least member.
LEMMA LeastExists ==
  ASSUME NEW S \in SUBSET Nat, S # {}
  PROVE  \E x \in S : \A y \in S : x <= y
<1>1. PICK x \in S : \A y \in S : ~(<<y, x>> \in OpToRel(<, Nat))
  BY WFMin, NatLessThanWellFounded, Zenon
<1>2. \A y \in S : ~(y < x)
  BY <1>1, Zenon DEF OpToRel
<1>3. \A y \in S : x <= y
  BY <1>2
<1>. QED BY <1>3

\* Min is the least of a set of naturals.
LEMMA MinIsLeast ==
  ASSUME NEW S \in SUBSET Nat, S # {}
  PROVE  Min(S) \in S /\ \A y \in S : Min(S) <= y
  BY LeastExists DEF Min

\* Max is the greatest of a bounded set of naturals.
LEMMA MaxIsGreatest ==
  ASSUME NEW n \in Nat, NEW S \in SUBSET (0..n), S # {}
  PROVE  Max(S) \in S /\ \A y \in S : Max(S) >= y
<1>. DEFINE T == {m \in 0..n : n - m \in S}
<1>1. PICK m \in S : TRUE
  OBVIOUS
<1>2. n - m \in T
  BY n - (n - m) = m
<1>3. T \in SUBSET Nat /\ T # {}
  BY <1>2
<1>4. PICK t \in T : \A u \in T : t <= u
  BY <1>3, LeastExists
<1>5. t \in 0..n /\ n - t \in S
  OBVIOUS
<1>6. ASSUME NEW y \in S PROVE n - t >= y
  <2>1. n - y \in T
    BY n - (n - y) = y
  <2>2. t <= n - y
    BY <2>1, <1>4
  <2>. QED BY <2>2, <1>5
<1>. QED BY <1>5, <1>6 DEF Max

-----------------------------------------------------------------------------
(* Types. *)

\* The record a read answers of a cell is its last at or below where it is
\* answered, and 0 where it has none.
LEMMA LatestIsLast ==
  ASSUME NEW c \in Cells, NEW n \in Nat
  PROVE  /\ LatestAt(c, n) \in 0..n
         /\ LatestAt(c, n) # 0 => log[LatestAt(c, n)].cell = c
         /\ \A i \in 1..n : log[i].cell = c => i <= LatestAt(c, n)
<1>. DEFINE S == {0} \cup {i \in 1..n : log[i].cell = c}
<1>1. S \in SUBSET (0..n) /\ S # {}
  OBVIOUS
<1>2. Max(S) \in S /\ \A y \in S : Max(S) >= y
  BY <1>1, MaxIsGreatest
<1>3. LatestAt(c, n) = Max(S)
  BY DEF LatestAt
<1>. HIDE DEF S
<1>4. Max(S) \in 0..n
  BY <1>1, <1>2
<1>5. Max(S) # 0 => log[Max(S)].cell = c
  BY <1>2 DEF S
<1>6. \A i \in 1..n : log[i].cell = c => i <= Max(S)
  BY <1>2, <1>4 DEF S
<1>. QED BY <1>3, <1>4, <1>5, <1>6

\* Handing on keeps a record's copy or makes it a change handed of the record.
LEMMA HandingKeeps ==
  ASSUME TypeOK, NEW given \in SUBSET Numbers, Handing(given)
  PROVE  /\ value' \in [Cells -> Nat]
         /\ \A c \in Cells :
              /\ \A i \in given : log[i].cell = c => value'[c] >= i
              /\ \/ value'[c] = value[c]
                 \/ value'[c] \in given /\ log[value'[c]].cell = c
<1>1. Len(log) \in Nat
  BY DEF TypeOK
<1>2. ASSUME NEW c \in Cells
      PROVE  LET of == {i \in given : log[i].cell = c}
             IN of # {} => /\ Max(of) \in of
                           /\ \A y \in of : Max(of) >= y
  <2>. DEFINE of == {i \in given : log[i].cell = c}
  <2>1. of \subseteq given
    OBVIOUS
  <2>. HIDE DEF of
  <2>2. given \subseteq 0..Len(log)
    BY <1>1 DEF Numbers
  <2>3. of \in SUBSET (0..Len(log))
    BY <2>1, <2>2
  <2>4. of # {} => Max(of) \in of /\ \A y \in of : Max(of) >= y
    BY <1>1, <2>3, MaxIsGreatest
  <2>. QED BY <2>4 DEF of
<1>3. ASSUME NEW c \in Cells
      PROVE  /\ value'[c] \in Nat
             /\ \A i \in given : log[i].cell = c => value'[c] >= i
             /\ \/ value'[c] = value[c]
                \/ value'[c] \in given /\ log[value'[c]].cell = c
  <2>. DEFINE of == {i \in given : log[i].cell = c}
  <2>1. value'[c] = IF of = {} THEN value[c] ELSE Max(of)
    BY DEF Handing
  <2>2. value[c] \in Nat /\ \A i \in given : i \in Nat
    <3>1. value[c] \in Nat
      BY DEF TypeOK
    <3>. QED BY <3>1 DEF Numbers
  <2>3. CASE of = {}
    BY <2>1, <2>2, <2>3
  <2>4. CASE of # {}
    BY <1>2, <2>1, <2>2, <2>4
  <2>. QED BY <2>3, <2>4
<1>4. value' = [c \in Cells |-> value'[c]]
  BY DEF Handing
<1>. QED BY <1>3, <1>4

\* A page answered is a read still of the same accounts, since the same change.
LEMMA AnsweredIsRead ==
  ASSUME TypeOK, job # None, NEW page \in SUBSET job.unread, NEW n \in AsOf
  PROVE  /\ job \in Jobs
         /\ Answered(page, n) \in Jobs
         /\ Answered(page, n) # None
         /\ Answered(page, n).by = job.by
         /\ Answered(page, n).who = job.who
         /\ Answered(page, n).whole = job.whole
         /\ Answered(page, n).since = job.since
         /\ Answered(page, n).unread = job.unread \ page
         /\ Answered(page, n).answered \in 0..Len(log)
         /\ Answered(page, n).answered = IF job.answered = None THEN n ELSE job.answered
         /\ Answered(page, n).answered <= n
         /\ Answered(page, n).got =
              job.got \cup {i \in {LatestAt(c, n) : c \in page} : i > job.since}
         /\ Answered(page, n).got \subseteq Numbers
<1>1. job \in Jobs /\ Len(log) \in Nat /\ n \in 0..Len(log)
  BY DEF TypeOK, AsOf
<1>2. job.answered # None => job.answered \in 0..Len(log) /\ n >= job.answered
  BY <1>1 DEF TypeOK, Bounded, Jobs, AsOf
<1>3. page \subseteq Cells /\ job.unread \subseteq Cells
  BY <1>1 DEF Jobs
<1>4. {i \in {LatestAt(c, n) : c \in page} : i > job.since} \subseteq Numbers
  <2>1. \A c \in page : LatestAt(c, n) \in 0..n
    BY <1>1, <1>3, LatestIsLast
  <2>2. job.since \in Nat
    BY <1>1 DEF Jobs
  <2>. QED BY <1>1, <2>1, <2>2 DEF Numbers
<1>5. job.got \subseteq Numbers
  BY DEF TypeOK, Bounded
<1>6. Numbers \subseteq Nat
  BY DEF Numbers
<1>. DEFINE new == {i \in {LatestAt(c, n) : c \in page} : i > job.since}
<1>. HIDE DEF new
<1>7. Answered(page, n) =
        [by |-> job.by, who |-> job.who, whole |-> job.whole, since |-> job.since,
         answered |-> IF job.answered = None THEN n ELSE job.answered,
         unread |-> job.unread \ page, got |-> job.got \cup new]
  BY DEF Answered, new
<1>8. new \subseteq Numbers
  BY <1>4 DEF new
<1>9. Answered(page, n) \in Jobs
  <2>. DEFINE at == IF job.answered = None THEN n ELSE job.answered
  <2>1. at \in Nat \cup {None}
    BY <1>1, <1>2
  <2>2. job.unread \ page \in SUBSET Cells
    BY <1>3
  <2>3. job.got \cup new \in SUBSET Nat
    BY <1>5, <1>6, <1>8
  <2>4. /\ job.by \in {"seed", "open", "lost", "delivery", "scope"}
        /\ job.who \in SUBSET Accounts /\ job.whole \in BOOLEAN /\ job.since \in Nat
    BY <1>1 DEF Jobs
  <2>. HIDE DEF at
  <2>5. Answered(page, n) =
          [by |-> job.by, who |-> job.who, whole |-> job.whole, since |-> job.since,
           answered |-> at, unread |-> job.unread \ page, got |-> job.got \cup new]
    BY <1>7 DEF at
  <2>. QED BY <2>1, <2>2, <2>3, <2>4, <2>5 DEF Jobs
<1>10. Answered(page, n) # None
  BY <1>9, FollowerAssumption
<1>11. /\ Answered(page, n).got = job.got \cup new
       /\ Answered(page, n).answered = IF job.answered = None THEN n ELSE job.answered
       /\ Answered(page, n).unread = job.unread \ page
       /\ Answered(page, n).by = job.by
       /\ Answered(page, n).who = job.who
       /\ Answered(page, n).whole = job.whole
       /\ Answered(page, n).since = job.since
  BY <1>1, <1>7 DEF Jobs
<1>. QED
  BY <1>1, <1>2, <1>5, <1>8, <1>9, <1>10, <1>11 DEF new

\* A read of some accounts, since a change there is, is a read.
LEMMA ReadingIsRead ==
  ASSUME TypeOK, NEW by \in {"seed", "open", "lost", "delivery", "scope"},
         NEW who \in SUBSET Accounts, NEW whole \in BOOLEAN,
         NEW since \in Nat, since <= Len(log)
  PROVE  /\ Reading(by, who, whole, since) \in Jobs
         /\ Reading(by, who, whole, since) # None
         /\ Reading(by, who, whole, since).since <= Len(log)
         /\ Reading(by, who, whole, since).answered = None
         /\ Reading(by, who, whole, since).got \subseteq Numbers
<1>1. (who \cap scope) \X Keys \in SUBSET Cells
  BY DEF Cells
<1>. DEFINE unread == (who \cap scope) \X Keys
<1>. HIDE DEF unread
<1>2. Reading(by, who, whole, since) =
        [by |-> by, who |-> who, whole |-> whole, since |-> since,
         answered |-> None, unread |-> unread, got |-> {}]
  BY DEF Reading, unread
<1>3. Reading(by, who, whole, since) \in Jobs
  BY <1>1, <1>2 DEF Jobs, unread
<1>4. /\ Reading(by, who, whole, since).since = since
      /\ Reading(by, who, whole, since).answered = None
      /\ Reading(by, who, whole, since).got = {}
  BY <1>2
<1>. QED
  BY <1>3, <1>4, FollowerAssumption

\* A point is a number of the journal.
LEMMA HadIsNumber ==
  ASSUME TypeOK, NEW a \in Accounts
  PROVE  /\ Len(log) \in Nat
         /\ points[a] # None => points[a] \in Point /\ Had(points[a]) \in 0..Len(log)
         /\ points[a] # None => HadOf(a) = Had(points[a])
         /\ points[a] = None => HadOf(a) = -1
<1>1. Len(log) \in Nat /\ HadOf(a) <= Len(log)
  BY DEF TypeOK, Bounded
<1>2. points[a] # None => points[a] \in Point
  BY DEF TypeOK
<1>3. points[a] # None => Had(points[a]) \in Nat
  BY <1>2 DEF Had, Point
<1>. QED
  BY <1>1, <1>2, <1>3 DEF HadOf

\* A read of every account is since nothing past any account's point.
LEMMA SinceIsLeast ==
  ASSUME TypeOK
  PROVE  /\ Min({readTo} \cup HadSoFar) \in Nat
         /\ Min({readTo} \cup HadSoFar) <= readTo
         /\ \A a \in Accounts : points[a] # None => Min({readTo} \cup HadSoFar) <= Had(points[a])
<1>. DEFINE S == {readTo} \cup HadSoFar
<1>1. \A a \in Accounts : points[a] # None => Had(points[a]) \in S
  BY DEF HadSoFar
<1>2. S \in SUBSET Nat /\ S # {}
  <2>1. \A a \in Accounts : points[a] # None => Had(points[a]) \in Nat
    BY HadIsNumber
  <2>. QED BY <2>1 DEF HadSoFar, TypeOK
<1>3. readTo \in S
  OBVIOUS
<1>. HIDE DEF S
<1>4. Min(S) \in S /\ \A y \in S : Min(S) <= y
  BY <1>2, MinIsLeast
<1>5. Min(S) \in Nat /\ Min(S) <= readTo
      /\ \A a \in Accounts : points[a] # None => Min(S) <= Had(points[a])
  BY <1>1, <1>2, <1>3, <1>4
<1>. QED BY <1>5 DEF S

\* Where a read moves points, it moves them to where it was answered.
LEMMA MovesAreAnswered ==
  ASSUME TypeOK, NEW whole \in Jobs, whole.answered \in 0..Len(log)
  PROVE  /\ Moves(whole) \in [Accounts -> Point \cup {None}]
         /\ \A a \in Accounts :
              \/ Moves(whole)[a] = points[a]
              \/ /\ Moves(whole)[a] # None
                 /\ Had(Moves(whole)[a]) = whole.answered
                 /\ whole.answered > HadOf(a)
<1>1. Len(log) \in Nat /\ points \in [Accounts -> Point \cup {None}]
  BY DEF TypeOK
<1>2. ReadTo(whole.answered) \in Point /\ Had(ReadTo(whole.answered)) = whole.answered
  BY <1>1 DEF ReadTo, Point, Had
<1>3. ReadTo(whole.answered) # None
  BY <1>2, FollowerAssumption
<1>4. ASSUME NEW a \in Accounts
      PROVE  \/ Moves(whole)[a] = points[a]
             \/ Moves(whole)[a] = ReadTo(whole.answered) /\ MovesOn(whole, a)
  BY Zenon DEF Moves
<1>5. Moves(whole) \in [Accounts -> Point \cup {None}]
  <2>1. Moves(whole) = [a \in Accounts |-> Moves(whole)[a]]
    BY Zenon DEF Moves
  <2>2. \A a \in Accounts : Moves(whole)[a] \in Point \cup {None}
    BY <1>1, <1>2, <1>4
  <2>. QED BY <2>1, <2>2, Zenon
<1>. QED
  BY <1>2, <1>3, <1>4, <1>5 DEF MovesOn

\* Nothing passes the journal where only the journal and the stream move.
LEMMA BoundedStays ==
  ASSUME TypeOK, UNCHANGED <<points, readTo, job>>,
         Len(log') \in Nat, Len(log') >= Len(log),
         \A i \in 1..Len(stream') : stream'[i] <= Len(log')
  PROVE  Bounded'
<1>1. /\ Len(log) \in Nat /\ readTo \in Nat
      /\ \A a \in Accounts : points[a] # None => Had(points[a]) \in Nat
  BY HadIsNumber DEF TypeOK
<1>2. \A a \in Accounts : HadOf(a)' = HadOf(a) /\ HadOf(a) <= Len(log')
  BY <1>1 DEF HadOf, TypeOK, Bounded
<1>3. job # None => job.since \in Nat /\ (job.answered # None => job.answered \in Nat)
  BY DEF TypeOK, Jobs
<1>4. Numbers \subseteq Numbers'
  BY <1>1 DEF Numbers
<1>. QED
  BY <1>1, <1>2, <1>3, <1>4 DEF TypeOK, Bounded

\* Nothing passes the journal where it stays and points and reads are of it.
LEMMA BoundedByLog ==
  ASSUME TypeOK, UNCHANGED log,
         readTo' \in Nat, readTo' <= Len(log),
         \A a \in Accounts : points'[a] # None => Had(points'[a]) \in 0..Len(log),
         \A i \in 1..Len(stream') : stream'[i] <= Len(log),
         job' # None => /\ job'.since <= Len(log)
                        /\ job'.answered # None => job'.answered <= Len(log)
                        /\ job'.got \subseteq Numbers
  PROVE  Bounded'
<1>1. Len(log) \in Nat
  BY DEF TypeOK
<1>2. \A a \in Accounts : HadOf(a)' <= Len(log')
  BY <1>1 DEF HadOf
<1>. QED
  BY <1>1, <1>2 DEF Bounded, Numbers

\* The stream is of the journal's numbers, what is left of it too.
LEMMA StreamShrinks ==
  ASSUME TypeOK,
         \/ stream' = stream
         \/ stream' = <<>>
         \/ stream # <<>> /\ stream' = Tail(stream)
         \/ \E n \in 0..Len(stream) : stream' = SubSeq(stream, 1, n)
  PROVE  stream' \in Seq(Nat) /\ \A i \in 1..Len(stream') : stream'[i] <= Len(log)
<1>1. stream \in Seq(Nat) /\ \A i \in 1..Len(stream) : stream[i] <= Len(log)
  BY DEF TypeOK, Bounded
<1>2. CASE stream' = stream
  BY <1>1, <1>2
<1>3. CASE stream' = <<>>
  BY <1>3
<1>4. CASE stream # <<>> /\ stream' = Tail(stream)
  <2>1. stream' \in Seq(Nat) /\ Len(stream') = Len(stream) - 1
    BY <1>1, <1>4, HeadTailProperties
  <2>2. \A i \in 1..Len(stream') : stream'[i] = stream[i + 1]
    BY <1>1, <1>4, HeadTailProperties
  <2>3. Len(stream) \in Nat
    BY <1>1, LenProperties
  <2>4. ASSUME NEW i \in 1..Len(stream') PROVE stream'[i] <= Len(log)
    <3>1. i + 1 \in 1..Len(stream)
      BY <2>1, <2>3
    <3>. QED BY <1>1, <2>2, <3>1
  <2>. QED BY <2>1, <2>4
<1>5. ASSUME NEW n \in 0..Len(stream), stream' = SubSeq(stream, 1, n)
      PROVE  stream' \in Seq(Nat) /\ \A i \in 1..Len(stream') : stream'[i] <= Len(log)
  <2>1. n <= Len(stream) /\ \A i \in 1..n : stream[i] \in Nat
    BY <1>1
  <2>2. /\ stream' \in Seq(Nat)
        /\ Len(stream') = n
        /\ \A i \in 1..n : stream'[i] = stream[i]
    <3>1. CASE n = 0
      BY <1>1, <1>5, <3>1
    <3>2. CASE n # 0
      BY <1>1, <1>5, <3>2, <2>1, SubSeqProperties
    <3>. QED BY <3>1, <3>2
  <2>. QED BY <1>1, <2>2
<1>. QED
  BY <1>2, <1>3, <1>4, <1>5

\* A change is of a cell of an account, and tells the one before it.
LEMMA NumberIsOfAccount ==
  ASSUME TypeOK, NEW i \in Numbers
  PROVE  /\ Len(log) \in Nat
         /\ log[i].cell \in Cells
         /\ log[i].cell[1] \in Accounts
         /\ log[i].previous \in Nat
<1>1. log \in Seq([cell : Cells, previous : Nat])
  BY DEF TypeOK
<1>2. log[i] \in [cell : Cells, previous : Nat]
  BY <1>1, LenProperties DEF Numbers
<1>3. log[i].cell \in Accounts \X Keys
  BY <1>2 DEF Cells
<1>. QED BY <1>1, <1>2, <1>3

\* A change heard is of the journal.
LEMMA HeadIsNumber ==
  ASSUME TypeOK, stream # <<>>, Head(stream) # Lost
  PROVE  Head(stream) \in Numbers
<1>1. stream \in Seq(Nat) /\ (\A i \in 1..Len(stream) : stream[i] <= Len(log)) /\ Len(log) \in Nat
  BY DEF TypeOK, Bounded
<1>2. Len(stream) \in Nat \ {0} /\ Head(stream) = stream[1] /\ Head(stream) \in Nat
  BY <1>1, EmptySeq, HeadTailProperties
<1>. QED BY <1>1, <1>2 DEF Lost, Numbers

\* A change heard is its account's point, whatever it was handed on from.
LEMMA PointHeard ==
  ASSUME TypeOK, NEW i \in Numbers, Heard(i),
         points' = [points EXCEPT ![log[i].cell[1]] = [HandedFrom(i) EXCEPT !.last = i]]
  PROVE  /\ points' \in [Accounts -> Point \cup {None}]
         /\ log[i].cell[1] \in Accounts
         /\ points'[log[i].cell[1]] # None
         /\ Had(points'[log[i].cell[1]]) = i
         /\ \A a \in Accounts : a # log[i].cell[1] => points'[a] = points[a]
         /\ \A a \in Accounts : points'[a] # None => Had(points'[a]) \in 0..Len(log)
<1>. DEFINE a == log[i].cell[1]
<1>1. Len(log) \in Nat /\ i \in Nat /\ i <= Len(log) /\ a \in Accounts
  BY NumberIsOfAccount DEF Numbers
<1>2. HandedFrom(i) \in Point /\ i > HandedFrom(i).floor
  <2>1. points[a] \in Point \cup {None}
    BY <1>1 DEF TypeOK
  <2>2. ReadTo(0) \in Point /\ ReadTo(0) # None
    BY FollowerAssumption DEF ReadTo, Point
  <2>3. HandedFrom(i) \in Point
    BY <2>1, <2>2 DEF HandedFrom, PointFor
  <2>4. i > Had(HandedFrom(i))
    BY DEF Heard, Follows, HandedFrom
  <2>. QED BY <1>1, <2>3, <2>4 DEF Had, Point
<1>3. PICK p \in Point : p = HandedFrom(i)
  BY <1>2
<1>4. [p EXCEPT !.last = i] \in Point /\ Had([p EXCEPT !.last = i]) = i
  BY <1>1, <1>2, <1>3 DEF Point, Had
<1>5. [p EXCEPT !.last = i] # None
  BY <1>4, FollowerAssumption
<1>6. points' = [points EXCEPT ![a] = [p EXCEPT !.last = i]]
  BY <1>3
<1>. HIDE DEF a
<1>7. points \in [Accounts -> Point \cup {None}]
  BY DEF TypeOK
<1>8. PICK q \in Point : q = [p EXCEPT !.last = i] /\ Had(q) = i /\ q # None
  BY <1>4, <1>5
<1>9. points' = [points EXCEPT ![a] = q]
  BY <1>6, <1>8
<1>10. /\ points' \in [Accounts -> Point \cup {None}]
       /\ points'[a] = q
       /\ \A b \in Accounts : b # a => points'[b] = points[b]
  BY <1>1, <1>7, <1>9
<1>11. \A b \in Accounts : points'[b] # None => Had(points'[b]) \in 0..Len(log)
  BY <1>1, <1>8, <1>10, HadIsNumber
<1>. QED
  BY <1>1, <1>8, <1>10, <1>11 DEF a

\* Each step keeps every variable's type.
LEMMA TypeStep == TypeOK /\ [Next]_vars => TypeOK'
<1>. SUFFICES ASSUME TypeOK, [Next]_vars PROVE TypeOK'
  OBVIOUS
<1>n. /\ Len(log) \in Nat /\ readTo \in Nat /\ readTo <= Len(log)
      /\ \A a \in Accounts : points[a] # None => Had(points[a]) \in 0..Len(log)
  BY HadIsNumber DEF TypeOK, Bounded
<1>j. ASSUME job # None
      PROVE  /\ job \in Jobs /\ job.since <= Len(log) /\ job.got \subseteq Numbers
             /\ job.answered # None => job.answered <= Len(log)
  BY <1>j DEF TypeOK, Bounded
<1>c. ASSUME Closing
      PROVE  /\ phase' = "closed" /\ up' = FALSE
             /\ stream' \in Seq(Nat) /\ \A i \in 1..Len(stream') : stream'[i] <= Len(log)
             /\ tries' \in 0..CatchUpTries /\ tries' < CatchUpTries
  BY <1>c DEF Closing, CatchUpTries
<1>e. <<>> \in Seq(Nat) /\ <<>> \in Seq(SUBSET Accounts)
  BY EmptySeq
<1>s. ASSUME NEW m \in Mishaps, Spend(m) PROVE left' \in [Mishaps -> Nat]
  BY <1>s DEF Spend, TypeOK
<1>f. ASSUME Afresh, log' = log, scope' = scope, job' = None,
             value' \in [Cells -> Nat], left' \in [Mishaps -> Nat]
      PROVE  TypeOK'
  <2>1. /\ points' = [a \in Accounts |-> None] /\ readTo' = 0 /\ started' = FALSE
        /\ scopes' = <<scope>> /\ watching' = TRUE /\ held' = None /\ entering' = {}
    BY <1>f DEF Afresh
  <2>2. Closing
    BY <1>f DEF Afresh
  <2>3. Bounded'
    BY <1>n, <1>j, <1>c, <1>f, <2>1, <2>2, BoundedByLog
  <2>4. points' \in [Accounts -> Point \cup {None}]
    BY <2>1
  <2>5. scopes' \in Seq(SUBSET Accounts)
    BY <2>1 DEF TypeOK
  <2>. QED BY <1>c, <1>f, <2>1, <2>2, <2>3, <2>4, <2>5 DEF TypeOK
<1>1. ASSUME NEW c \in Cells, Change(c) PROVE TypeOK'
  <2>1. LastOf(c[1]) \in Nat
    <3>. DEFINE S == {0} \cup MadeOf(c[1])
    <3>1. S \in SUBSET (0..Len(log)) /\ S # {}
      BY <1>n DEF MadeOf, Numbers
    <3>. HIDE DEF S
    <3>2. Max(S) \in S
      BY <1>n, <3>1, MaxIsGreatest
    <3>. QED BY <3>1, <3>2, <1>n DEF LastOf, S
  <2>2. log' \in Seq([cell : Cells, previous : Nat]) /\ Len(log') = Len(log) + 1
    BY <1>1, <2>1 DEF Change, TypeOK
  <2>3. /\ stream' \in Seq(Nat)
        /\ \A i \in 1..Len(stream') : stream'[i] <= Len(log')
    <3>1. stream' = stream \/ \E n \in {0, Len(log) + 1} : stream' = Append(stream, n)
      BY <1>1 DEF Change, Lost
    <3>2. stream \in Seq(Nat) /\ \A i \in 1..Len(stream) : stream[i] <= Len(log)
      BY DEF TypeOK, Bounded
    <3>3. CASE stream' = stream
      BY <1>n, <2>2, <3>2, <3>3
    <3>4. ASSUME NEW n \in {0, Len(log) + 1}, stream' = Append(stream, n)
          PROVE  /\ stream' \in Seq(Nat)
                 /\ \A i \in 1..Len(stream') : stream'[i] <= Len(log')
      <4>1. /\ stream' \in Seq(Nat) /\ Len(stream') = Len(stream) + 1
            /\ \A i \in 1..Len(stream) : stream'[i] = stream[i]
            /\ stream'[Len(stream) + 1] = n
        BY <1>n, <3>2, <3>4, AppendProperties
      <4>2. Len(stream) \in Nat
        BY <3>2, LenProperties
      <4>3. n <= Len(log')
        BY <1>n, <2>2
      <4>4. \A i \in 1..Len(stream) : stream[i] <= Len(log')
        BY <1>n, <2>2, <3>2
      <4>5. ASSUME NEW i \in 1..Len(stream') PROVE stream'[i] <= Len(log')
        <5>1. i \in 1..Len(stream) \/ i = Len(stream) + 1
          BY <4>1, <4>2
        <5>. QED BY <4>1, <4>3, <4>4, <5>1
      <4>. QED BY <4>1, <4>5
    <3>. QED BY <3>1, <3>3, <3>4
  <2>4. left' \in [Mishaps -> Nat]
    BY <1>1, <1>s DEF Change, Mishaps, TypeOK
  <2>5. Bounded'
    BY <1>1, <1>n, <2>2, <2>3, BoundedStays DEF Change
  <2>. QED BY <1>1, <2>2, <2>3, <2>4, <2>5 DEF Change, TypeOK
<1>2. CASE Break
  <2>1. \E n \in 0..Len(stream) : stream' = SubSeq(stream, 1, n)
    BY <1>2 DEF Break, Taken
  <2>2. stream' \in Seq(Nat) /\ \A i \in 1..Len(stream') : stream'[i] <= Len(log)
    BY <2>1, StreamShrinks
  <2>3. left' \in [Mishaps -> Nat]
    BY <1>2, <1>s DEF Break, Mishaps
  <2>4. Bounded'
    BY <1>2, <1>n, <1>j, <2>2, BoundedByLog DEF Break
  <2>. QED BY <1>2, <2>2, <2>3, <2>4 DEF Break, TypeOK
<1>3. ASSUME NEW a \in Accounts, Move(a) PROVE TypeOK'
  <2>1. scope' \subseteq Accounts
    BY <1>3 DEF Move, TypeOK
  <2>2. scopes' \in Seq(SUBSET Accounts)
    BY <1>3, <2>1 DEF Move, TypeOK
  <2>3. left' \in [Mishaps -> Nat]
    BY <1>3, <1>s DEF Move, Mishaps
  <2>4. Bounded'
    BY <1>3, <1>n, <1>j, StreamShrinks, BoundedByLog DEF Move
  <2>. QED BY <1>3, <2>1, <2>2, <2>3, <2>4 DEF Move, TypeOK
<1>4. CASE ScopeBreaks
  <2>1. left' \in [Mishaps -> Nat]
    BY <1>4, <1>s DEF ScopeBreaks, Mishaps
  <2>2. Bounded'
    BY <1>4, <1>n, <1>j, StreamShrinks, BoundedByLog DEF ScopeBreaks
  <2>. QED BY <1>4, <1>e, <2>1, <2>2 DEF ScopeBreaks, WatchEnds, TypeOK
<1>5. CASE ReadFails
  <2>1. left' \in [Mishaps -> Nat]
    BY <1>5, <1>s DEF ReadFails, Mishaps
  <2>2. stream' = stream \/ stream' = <<>>
    BY <1>5 DEF ReadFails, Closing
  <2>3. Bounded'
    BY <1>5, <1>n, <1>j, <2>2, StreamShrinks, BoundedByLog DEF ReadFails
  <2>4. CASE job.by = "scope"
    BY <1>5, <1>e, <2>1, <2>3, <2>4 DEF ReadFails, WatchEnds, TypeOK
  <2>5. CASE job.by # "scope"
    BY <1>5, <1>c, <2>1, <2>3, <2>5 DEF ReadFails, scopeVars, TypeOK
  <2>. QED BY <2>4, <2>5
<1>8. CASE ReadPage
  <2>1. PICK page \in SUBSET job.unread, n \in AsOf : job' = Answered(page, n)
    BY <1>8 DEF ReadPage
  <2>2. /\ job' \in Jobs /\ job'.since = job.since /\ job'.by = job.by
        /\ job'.answered \in 0..Len(log) /\ job'.got \subseteq Numbers
    BY <1>8, <2>1, AnsweredIsRead DEF ReadPage
  <2>3. Bounded'
    BY <1>8, <1>n, <1>j, <2>2, StreamShrinks, BoundedByLog DEF ReadPage
  <2>. QED BY <1>8, <2>2, <2>3 DEF ReadPage, TypeOK
<1>6. CASE HandlerRaisesReading
  <2>1. left' \in [Mishaps -> Nat] /\ job # None /\ job' = None /\ log' = log /\ scope' = scope
    BY <1>6, <1>s DEF HandlerRaisesReading, Mishaps
  <2>2. PICK raised \in HandlerRaises, at \in Numbers, n \in AsOf : RaisesReading(raised, at, n)
    BY <1>6 DEF HandlerRaisesReading
  <2>. DEFINE whole == Answered(job.unread, n)
  <2>3. whole \in Jobs /\ whole.answered \in 0..Len(log) /\ whole.got \subseteq Numbers
    BY <2>1, <2>2, AnsweredIsRead
  <2>4. value' \in [Cells -> Nat]
    <3>1. {i \in ToHand(whole) : i < at} \in SUBSET Numbers
      BY <2>3 DEF ToHand
    <3>2. Handing({i \in ToHand(whole) : i < at})
      BY <2>2 DEF RaisesReading
    <3>. QED BY <3>1, <3>2, HandingKeeps
  <2>. HIDE DEF whole
  <2>5. /\ Moves(whole) \in [Accounts -> Point \cup {None}]
        /\ \A a \in Accounts : Moves(whole)[a] # None => Had(Moves(whole)[a]) \in 0..Len(log)
    BY <1>n, <2>3, MovesAreAnswered
  <2>6. CASE job.by = "scope" /\ WatchEnds /\ points' = Moves(whole)
             /\ UNCHANGED <<phase, up, stream, tries, started, readTo>>
    <3>1. Bounded'
      BY <1>n, <1>j, <2>1, <2>5, <2>6, StreamShrinks, BoundedByLog
    <3>. QED BY <1>e, <2>1, <2>4, <2>5, <2>6, <3>1 DEF WatchEnds, TypeOK
  <2>7. CASE /\ Closing
             /\ points' = Moves(whole)
             /\ readTo' = IF whole.whole THEN whole.answered ELSE readTo
             /\ UNCHANGED <<started, scopes, watching, held, entering>>
    <3>1. readTo' \in Nat /\ readTo' <= Len(log)
      <4>1. readTo' = whole.answered \/ readTo' = readTo
        BY <2>7
      <4>. QED BY <1>n, <2>3, <4>1
    <3>2. Bounded'
      BY <1>n, <1>j, <1>c, <2>1, <2>5, <2>7, <3>1, BoundedByLog
    <3>. QED BY <1>c, <2>1, <2>4, <2>5, <2>7, <3>1, <3>2 DEF TypeOK
  <2>8. CASE Afresh
    BY <1>f, <2>1, <2>4, <2>8
  <2>. QED BY <2>2, <2>6, <2>7, <2>8 DEF RaisesReading, whole
<1>7. CASE HandlerRaisesHeard
  <2>1. left' \in [Mishaps -> Nat] /\ job' = job /\ log' = log /\ scope' = scope /\ value' = value
    BY <1>7, <1>s DEF HandlerRaisesHeard, Mishaps
  <2>. DEFINE i == Head(stream)
  <2>2. i \in Numbers
    BY <1>7, HeadIsNumber DEF HandlerRaisesHeard, Hearing
  <2>3. CASE /\ Closing
             /\ points' = [points EXCEPT ![log[i].cell[1]] = [HandedFrom(i) EXCEPT !.last = i]]
             /\ UNCHANGED <<started, readTo, scopes, watching, held, entering>>
    <3>1. Heard(i)
      BY <1>7 DEF HandlerRaisesHeard
    <3>2. /\ points' \in [Accounts -> Point \cup {None}]
          /\ \A a \in Accounts : points'[a] # None => Had(points'[a]) \in 0..Len(log)
      BY <1>n, <2>2, <2>3, <3>1, PointHeard
    <3>3. Bounded'
      BY <1>n, <1>j, <1>c, <2>1, <2>3, <3>2, BoundedByLog
    <3>. QED BY <1>c, <2>1, <2>3, <3>2, <3>3 DEF TypeOK
  <2>4. CASE Afresh
    BY <1>7, <1>f, <2>1, <2>4 DEF HandlerRaisesHeard, Hearing, Free, TypeOK
  <2>. QED BY <1>7, <2>3, <2>4 DEF HandlerRaisesHeard
<1>9. CASE ReadLast
  <2>1. /\ job # None /\ job' = None
        /\ UNCHANGED <<log, scope, stream, up, scopes, watching, held, entering, left>>
    BY <1>9 DEF ReadLast
  <2>2. PICK n \in AsOf :
          LET whole == Answered(job.unread, n)
          IN  /\ points' = Moves(whole)
              /\ readTo' = IF whole.whole THEN whole.answered ELSE readTo
              /\ Handing(ToHand(whole))
    BY <1>9 DEF ReadLast
  <2>. DEFINE whole == Answered(job.unread, n)
  <2>3. whole \in Jobs /\ whole.answered \in 0..Len(log) /\ whole.got \subseteq Numbers
    BY <2>1, <2>2, AnsweredIsRead
  <2>4. value' \in [Cells -> Nat]
    BY <2>2, <2>3, HandingKeeps DEF ToHand
  <2>5. /\ Moves(whole) \in [Accounts -> Point \cup {None}]
        /\ \A a \in Accounts : Moves(whole)[a] # None => Had(Moves(whole)[a]) \in 0..Len(log)
    BY <1>n, <2>3, MovesAreAnswered
  <2>6. points' = Moves(whole) /\ readTo' = IF whole.whole THEN whole.answered ELSE readTo
    BY <2>2
  <2>. HIDE DEF whole
  <2>7. readTo' \in Nat /\ readTo' <= Len(log)
    BY <1>n, <2>3, <2>6
  <2>8. Bounded'
    BY <1>n, <1>j, <2>1, <2>5, <2>6, <2>7, StreamShrinks, BoundedByLog
  <2>9. phase' \in {"closed", "opened", "reading", "following"} /\ started' \in BOOLEAN
    BY <1>9 DEF ReadLast, TypeOK
  <2>10. tries' \in 0..CatchUpTries
    BY <1>9 DEF ReadLast, TypeOK, CatchUpTries
  <2>. QED BY <2>1, <2>4, <2>5, <2>6, <2>7, <2>8, <2>9, <2>10 DEF TypeOK
<1>10. CASE Open
  <2>1. Bounded'
    BY <1>10, <1>n, <1>j, StreamShrinks, BoundedByLog DEF Open
  <2>. QED BY <1>10, <2>1 DEF Open, TypeOK
<1>r. ASSUME job' \in Jobs, job'.since <= Len(log), job'.answered = None, job'.got \subseteq Numbers,
             job'.by = "delivery" => tries < CatchUpTries,
             UNCHANGED <<log, scope, up, started, points, readTo, tries, scopes, watching,
                         held, value, left>>,
             stream' = stream \/ (stream # <<>> /\ stream' = Tail(stream)),
             phase' \in {"closed", "opened", "reading", "following"},
             entering' \subseteq entering
      PROVE  TypeOK'
  <2>1. stream' \in Seq(Nat) /\ \A i \in 1..Len(stream') : stream'[i] <= Len(log)
    BY <1>r, StreamShrinks
  <2>2. Bounded'
    BY <1>n, <1>r, <2>1, BoundedByLog
  <2>. QED BY <1>r, <2>1, <2>2 DEF TypeOK
<1>l. Min({readTo} \cup HadSoFar) \in Nat /\ Min({readTo} \cup HadSoFar) <= Len(log)
  BY <1>n, SinceIsLeast
<1>u. ASSUME NEW a \in Accounts
      PROVE  LET since == IF points[a] = None THEN 0 ELSE Had(points[a])
             IN  since \in Nat /\ since <= Len(log)
  BY <1>n
<1>11. CASE ReadOnOpen
  <2>0. /\ UNCHANGED <<log, scope, up, started, points, readTo, tries, scopes, watching,
                       held, value, left>>
        /\ stream' = stream /\ entering' \subseteq entering
        /\ phase' \in {"closed", "opened", "reading", "following"}
    BY <1>11 DEF ReadOnOpen
  <2>1. CASE started
    <3>1. job' = Reading("open", Accounts, TRUE, Min({readTo} \cup HadSoFar))
      BY <1>11, <2>1 DEF ReadOnOpen, CatchUpAll
    <3>2. /\ job' \in Jobs /\ job'.since <= Len(log) /\ job'.answered = None
          /\ job'.got \subseteq Numbers /\ job'.by = "open"
      BY <1>l, <3>1, ReadingIsRead DEF Reading
    <3>. QED BY <1>r, <2>0, <3>2
  <2>2. CASE ~started
    <3>1. job' = Reading("seed", Accounts, TRUE, 0)
      BY <1>11, <2>2 DEF ReadOnOpen, Seed
    <3>2. /\ job' \in Jobs /\ job'.since <= Len(log) /\ job'.answered = None
          /\ job'.got \subseteq Numbers /\ job'.by = "seed"
      BY <1>n, <3>1, 0 <= Len(log), ReadingIsRead DEF Reading
    <3>. QED BY <1>r, <2>0, <3>2
  <2>. QED BY <2>1, <2>2
<1>12. CASE TakeLost
  <2>1. job' = Reading("lost", Accounts, TRUE, Min({readTo} \cup HadSoFar))
    BY <1>12 DEF TakeLost, CatchUpAll
  <2>2. phase' \in {"closed", "opened", "reading", "following"}
    BY <1>12 DEF TakeLost, TypeOK
  <2>3. /\ job' \in Jobs /\ job'.since <= Len(log) /\ job'.answered = None
        /\ job'.got \subseteq Numbers /\ job'.by = "lost"
    BY <1>l, <2>1, ReadingIsRead DEF Reading
  <2>. QED BY <1>12, <1>r, <2>2, <2>3 DEF TakeLost, Hearing
<1>13. CASE SkipHad
  <2>1. stream' \in Seq(Nat) /\ \A i \in 1..Len(stream') : stream'[i] <= Len(log)
    BY <1>13, StreamShrinks DEF SkipHad, Hearing
  <2>2. Bounded'
    BY <1>13, <1>n, <1>j, <2>1, BoundedByLog DEF SkipHad
  <2>3. job' = None /\ tries' \in 0..CatchUpTries
    BY <1>13 DEF SkipHad, Hearing, Free, CatchUpTries
  <2>. QED BY <1>13, <2>1, <2>2, <2>3 DEF SkipHad, TypeOK
<1>14. CASE HandHeard
  <2>. DEFINE i == Head(stream)
  <2>1. stream' \in Seq(Nat) /\ \A n \in 1..Len(stream') : stream'[n] <= Len(log)
    BY <1>14, StreamShrinks DEF HandHeard, Hearing
  <2>2. i \in Numbers
    BY <1>14, HeadIsNumber DEF HandHeard, Hearing
  <2>3. /\ Heard(i) /\ Handing({i})
        /\ points' = [points EXCEPT ![log[i].cell[1]] = [HandedFrom(i) EXCEPT !.last = i]]
    BY <1>14 DEF HandHeard
  <2>4. /\ points' \in [Accounts -> Point \cup {None}]
        /\ \A a \in Accounts : points'[a] # None => Had(points'[a]) \in 0..Len(log)
    BY <2>2, <2>3, PointHeard
  <2>5. value' \in [Cells -> Nat]
    BY <2>2, <2>3, HandingKeeps
  <2>6. Bounded'
    BY <1>14, <1>n, <1>j, <2>1, <2>4, BoundedByLog DEF HandHeard
  <2>7. job' = None /\ tries' \in 0..CatchUpTries
    BY <1>14 DEF HandHeard, Hearing, Free, CatchUpTries
  <2>. QED BY <1>14, <2>1, <2>4, <2>5, <2>6, <2>7 DEF HandHeard, TypeOK
<1>15. CASE ReadGap
  <2>. DEFINE i == Head(stream)
             a == log[i].cell[1]
  <2>1. i \in Numbers
    BY <1>15, HeadIsNumber DEF ReadGap, Hearing
  <2>2. a \in Accounts
    BY <2>1, NumberIsOfAccount
  <2>3. job' = CatchUp("delivery", a) /\ tries < CatchUpTries
    BY <1>15 DEF ReadGap, MayRead
  <2>4. phase' \in {"closed", "opened", "reading", "following"}
    BY <1>15 DEF ReadGap, TypeOK
  <2>5. /\ UNCHANGED <<log, scope, up, started, points, readTo, tries, scopes, watching,
                       held, value, left>>
        /\ stream' = stream /\ entering' \subseteq entering
    BY <1>15 DEF ReadGap
  <2>. HIDE DEF a
  <2>. DEFINE since == IF points[a] = None THEN 0 ELSE Had(points[a])
  <2>6. job' = Reading("delivery", {a}, FALSE, since)
    BY <2>3 DEF CatchUp
  <2>7. since \in Nat /\ since <= Len(log)
    BY <1>u, <2>2
  <2>. HIDE DEF since
  <2>8. /\ job' \in Jobs /\ job'.since <= Len(log) /\ job'.answered = None
        /\ job'.got \subseteq Numbers /\ job'.by = "delivery"
    BY <2>2, <2>6, <2>7, ReadingIsRead DEF Reading
  <2>. QED BY <1>r, <2>3, <2>4, <2>5, <2>8
<1>16. CASE SeeBreak
  <2>1. Bounded'
    BY <1>16, <1>n, <1>j, StreamShrinks, BoundedByLog DEF SeeBreak, Closing
  <2>. QED BY <1>16, <1>c, <2>1 DEF SeeBreak, TypeOK
<1>17. CASE TakeScope
  <2>1. Head(scopes) \subseteq Accounts /\ scopes' \in Seq(SUBSET Accounts)
    BY <1>17, HeadTailProperties DEF TakeScope, TypeOK
  <2>2. held' \subseteq Accounts /\ entering' \subseteq Accounts
    BY <1>17, <2>1 DEF TakeScope
  <2>3. /\ points' \in [Accounts -> Point \cup {None}]
        /\ \A a \in Accounts : points'[a] = None \/ points'[a] = points[a]
    BY <1>17 DEF TakeScope, TypeOK
  <2>4. Bounded'
    BY <1>17, <1>n, <1>j, <2>3, StreamShrinks, BoundedByLog DEF TakeScope
  <2>. QED BY <1>17, <2>1, <2>2, <2>3, <2>4 DEF TakeScope, TypeOK
<1>18. ASSUME NEW a \in Accounts, ReadEntering(a) PROVE TypeOK'
  <2>1. phase' \in {"closed", "opened", "reading", "following"}
    BY <1>18 DEF ReadEntering, TypeOK
  <2>2. /\ UNCHANGED <<log, scope, up, started, points, readTo, tries, scopes, watching,
                       held, value, left>>
        /\ stream' = stream /\ entering' \subseteq entering
    BY <1>18 DEF ReadEntering
  <2>. DEFINE since == IF points[a] = None THEN 0 ELSE Had(points[a])
  <2>3. job' = Reading("scope", {a}, FALSE, since)
    BY <1>18 DEF ReadEntering, CatchUp
  <2>4. since \in Nat /\ since <= Len(log)
    BY <1>u
  <2>. HIDE DEF since
  <2>5. /\ job' \in Jobs /\ job'.since <= Len(log) /\ job'.answered = None
        /\ job'.got \subseteq Numbers /\ job'.by = "scope"
    BY <2>3, <2>4, ReadingIsRead DEF Reading
  <2>. QED BY <1>r, <2>1, <2>2, <2>5
<1>19. CASE UNCHANGED vars
  <2>1. Bounded'
    BY <1>19, <1>n, <1>j, StreamShrinks, BoundedByLog DEF vars
  <2>. QED BY <1>19, <2>1 DEF vars, TypeOK
<1>. QED
  BY <1>1, <1>2, <1>3, <1>4, <1>5, <1>6, <1>7, <1>8, <1>9, <1>10,
     <1>11, <1>12, <1>13, <1>14, <1>15, <1>16, <1>17, <1>18, <1>19
     DEF Next, Sidecar, Fails, Reads, Follow, Watch

\* The journal starts empty and every bound unspent.
LEMMA TypeInit == Init => TypeOK
<1>. SUFFICES ASSUME Init PROVE TypeOK
  OBVIOUS
<1>1. log = <<>> /\ stream = <<>> /\ scopes = <<scope>> /\ scope \subseteq Accounts
  BY DEF Init
<1>2. /\ log \in Seq([cell : Cells, previous : Nat]) /\ Len(log) = 0
      /\ stream \in Seq(Nat) /\ Len(stream) = 0
      /\ scopes \in Seq(SUBSET Accounts)
  BY <1>1
<1>3. left \in [Mishaps -> Nat]
  BY FollowerAssumption DEF Init
<1>4. Bounded
  BY <1>2 DEF Init, Bounded, HadOf
<1>5. /\ tries \in 0..CatchUpTries /\ readTo \in Nat /\ job = None
      /\ points \in [Accounts -> Point \cup {None}] /\ value \in [Cells -> Nat]
  BY DEF Init, CatchUpTries
<1>. QED
  BY <1>1, <1>2, <1>3, <1>4, <1>5 DEF Init, TypeOK

\* Every variable keeps its type, no point or read passes the journal, and no
\* delivery prompts more reads than CATCH_UP_TRIES, in every system and
\* whatever is lost, broken or failed.
THEOREM TypeCorrect == Spec => []TypeOK
  BY TypeInit, TypeStep, PTL DEF Spec

-----------------------------------------------------------------------------
(* Points move forward. *)

Forward ==
    \A a \in Accounts : points[a] # None /\ points'[a] # None => Had(points'[a]) >= Had(points[a])

\* Where no point moves but to where a read was answered past it, none goes back.
LEMMA ReadsMoveForward ==
  ASSUME TypeOK, job # None, NEW n \in AsOf, points' = Moves(Answered(job.unread, n))
  PROVE  Forward
<1>. DEFINE whole == Answered(job.unread, n)
<1>1. whole \in Jobs /\ whole.answered \in 0..Len(log)
  BY AnsweredIsRead
<1>. HIDE DEF whole
<1>2. \A a \in Accounts :
         \/ Moves(whole)[a] = points[a]
         \/ Had(Moves(whole)[a]) = whole.answered /\ whole.answered > HadOf(a)
  BY <1>1, MovesAreAnswered
<1>3. ASSUME NEW a \in Accounts, points[a] # None PROVE Had(points'[a]) >= Had(points[a])
  <2>1. Had(points[a]) \in 0..Len(log) /\ HadOf(a) = Had(points[a]) /\ Len(log) \in Nat
    BY <1>3, HadIsNumber
  <2>2. points'[a] = Moves(whole)[a]
    BY DEF whole
  <2>. QED BY <1>1, <1>2, <2>1, <2>2
<1>. QED BY <1>3 DEF Forward

\* Nor where a change heard is past its account's point.
LEMMA HeardMovesForward ==
  ASSUME TypeOK, NEW i \in Numbers, Heard(i),
         points' = [points EXCEPT ![log[i].cell[1]] = [HandedFrom(i) EXCEPT !.last = i]]
  PROVE  Forward
<1>. DEFINE b == log[i].cell[1]
<1>1. Had(points'[b]) = i /\ \A a \in Accounts : a # b => points'[a] = points[a]
  BY PointHeard
<1>2. i > Had(HandedFrom(i))
  BY DEF Heard, Follows, HandedFrom
<1>3. points[b] # None => HandedFrom(i) = points[b]
  BY DEF HandedFrom, PointFor
<1>. HIDE DEF b
<1>4. ASSUME NEW a \in Accounts, points[a] # None PROVE Had(points'[a]) >= Had(points[a])
  <2>1. Had(points[a]) \in 0..Len(log) /\ Len(log) \in Nat
    BY <1>4, HadIsNumber
  <2>2. CASE a = b
    BY <1>1, <1>2, <1>3, <1>4, <2>1, <2>2 DEF Numbers
  <2>3. CASE a # b
    BY <1>1, <2>1, <2>3
  <2>. QED BY <2>2, <2>3
<1>. QED BY <1>4 DEF Forward

\* No step takes a point back.
LEMMA ForwardStep == TypeOK /\ [Next]_vars => Forward
<1>. SUFFICES ASSUME TypeOK, [Next]_vars PROVE Forward
  OBVIOUS
<1>u. ASSUME points' = points PROVE Forward
  <2>. SUFFICES ASSUME NEW a \in Accounts, points[a] # None PROVE Had(points[a]) >= Had(points[a])
    BY <1>u DEF Forward
  <2>. QED BY HadIsNumber
<1>f. ASSUME Afresh PROVE Forward
  BY <1>f DEF Afresh, Forward
<1>1. CASE UNCHANGED vars \/ Sidecar \/ ReadPage \/ ReadFails \/ Open \/ ReadOnOpen \/ TakeLost
           \/ SkipHad \/ ReadGap \/ SeeBreak \/ ScopeBreaks \/ \E a \in Accounts : ReadEntering(a)
  <2>1. points' = points
    BY <1>1 DEF vars, Sidecar, Change, Break, Move, ReadPage, ReadFails, Open, ReadOnOpen, TakeLost,
                SkipHad, ReadGap, SeeBreak, ScopeBreaks, ReadEntering
  <2>. QED BY <1>u, <2>1
<1>2. CASE ReadLast
  <2>1. job # None /\ \E n \in AsOf : points' = Moves(Answered(job.unread, n))
    BY <1>2 DEF ReadLast
  <2>. QED BY <2>1, ReadsMoveForward
<1>3. CASE HandlerRaisesReading
  <2>1. job # None
    BY <1>3 DEF HandlerRaisesReading
  <2>2. PICK raised \in HandlerRaises, at \in Numbers, n \in AsOf : RaisesReading(raised, at, n)
    BY <1>3 DEF HandlerRaisesReading
  <2>3. points' = Moves(Answered(job.unread, n)) \/ Afresh
    BY <2>2 DEF RaisesReading
  <2>. QED BY <1>f, <2>1, <2>3, ReadsMoveForward
<1>4. CASE HandHeard
  <2>. DEFINE i == Head(stream)
  <2>1. i \in Numbers
    BY <1>4, HeadIsNumber DEF HandHeard, Hearing
  <2>2. Heard(i) /\ points' = [points EXCEPT ![log[i].cell[1]] = [HandedFrom(i) EXCEPT !.last = i]]
    BY <1>4 DEF HandHeard
  <2>. QED BY <2>1, <2>2, HeardMovesForward
<1>5. CASE HandlerRaisesHeard
  <2>. DEFINE i == Head(stream)
  <2>1. i \in Numbers
    BY <1>5, HeadIsNumber DEF HandlerRaisesHeard, Hearing
  <2>2. /\ Heard(i)
        /\ \/ points' = [points EXCEPT ![log[i].cell[1]] = [HandedFrom(i) EXCEPT !.last = i]]
           \/ Afresh
    BY <1>5 DEF HandlerRaisesHeard
  <2>. QED BY <1>f, <2>1, <2>2, HeardMovesForward
<1>6. CASE TakeScope
  <2>1. points' = [a \in Accounts |->
                     IF held # None /\ a \in held \ Head(scopes) THEN None ELSE points[a]]
    BY <1>6 DEF TakeScope
  <2>2. ASSUME NEW a \in Accounts, points[a] # None, points'[a] # None
        PROVE  Had(points'[a]) >= Had(points[a])
    BY <2>1, <2>2, HadIsNumber
  <2>. QED BY <2>2 DEF Forward
<1>. QED
  BY <1>1, <1>2, <1>3, <1>4, <1>5, <1>6 DEF Next, Sidecar, Fails, Reads, Follow, Watch

\* What an account is had to never goes back while it is followed, whatever
\* reads lag, however the scope moves and whatever handlers raise (receive.py,
\* `_apply`: a point moves only where the read was answered past it).
THEOREM PointsOnlyForward == Spec => PointsMoveForward
<1>1. TypeOK /\ [Next]_vars => [\A a \in Accounts :
          points[a] # None /\ points'[a] # None => Had(points'[a]) >= Had(points[a])]_vars
  BY ForwardStep DEF Forward
<1>. QED BY <1>1, TypeCorrect, PTL DEF Spec, PointsMoveForward

-----------------------------------------------------------------------------
(* The point is honest. *)

Of(i) == log[i].cell[1]

\* What the hearing is promised of the parts outside it: reads that answer as of
\* now, handlers that keep their own failed calls, a row that is seeded and a
\* read scope that does not change.
Promised ==
    /\ "call" \notin HandlerRaises
    /\ Seeds
    /\ \A b \in Budgets : b["lag"] = 0 /\ b["moves"] = 0

ScopeFixed ==
    /\ scope = Accounts
    /\ left["moves"] = 0 /\ left["lag"] = 0
    /\ entering = {}
    /\ \A n \in 1..Len(scopes) : scopes[n] = Accounts
    /\ held # None => held = Accounts
    /\ job # None => job.by # "scope"

\* A change's `previous` is its account's last before it.
Chained ==
    \A i \in Numbers :
        /\ log[i].previous < i
        /\ \A j \in Numbers : log[i].previous < j /\ j < i => Of(j) # Of(i)

\* What an account is had to was handed on.
Kept ==
    \A a \in Accounts : points[a] # None =>
        \A i \in Numbers : Of(i) = a /\ i <= Had(points[a]) => value[log[i].cell] >= i

\* An account with no point had no change when the whole scope was last read.
Unheard ==
    \A a \in Accounts : points[a] = None => \A i \in Numbers : i <= readTo => Of(i) # a

\* A read under way asks of nothing had, and has what it says it read.
JobSince ==
    job # None => \A a \in job.who :
        /\ points[a] # None => job.since <= Had(points[a])
        /\ points[a] = None => \A i \in Numbers : i <= job.since => Of(i) # a

Covers(read) ==
    /\ read.unread \subseteq read.who \X Keys
    /\ read.answered = None => read.unread = read.who \X Keys
    /\ read.answered # None =>
         \A i \in Numbers :
             /\ read.since < i /\ i <= read.answered
             /\ Of(i) \in read.who
             /\ log[i].cell \notin read.unread
             => \E g \in read.got : log[g].cell = log[i].cell /\ g >= i
    /\ \A g \in read.got : Of(g) \in read.who

JobCovers == job # None => Covers(job)

JobShape ==
    job # None =>
        /\ job.whole => job.who = Accounts
        /\ job.by # "delivery" => job.whole
        /\ job.by \in {"seed", "open"} => phase = "reading"
        /\ job.by \in {"lost", "delivery"} => phase = "following"
        /\ job.by = "delivery" =>
              /\ ~job.whole
              /\ stream # <<>> /\ Head(stream) # Lost
              /\ job.who = {Of(Head(stream))}
              /\ job.answered # None => job.answered >= Head(stream)

\* A delivery read for once is had.
Tried ==
    tries > 0 =>
        /\ job = None /\ phase = "following"
        /\ stream # <<>> /\ Head(stream) # Lost
        /\ points[Of(Head(stream))] # None
        /\ Head(stream) <= Had(points[Of(Head(stream))])

IInv == TypeOK /\ ScopeFixed /\ Chained /\ Kept /\ Unheard /\ JobSince /\ JobCovers /\ JobShape /\ Tried

\* At first nothing is had, read or heard.
LEMMA HonestInit == ASSUME Promised, Init PROVE IInv
<1>1. TypeOK
  BY TypeInit
<1>2. ScopeFixed
  BY DEF Init, ScopeFixed, Promised, Mishaps
<1>3. Numbers = {}
  BY DEF Init, Numbers
<1>. QED
  BY <1>1, <1>2, <1>3 DEF Init, IInv, Chained, Kept, Unheard, JobSince, JobCovers, JobShape, Tried

\* The read scope stays all the accounts, and no account is found to enter it.
LEMMA ScopeFixedStep == ASSUME IInv, [Next]_vars PROVE ScopeFixed'
<1>. USE DEF IInv, ScopeFixed
<1>t. TypeOK
  OBVIOUS
<1>1. ASSUME NEW c \in Cells, Change(c) PROVE ScopeFixed'
  <2>1. left'["moves"] = 0 /\ left'["lag"] = 0
    BY <1>1 DEF Change, Spend, TypeOK, Mishaps
  <2>. QED BY <1>1, <2>1 DEF Change
<1>2. CASE Break
  <2>1. left'["moves"] = 0 /\ left'["lag"] = 0
    BY <1>2 DEF Break, Spend, TypeOK, Mishaps
  <2>. QED BY <1>2, <2>1 DEF Break
<1>3. ASSUME NEW a \in Accounts, Move(a) PROVE ScopeFixed'
  BY <1>3 DEF Move, Spend
<1>4. CASE ScopeBreaks
  <2>1. left'["moves"] = 0 /\ left'["lag"] = 0
    BY <1>4 DEF ScopeBreaks, Spend, TypeOK, Mishaps
  <2>. QED BY <1>4, <2>1 DEF ScopeBreaks, WatchEnds
<1>5. CASE Fails
  <2>1. left'["moves"] = 0 /\ left'["lag"] = 0
    BY <1>5 DEF Fails, ReadFails, HandlerRaisesReading, HandlerRaisesHeard, Spend, TypeOK, Mishaps
  <2>2. job' = None /\ scope' = scope
    BY <1>5 DEF Fails, ReadFails, HandlerRaisesReading, HandlerRaisesHeard, Hearing, Free
  <2>3. \/ UNCHANGED <<scopes, held, entering>>
        \/ Afresh
        \/ WatchEnds
    BY <1>5 DEF Fails, ReadFails, HandlerRaisesReading, RaisesReading, HandlerRaisesHeard, scopeVars
  <2>. QED BY <2>1, <2>2, <2>3 DEF Afresh, WatchEnds
<1>6. CASE ReadPage
  <2>0. PICK page \in SUBSET job.unread, n \in AsOf : job' = Answered(page, n)
    BY <1>6 DEF ReadPage
  <2>1. job' # None /\ job'.by = job.by
    BY <1>6, <1>t, <2>0, AnsweredIsRead DEF ReadPage
  <2>. QED BY <1>6, <2>1 DEF ReadPage
<1>7. CASE ReadLast
  BY <1>7 DEF ReadLast
<1>8. CASE Follow
  <2>1. UNCHANGED <<scope, left, scopes, held, entering>>
    BY <1>8 DEF Follow, Open, ReadOnOpen, TakeLost, SkipHad, HandHeard, ReadGap, SeeBreak
  <2>2. job' = job \/ job'.by # "scope"
    BY <1>8 DEF Follow, Open, ReadOnOpen, TakeLost, SkipHad, HandHeard, ReadGap, SeeBreak,
                CatchUpAll, CatchUp, Seed, Reading
  <2>. QED BY <2>1, <2>2
<1>9. CASE TakeScope
  <2>1. Head(scopes) = Accounts /\ \A n \in 1..Len(scopes') : scopes'[n] = Accounts
    <3>1. scopes \in Seq(SUBSET Accounts) /\ scopes # <<>>
      BY <1>9 DEF TakeScope, TypeOK
    <3>2. Len(scopes) \in Nat \ {0} /\ Head(scopes) = scopes[1]
      BY <3>1, EmptySeq, HeadTailProperties
    <3>3. Len(scopes') = Len(scopes) - 1 /\ \A n \in 1..Len(scopes') : scopes'[n] = scopes[n + 1]
      BY <1>9, <3>1, HeadTailProperties DEF TakeScope
    <3>4. ASSUME NEW n \in 1..Len(scopes') PROVE scopes'[n] = Accounts
      <4>1. n + 1 \in 1..Len(scopes)
        BY <3>2, <3>3
      <4>. QED BY <3>3, <4>1
    <3>. QED BY <3>2, <3>4
  <2>. QED BY <1>9, <2>1 DEF TakeScope
<1>10. ASSUME NEW a \in Accounts, ReadEntering(a) PROVE ScopeFixed'
  BY <1>10 DEF ReadEntering
<1>11. CASE UNCHANGED vars
  BY <1>11 DEF vars
<1>. QED
  BY <1>1, <1>2, <1>3, <1>4, <1>5, <1>6, <1>7, <1>8, <1>9, <1>10, <1>11
     DEF Next, Sidecar, Reads, Watch

\* What is had and read says nothing of a change after it: making one, chained
\* to its account's last, keeps the rest.
LEMMA ChangeKeeps ==
  ASSUME IInv, NEW c \in Cells, Change(c)
  PROVE  Chained' /\ Kept' /\ Unheard' /\ JobSince' /\ JobCovers' /\ JobShape' /\ Tried'
<1>t. TypeOK
  BY DEF IInv
<1>n. Len(log) \in Nat /\ Numbers = 1..Len(log)
  BY <1>t DEF TypeOK, Numbers
<1>m. PICK new \in Nat : new = Len(log) + 1
  BY <1>n
<1>. DEFINE a == c[1]
<1>1. /\ LastOf(a) \in 0..Len(log)
      /\ \A i \in Numbers : Of(i) = a => i <= LastOf(a)
  <2>. DEFINE S == {0} \cup MadeOf(a)
  <2>1. S \in SUBSET (0..Len(log)) /\ S # {}
    BY <1>n DEF MadeOf
  <2>2. \A i \in Numbers : Of(i) = a => i \in S
    BY DEF MadeOf, Of
  <2>. HIDE DEF S
  <2>3. Max(S) \in S /\ \A y \in S : Max(S) >= y
    BY <1>n, <2>1, MaxIsGreatest
  <2>4. Max(S) \in 0..Len(log) /\ \A i \in Numbers : Of(i) = a => i <= Max(S)
    BY <1>n, <2>1, <2>2, <2>3
  <2>. QED BY <2>4 DEF LastOf, S
<1>2. /\ log' = Append(log, [cell |-> c, previous |-> LastOf(a)])
      /\ UNCHANGED <<points, readTo, job, value, phase, tries>>
  BY DEF Change
<1>3. /\ Len(log') = new
      /\ \A i \in 1..Len(log) : log'[i] = log[i]
      /\ log'[new] = [cell |-> c, previous |-> LastOf(a)]
  <2>1. log \in Seq([cell : Cells, previous : Nat])
    BY <1>t DEF TypeOK
  <2>2. [cell |-> c, previous |-> LastOf(a)] \in [cell : Cells, previous : Nat]
    BY <1>1
  <2>. QED BY <1>m, <1>2, <2>1, <2>2, AppendProperties
<1>4. Numbers' = Numbers \cup {new} /\ Of(new)' = a /\ \A i \in Numbers : Of(i)' = Of(i)
  BY <1>m, <1>n, <1>3 DEF Numbers, Of
<1>h. /\ readTo <= Len(log)
      /\ \A b \in Accounts : points[b] # None => Had(points[b]) <= Len(log)
      /\ job # None => /\ job.since <= Len(log)
                       /\ job.got \subseteq Numbers
                       /\ job.answered # None => job.answered <= Len(log)
  BY <1>n, <1>t, HadIsNumber DEF TypeOK, Bounded
<1>5. Chained'
  <2>1. ASSUME NEW i \in Numbers PROVE /\ log'[i].previous < i
                                       /\ \A j \in Numbers' : log'[i].previous < j /\ j < i => Of(j)' # Of(i)'
    BY <1>m, <1>n, <1>3, <1>4 DEF IInv, Chained
  <2>2. /\ log'[new].previous < new
        /\ \A j \in Numbers' : log'[new].previous < j /\ j < new => Of(j)' # Of(new)'
    BY <1>1, <1>m, <1>n, <1>3, <1>4
  <2>. QED BY <1>4, <2>1, <2>2 DEF Chained
<1>6. Kept'
  <2>1. ASSUME NEW b \in Accounts, points[b] # None, NEW i \in Numbers', Of(i)' = b, i <= Had(points[b])
        PROVE  value[log'[i].cell] >= i
    <3>1. i \in Numbers
      BY <1>m, <1>n, <1>h, <1>4, <2>1, HadIsNumber, <1>t
    <3>. QED BY <1>n, <1>3, <1>4, <2>1, <3>1 DEF IInv, Kept
  <2>. QED BY <1>2, <2>1 DEF Kept
<1>7. Unheard'
  <2>1. ASSUME NEW b \in Accounts, points[b] = None, NEW i \in Numbers', i <= readTo PROVE Of(i)' # b
    <3>1. i \in Numbers
      BY <1>m, <1>n, <1>h, <1>4, <1>t, <2>1 DEF TypeOK
    <3>. QED BY <1>4, <2>1, <3>1 DEF IInv, Unheard
  <2>. QED BY <1>2, <2>1 DEF Unheard
<1>8. JobSince'
  <2>1. ASSUME job # None, NEW b \in job.who, points[b] = None, NEW i \in Numbers', i <= job.since
        PROVE  Of(i)' # b
    <3>1. job \in Jobs
      BY <1>t, <2>1 DEF TypeOK
    <3>2. job.since \in Nat
      BY <3>1 DEF Jobs
    <3>3. i \in Numbers
      BY <1>m, <1>n, <1>h, <1>4, <2>1, <3>2
    <3>. QED BY <1>4, <2>1, <3>3 DEF IInv, JobSince
  <2>. QED BY <1>2, <2>1 DEF IInv, JobSince
<1>9. JobCovers'
  <2>. SUFFICES ASSUME job # None PROVE Covers(job)'
    BY <1>2 DEF JobCovers
  <2>1. Covers(job) /\ job \in Jobs
    BY <1>t DEF IInv, JobCovers, TypeOK
  <2>2. ASSUME job.answered # None, NEW i \in Numbers', job.since < i, i <= job.answered,
               Of(i)' \in job.who, log'[i].cell \notin job.unread
        PROVE  \E g \in job.got : log'[g].cell = log'[i].cell /\ g >= i
    <3>1. i \in Numbers
      BY <1>m, <1>n, <1>h, <1>4, <2>1, <2>2 DEF Jobs
    <3>2. PICK g \in job.got : log[g].cell = log[i].cell /\ g >= i
      BY <1>n, <1>3, <1>4, <2>1, <2>2, <3>1 DEF Covers
    <3>. QED BY <1>n, <1>h, <1>3, <3>1, <3>2
  <2>3. \A g \in job.got : Of(g)' \in job.who
    BY <1>h, <1>4, <2>1 DEF Covers
  <2>. QED BY <1>2, <2>1, <2>2, <2>3 DEF Covers
<1>10. stream # <<>> => stream' # <<>> /\ Head(stream') = Head(stream)
  <2>1. stream \in Seq(Nat)
    BY <1>t DEF TypeOK
  <2>2. stream' = stream \/ \E x \in Nat : stream' = Append(stream, x)
    BY <1>n DEF Change, Lost
  <2>. QED BY <2>1, <2>2
<1>11. stream # <<>> /\ Head(stream) # Lost => log'[Head(stream)].cell[1] = Of(Head(stream))
  BY <1>n, <1>3, <1>t, HeadIsNumber DEF Of
<1>12. JobShape'
  BY <1>2, <1>10, <1>11 DEF IInv, JobShape, Lost, Of
<1>13. Tried'
  BY <1>2, <1>10, <1>11 DEF IInv, Tried, Lost, Of
<1>. QED BY <1>5, <1>6, <1>7, <1>8, <1>9, <1>12, <1>13

\* A read that answers as of now has, once a page of it is answered, the last
\* record of every cell of it changed since.
LEMMA AnsweredCovers ==
  ASSUME Promised, IInv, job # None, NEW page \in SUBSET job.unread, NEW n \in AsOf
  PROVE  Covers(Answered(page, n)) /\ Answered(page, n).answered # None
<1>. DEFINE read == Answered(page, n)
            new == {i \in {LatestAt(c, n) : c \in page} : i > job.since}
<1>t. TypeOK /\ Covers(job)
  BY DEF IInv, JobCovers
<1>1. /\ job \in Jobs /\ read \in Jobs
      /\ read.who = job.who /\ read.since = job.since
      /\ read.unread = job.unread \ page
      /\ read.answered \in 0..Len(log)
      /\ read.answered = IF job.answered = None THEN n ELSE job.answered
      /\ read.answered <= n
      /\ read.got = job.got \cup new
      /\ read.got \subseteq Numbers
  BY <1>t, AnsweredIsRead
<1>2. Len(log) \in Nat /\ n \in 0..Len(log) /\ job.since \in Nat
  BY <1>1, <1>t DEF AsOf, TypeOK, Jobs
<1>3. page \subseteq Cells /\ page \subseteq job.who \X Keys
  BY <1>1, <1>t DEF Jobs, Covers
<1>4. /\ \A c \in page : LatestAt(c, n) > job.since => LatestAt(c, n) \in new
      /\ \A g \in new : g > job.since /\ \E c \in page : g = LatestAt(c, n)
  OBVIOUS
<1>. HIDE DEF read, new
<1>5. ASSUME NEW i \in Numbers, read.since < i, i <= read.answered, Of(i) \in read.who,
             log[i].cell \notin read.unread
      PROVE  \E g \in read.got : log[g].cell = log[i].cell /\ g >= i
  <2>1. log[i].cell \in Cells /\ i \in Nat
    BY <1>t, NumberIsOfAccount DEF Numbers
  <2>2. CASE log[i].cell \in page
    <3>. DEFINE g == LatestAt(log[i].cell, n)
    <3>1. g \in 0..n /\ (g # 0 => log[g].cell = log[i].cell) /\ i <= g
      <4>1. i \in 1..n /\ n \in Nat
        BY <1>1, <1>2, <1>5 DEF Numbers
      <4>2. PICK c \in Cells : c = log[i].cell
        BY <2>1
      <4>3. /\ LatestAt(c, n) \in 0..n
            /\ LatestAt(c, n) # 0 => log[LatestAt(c, n)].cell = c
            /\ \A j \in 1..n : log[j].cell = c => j <= LatestAt(c, n)
        BY <4>1, LatestIsLast
      <4>. QED BY <4>1, <4>2, <4>3
    <3>2. g \in new /\ g # 0
      BY <1>1, <1>2, <1>4, <1>5, <2>1, <2>2, <3>1
    <3>. QED BY <1>1, <3>1, <3>2
  <2>3. CASE log[i].cell \notin page
    <3>1. log[i].cell \notin job.unread
      BY <1>1, <1>5, <2>3
    <3>2. log[i].cell \in job.who \X Keys
      BY <1>1, <1>5, <2>1 DEF Of, Cells
    <3>3. job.answered # None
      BY <1>t, <3>1, <3>2 DEF Covers
    <3>. QED BY <1>1, <1>5, <1>t, <3>1, <3>3 DEF Covers
  <2>. QED BY <2>2, <2>3
<1>6. ASSUME NEW g \in read.got PROVE Of(g) \in read.who
  <2>1. CASE g \in job.got
    BY <1>1, <1>t, <2>1 DEF Covers
  <2>2. CASE g \in new
    <3>1. PICK c \in page : g = LatestAt(c, n) /\ g > job.since
      BY <1>4, <2>2
    <3>2. log[g].cell = c
      <4>1. c \in Cells /\ n \in Nat /\ g # 0
        BY <1>2, <1>3, <3>1
      <4>2. LatestAt(c, n) # 0 => log[LatestAt(c, n)].cell = c
        BY <4>1, LatestIsLast
      <4>. QED BY <3>1, <4>1, <4>2
    <3>. QED BY <1>1, <1>3, <3>2 DEF Of
  <2>. QED BY <1>1, <1>6, <2>1, <2>2
<1>7. read.answered # None
  BY <1>1, FollowerAssumption
<1>8. read.unread \subseteq read.who \X Keys
  BY <1>1, <1>t DEF Covers
<1>9. Covers(read) /\ read.answered # None
  BY <1>5, <1>6, <1>7, <1>8 DEF Covers
<1>. QED BY <1>9 DEF read

\* Where a read moves a point, it was of the account, and it moves the point of
\* every account it names or was asked of, unless had so far already.
LEMMA MovesAreAsked ==
  ASSUME TypeOK, NEW read \in Jobs, read.answered \in 0..Len(log),
         read.whole => read.who = Accounts,
         \A g \in read.got : Of(g) \in read.who,
         NEW a \in Accounts
  PROVE  /\ Moves(read)[a] # points[a] =>
              a \in read.who /\ Moves(read)[a] = ReadTo(read.answered) /\ read.answered > HadOf(a)
         /\ (\E g \in read.got : Of(g) = a) /\ read.answered > HadOf(a) =>
              Moves(read)[a] = ReadTo(read.answered)
         /\ read.by # "seed" /\ ~read.whole /\ a \in read.who /\ read.answered > HadOf(a) =>
              Moves(read)[a] = ReadTo(read.answered)
<1>. DEFINE named == {log[i].cell[1] : i \in read.got}
            asked == CASE read.by = "seed" -> {}
                       [] read.by # "seed" /\ read.whole -> {b \in Accounts : points[b] # None}
                       [] OTHER -> read.who
<1>1. Moves(read)[a] = IF a \in named \cup asked /\ MovesOn(read, a)
                       THEN ReadTo(read.answered) ELSE points[a]
  BY DEF Moves
<1>2. a \in named => a \in read.who
  BY DEF Of
<1>3. (\E g \in read.got : Of(g) = a) => a \in named
  BY DEF Of
<1>4. /\ asked \subseteq read.who
      /\ read.by # "seed" /\ ~read.whole => asked = read.who
  <2>1. CASE read.by = "seed"
    BY <2>1
  <2>2. CASE read.by # "seed" /\ read.whole
    BY <2>2
  <2>3. CASE read.by # "seed" /\ ~read.whole
    BY <2>3
  <2>. QED BY <2>1, <2>2, <2>3
<1>. HIDE DEF named, asked
<1>. QED BY <1>1, <1>2, <1>3, <1>4 DEF MovesOn

\* A read answered as of now moves points only past what it hands on.
LEMMA ReadLastKeeps ==
  ASSUME Promised, IInv, ReadLast
  PROVE  Chained' /\ Kept' /\ Unheard' /\ JobSince' /\ JobCovers' /\ JobShape' /\ Tried'
<1>t. TypeOK /\ job # None /\ job \in Jobs
  BY DEF IInv, TypeOK, ReadLast
<1>1. PICK n \in AsOf :
        LET whole == Answered(job.unread, n)
        IN  /\ points' = Moves(whole)
            /\ readTo' = IF whole.whole THEN whole.answered ELSE readTo
            /\ Handing(ToHand(whole))
  BY DEF ReadLast
<1>2. PICK read : read = Answered(job.unread, n)
  OBVIOUS
<1>3. /\ read \in Jobs /\ read.by = job.by /\ read.who = job.who /\ read.whole = job.whole
      /\ read.since = job.since /\ read.unread = {}
      /\ read.answered \in 0..Len(log) /\ read.got \subseteq Numbers
      /\ read.answered = IF job.answered = None THEN n ELSE job.answered
  <2>1. job.unread \in SUBSET job.unread /\ job.unread \ job.unread = {}
    OBVIOUS
  <2>. QED BY <1>1, <1>2, <1>t, <2>1, AnsweredIsRead
<1>4. Covers(read) /\ read.answered # None
  BY <1>2, <1>t, AnsweredCovers
<1>5. /\ points' = Moves(read)
      /\ readTo' = IF read.whole THEN read.answered ELSE readTo
      /\ Handing(ToHand(read))
      /\ job' = None /\ log' = log
  BY <1>1, <1>2 DEF ReadLast
<1>6. /\ Len(log) \in Nat /\ Numbers = 1..Len(log)
      /\ read.whole => read.who = Accounts
  BY <1>3, <1>t DEF TypeOK, Numbers, IInv, JobShape
<1>7. /\ Had(ReadTo(read.answered)) = read.answered
      /\ ReadTo(read.answered) # None
  BY <1>3, FollowerAssumption DEF Had, ReadTo, Point
<1>8. ToHand(read) = {i \in read.got : i > HadOf(Of(i))}
  BY DEF ToHand, Promised, Of
<1>9. ToHand(read) \in SUBSET Numbers
  BY <1>3, <1>8
<1>10. \A c \in Cells : /\ \A i \in ToHand(read) : log[i].cell = c => value'[c] >= i
                        /\ \/ value'[c] = value[c]
                           \/ value'[c] \in ToHand(read) /\ log[value'[c]].cell = c
  BY <1>5, <1>9, <1>t, HandingKeeps
\* What was had of an account, or never was its change, is not read again.
<1>11. ASSUME NEW a \in read.who, NEW i \in Numbers, Of(i) = a, i > HadOf(a)
       PROVE  i > read.since
  <2>1. a \in Accounts /\ read.since \in Nat
    BY <1>3 DEF Jobs
  <2>. QED BY <1>3, <1>6, <1>11, <1>t, <2>1, HadIsNumber DEF IInv, JobSince
\* What a point is moved past is in the read, and handed on.
<1>12. ASSUME NEW a \in read.who, NEW i \in Numbers, Of(i) = a, i > HadOf(a), i <= read.answered
       PROVE  \E g \in read.got : Of(g) = a /\ log[g].cell = log[i].cell /\ g >= i /\ g \in ToHand(read)
  <2>1. PICK g \in read.got : log[g].cell = log[i].cell /\ g >= i
    BY <1>3, <1>4, <1>11, <1>12 DEF Covers
  <2>2. Of(g) = a /\ g \in Numbers
    BY <1>3, <1>12, <2>1 DEF Of
  <2>3. g > HadOf(a)
    BY <1>3, <1>6, <1>12, <1>t, <2>1, <2>2, HadIsNumber DEF Jobs
  <2>. QED BY <1>8, <2>1, <2>2, <2>3
<1>13. Kept'
  <2>1. ASSUME NEW a \in Accounts, points'[a] # None, NEW i \in Numbers, Of(i) = a, i <= Had(points'[a])
        PROVE  value'[log[i].cell] >= i
    <3>1. log[i].cell \in Cells /\ i \in Nat
      BY <1>6, <1>t, NumberIsOfAccount
    <3>2. CASE i <= HadOf(a)
      <4>1. points[a] # None /\ i <= Had(points[a]) /\ HadOf(a) = Had(points[a])
        BY <1>t, <3>1, <3>2, HadIsNumber
      <4>2. value[log[i].cell] >= i
        BY <2>1, <4>1 DEF IInv, Kept
      <4>3. CASE value'[log[i].cell] = value[log[i].cell]
        BY <4>2, <4>3
      <4>4. CASE /\ value'[log[i].cell] \in ToHand(read)
                 /\ log[value'[log[i].cell]].cell = log[i].cell
        <5>1. PICK g : g = value'[log[i].cell]
          OBVIOUS
        <5>2. g \in read.got /\ g > HadOf(Of(g)) /\ log[g].cell = log[i].cell
          BY <1>8, <4>4, <5>1
        <5>3. Of(g) = a /\ g \in Nat
          BY <1>3, <1>6, <2>1, <5>2 DEF Of
        <5>. QED BY <1>t, <3>1, <3>2, <4>1, <5>1, <5>2, <5>3, HadIsNumber
      <4>. QED BY <1>10, <3>1, <4>3, <4>4
    <3>3. CASE ~(i <= HadOf(a))
      <4>1. HadOf(a) \in Int /\ i > HadOf(a)
        BY <1>6, <1>t, <3>1, <3>3, HadIsNumber
      <4>2. Moves(read)[a] # points[a]
        BY <1>5, <1>t, <2>1, <3>3, HadIsNumber
      <4>3. a \in read.who /\ Moves(read)[a] = ReadTo(read.answered)
        BY <1>3, <1>4, <1>6, <1>t, <4>2, MovesAreAsked DEF Covers
      <4>4. i <= read.answered
        BY <1>5, <1>7, <2>1, <4>3
      <4>5. PICK g \in read.got : log[g].cell = log[i].cell /\ g >= i /\ g \in ToHand(read)
        BY <1>12, <2>1, <4>1, <4>3, <4>4
      <4>6. value'[log[i].cell] >= g
        BY <1>10, <3>1, <4>5
      <4>7. value'[log[i].cell] \in Nat /\ g \in Nat
        BY <1>3, <1>5, <1>6, <1>9, <1>t, <3>1, <4>5, HandingKeeps
      <4>. QED BY <3>1, <4>5, <4>6, <4>7
    <3>. QED BY <3>2, <3>3
  <2>. QED BY <1>5, <2>1 DEF Kept, Numbers, Of
<1>14. Unheard'
  <2>1. ASSUME NEW a \in Accounts, points'[a] = None, NEW i \in Numbers, i <= readTo' PROVE Of(i) # a
    <3>1. points[a] = None /\ HadOf(a) = -1
      BY <1>3, <1>4, <1>5, <1>6, <1>7, <1>t, <2>1, MovesAreAsked, HadIsNumber DEF Covers
    <3>2. CASE ~read.whole
      BY <1>5, <2>1, <3>1, <3>2 DEF IInv, Unheard
    <3>3. CASE read.whole
      <4>1. a \in read.who /\ i <= read.answered /\ i > HadOf(a) /\ read.answered > HadOf(a)
        BY <1>3, <1>5, <1>6, <2>1, <3>1, <3>3
      <4>2. SUFFICES ASSUME Of(i) = a PROVE FALSE
        OBVIOUS
      <4>3. \E g \in read.got : Of(g) = a
        BY <1>12, <4>1, <4>2
      <4>4. Moves(read)[a] = ReadTo(read.answered)
        BY <1>3, <1>4, <1>6, <1>t, <4>1, <4>3, MovesAreAsked DEF Covers
      <4>. QED BY <1>5, <1>7, <2>1, <4>4
    <3>. QED BY <3>2, <3>3
  <2>. QED BY <1>5, <2>1 DEF Unheard, Numbers, Of
<1>15. Tried'
  <2>1. tries = 0
    BY <1>t DEF IInv, Tried, TypeOK, CatchUpTries
  <2>2. CASE job.by # "delivery"
    BY <2>1, <2>2 DEF ReadLast, Tried
  <2>3. CASE job.by = "delivery"
    <3>1. /\ stream # <<>> /\ Head(stream) # Lost /\ ~read.whole
          /\ read.who = {Of(Head(stream))} /\ phase = "following" /\ read.by = "delivery"
          /\ job.answered # None => job.answered >= Head(stream)
      BY <1>3, <1>t, <2>3 DEF IInv, JobShape
    <3>2. PICK a : a = Of(Head(stream))
      OBVIOUS
    <3>3. Head(stream) \in Numbers /\ a \in Accounts /\ a \in read.who
      BY <1>t, <3>1, <3>2, HeadIsNumber, NumberIsOfAccount DEF Of
    <3>4. read.answered >= Head(stream)
      <4>1. n = Len(log)
        BY <1>6, <1>t DEF AsOf, IInv, ScopeFixed, TypeOK
      <4>. QED BY <1>3, <1>6, <3>1, <3>3, <4>1
    <3>5. points'[a] # None /\ Head(stream) <= Had(points'[a])
      <4>1. CASE read.answered > HadOf(a)
        <5>1. Moves(read)[a] = ReadTo(read.answered)
          BY <1>3, <1>4, <1>6, <1>t, <3>1, <3>3, <4>1, MovesAreAsked DEF Covers
        <5>. QED BY <1>5, <1>7, <3>4, <5>1
      <4>2. CASE ~(read.answered > HadOf(a))
        <5>1. Moves(read)[a] = points[a]
          BY <1>3, <1>4, <1>6, <1>t, <3>3, <4>2, MovesAreAsked DEF Covers
        <5>. QED BY <1>3, <1>5, <1>6, <1>t, <3>3, <3>4, <4>2, <5>1, HadIsNumber
      <4>. QED BY <4>1, <4>2
    <3>6. UNCHANGED <<stream, phase>>
      BY <2>3 DEF ReadLast
    <3>. QED BY <1>5, <3>1, <3>2, <3>5, <3>6 DEF Tried, Of
  <2>. QED BY <2>2, <2>3
<1>16. Chained'
  BY <1>5 DEF IInv, Chained, Numbers, Of
<1>. QED
  BY <1>5, <1>13, <1>14, <1>15, <1>16 DEF JobSince, JobCovers, JobShape

\* A change heard that follows on is its account's next: all before it were had.
LEMMA HandHeardKeeps ==
  ASSUME IInv, HandHeard
  PROVE  Kept' /\ Unheard'
<1>t. TypeOK
  BY DEF IInv
<1>1. PICK i : i = Head(stream)
  OBVIOUS
<1>2. /\ i \in Numbers /\ Numbers = 1..Len(log) /\ Len(log) \in Nat
      /\ Heard(i) /\ Handing({i}) /\ log' = log /\ readTo' = readTo
      /\ points' = [points EXCEPT ![log[i].cell[1]] = [HandedFrom(i) EXCEPT !.last = i]]
  BY <1>1, <1>t, HeadIsNumber DEF HandHeard, Hearing, Numbers, TypeOK
<1>3. PICK a \in Accounts : a = Of(i)
  BY <1>2, <1>t, NumberIsOfAccount DEF Of
<1>4. /\ points'[a] # None /\ Had(points'[a]) = i
      /\ \A b \in Accounts : b # a => points'[b] = points[b]
  BY <1>2, <1>3, <1>t, PointHeard DEF Of
<1>5. \A c \in Cells : /\ log[i].cell = c => value'[c] >= i
                       /\ \/ value'[c] = value[c]
                          \/ value'[c] = i /\ log[i].cell = c
  <2>1. {i} \in SUBSET Numbers
    BY <1>2
  <2>. QED BY <1>2, <1>t, <2>1, HandingKeeps
\* A delivery read for once is had, so none is handed on as it is.
<1>6. Follows(i)
  <2>1. CASE tries > 0
    <3>1. points[a] # None /\ i <= Had(points[a])
      BY <1>1, <1>3, <2>1 DEF IInv, Tried
    <3>2. PointFor(i) = points[a] /\ HandedFrom(i) = points[a]
      BY <1>3, <3>1 DEF PointFor, HandedFrom, Of
    <3>3. i \in Nat /\ Had(points[a]) \in Nat
      BY <1>2, <1>t, <3>1, HadIsNumber
    <3>. QED BY <1>2, <3>1, <3>2, <3>3 DEF Heard, Follows
  <2>2. CASE ~(tries > 0)
    BY <1>2, <1>t, <2>2 DEF Heard, CatchUpTries, TypeOK
  <2>. QED BY <2>1, <2>2
<1>7. ASSUME NEW j \in Numbers, Of(j) = a, j < i PROVE points[a] # None /\ j <= Had(points[a])
  <2>1. j <= log[i].previous /\ log[i].previous \in Nat
    BY <1>2, <1>3, <1>7, <1>t, NumberIsOfAccount DEF IInv, Chained
  <2>2. log[i].previous # 0
    BY <1>2, <2>1
  <2>3. PointFor(i) = points[a] /\ points[a] # None
    BY <1>3, <1>6, <2>2 DEF PointFor, Follows, Of
  <2>4. log[i].previous <= Had(points[a])
    <3>1. points[a] \in Point
      BY <1>t, <2>3 DEF TypeOK
    <3>. QED BY <1>6, <2>1, <2>3, <3>1 DEF Follows, Continues, Had, Point
  <2>. QED BY <1>2, <1>t, <2>1, <2>3, <2>4, HadIsNumber
<1>8. ASSUME NEW b \in Accounts, points'[b] # None, NEW j \in Numbers, Of(j) = b, j <= Had(points'[b])
      PROVE  value'[log[j].cell] >= j
  <2>1. log[j].cell \in Cells /\ j \in Nat /\ i \in Nat
    BY <1>2, <1>t, NumberIsOfAccount
  <2>2. CASE j = i
    BY <1>5, <2>1, <2>2
  <2>3. CASE j # i
    <3>1. points[b] # None /\ j <= Had(points[b])
      BY <1>3, <1>4, <1>7, <1>8, <2>1, <2>3
    <3>2. value[log[j].cell] >= j
      BY <1>8, <3>1 DEF IInv, Kept
    <3>3. CASE value'[log[j].cell] = value[log[j].cell]
      BY <3>2, <3>3
    <3>4. CASE value'[log[j].cell] = i /\ log[i].cell = log[j].cell
      BY <1>3, <1>4, <1>8, <2>1, <3>4 DEF Of
    <3>. QED BY <1>5, <2>1, <3>3, <3>4
  <2>. QED BY <2>2, <2>3
<1>9. Kept'
  BY <1>2, <1>8 DEF Kept, Numbers, Of
<1>10. Unheard'
  BY <1>2, <1>4 DEF IInv, Unheard, Numbers, Of
<1>. QED BY <1>9, <1>10

\* A read of the whole scope since the least any account has asks of nothing
\* had, nor of a change before the last such read of an account without one.
LEMMA ReadAllKeeps ==
  ASSUME IInv, NEW by \in {"seed", "open", "lost"},
         NEW since \in Nat, since = 0 \/ since = Min({readTo} \cup HadSoFar),
         job' = Reading(by, Accounts, TRUE, since),
         UNCHANGED <<log, points, readTo, value>>
  PROVE  /\ JobSince' /\ JobCovers' /\ job' # None
         /\ job'.by = by /\ job'.whole = TRUE /\ job'.who = Accounts
<1>t. TypeOK
  BY DEF IInv
<1>1. /\ job'.by = by /\ job'.whole = TRUE /\ job'.who = Accounts /\ job'.since = since
      /\ job'.answered = None /\ job'.unread = (Accounts \cap scope) \X Keys /\ job'.got = {}
  BY DEF Reading
<1>2. Accounts \cap scope = Accounts
  BY DEF IInv, ScopeFixed
<1>3. /\ \A a \in Accounts : points[a] # None => since <= Had(points[a])
      /\ since <= readTo
  <2>1. CASE since = 0
    BY <1>t, <2>1, HadIsNumber DEF TypeOK
  <2>2. CASE since = Min({readTo} \cup HadSoFar)
    <3>. DEFINE least == Min({readTo} \cup HadSoFar)
    <3>1. /\ least <= readTo
          /\ \A a \in Accounts : points[a] # None => least <= Had(points[a])
      BY <1>t, SinceIsLeast
    <3>. HIDE DEF least
    <3>2. since = least
      BY <2>2 DEF least
    <3>. QED BY <3>1, <3>2
  <2>. QED BY <2>1, <2>2
<1>4. since <= Len(log)
  BY <1>3, <1>t DEF TypeOK, Bounded
<1>5. job' # None
  BY <1>4, <1>t, Accounts \in SUBSET Accounts, ReadingIsRead
<1>6. JobSince'
  <2>1. ASSUME NEW a \in Accounts, points[a] = None, NEW i \in Numbers, i <= since PROVE Of(i) # a
    BY <1>3, <1>t, <2>1 DEF IInv, Unheard, TypeOK, Numbers
  <2>. QED BY <1>1, <1>3, <2>1 DEF JobSince, Numbers, Of
<1>7. JobCovers'
  BY <1>1, <1>2 DEF JobCovers, Covers
<1>. QED BY <1>1, <1>5, <1>6, <1>7

\* A read of an account since its last asks of nothing had.
LEMMA ReadGapKeeps ==
  ASSUME IInv, ReadGap
  PROVE  JobSince' /\ JobCovers' /\ JobShape' /\ Tried'
<1>t. TypeOK
  BY DEF IInv
<1>1. PICK i : i = Head(stream)
  OBVIOUS
<1>2. /\ stream # <<>> /\ i # Lost /\ phase = "following" /\ i \in Numbers
      /\ tries < CatchUpTries /\ (PointFor(i) # None => i > Had(PointFor(i)))
      /\ UNCHANGED <<log, stream, phase, tries, points, readTo>>
  BY <1>1, <1>t, HeadIsNumber DEF ReadGap, Hearing, MayRead
<1>3. PICK a \in Accounts : a = Of(i)
  BY <1>2, <1>t, NumberIsOfAccount DEF Of
<1>4. PICK since \in Nat : since = IF points[a] = None THEN 0 ELSE Had(points[a])
  BY <1>t, HadIsNumber
<1>5. job' = Reading("delivery", {a}, FALSE, since)
  BY <1>1, <1>3, <1>4 DEF ReadGap, CatchUp, Of
<1>6. /\ job'.by = "delivery" /\ job'.who = {a} /\ job'.whole = FALSE /\ job'.since = since
      /\ job'.answered = None /\ job'.unread = ({a} \cap scope) \X Keys /\ job'.got = {}
  BY <1>5 DEF Reading
<1>7. JobSince'
  BY <1>2, <1>4, <1>6, <1>t, HadIsNumber DEF JobSince, Numbers, Of
<1>8. JobCovers'
  <2>1. {a} \cap scope = {a}
    BY DEF IInv, ScopeFixed
  <2>. QED BY <1>6, <2>1 DEF JobCovers, Covers
<1>9. JobShape'
  BY <1>1, <1>2, <1>3, <1>6 DEF JobShape, Of
<1>10. Tried'
  <2>1. SUFFICES ASSUME tries > 0 PROVE FALSE
    BY <1>2 DEF Tried
  <2>2. points[a] # None /\ i <= Had(points[a])
    BY <1>1, <1>3, <2>1 DEF IInv, Tried
  <2>3. PointFor(i) = points[a] /\ i \in Nat /\ Had(points[a]) \in Nat
    BY <1>2, <1>3, <1>t, <2>2, HadIsNumber DEF PointFor, Of, Numbers
  <2>. QED BY <1>2, <2>2, <2>3
<1>. QED BY <1>7, <1>8, <1>9, <1>10

\* Each step keeps the point honest.
LEMMA HonestStep == ASSUME Promised, IInv, [Next]_vars PROVE IInv'
<1>t. TypeOK /\ TypeOK'
  BY TypeStep DEF IInv
<1>s. ScopeFixed /\ ScopeFixed'
  BY ScopeFixedStep DEF IInv
<1>q. ASSUME UNCHANGED <<log, points, readTo, value>>
      PROVE  Chained' /\ Kept' /\ Unheard' /\ (job' = job => JobSince' /\ JobCovers')
  BY <1>q DEF IInv, Chained, Kept, Unheard, JobSince, JobCovers, Covers, Numbers, Of
<1>z. tries \in Nat /\ (tries > 0 => job = None /\ phase = "following")
  BY <1>t DEF IInv, Tried, TypeOK
<1>a. ASSUME Afresh, job' = None, log' = log
      PROVE  Chained' /\ Kept' /\ Unheard' /\ JobSince' /\ JobCovers' /\ JobShape' /\ Tried'
  <2>1. points' = [a \in Accounts |-> None] /\ readTo' = 0 /\ tries' = 0
    BY <1>a DEF Afresh, Closing
  <2>2. Numbers \subseteq Nat \ {0}
    BY DEF Numbers
  <2>3. Unheard'
    BY <1>a, <2>1, <2>2 DEF Unheard, Numbers
  <2>. QED BY <1>a, <2>1, <2>3 DEF IInv, Chained, Kept, JobSince, JobCovers, JobShape, Tried, Numbers, Of
<1>1. ASSUME NEW c \in Cells, Change(c) PROVE IInv'
  BY <1>1, <1>s, <1>t, ChangeKeeps DEF IInv
<1>2. CASE Break
  <2>1. UNCHANGED <<log, points, readTo, value, job, phase, tries>>
    BY <1>2 DEF Break
  <2>2. Taken = 1 => stream' # <<>> /\ Head(stream') = Head(stream)
    <3>1. PICK n \in Taken..Len(stream) : stream' = SubSeq(stream, 1, n)
      BY <1>2 DEF Break
    <3>2. stream \in Seq(Nat) /\ Len(stream) \in Nat
      BY <1>t DEF TypeOK
    <3>3. SUFFICES ASSUME Taken = 1 PROVE stream' # <<>> /\ Head(stream') = Head(stream)
      OBVIOUS
    <3>4. n \in Int /\ 1 <= n /\ n <= Len(stream) /\ \A k \in 1..n : stream[k] \in Nat
      BY <3>1, <3>2, <3>3
    <3>5. stream' \in Seq(Nat) /\ Len(stream') = n /\ stream'[1] = stream[1]
      BY <3>1, <3>4, SubSeqProperties
    <3>. QED BY <3>2, <3>4, <3>5, EmptySeq, HeadTailProperties
  <2>3. JobShape'
    BY <2>1, <2>2 DEF IInv, JobShape, Taken, Of
  <2>4. Tried'
    BY <2>1, <2>2 DEF IInv, Tried, Taken, Of
  <2>. QED BY <1>q, <1>s, <1>t, <2>1, <2>3, <2>4 DEF IInv
<1>3. ASSUME NEW a \in Accounts, Move(a) PROVE IInv'
  BY <1>3, <1>s DEF Move, Spend, ScopeFixed
<1>4. CASE ScopeBreaks
  <2>1. UNCHANGED <<log, points, readTo, value, job, phase, tries, stream>>
    BY <1>4 DEF ScopeBreaks
  <2>. QED BY <1>q, <1>s, <1>t, <2>1 DEF IInv, JobShape, Tried, Of
<1>5. CASE ReadFails
  <2>1. UNCHANGED <<log, points, readTo, value>> /\ job' = None /\ tries' = 0
    BY <1>5, <1>s DEF ReadFails, ScopeFixed, Closing
  <2>. QED BY <1>q, <1>s, <1>t, <2>1 DEF IInv, JobSince, JobCovers, JobShape, Tried
<1>6. CASE HandlerRaisesReading
  <2>1. Afresh /\ job' = None /\ log' = log
    BY <1>6, <1>s DEF HandlerRaisesReading, RaisesReading, Promised, ScopeFixed
  <2>. QED BY <1>a, <1>s, <1>t, <2>1 DEF IInv
<1>7. CASE HandlerRaisesHeard
  <2>1. Afresh /\ job' = None /\ log' = log
    BY <1>7 DEF HandlerRaisesHeard, Hearing, Free, Promised
  <2>. QED BY <1>a, <1>s, <1>t, <2>1 DEF IInv
<1>8. CASE ReadPage
  <2>1. UNCHANGED <<log, points, readTo, value, phase, tries, stream>> /\ job # None
    BY <1>8 DEF ReadPage
  <2>2. PICK page \in SUBSET job.unread, n \in AsOf : job' = Answered(page, n)
    BY <1>8 DEF ReadPage
  <2>3. /\ job' # None /\ job'.by = job.by /\ job'.who = job.who /\ job'.whole = job.whole
        /\ job'.since = job.since
        /\ job'.answered = IF job.answered = None THEN n ELSE job.answered
    BY <1>t, <2>1, <2>2, AnsweredIsRead
  <2>4. JobSince'
    BY <2>1, <2>3 DEF IInv, JobSince, Numbers, Of
  <2>5. JobCovers'
    <3>1. Covers(Answered(page, n))
      BY <2>1, <2>2, AnsweredCovers
    <3>2. PICK read : read = Answered(page, n)
      OBVIOUS
    <3>3. Covers(read) /\ job' = read
      BY <2>2, <3>1, <3>2
    <3>. QED BY <2>1, <3>3 DEF JobCovers, Covers, Numbers, Of
  <2>6. JobShape'
    <3>1. job.by = "delivery" => n >= Head(stream)
      <4>1. n = Len(log) /\ Len(log) \in Nat
        BY <1>t DEF AsOf, IInv, ScopeFixed, TypeOK
      <4>. QED BY <1>t, <2>1, <4>1, HeadIsNumber DEF IInv, JobShape, Numbers
    <3>. QED BY <2>1, <2>3, <3>1 DEF IInv, JobShape, Of
  <2>7. Tried'
    BY <1>z, <2>1 DEF Tried
  <2>. QED BY <1>q, <1>s, <1>t, <2>1, <2>4, <2>5, <2>6, <2>7 DEF IInv
<1>9. CASE ReadLast
  BY <1>9, <1>s, <1>t, ReadLastKeeps DEF IInv
<1>10. CASE Open
  <2>1. /\ UNCHANGED <<log, points, readTo, value, job, tries>>
        /\ phase = "closed"
    BY <1>10 DEF Open
  <2>2. job = None
    BY <1>s, <1>t, <2>1 DEF IInv, JobShape, ScopeFixed, TypeOK, Jobs
  <2>. QED BY <1>q, <1>s, <1>t, <1>z, <2>1, <2>2 DEF IInv, JobShape, Tried
<1>11. CASE ReadOnOpen
  <2>1. /\ UNCHANGED <<log, points, readTo, value, tries>>
        /\ phase = "opened" /\ phase' = "reading"
    BY <1>11 DEF ReadOnOpen
  <2>2. /\ JobSince' /\ JobCovers' /\ job' # None
        /\ job'.by \in {"seed", "open"} /\ job'.whole = TRUE /\ job'.who = Accounts
    <3>1. CASE started
      <4>1. job' = Reading("open", Accounts, TRUE, Min({readTo} \cup HadSoFar))
        BY <1>11, <3>1 DEF ReadOnOpen, CatchUpAll
      <4>2. Min({readTo} \cup HadSoFar) \in Nat
        BY <1>t, SinceIsLeast
      <4>. QED BY <2>1, <4>1, <4>2, ReadAllKeeps
    <3>2. CASE ~started
      <4>1. job' = Reading("seed", Accounts, TRUE, 0)
        BY <1>11, <3>2 DEF ReadOnOpen, Seed
      <4>. QED BY <2>1, <4>1, ReadAllKeeps
    <3>. QED BY <3>1, <3>2
  <2>. QED BY <1>q, <1>s, <1>t, <1>z, <2>1, <2>2 DEF IInv, JobShape, Tried
<1>12. CASE TakeLost
  <2>1. /\ UNCHANGED <<log, points, readTo, value, tries, phase>>
        /\ phase = "following" /\ Head(stream) = Lost
    BY <1>12 DEF TakeLost, Hearing
  <2>2. Min({readTo} \cup HadSoFar) \in Nat
    BY <1>t, SinceIsLeast
  <2>3. job' = Reading("lost", Accounts, TRUE, Min({readTo} \cup HadSoFar))
    BY <1>12 DEF TakeLost, CatchUpAll
  <2>4. /\ JobSince' /\ JobCovers' /\ job' # None
        /\ job'.by = "lost" /\ job'.whole = TRUE /\ job'.who = Accounts
    BY <2>1, <2>2, <2>3, ReadAllKeeps
  <2>5. tries = 0
    BY <1>z, <2>1 DEF IInv, Tried
  <2>. QED BY <1>q, <1>s, <1>t, <2>1, <2>4, <2>5 DEF IInv, JobShape, Tried
<1>13. CASE SkipHad
  <2>1. UNCHANGED <<log, points, readTo, value, job>> /\ job = None /\ tries' = 0
    BY <1>13 DEF SkipHad, Hearing, Free
  <2>. QED BY <1>q, <1>s, <1>t, <2>1 DEF IInv, JobShape, Tried
<1>14. CASE HandHeard
  <2>1. log' = log /\ job' = None /\ tries' = 0
    BY <1>14 DEF HandHeard, Hearing, Free
  <2>2. Chained'
    BY <2>1 DEF IInv, Chained, Numbers, Of
  <2>. QED BY <1>14, <1>s, <1>t, <2>1, <2>2, HandHeardKeeps DEF IInv, JobSince, JobCovers, JobShape, Tried
<1>15. CASE ReadGap
  <2>1. UNCHANGED <<log, points, readTo, value>>
    BY <1>15 DEF ReadGap
  <2>. QED BY <1>15, <1>q, <1>s, <1>t, <2>1, ReadGapKeeps DEF IInv
<1>16. CASE SeeBreak
  <2>1. UNCHANGED <<log, points, readTo, value, job>> /\ tries' = 0 /\ job = None
    BY <1>16, <1>s, <1>t DEF SeeBreak, Closing, Free, IInv, JobShape, ScopeFixed, TypeOK, Jobs
  <2>. QED BY <1>q, <1>s, <1>t, <2>1 DEF IInv, JobShape, Tried
<1>17. CASE TakeScope
  <2>1. UNCHANGED <<log, readTo, value, job, phase, tries, stream>>
    BY <1>17 DEF TakeScope
  <2>2. points' = points
    <3>1. Head(scopes) = Accounts
      BY <1>17, <1>s, <1>t, EmptySeq, HeadTailProperties DEF TakeScope, ScopeFixed, TypeOK
    <3>. QED BY <1>17, <1>s, <1>t, <3>1 DEF TakeScope, ScopeFixed, TypeOK
  <2>. QED BY <1>q, <1>s, <1>t, <2>1, <2>2 DEF IInv, JobShape, Tried, Of
<1>18. ASSUME NEW a \in Accounts, ReadEntering(a) PROVE IInv'
  BY <1>18, <1>s DEF ReadEntering, ScopeFixed
<1>19. CASE UNCHANGED vars
  <2>1. UNCHANGED <<log, points, readTo, value, job, phase, tries, stream>>
    BY <1>19 DEF vars
  <2>. QED BY <1>q, <1>s, <1>t, <2>1 DEF IInv, JobShape, Tried, Of
<1>. QED
  BY <1>1, <1>2, <1>3, <1>4, <1>5, <1>6, <1>7, <1>8, <1>9, <1>10,
     <1>11, <1>12, <1>13, <1>14, <1>15, <1>16, <1>17, <1>18, <1>19
     DEF Next, Sidecar, Fails, Reads, Follow, Watch

\* Where reads answer as of now, handlers keep their own failed calls, the row
\* is seeded and the scope stays, no point ever passes a change its handler was
\* not handed: for every number of accounts and records, whatever is dropped,
\* told of or not, and however often the stream breaks, a read fails or the
\* follow ends and is run again (receive.py, `_Point`, `_apply`, `delivered`).
THEOREM PointIsHonest == ASSUME Promised PROVE Spec => []HadIsHeld
<1>1. Init => IInv
  BY HonestInit
<1>2. IInv /\ [Next]_vars => IInv'
  BY HonestStep
<1>3. IInv => HadIsHeld
  <2>. SUFFICES ASSUME IInv, NEW a \in scope, points[a] # None,
                       NEW i \in 1..Had(points[a]), log[i].cell[1] = a
                PROVE  value[log[i].cell] >= i
    BY DEF HadIsHeld
  <2>1. a \in Accounts /\ TypeOK
    BY DEF IInv, ScopeFixed
  <2>2. i \in Numbers
    BY <2>1, HadIsNumber DEF Numbers
  <2>3. i <= Had(points[a])
    BY <2>1, HadIsNumber
  <2>. QED BY <2>1, <2>2, <2>3 DEF IInv, Kept, Of
<1>. QED BY <1>1, <1>2, <1>3, PTL DEF Spec

=============================================================================
