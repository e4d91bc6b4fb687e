---------------------------- MODULE CursorsProofs -----------------------------
(***************************************************************************)
(* The rows no journal numbers, proved for any roles, rows, records, pages *)
(* and mishaps: no value handed on gives way to an earlier one of its      *)
(* place, between two trades handed on none is missing, and a seeding      *)
(* role's map of IDs names what stands.                                    *)
(***************************************************************************)
EXTENDS Cursors, FiniteSetTheorems, SequenceTheorems, WellFoundedInduction, TLAPS

-----------------------------------------------------------------------------
(* The least and the greatest of naturals. *)

\* Every set of naturals that is not empty has a least member.
LEMMA LeastExists ==
  ASSUME NEW S \in SUBSET Nat, S # {}
  PROVE  \E x \in S : \A y \in S : x <= y
<1>1. PICK x \in S : \A y \in S : ~(<<y, x>> \in OpToRel(<, Nat))
  BY WFMin, NatLessThanWellFounded, Zenon
<1>2. \A y \in S : ~(y < x)
  BY <1>1, Zenon DEF OpToRel
<1>3. \A y \in S : x <= y
  BY <1>2
<1>. QED BY <1>3

\* Max is the greatest of a bounded set of naturals.
LEMMA MaxIsGreatest ==
  ASSUME NEW n \in Nat, NEW S \in SUBSET (0..n), S # {}
  PROVE  Max(S) \in S /\ \A y \in S : Max(S) >= y
<1>. DEFINE T == {m \in 0..n : n - m \in S}
<1>1. PICK m \in S : TRUE
  OBVIOUS
<1>2. n - m \in T
  BY n - (n - m) = m
<1>3. T \in SUBSET Nat /\ T # {}
  BY <1>2
<1>4. PICK t \in T : \A u \in T : t <= u
  BY <1>3, LeastExists
<1>5. t \in 0..n /\ n - t \in S
  OBVIOUS
<1>6. ASSUME NEW y \in S PROVE n - t >= y
  <2>1. n - y \in T
    BY n - (n - y) = y
  <2>2. t <= n - y
    BY <2>1, <1>4
  <2>. QED BY <2>2, <1>5
<1>. QED BY <1>5, <1>6 DEF Max

-----------------------------------------------------------------------------

Heard == ToSet(Roles)

\* The types that matter here: what roles' maps hold is left out.
Typed ==
    /\ heard \subseteq Rows /\ log \in Seq(Records) /\ \A i \in Numbers : log[i].row \in heard
    /\ named \subseteq Keys /\ wanted \subseteq Keys
    /\ stream \subseteq [lost : BOOLEAN, number : Numbers]
    /\ up \in BOOLEAN /\ started \in BOOLEAN
    /\ seen \in [Places -> 0 .. Len(log)]
    /\ value \in [Heard -> [Lake -> 0 .. Len(log)]]
    /\ had \in [Heard -> SUBSET Numbers]

\* A delivery not taken stands for one record.
Single == \A x, y \in stream : x.number = y.number => x = y

\* What a role holds of a key or dataset is a record of it; where one was handed
\* on, none later than that; and what is on its way to be handed on is later.
Held ==
    /\ \A r \in Heard, p \in Lake :
          /\ value[r][p] # 0 => log[value[r][p]].place = p
          /\ seen[p] > 0 => value[r][p] <= seen[p]
    /\ \A r \in Heard, x \in stream :
          log[x.number].place \in Lake /\ x.number > seen[log[x.number].place]
              => x.number > value[r][log[x.number].place]

Order == Typed /\ Single /\ Held

-----------------------------------------------------------------------------
(* Records. *)

\* Where things are recorded: datasets apart from keys, replacements apart from both.
LEMMA PlacesAre ==
    /\ Lake \subseteq Places /\ Keys \cap Datasets = {} /\ All \notin Lake
    /\ Places = Lake \cup {All} /\ Lake = Keys \cup Datasets
BY CursorsAssumption DEF CursorsAssumption, Lake, Places

\* A record's row says what its place is.
LEMMA RecordIs ==
    ASSUME NEW record \in Records
    PROVE  /\ record.place \in Places /\ record.row \in Rows
           /\ record.row = "full" <=> record.place \in Datasets
           /\ record.row = "latest" <=> record.place \in Keys
           /\ record.row = "sequenced" <=> record.place = All
           /\ record.row = "full" => record.of \in Keys
<1> USE DEF Places, Lake, Rows
<1>1. CASE record \in [row : {"latest"}, place : Keys, of : {None}, from : {None}, to : {None}]
  BY <1>1, PlacesAre
<1>2. CASE record \in [row : {"full"}, place : Datasets, of : Keys, from : {None}, to : {None}]
  BY <1>2, PlacesAre
<1>3. CASE record \in [row : {"sequenced"}, place : {All}, of : {None}, from : Ids, to : Ids]
  BY <1>3, PlacesAre
<1> QED BY <1>1, <1>2, <1>3 DEF Records

\* What is in the log is a record, of a row heard.
LEMMA LogIs ==
    ASSUME Typed, NEW i \in Numbers
    PROVE  /\ log[i] \in Records /\ log[i].place \in Places /\ log[i].row \in heard
           /\ log[i].row = "full" <=> log[i].place \in Datasets
           /\ log[i].row = "latest" <=> log[i].place \in Keys
           /\ log[i].row = "sequenced" <=> log[i].place = All
           /\ log[i].row = "full" => log[i].of \in Keys
<1>1. log[i] \in Records
  BY ElementOfSeq DEF Typed, Numbers
<1> QED BY <1>1, RecordIs DEF Typed

\* Numbers do not pass the log's length.
LEMMA LengthIs == ASSUME Typed PROVE Len(log) \in Nat /\ Numbers \in SUBSET (0 .. Len(log))
BY LenProperties DEF Typed, Numbers

\* The latest of a place is the last of its records.
LEMMA LatestIs ==
    ASSUME Typed, NEW p
    PROVE  /\ LatestOf(p) \in 0 .. Len(log)
           /\ LatestOf(p) # 0 => LatestOf(p) \in Numbers /\ log[LatestOf(p)].place = p
           /\ \A i \in Numbers : log[i].place = p => i <= LatestOf(p)
<1> DEFINE S == {0} \cup {i \in Numbers : log[i].place = p}
<1>1. S \in SUBSET (0 .. Len(log)) /\ S # {}
  BY LengthIs
<1>2. LatestOf(p) = Max(S)
  BY DEF LatestOf
<1>3. \A i : i \in S <=> i = 0 \/ (i \in Numbers /\ log[i].place = p)
  BY LengthIs
<1> HIDE DEF S
<1>4. Max(S) \in S /\ \A y \in S : Max(S) >= y
  BY <1>1, LengthIs, MaxIsGreatest
<1>5. Max(S) \in 0 .. Len(log)
  BY <1>1, <1>4
<1>6. \A i \in Numbers : log[i].place = p => i <= Max(S)
  BY <1>3, <1>4, <1>5, LengthIs
<1> QED BY <1>2, <1>3, <1>4, <1>5, <1>6

-----------------------------------------------------------------------------
(* Handing on. *)

\* What a role holds is not later than what is to be handed on of `numbers`.
Above(numbers) ==
    /\ numbers \subseteq Numbers
    /\ \A i \in Due(numbers), r \in Heard : log[i].place \in Lake => value[r][log[i].place] <= i

\* What was handed on of a place is marked.
LEMMA MarkedIs ==
    ASSUME Typed, NEW numbers \in SUBSET Numbers, NEW p \in Places
    PROVE  /\ Marked(numbers)[p] \in 0 .. Len(log) /\ seen[p] <= Marked(numbers)[p]
           /\ \A i \in numbers : log[i].place = p => i <= Marked(numbers)[p]
           /\ \/ Marked(numbers)[p] = seen[p]
              \/ Marked(numbers)[p] \in numbers /\ log[Marked(numbers)[p]].place = p
<1> DEFINE S == {seen[p]} \cup {i \in numbers : log[i].place = p}
<1>1. Marked(numbers)[p] = Max(S)
  BY DEF Marked
<1>2. seen[p] \in 0 .. Len(log)
  BY DEF Typed
<1>3. S \in SUBSET (0 .. Len(log)) /\ S # {}
  BY <1>2, LengthIs
<1>4. \A i : i \in S <=> i = seen[p] \/ (i \in numbers /\ log[i].place = p)
  OBVIOUS
<1> HIDE DEF S
<1>5. Max(S) \in S /\ \A y \in S : Max(S) >= y
  BY <1>3, LengthIs, MaxIsGreatest
<1>6. Max(S) \in 0 .. Len(log)
  BY <1>3, <1>5
<1>7. seen[p] <= Max(S) /\ \A i \in numbers : log[i].place = p => i <= Max(S)
  BY <1>2, <1>4, <1>5, <1>6, LengthIs
<1> QED BY <1>1, <1>4, <1>5, <1>6, <1>7

\* Marks do not pass the log.
LEMMA MarkedTyped ==
    ASSUME Typed, NEW numbers \in SUBSET Numbers
    PROVE  Marked(numbers) \in [Places -> 0 .. Len(log)]
BY MarkedIs DEF Marked

\* What a role holds once it is handed `got[r]`.
LEMMA ValuedIs ==
    ASSUME Typed, NEW got \in [Heard -> SUBSET Numbers], Valued(got), NEW r \in Heard, NEW p \in Lake
    PROVE  /\ value'[r][p] \in 0 .. Len(log)
           /\ \/ value'[r][p] = value[r][p]
              \/ value'[r][p] \in got[r] /\ log[value'[r][p]].place = p
           /\ \A i \in got[r] : log[i].place = p => i <= value'[r][p]
<1> DEFINE G == {i \in got[r] : log[i].place = p}
<1>1. value'[r][p] = IF G = {} THEN value[r][p] ELSE Max(G)
  BY DEF Valued, Heard
<1>2. G \in SUBSET (0 .. Len(log)) /\ (\A i : i \in G <=> i \in got[r] /\ log[i].place = p)
  BY LengthIs
<1>3. value[r][p] \in 0 .. Len(log)
  BY DEF Typed
<1> HIDE DEF G
<1>4. CASE G = {}
  BY <1>1, <1>2, <1>3, <1>4
<1>5. CASE G # {}
  <2>1. Max(G) \in G /\ \A y \in G : Max(G) >= y
    BY <1>2, <1>5, LengthIs, MaxIsGreatest
  <2>2. Max(G) \in 0 .. Len(log) /\ \A i \in got[r] : log[i].place = p => i <= Max(G)
    BY <1>2, <2>1, LengthIs
  <2> QED BY <1>1, <1>2, <1>5, <2>1, <2>2
<1> QED BY <1>4, <1>5

\* What handing on leaves in order.
LEMMA HandedInOrder ==
    ASSUME Order, NEW numbers, Above(numbers), NEW these \in SUBSET Due(numbers),
           NEW got \in [Heard -> SUBSET these], Valued(got)
    PROVE  /\ these \in SUBSET Numbers /\ value' \in [Heard -> [Lake -> 0 .. Len(log)]]
           /\ \A r \in Heard, p \in Lake :
                 /\ value'[r][p] >= value[r][p]
                 /\ value'[r][p] # 0 => log[value'[r][p]].place = p
                 /\ Marked(these)[p] > 0 => value'[r][p] <= Marked(these)[p]
                 /\ \A n \in Numbers :
                       n > Marked(these)[p] /\ (n > seen[p] => n > value[r][p]) => n > value'[r][p]
<1>1. these \in SUBSET Numbers /\ got \in [Heard -> SUBSET Numbers] /\ Typed
  BY DEF Above, Due, Order
<1>2. value' \in [Heard -> [Lake -> 0 .. Len(log)]]
  <2>1. \A r \in Heard, p \in Lake : value'[r][p] \in 0 .. Len(log)
    BY <1>1, ValuedIs
  <2> QED BY <2>1 DEF Valued, Heard
<1>3. ASSUME NEW r \in Heard, NEW p \in Lake
      PROVE  /\ value'[r][p] >= value[r][p]
             /\ value'[r][p] # 0 => log[value'[r][p]].place = p
             /\ Marked(these)[p] > 0 => value'[r][p] <= Marked(these)[p]
             /\ \A n \in Numbers :
                   n > Marked(these)[p] /\ (n > seen[p] => n > value[r][p]) => n > value'[r][p]
  <2> DEFINE v == value[r][p]
             w == value'[r][p]
             m == Marked(these)[p]
  <2>1. v \in 0 .. Len(log) /\ seen[p] \in 0 .. Len(log) /\ w \in 0 .. Len(log) /\ Len(log) \in Nat
    BY <1>1, <1>2, LengthIs, PlacesAre DEF Typed
  <2>2. \A i \in these : log[i].place = p => v <= i
    BY <1>3 DEF Above
  <2>3. w = v \/ (w \in these /\ log[w].place = p)
    BY <1>1, ValuedIs
  <2>4. /\ m \in 0 .. Len(log) /\ seen[p] <= m /\ \A i \in these : log[i].place = p => i <= m
        /\ m = seen[p] \/ (m \in these /\ log[m].place = p)
    BY <1>1, MarkedIs, PlacesAre
  <2>5. (v # 0 => log[v].place = p) /\ (seen[p] > 0 => v <= seen[p])
    BY DEF Order, Held
  <2>6. w >= v /\ (w # 0 => log[w].place = p)
    BY <2>1, <2>2, <2>3, <2>5
  <2>7. m > 0 => w <= m
    BY <2>1, <2>2, <2>3, <2>4, <2>5
  <2>8. \A n \in Numbers : n > m /\ (n > seen[p] => n > v) => n > w
    BY <1>1, <2>1, <2>3, <2>4, LengthIs
  <2> QED BY <2>6, <2>7, <2>8
<1> QED BY <1>1, <1>2, <1>3

\* A handing on of `numbers` in order.
LEMMA HandIs ==
    ASSUME Typed, NEW numbers \in SUBSET Numbers, NEW seeding, Hand(numbers, seeding)
    PROVE  \E got \in [Heard -> SUBSET Due(numbers)] :
              /\ Valued(got) /\ seen' = Marked(Due(numbers)) /\ had' = Trades(got)
              /\ \A r \in Heard : Hears(r, seeding) => got[r] = Due(numbers)
<1> DEFINE got == [r \in Heard |-> IF Hears(r, seeding) THEN Due(numbers) ELSE {}]
<1>1. Valued(got) /\ seen' = Marked(Due(numbers)) /\ had' = Trades(got)
  BY DEF Hand, Handed, Heard
<1>2. got \in [Heard -> SUBSET Due(numbers)] /\ \A r \in Heard : Hears(r, seeding) => got[r] = Due(numbers)
  OBVIOUS
<1> QED BY <1>1, <1>2

\* A handler that raises was handed some of what is due, and the roles before
\* it no more; `follow` goes on from what was marked, or from nothing.
LEMMA RaiseIs ==
    ASSUME Typed, NEW numbers \in SUBSET Numbers, NEW seeding, Raise(numbers, seeding)
    PROVE  /\ Closed /\ UNCHANGED <<heard, log, named, wanted, reopen, since>>
           /\ \E these \in SUBSET Due(numbers) : \E got \in [Heard -> SUBSET these] :
                 /\ Valued(got) /\ had' = Trades(got)
                 /\ \/ Afresh /\ Spend("ends")
                    \/ "call" \in HandlerRaises /\ seen' = Marked(these) /\ UNCHANGED <<started, anew>>
<1>1. PICK at \in Due(numbers), before \in SUBSET Due(numbers), n \in 0 .. Len(Hearers(seeding)) - 1,
           raised \in HandlerRaises :
        LET got == [r \in ToSet(Roles) |->
                       IF ~Hears(r, seeding) THEN {}
                       ELSE IF r \in ToSet(SubSeq(Hearers(seeding), 1, n)) THEN before \cup {at}
                       ELSE before]
        IN  /\ Handed(got) /\ had' = Trades(got)
            /\ IF raised = "call"
               THEN seen' = Marked(before \cup {at}) /\ UNCHANGED <<started, anew>>
               ELSE Afresh /\ Spend("ends")
  BY DEF Raise
<1> DEFINE these == before \cup {at}
           got == [r \in Heard |->
                      IF ~Hears(r, seeding) THEN {}
                      ELSE IF r \in ToSet(SubSeq(Hearers(seeding), 1, n)) THEN these ELSE before]
<1>2. /\ Valued(got) /\ had' = Trades(got)
      /\ \/ Afresh /\ Spend("ends")
         \/ "call" \in HandlerRaises /\ seen' = Marked(these) /\ UNCHANGED <<started, anew>>
  BY <1>1 DEF Handed, Heard
<1>3. these \in SUBSET Due(numbers) /\ got \in [Heard -> SUBSET these]
  OBVIOUS
<1>4. Closed /\ UNCHANGED <<heard, log, named, wanted, reopen, since>>
  BY DEF Raise
<1> QED BY <1>2, <1>3, <1>4

\* What reads answer and deliveries bring is not earlier than what roles hold.
LEMMA LatestAbove == ASSUME Order PROVE Above(LatestWanted)
<1>1. Typed /\ wanted \subseteq Keys
  BY DEF Order, Typed
<1>2. ASSUME NEW i \in LatestWanted PROVE i \in Numbers /\ i = LatestOf(log[i].place)
  BY <1>1, <1>2, LatestIs DEF LatestWanted
<1>3. ASSUME NEW i \in LatestWanted, NEW r \in Heard, log[i].place \in Lake
      PROVE  value[r][log[i].place] <= i
  <2> DEFINE p == log[i].place
             v == value[r][p]
  <2>1. v \in 0 .. Len(log) /\ i \in Numbers /\ Len(log) \in Nat
    BY <1>1, <1>2, <1>3, LengthIs DEF Typed
  <2>2. v # 0 => v \in Numbers /\ log[v].place = p
    BY <1>3, <2>1 DEF Order, Held, Numbers
  <2>3. v # 0 => v <= i
    BY <1>1, <1>2, <2>2, LatestIs
  <2> QED BY <2>1, <2>3, LengthIs, <1>1
<1> QED BY <1>2, <1>3 DEF Above, Due

\* Trades read are after the last handed on.
LEMMA WatermarkAbove == ASSUME Order PROVE Above(AfterWatermark)
<1>1. Typed
  BY DEF Order
<1>2. ASSUME NEW i \in AfterWatermark, NEW r \in Heard, log[i].place \in Lake
      PROVE  value[r][log[i].place] <= i
  <2> DEFINE p == log[i].place
  <2>1. seen[p] > 0 /\ i > seen[p] /\ i \in Numbers
    BY DEF AfterWatermark, Of
  <2>2. value[r][p] <= seen[p]
    BY <1>2, <2>1 DEF Order, Held
  <2>3. value[r][p] \in 0 .. Len(log) /\ seen[p] \in 0 .. Len(log) /\ Len(log) \in Nat
    BY <1>1, <1>2, LengthIs, PlacesAre DEF Typed
  <2> QED BY <1>1, <2>1, <2>2, <2>3, LengthIs
<1> QED BY <1>2 DEF Above, Due, AfterWatermark, Of

\* Replacements are of no key and no dataset.
LEMMA PageAbove == ASSUME Order PROVE Above(Page) /\ \A i \in Page : log[i].place = All
<1>1. ASSUME NEW i \in Page PROVE i \in Numbers /\ log[i].place = All
  BY <1>1, LogIs DEF Page, Of, Order
<1> QED BY <1>1, PlacesAre DEF Above, Due

\* What a delivery brings, if it is due, is later than what is held.
LEMMA ItemAbove == ASSUME Order, NEW x \in stream PROVE Above({x.number})
<1>1. x.number \in Numbers
  BY DEF Order, Typed
<1>2. ASSUME NEW r \in Heard, log[x.number].place \in Lake, x.number > seen[log[x.number].place]
      PROVE  value[r][log[x.number].place] <= x.number
  <2>1. x.number > value[r][log[x.number].place]
    BY <1>2 DEF Order, Held
  <2>2. value[r][log[x.number].place] \in 0 .. Len(log) /\ Len(log) \in Nat
    BY <1>2, LengthIs DEF Order, Typed
  <2> QED BY <1>1, <2>1, <2>2, LengthIs DEF Order
<1> QED BY <1>1, <1>2 DEF Above, Due, Fresh

-----------------------------------------------------------------------------
(* Values never go back. *)

Forward == \A r \in Heard, p \in Lake : value'[r][p] >= value[r][p]

\* A handing on that is not cut short keeps the order.
LEMMA OrderHand ==
    ASSUME Order, NEW numbers, Above(numbers), NEW seeding, Hand(numbers, seeding),
           UNCHANGED <<heard, log, named, wanted, up>>, stream' \subseteq stream, started' \in BOOLEAN
    PROVE  Order' /\ Forward
<1>1. numbers \in SUBSET Numbers /\ Typed
  BY DEF Above, Order
<1>2. PICK got \in [Heard -> SUBSET Due(numbers)] :
        Valued(got) /\ seen' = Marked(Due(numbers)) /\ had' = Trades(got)
  BY <1>1, HandIs
<1> DEFINE these == Due(numbers)
<1>3. /\ these \in SUBSET Numbers /\ value' \in [Heard -> [Lake -> 0 .. Len(log)]]
      /\ \A r \in Heard, p \in Lake :
            /\ value'[r][p] >= value[r][p]
            /\ value'[r][p] # 0 => log[value'[r][p]].place = p
            /\ Marked(these)[p] > 0 => value'[r][p] <= Marked(these)[p]
            /\ \A n \in Numbers :
                  n > Marked(these)[p] /\ (n > seen[p] => n > value[r][p]) => n > value'[r][p]
  BY <1>2, HandedInOrder
<1> HIDE DEF these
<1>4. Numbers' = Numbers
  BY DEF Numbers
<1>5. had' \in [Heard -> SUBSET Numbers]
  BY <1>1, <1>2, <1>3 DEF Trades, Typed, Heard, these
<1>6. seen' \in [Places -> 0 .. Len(log)]
  BY <1>1, <1>2, <1>3, MarkedTyped DEF these
<1>7. Typed'
  BY <1>1, <1>3, <1>4, <1>5, <1>6 DEF Typed
<1>8. Single'
  BY DEF Order, Single
<1>9. ASSUME NEW r \in Heard, NEW x \in stream', log[x.number].place \in Lake,
             x.number > seen'[log[x.number].place]
      PROVE  x.number > value'[r][log[x.number].place]
  <2>1. x \in stream /\ x.number \in Numbers
    BY <1>1 DEF Typed
  <2>2. x.number > seen[log[x.number].place] => x.number > value[r][log[x.number].place]
    BY <1>9, <2>1 DEF Order, Held
  <2> QED BY <1>2, <1>3, <1>9, <2>1, <2>2 DEF these
<1>10. Held'
  BY <1>2, <1>3, <1>9 DEF Held, these
<1> QED BY <1>3, <1>7, <1>8, <1>10 DEF Order, Forward

\* Nor one that is.
LEMMA OrderRaise ==
    ASSUME Order, NEW numbers, Above(numbers), NEW seeding, Raise(numbers, seeding)
    PROVE  Order' /\ Forward
<1>1. numbers \in SUBSET Numbers /\ Typed
  BY DEF Above, Order
<1>2. Closed /\ UNCHANGED <<heard, log, named, wanted, reopen>>
  BY <1>1, RaiseIs
<1>3. PICK these \in SUBSET Due(numbers) : \E got \in [Heard -> SUBSET these] :
         /\ Valued(got) /\ had' = Trades(got)
         /\ Afresh \/ (seen' = Marked(these) /\ UNCHANGED started)
  BY <1>1, RaiseIs
<1>4. PICK got \in [Heard -> SUBSET these] :
         /\ Valued(got) /\ had' = Trades(got)
         /\ Afresh \/ (seen' = Marked(these) /\ UNCHANGED started)
  BY <1>3
<1>5. /\ these \in SUBSET Numbers /\ value' \in [Heard -> [Lake -> 0 .. Len(log)]]
      /\ \A r \in Heard, p \in Lake :
            /\ value'[r][p] >= value[r][p]
            /\ value'[r][p] # 0 => log[value'[r][p]].place = p
            /\ Marked(these)[p] > 0 => value'[r][p] <= Marked(these)[p]
            /\ \A n \in Numbers :
                  n > Marked(these)[p] /\ (n > seen[p] => n > value[r][p]) => n > value'[r][p]
  BY <1>4, HandedInOrder
<1>6. Numbers' = Numbers /\ stream' = {} /\ up' = FALSE
  BY <1>2 DEF Numbers, Closed
<1>9. had' \in [Heard -> SUBSET Numbers]
  BY <1>1, <1>4, <1>5 DEF Trades, Typed, Heard
<1>7. CASE Afresh
  <2>1. seen' = [p \in Places |-> 0] /\ started' = FALSE
    BY <1>7 DEF Afresh
  <2>0. seen' \in [Places -> 0 .. Len(log)]
    BY <1>1, <2>1, LengthIs
  <2>2. Typed'
    BY <1>1, <1>2, <1>5, <1>6, <1>9, <2>0, <2>1 DEF Typed
  <2>3. Held'
    BY <1>2, <1>5, <1>6, <2>1, PlacesAre DEF Held
  <2> QED BY <1>5, <1>6, <2>2, <2>3 DEF Order, Single, Forward
<1>8. CASE seen' = Marked(these) /\ UNCHANGED started
  <2>2. Typed'
    BY <1>1, <1>2, <1>5, <1>6, <1>8, <1>9, MarkedTyped DEF Typed
  <2>3. Held'
    BY <1>2, <1>5, <1>6, <1>8 DEF Held
  <2> QED BY <1>5, <1>6, <2>2, <2>3 DEF Order, Single, Forward
<1> QED BY <1>4, <1>7, <1>8

\* A record made.
LEMMA OrderRecord ==
    ASSUME Order, NEW record \in Records, Record(record)
    PROVE  /\ Order' /\ Forward
           /\ Numbers' = Numbers \cup {Len(log) + 1} /\ Len(log) + 1 \notin Numbers
           /\ log'[Len(log) + 1] = record /\ \A i \in Numbers : log'[i] = log[i]
<1> DEFINE n == Len(log) + 1
<1>1. /\ Typed /\ Len(log) \in Nat /\ n \in Nat /\ log' = Append(log, record) /\ record.row \in heard
      /\ UNCHANGED <<heard, named, wanted, up, started, seen, value, had>>
  BY LengthIs DEF Record, Order, handVars
<1>2. Len(log') = n /\ log' \in Seq(Records) /\ log'[n] = record /\ \A i \in Numbers : log'[i] = log[i]
  BY <1>1, AppendProperties DEF Typed, Numbers
<1>3. Numbers' = Numbers \cup {n} /\ n \notin Numbers /\ \A i \in Numbers : i < n
  BY <1>1, <1>2 DEF Numbers
<1>4. stream' \subseteq stream \cup {Item(n), Lost(n)} /\ ~(Item(n) \in stream' /\ Lost(n) \in stream')
  <2>1. \A x \in stream : x.number \in Numbers
    BY <1>1 DEF Typed
  <2>2. Item(n).number = n /\ Lost(n).number = n /\ Item(n) # Lost(n)
    BY DEF Item, Lost
  <2>3. \/ stream' = stream \/ stream' = stream \cup {Item(n)} \/ stream' = stream \cup {Lost(n)}
        \/ stream' = Superseded(record.place) \cup {Item(n)}
    BY DEF Record
  <2> QED BY <1>3, <2>1, <2>2, <2>3 DEF Superseded
<1>5. Item(n) \in [lost : BOOLEAN, number : Numbers'] /\ Lost(n) \in [lost : BOOLEAN, number : Numbers']
        /\ Item(n).number = n /\ Lost(n).number = n
  BY <1>3 DEF Item, Lost
<1>6. stream' \subseteq [lost : BOOLEAN, number : Numbers']
  BY <1>1, <1>3, <1>4, <1>5 DEF Typed
<1>7. \A i \in Numbers' : log'[i].row \in heard
  BY <1>1, <1>2, <1>3 DEF Typed
<1>8. 0 .. Len(log) \subseteq 0 .. Len(log')
  BY <1>1, <1>2
<1>9. seen' \in [Places -> 0 .. Len(log')] /\ value' \in [Heard -> [Lake -> 0 .. Len(log')]]
        /\ had' \in [Heard -> SUBSET Numbers']
  BY <1>1, <1>3, <1>8 DEF Typed
<1>10. Typed'
  BY <1>1, <1>2, <1>6, <1>7, <1>9 DEF Typed
<1>11. Single'
  <2>1. \A x \in stream : x.number # n
    BY <1>1, <1>3 DEF Typed
  <2>2. ASSUME NEW x \in stream', NEW y \in stream', x.number = y.number PROVE x = y
    <3>1. CASE x \in stream /\ y \in stream
      BY <2>2, <3>1 DEF Order, Single
    <3>2. CASE x \notin stream
      BY <1>4, <1>5, <2>1, <2>2, <3>2
    <3>3. CASE y \notin stream
      BY <1>4, <1>5, <2>1, <2>2, <3>3
    <3> QED BY <3>1, <3>2, <3>3
  <2> QED BY <2>2 DEF Single
<1>12. Held'
  <2>1. ASSUME NEW r \in Heard, NEW p \in Lake
        PROVE  /\ value'[r][p] # 0 => log'[value'[r][p]].place = p
               /\ seen'[p] > 0 => value'[r][p] <= seen'[p]
    <3>1. value[r][p] \in 0 .. Len(log)
      BY <1>1 DEF Typed
    <3>2. value[r][p] # 0 => value[r][p] \in Numbers
      BY <1>1, <3>1 DEF Numbers
    <3> QED BY <1>1, <1>2, <3>2 DEF Order, Held
  <2>2. ASSUME NEW r \in Heard, NEW x \in stream', log'[x.number].place \in Lake,
               x.number > seen'[log'[x.number].place]
        PROVE  x.number > value'[r][log'[x.number].place]
    <3>1. CASE x.number = n
      <4>1. value[r][log'[x.number].place] \in 0 .. Len(log)
        BY <1>1, <2>2 DEF Typed
      <4> QED BY <1>1, <3>1, <4>1
    <3>2. CASE x \in stream
      <4>1. x.number \in Numbers
        BY <1>1, <3>2 DEF Typed
      <4> QED BY <1>1, <1>2, <2>2, <3>2, <4>1 DEF Order, Held
    <3> QED BY <1>4, <1>5, <3>1, <3>2
  <2> QED BY <2>1, <2>2 DEF Held
<1>13. Forward
  <2>1. \A r \in Heard, p \in Lake : value[r][p] \in 0 .. Len(log)
    BY <1>1 DEF Typed
  <2> QED BY <1>1, <2>1 DEF Forward
<1> QED BY <1>2, <1>3, <1>10, <1>11, <1>12, <1>13 DEF Order

\* A step that hands nothing on, and adds nothing to the stream.
LEMMA OrderStill ==
    ASSUME Order, UNCHANGED <<heard, log, value>>, stream' \subseteq stream, up' \in BOOLEAN,
           started' \in BOOLEAN, named' \subseteq Keys, wanted' \subseteq Keys,
           UNCHANGED had, UNCHANGED seen \/ (stream' = {} /\ seen' = [p \in Places |-> 0])
    PROVE  Order' /\ Forward
<1>1. Typed /\ Numbers' = Numbers /\ Len(log) \in Nat
  BY LengthIs DEF Order, Numbers
<1>2. seen' \in [Places -> 0 .. Len(log)] /\ had' \in [Heard -> SUBSET Numbers]
  BY <1>1 DEF Typed
<1>3. Typed'
  BY <1>1, <1>2 DEF Typed
<1>4. Single'
  BY DEF Order, Single
<1>5. Held'
  BY PlacesAre DEF Order, Held
<1>6. Forward
  <2>1. \A r \in Heard, p \in Lake : value[r][p] \in 0 .. Len(log)
    BY <1>1 DEF Typed
  <2> QED BY <1>1, <2>1 DEF Forward
<1> QED BY <1>3, <1>4, <1>5, <1>6 DEF Order

\* A page of replacements passed over, or handed on.
LEMMA OrderReplacements ==
    ASSUME Order, ReadReplacements
    PROVE  Order' /\ Forward
<1>1. UNCHANGED <<heard, log, named, wanted, stream, up>> /\ started' \in BOOLEAN
  BY DEF ReadReplacements, RowRead, sidecarVars, Order, Typed
<1>2. CASE Hand(Page, Seeding)
  BY <1>1, <1>2, PageAbove, OrderHand
<1>3. CASE seen' = Marked(Page) /\ UNCHANGED <<value, had, ids>>
  <2>1. Typed /\ Numbers' = Numbers /\ Len(log) \in Nat /\ Page \in SUBSET Numbers
    BY <1>1, LengthIs, PageAbove DEF Order, Numbers, Above
  <2>2. seen' \in [Places -> 0 .. Len(log)]
    BY <1>3, <2>1, MarkedTyped
  <2>3. \A p \in Lake : seen'[p] = seen[p]
    <3>1. ASSUME NEW p \in Lake PROVE Marked(Page)[p] = seen[p]
      BY <2>1, MarkedIs, PageAbove, PlacesAre
    <3> QED BY <1>3, <3>1
  <2>4. Typed'
    BY <1>1, <1>3, <2>1, <2>2 DEF Typed
  <2>5. Single' /\ Held'
    BY <1>1, <1>3, <2>3 DEF Order, Single, Held
  <2>6. Forward
    <3>1. \A r \in Heard, p \in Lake : value[r][p] \in 0 .. Len(log)
      BY <2>1 DEF Typed
    <3> QED BY <1>3, <2>1, <3>1 DEF Forward
  <2> QED BY <2>4, <2>5, <2>6 DEF Order
<1> QED BY <1>2, <1>3 DEF ReadReplacements

\* The numbers reads and deliveries hand on.
LEMMA RowsAbove == ASSUME Order, NEW row \in {"latest", "full"} PROVE Above(RowOf(row))
BY LatestAbove, WatermarkAbove DEF RowOf

\* A step keeps what is held in order, and takes no value back.
LEMMA OrderStep ==
    ASSUME Order, [Next]_vars
    PROVE  Order' /\ Forward
<1>0. started \in BOOLEAN /\ up \in BOOLEAN /\ named \subseteq Keys /\ wanted \subseteq Keys
  BY DEF Order, Typed
<1>1. ASSUME NEW record \in Records, Record(record) PROVE Order' /\ Forward
  BY <1>1, OrderRecord
<1>2. CASE Break
  BY <1>0, <1>2, OrderStill DEF Break, handVars
<1>3. ASSUME NEW key \in Keys, Rename(key) PROVE Order' /\ Forward
  BY <1>0, <1>3, OrderStill DEF Rename, handVars
<1>4. ASSUME NEW row \in {"latest", "full"}, ReadRow(row) PROVE Order' /\ Forward
  <2>1. Hand(RowOf(row), Seeding) /\ UNCHANGED <<heard, log, named, wanted, stream, up>> /\ started' \in BOOLEAN
    BY <1>0, <1>4 DEF ReadRow, RowRead, sidecarVars
  <2> QED BY <2>1, RowsAbove, OrderHand
<1>5. CASE ReadReplacements
  BY <1>5, OrderReplacements
<1>6. CASE ReadFails
  BY <1>0, <1>6, OrderStill DEF ReadFails, Closed, Afresh, Heard
<1>7. CASE RaiseReading
  <2>1. ASSUME NEW row \in {"latest", "full"}, Raise(RowOf(row), Seeding) PROVE Order' /\ Forward
    BY <2>1, RowsAbove, OrderRaise
  <2>2. CASE Raise(Page, Seeding)
    BY <2>2, PageAbove, OrderRaise
  <2> QED BY <1>7, <2>1, <2>2 DEF RaiseReading
<1>8. CASE RaiseHearing
  BY <1>8, ItemAbove, OrderRaise DEF RaiseHearing
<1>9. CASE OnStart
  BY <1>0, <1>9, OrderStill DEF OnStart, sidecarVars
<1>10. CASE Open
  BY <1>0, <1>10, OrderStill DEF Open, handVars
<1>11. ASSUME NEW x \in stream, Hear(x) PROVE Order' /\ Forward
  <2>1. /\ Hand({x.number}, FALSE) /\ UNCHANGED <<heard, log, named, wanted, up>>
        /\ stream' \subseteq stream /\ started' \in BOOLEAN
    BY <1>0, <1>11 DEF Hear
  <2> QED BY <2>1, ItemAbove, OrderHand
<1>12. ASSUME NEW x \in stream, HearLost(x) PROVE Order' /\ Forward
  BY <1>0, <1>12, OrderStill DEF HearLost, handVars
<1>13. CASE SeeBreak \/ SeeReopen
  BY <1>0, <1>13, OrderStill DEF SeeBreak, SeeReopen, Closed, handVars
<1>14. CASE UNCHANGED vars
  BY <1>0, <1>14, OrderStill DEF vars
<1> QED BY <1>1, <1>2, <1>3, <1>4, <1>5, <1>6, <1>7, <1>8, <1>9, <1>10, <1>11, <1>12, <1>13, <1>14
        DEF Next, Sidecar, Reads, Fails, Follow

\* Nothing is held at first.
LEMMA InitOrder == Init => Order
<1> SUFFICES ASSUME Init PROVE Order
  OBVIOUS
<1> USE DEF Init
<1>1. log \in Seq(Records) /\ Len(log) = 0 /\ Numbers = {}
  BY EmptySeq DEF Numbers
<1>2. heard \subseteq Rows
  BY CursorsAssumption DEF CursorsAssumption
<1>3. Typed
  <2>1. /\ seen \in [Places -> 0 .. Len(log)] /\ value \in [Heard -> [Lake -> 0 .. Len(log)]]
        /\ had \in [Heard -> SUBSET Numbers]
    BY <1>1 DEF Heard
  <2>2. named \subseteq Keys /\ wanted \subseteq Keys /\ up \in BOOLEAN /\ started \in BOOLEAN /\ stream = {}
    OBVIOUS
  <2> QED BY <1>1, <1>2, <2>1, <2>2 DEF Typed
<1>4. Single /\ Held
  BY PlacesAre DEF Single, Held, Heard
<1> QED BY <1>3, <1>4 DEF Order

\* No role is handed a price or a trade made before the one of its key or
\* dataset it was handed last, whatever is lost, breaks, fails or is read again
\* (receive.py, `_Latest.hand`, `_InFull.hand`).
THEOREM ValuesOnlyForward == Spec => NeverOlder
<1>1. Order /\ [Next]_vars => Order' /\ [\A r \in ToSet(Roles), p \in Lake : value'[r][p] >= value[r][p]]_vars
  BY OrderStep DEF Forward, Heard
<1> QED BY <1>1, InitOrder, PTL DEF Spec, NeverOlder

\* What is remembered of the log is of what was made of it.
Moments == anew \in 0 .. Len(log) /\ since \in [Keys -> 0 .. Len(log)]

\* The log only grows.
LEMMA MomentsStep ==
    ASSUME Order, Moments, [Next]_vars
    PROVE  Moments'
<1>1. Len(log) \in Nat
  BY LengthIs DEF Order
<1>2. ASSUME UNCHANGED log, anew' \in {anew, Len(log)},
             UNCHANGED since \/ since' = [k \in Keys |-> IF k \in wanted \cap named THEN since[k] ELSE Len(log)]
      PROVE  Moments'
  BY <1>1, <1>2 DEF Moments
<1>3. ASSUME NEW record \in Records, Record(record) PROVE Moments'
  <2>1. UNCHANGED <<anew, since>> /\ log' = Append(log, record) /\ log \in Seq(Records)
    BY <1>3 DEF Record, Order, Typed
  <2>2. Len(log') = Len(log) + 1
    BY <2>1, AppendProperties
  <2>3. 0 .. Len(log) \subseteq 0 .. Len(log')
    BY <1>1, <2>2
  <2> QED BY <2>1, <2>3 DEF Moments
<1>4. ASSUME NEW numbers, NEW seeding, Raise(numbers, seeding) PROVE Moments'
  <2>1. UNCHANGED <<log, since>> /\ anew' \in {anew, Len(log)}
    BY <1>4 DEF Raise, Afresh
  <2> QED BY <1>2, <2>1
<1>5. CASE ReadFails
  BY <1>2, <1>5 DEF ReadFails, Afresh
<1>6. CASE Break \/ Reads \/ OnStart \/ SeeBreak \/ SeeReopen \/ UNCHANGED vars
  BY <1>2, <1>6 DEF Break, Reads, ReadRow, ReadReplacements, OnStart, SeeBreak, SeeReopen, sidecarVars, vars
<1>7. ASSUME NEW key \in Keys, Rename(key) PROVE Moments'
  BY <1>2, <1>7 DEF Rename
<1>8. ASSUME NEW x \in stream, Hear(x) \/ HearLost(x) PROVE Moments'
  BY <1>2, <1>8 DEF Hear, HearLost
<1>9. CASE Open
  BY <1>2, <1>9 DEF Open
<1>10. CASE Fails
  BY <1>4, <1>5, <1>10 DEF Fails, RaiseReading, RaiseHearing
<1> QED BY <1>3, <1>6, <1>7, <1>8, <1>9, <1>10 DEF Next, Sidecar, Follow

\* What is spent of a bound leaves a natural.
LEMMA SpendType ==
    ASSUME left \in [Mishaps -> Nat], NEW m \in Mishaps, Spend(m)
    PROVE  left' \in [Mishaps -> Nat]
<1>1. left[m] \in Nat /\ left[m] > 0 /\ left' = [left EXCEPT ![m] = left[m] - 1]
  BY DEF Spend
<1>2. left[m] - 1 \in Nat
  BY <1>1
<1> QED BY <1>1, <1>2

\* Nothing is made at first.
LEMMA InitMoments == Init => Moments
BY EmptySeq DEF Init, Moments

-----------------------------------------------------------------------------
(* No trade is missing. *)

\* The stream is followed, and trades are read again, once there was a start;
\* until then none was handed on.
Phases ==
    /\ phase = "following" => started
    /\ phase = "reading" /\ "full" \in todo => started
    /\ ~started => \A d \in Datasets : seen[d] = 0

Coming(j) == \E x \in stream : x.number = j
\* Records of one place that come in order: prices may take each other's place.
Alike(i, j) == log[i].place \notin Keys /\ log[i].place = log[j].place

\* What the stream is to bring, if it comes in order: a trade, of those owed.
Expected(j) == log[j].place \in Datasets => Owed(j)

\* What comes down the stream goes past the record `j`.
GoesPast(j) == up \/ \E y \in stream : Alike(j, y.number) /\ j < y.number

\* Of what the stream still brings of a dataset none that it owes is missing.
Whole ==
    \A x \in stream, j \in Numbers :
        Alike(x.number, j) /\ x.number < j /\ Expected(j) /\ GoesPast(j) => Coming(j)

\* It follows on what was handed on, unless trades are to be read.
FollowsOn ==
    "full" \notin todo =>
        \A j \in Numbers :
            (log[j].place \in Datasets /\ 0 < seen[log[j].place] /\ seen[log[j].place] < j
                /\ Expected(j) /\ GoesPast(j)) => Coming(j)

\* What a role had of a dataset since `follow` last ended is all it is owed up to
\* what was last handed on.
AllSince ==
    \A r \in Heard : \A i \in had[r] : anew < i =>
        /\ log[i].place \in Datasets /\ i <= seen[log[i].place]
        /\ \A j \in Numbers :
              Alike(i, j) /\ i < j /\ Expected(j) /\ j <= seen[log[i].place] => j \in had[r]

Trading == Phases /\ Whole /\ FollowsOn /\ AllSince

\* What is owed stays owed, while the log and what the stream names do.
LEMMA ExpectedStays ==
    ASSUME UNCHANGED <<log, wanted, since>>
    PROVE  \A j : Expected(j)' <=> Expected(j)
BY DEF Expected, Owed

\* Where the stream is gone, what was had is had, or `follow` begins afresh.
LEMMA TradingGone ==
    ASSUME Order, Trading, UNCHANGED <<log, wanted, since>>, stream' = {}, up' = FALSE, phase' = "closed",
           (UNCHANGED <<seen, had, started, anew>>) \/ (Afresh /\ had' \in [Heard -> SUBSET Numbers])
    PROVE  Trading'
<1>1. \A j : ~GoesPast(j)'
  BY DEF GoesPast
<1>2. Whole' /\ FollowsOn'
  BY <1>1 DEF Whole, FollowsOn
<1>3. Phases'
  BY PlacesAre DEF Trading, Phases, Afresh
<1>4. AllSince'
  <2>1. CASE UNCHANGED <<seen, had, anew>>
    BY <2>1, ExpectedStays DEF Trading, AllSince, Alike, Numbers
  <2>2. CASE Afresh /\ had' \in [Heard -> SUBSET Numbers]
    <3>1. \A i \in Numbers : ~(anew' < i)
      BY <2>2, LengthIs DEF Afresh, Numbers, Order
    <3> QED BY <2>2, <3>1 DEF AllSince
  <2> QED BY <2>1, <2>2
<1> QED BY <1>2, <1>3, <1>4 DEF Trading

\* Where no trade is handed on, and trades to be read still are.
LEMMA TradingStill ==
    ASSUME Order, Trading, UNCHANGED <<log, wanted, since, stream, up, had, anew>>,
           \A d \in Datasets : seen'[d] = seen[d],
           "full" \in todo => "full" \in todo', Phases'
    PROVE  Trading'
<1>1. Numbers' = Numbers /\ \A j : Coming(j)' <=> Coming(j)
  BY DEF Numbers, Coming
<1>2. \A i, j : Alike(i, j)' <=> Alike(i, j)
  BY DEF Alike
<1>3. \A j : (GoesPast(j)' <=> GoesPast(j)) /\ (Expected(j)' <=> Expected(j))
  BY <1>2, ExpectedStays DEF GoesPast
<1>4. Whole'
  BY <1>1, <1>2, <1>3 DEF Trading, Whole
<1>5. FollowsOn'
  BY <1>1, <1>3 DEF Trading, FollowsOn
<1>6. AllSince'
  BY <1>1, <1>2, <1>3 DEF Trading, AllSince
<1> QED BY <1>4, <1>5, <1>6 DEF Trading

\* Of no dataset, what is handed on is of no trade.
LEMMA HandOther ==
    ASSUME Order, NEW numbers \in SUBSET Numbers, NEW seeding, Hand(numbers, seeding),
           \A i \in numbers : log[i].place \notin Datasets
    PROVE  had' = had /\ \A d \in Datasets : seen'[d] = seen[d]
<1>1. Typed /\ Due(numbers) \in SUBSET Numbers
  BY DEF Order, Due
<1>2. PICK got \in [Heard -> SUBSET Due(numbers)] : seen' = Marked(Due(numbers)) /\ had' = Trades(got)
  BY <1>1, HandIs
<1>3. ASSUME NEW d \in Datasets PROVE seen'[d] = seen[d]
  BY <1>1, <1>2, MarkedIs, PlacesAre DEF Due
<1>4. \A r \in Heard : got[r] \cap Of("full") = {}
  <2>1. \A i \in Of("full") : i \in Numbers /\ log[i].place \in Datasets
    BY <1>1, LogIs DEF Of
  <2> QED BY <1>1, <2>1 DEF Due
<1>5. had' = [r \in Heard |-> had[r]]
  BY <1>2, <1>4 DEF Trades, Heard
<1>6. had' = had
  BY <1>1, <1>5 DEF Typed
<1> QED BY <1>3, <1>6

\* A delivery handed on to each role, where it is not had.
LEMMA HearIs ==
    ASSUME Order, NEW x \in stream, Hear(x)
    PROVE  /\ x.number \in Numbers /\ stream' = stream \ {x}
           /\ UNCHANGED <<log, wanted, since, anew, up, phase, started, todo>>
           /\ todo = {} /\ phase = "following" /\ \A y \in stream : x.number <= y.number
           /\ \A p \in Places :
                 seen'[p] = IF log[x.number].place = p /\ x.number > seen[p] THEN x.number ELSE seen[p]
           /\ \A r \in Heard : had'[r] =
                 IF log[x.number].place \in Datasets /\ x.number > seen[log[x.number].place]
                 THEN had[r] \cup {x.number} ELSE had[r]
<1> DEFINE n == x.number
           due == Due({n})
<1>1. Typed /\ n \in Numbers /\ log[n].place \in Places
  BY LogIs DEF Order, Typed
<1>2. PICK got \in [Heard -> SUBSET due] :
        /\ seen' = Marked(due) /\ had' = Trades(got)
        /\ \A r \in Heard : Hears(r, FALSE) => got[r] = due
  BY <1>1, HandIs DEF Hear
<1>3. due = IF n > seen[log[n].place] THEN {n} ELSE {}
  BY DEF Due, Fresh
<1>4. due \in SUBSET Numbers
  BY <1>1, <1>3
<1>5. \A r \in Heard : got[r] = due
  BY <1>2 DEF Hears
<1> HIDE DEF due
<1>6. ASSUME NEW p \in Places
      PROVE  seen'[p] = IF log[n].place = p /\ n > seen[p] THEN n ELSE seen[p]
  <2>1. /\ seen'[p] \in 0 .. Len(log) /\ seen[p] <= seen'[p]
        /\ \A i \in due : log[i].place = p => i <= seen'[p]
        /\ seen'[p] = seen[p] \/ (seen'[p] \in due /\ log[seen'[p]].place = p)
    BY <1>1, <1>2, <1>4, MarkedIs
  <2>2. seen[p] \in 0 .. Len(log) /\ Len(log) \in Nat /\ n \in 0 .. Len(log)
    BY <1>1, LengthIs DEF Typed
  <2>3. CASE log[n].place = p /\ n > seen[p]
    BY <1>3, <2>1, <2>2, <2>3
  <2>4. CASE ~(log[n].place = p /\ n > seen[p])
    BY <1>3, <2>1, <2>4
  <2> QED BY <2>3, <2>4
<1>7. ASSUME NEW r \in Heard
      PROVE  had'[r] = IF log[n].place \in Datasets /\ n > seen[log[n].place] THEN had[r] \cup {n} ELSE had[r]
  <2>1. had'[r] = had[r] \cup (due \cap Of("full"))
    BY <1>2, <1>5 DEF Trades, Heard
  <2>2. n \in Of("full") <=> log[n].place \in Datasets
    BY <1>1, LogIs DEF Of
  <2> QED BY <1>3, <2>1, <2>2
<1>8. /\ stream' = stream \ {x} /\ UNCHANGED <<log, wanted, since, anew, up, phase, started, todo>>
      /\ todo = {} /\ phase = "following" /\ \A y \in stream : x.number <= y.number
  BY DEF Hear, Taking
<1> QED BY <1>1, <1>6, <1>7, <1>8

\* The next delivery taken leaves the others as they follow on each other.
LEMMA TakenLeaves ==
    ASSUME Order, Trading, NEW x \in stream, \A y \in stream : x.number <= y.number,
           stream' = stream \ {x}, UNCHANGED <<log, wanted, since, up>>
    PROVE  /\ Whole' /\ Numbers' = Numbers /\ \A j : Expected(j)' <=> Expected(j)
           /\ \A j : GoesPast(j)' => GoesPast(j)
           /\ \A j : Coming(j) /\ j # x.number => Coming(j)'
           /\ \A i, j : Alike(i, j)' <=> Alike(i, j)
<1>1. /\ Numbers' = Numbers /\ \A i, j : Alike(i, j)' <=> Alike(i, j)
      /\ \A j : GoesPast(j)' => GoesPast(j)
      /\ \A j : Coming(j) /\ j # x.number => Coming(j)'
  BY DEF Numbers, Alike, GoesPast, Coming
<1>3. \A j : Expected(j)' <=> Expected(j)
  BY ExpectedStays
<1>2. ASSUME NEW y \in stream', NEW j \in Numbers, Alike(y.number, j), y.number < j, Expected(j), GoesPast(j)
      PROVE  Coming(j)'
  <2>1. Coming(j)
    BY <1>2 DEF Trading, Whole
  <2>2. x.number \in Nat /\ y.number \in Nat /\ j \in Nat /\ x.number <= y.number
    BY LengthIs DEF Order, Typed
  <2> QED BY <1>1, <1>2, <2>1, <2>2
<1> QED BY <1>1, <1>2, <1>3 DEF Whole

\* A delivery taken: what was skipped before it, if anything, was there to be taken.
LEMMA TradingHear ==
    ASSUME Order, Trading, NEW x \in stream, Hear(x)
    PROVE  Trading'
<1> DEFINE n == x.number
           d == log[n].place
<1>1. /\ n \in Numbers /\ stream' = stream \ {x}
      /\ UNCHANGED <<log, wanted, since, anew, up, phase, started, todo>>
      /\ todo = {} /\ phase = "following" /\ \A y \in stream : n <= y.number
      /\ \A p \in Places : seen'[p] = IF d = p /\ n > seen[p] THEN n ELSE seen[p]
      /\ \A r \in Heard : had'[r] = IF d \in Datasets /\ n > seen[d] THEN had[r] \cup {n} ELSE had[r]
  BY HearIs
<1>2. Typed /\ d \in Places /\ Numbers \in SUBSET Nat /\ \A p \in Places : seen[p] \in Nat
  BY <1>1, LogIs, LengthIs DEF Order, Typed
<1>3. /\ Whole' /\ Numbers' = Numbers /\ \A j : GoesPast(j)' => GoesPast(j)
      /\ (\A j : Coming(j) /\ j # n => Coming(j)') /\ (\A i, j : Alike(i, j)' <=> Alike(i, j))
      /\ \A j : Expected(j)' <=> Expected(j)
  BY <1>1, TakenLeaves
<1>4. Phases'
  BY <1>1 DEF Trading, Phases
<1> HIDE DEF n, d
<1>5. FollowsOn'
  <2>1. SUFFICES ASSUME NEW j \in Numbers, log[j].place \in Datasets,
                        0 < seen'[log[j].place], seen'[log[j].place] < j, Expected(j), GoesPast(j)
                 PROVE  Coming(j)'
    BY <1>1, <1>3 DEF FollowsOn
  <2> DEFINE e == log[j].place
  <2>2. e \in Places
    BY <2>1, PlacesAre
  <2>3. j # n
    BY <1>1, <1>2, <2>1, <2>2 DEF d
  <2>4. CASE d = e /\ n > seen[e]
    <3>1. n < j /\ Alike(n, j)
      BY <1>1, <2>1, <2>2, <2>4, PlacesAre DEF Alike, d
    <3>2. Coming(j)
      BY <2>1, <3>1 DEF Trading, Whole, n
    <3> QED BY <1>3, <2>3, <3>2
  <2>5. CASE ~(d = e /\ n > seen[e])
    <3>1. Coming(j)
      BY <1>1, <2>1, <2>2, <2>5 DEF Trading, FollowsOn
    <3> QED BY <1>3, <2>3, <3>1
  <2> QED BY <2>4, <2>5
<1>6. AllSince'
  <2>1. SUFFICES ASSUME NEW r \in Heard, NEW i \in had'[r], anew < i
                 PROVE  /\ log[i].place \in Datasets /\ i <= seen'[log[i].place]
                        /\ \A j \in Numbers : Alike(i, j) /\ i < j /\ Expected(j)
                              /\ j <= seen'[log[i].place] => j \in had'[r]
    BY <1>1, <1>3 DEF AllSince
  <2> DEFINE e == log[i].place
  <2>2. i \in had[r] \/ (i = n /\ d \in Datasets /\ n > seen[d])
    <3>1. had'[r] = IF d \in Datasets /\ n > seen[d] THEN had[r] \cup {n} ELSE had[r]
      BY <1>1
    <3>2. CASE d \in Datasets /\ n > seen[d]
      BY <2>1, <3>1, <3>2
    <3>3. CASE ~(d \in Datasets /\ n > seen[d])
      BY <2>1, <3>1, <3>3
    <3> QED BY <3>2, <3>3
  <2>3. had[r] \subseteq Numbers /\ n \in Nat
    BY <1>1, <1>2 DEF Typed
  <2>4. CASE i = n /\ d \in Datasets /\ n > seen[d]
    <3>1. e = d /\ seen'[e] = n
      BY <1>1, <1>2, <2>4 DEF d
    <3>2. \A j \in Numbers : ~(i < j /\ j <= seen'[e])
      BY <1>2, <2>3, <2>4, <3>1
    <3>3. i <= seen'[e] /\ e \in Datasets
      BY <2>3, <2>4, <3>1
    <3> QED BY <3>2, <3>3
  <2>5. CASE i \in had[r]
    <3>1. /\ e \in Datasets /\ i <= seen[e] /\ e \in Places
          /\ \A j \in Numbers : Alike(i, j) /\ i < j /\ Expected(j) /\ j <= seen[e] => j \in had[r]
      BY <2>1, <2>5, PlacesAre DEF Trading, AllSince
    <3>2. CASE d = e /\ n > seen[e]
      <4>1. seen'[e] = n /\ had'[r] = had[r] \cup {n}
        BY <1>1, <3>1, <3>2
      <4>2. ASSUME NEW j \in Numbers, Alike(i, j), i < j, Expected(j), j <= n PROVE j \in had'[r]
        <5>1. CASE j <= seen[e]
          BY <3>1, <4>1, <4>2, <5>1
        <5>2. CASE j = n
          BY <4>1, <5>2
        <5>3. CASE seen[e] < j /\ j < n
          <6>1. GoesPast(j)
            BY <3>1, <3>2, <4>2, <5>3, PlacesAre DEF GoesPast, Alike, n, d
          <6>2. 0 < seen[e] /\ log[j].place = e
            <7>1. i \in 1 .. Len(log) /\ Len(log) \in Nat
              BY <1>2, <2>3, <2>5, LengthIs DEF Numbers
            <7> QED BY <1>2, <3>1, <4>2, <7>1 DEF Alike
          <6>3. Coming(j)
            BY <1>1, <3>1, <4>2, <5>3, <6>1, <6>2 DEF Trading, FollowsOn
          <6> QED BY <1>1, <1>2, <2>3, <5>3, <6>3 DEF Coming
        <5>4. j \in Nat /\ n \in Nat /\ seen[e] \in Nat
          BY <1>2, <2>3, <3>1
        <5>5. j <= seen[e] \/ j = n \/ (seen[e] < j /\ j < n)
          BY <4>2, <5>4
        <5> QED BY <5>1, <5>2, <5>3, <5>5
      <4>3. i <= seen'[e]
        <5>1. i \in Nat /\ n \in Nat /\ seen[e] \in Nat
          BY <1>2, <2>3, <2>5, <3>1
        <5> QED BY <3>1, <3>2, <4>1, <5>1
      <4> QED BY <3>1, <4>1, <4>2, <4>3
    <3>3. CASE ~(d = e /\ n > seen[e])
      <4>1. seen'[e] = seen[e] /\ had[r] \subseteq had'[r]
        BY <1>1, <3>1, <3>3
      <4> QED BY <3>1, <4>1
    <3> QED BY <3>2, <3>3
  <2> QED BY <2>2, <2>4, <2>5
<1> QED BY <1>3, <1>4, <1>5, <1>6 DEF Trading

\* A loss of a trade has trades read again; another leaves them as they follow on.
LEMMA TradingHearLost ==
    ASSUME Order, Trading, NEW x \in stream, HearLost(x)
    PROVE  Trading'
<1>1. /\ stream' = stream \ {x} /\ todo = {}
      /\ UNCHANGED <<log, wanted, since, anew, up, phase, started, seen, had>>
      /\ phase = "following" /\ (\A y \in stream : x.number <= y.number)
      /\ todo' = {log[x.number].row} \/ todo' = heard
  BY DEF HearLost, Taking, handVars
<1>2. Typed /\ x.number \in Numbers
  BY DEF Order, Typed
<1>3. /\ Whole' /\ Numbers' = Numbers /\ \A j : GoesPast(j)' => GoesPast(j)
      /\ (\A j : Coming(j) /\ j # x.number => Coming(j)') /\ (\A i, j : Alike(i, j)' <=> Alike(i, j))
      /\ \A j : Expected(j)' <=> Expected(j)
  BY <1>1, TakenLeaves
<1>4. log[x.number].place \in Datasets => "full" \in todo'
  BY <1>1, <1>2, LogIs
<1>5. Phases'
  BY <1>1 DEF Trading, Phases
<1>6. FollowsOn'
  <2>1. ASSUME "full" \notin todo', NEW j \in Numbers, log[j].place \in Datasets,
               0 < seen[log[j].place], seen[log[j].place] < j, Expected(j), GoesPast(j)
        PROVE  Coming(j)'
    <3>1. j # x.number
      BY <1>4, <2>1
    <3>2. Coming(j)
      BY <1>1, <2>1 DEF Trading, FollowsOn
    <3> QED BY <1>3, <3>1, <3>2
  <2> QED BY <1>1, <1>3, <2>1 DEF FollowsOn
<1>7. AllSince'
  BY <1>1, <1>3 DEF Trading, AllSince
<1> QED BY <1>3, <1>5, <1>6, <1>7 DEF Trading

\* A record made goes last down a stream that is up.
LEMMA RecordComes ==
    ASSUME Order, NEW record \in Records, Record(record)
    PROVE  /\ \A j \in Numbers : log[j].place \notin Keys /\ Coming(j) => Coming(j)'
           /\ \A j : j = Len(log) + 1 /\ up /\ record.place \notin Keys /\ Expected(j)'
                 => \E y \in stream' : y.number = j
           /\ ~up => stream' = stream
           /\ \A y \in stream' : y \in stream \/ y.number = Len(log) + 1
           /\ \A j \in Numbers : Expected(j)' <=> Expected(j)
           /\ UNCHANGED <<wanted, since, anew, up, phase, started, todo, seen, had>>
<1> DEFINE n == Len(log) + 1
<1>1. Item(n).number = n /\ Lost(n).number = n
  BY DEF Item, Lost
<1>2. record.place \notin Keys => record.row # "latest"
  BY RecordIs
<1>3. record.row = "latest" => record.place \in Keys
  BY RecordIs
<1>10. /\ log'[n] = record /\ (\A i \in Numbers : log'[i] = log[i]) /\ UNCHANGED <<wanted, since>>
       /\ record.row = "full" <=> record.place \in Datasets
  BY OrderRecord, RecordIs DEF Record
<1>4. \/ stream' = stream /\ ~(up /\ (record.row = "latest" => record.place \in wanted)
                                 /\ (record.row = "full" => record.of \in wanted))
      \/ up /\ stream' = stream \cup {Item(n)}
      \/ up /\ stream' = stream \cup {Lost(n)}
      \/ up /\ record.row = "latest" /\ stream' = Superseded(record.place) \cup {Item(n)}
  BY DEF Record
<1>5. ~up => stream' = stream
  BY <1>4
<1>6. \A y \in stream' : y \in stream \/ y.number = n
  BY <1>1, <1>4 DEF Superseded
<1>7. ASSUME NEW j, j = n, up, record.place \notin Keys, Expected(j)' PROVE \E y \in stream' : y.number = j
  <2>1. record.row = "full" => record.of \in wanted
    BY <1>7, <1>10 DEF Expected, Owed
  <2> QED BY <1>1, <1>2, <1>4, <1>7, <2>1
<1>11. \A j \in Numbers : Expected(j)' <=> Expected(j)
  BY <1>10 DEF Expected, Owed
<1>8. ASSUME NEW j \in Numbers, log[j].place \notin Keys, Coming(j) PROVE Coming(j)'
  BY <1>3, <1>4, <1>8 DEF Coming, Superseded
<1>9. UNCHANGED <<wanted, since, anew, up, phase, started, todo, seen, had>>
  BY DEF Record, handVars
<1> QED BY <1>5, <1>6, <1>7, <1>8, <1>9, <1>11

\* What was gone past before a record was made is all that is after; and where
\* the record made comes in order, it is coming if it is gone past.
LEMMA RecordPasses ==
    ASSUME Order, NEW record \in Records, Record(record)
    PROVE  /\ \A j \in Numbers : GoesPast(j)' => GoesPast(j)
           /\ \A j : j = Len(log) + 1 /\ Expected(j)' /\ GoesPast(j)' /\ record.place \notin Keys => Coming(j)'
<1> DEFINE n == Len(log) + 1
<1>1. /\ Numbers' = Numbers \cup {n} /\ log'[n] = record /\ \A i \in Numbers : log'[i] = log[i]
  BY OrderRecord
<1>2. /\ \A j : j = n /\ up /\ record.place \notin Keys /\ Expected(j)' => \E y \in stream' : y.number = j
      /\ ~up => stream' = stream
      /\ \A y \in stream' : y \in stream \/ y.number = n
      /\ UNCHANGED up
  BY RecordComes
<1>3. Typed /\ (\A i \in Numbers : i \in Nat /\ i < n) /\ n \in Nat
  BY LengthIs DEF Order, Numbers
<1>4. \A y \in stream : y.number \in Numbers
  BY <1>3 DEF Typed
<1> HIDE DEF n
<1>5. \A i, j \in Numbers : Alike(i, j)' <=> Alike(i, j)
  BY <1>1 DEF Alike
<1>6. ASSUME NEW j \in Numbers, GoesPast(j)' PROVE GoesPast(j)
  BY <1>2, <1>4, <1>5, <1>6 DEF GoesPast
<1>7. ASSUME NEW j, j = n, Expected(j)', GoesPast(j)', record.place \notin Keys PROVE Coming(j)'
  <2>1. CASE up
    BY <1>2, <1>7, <2>1 DEF Coming
  <2>2. CASE ~up
    <3>1. PICK y \in stream : j < y.number
      BY <1>2, <1>7, <2>2 DEF GoesPast
    <3> QED BY <1>3, <1>4, <1>7, <3>1
  <2> QED BY <2>1, <2>2
<1> QED BY <1>6, <1>7 DEF n

\* A record made keeps what is coming whole.
LEMMA TradingRecord ==
    ASSUME Order, Trading, NEW record \in Records, Record(record)
    PROVE  Trading'
<1> DEFINE n == Len(log) + 1
<1>1. /\ Numbers' = Numbers \cup {n} /\ log'[n] = record /\ \A i \in Numbers : log'[i] = log[i]
  BY OrderRecord
<1>2. /\ \A j \in Numbers : log[j].place \notin Keys /\ Coming(j) => Coming(j)'
      /\ \A y \in stream' : y \in stream \/ y.number = n
      /\ \A j \in Numbers : Expected(j)' <=> Expected(j)
      /\ UNCHANGED <<wanted, since, anew, up, phase, started, todo, seen, had>>
  BY RecordComes
<1>3. Typed /\ Len(log) \in Nat /\ (\A i \in Numbers : i \in Nat /\ i < n) /\ n \in Nat
  BY LengthIs DEF Order, Numbers
<1>4. \A y \in stream : y.number \in Numbers
  BY <1>3 DEF Typed
<1> HIDE DEF n
<1>5. \A i, j \in Numbers : Alike(i, j)' <=> Alike(i, j)
  BY <1>1 DEF Alike
<1>6. ASSUME NEW j \in Numbers, GoesPast(j)' PROVE GoesPast(j)
  BY <1>6, RecordPasses
<1>7. ASSUME NEW j, j = n, Expected(j)', GoesPast(j)', log'[j].place \notin Keys PROVE Coming(j)'
  BY <1>1, <1>7, RecordPasses DEF n
<1>8. Phases'
  BY <1>2 DEF Trading, Phases
<1>9. Whole'
  <2>1. ASSUME NEW x \in stream', NEW j \in Numbers', Alike(x.number, j)', x.number < j, Expected(j)', GoesPast(j)'
        PROVE  Coming(j)'
    <3>1. CASE j = n
      BY <1>7, <2>1, <3>1 DEF Alike
    <3>2. CASE j \in Numbers
      <4>1. x \in stream /\ x.number \in Numbers
        BY <1>2, <1>3, <1>4, <2>1, <3>2
      <4>2. Alike(x.number, j) /\ GoesPast(j) /\ Expected(j)
        BY <1>2, <1>5, <1>6, <2>1, <3>2, <4>1
      <4>3. Coming(j) /\ log[j].place \notin Keys
        BY <2>1, <3>2, <4>1, <4>2 DEF Trading, Whole, Alike
      <4> QED BY <1>2, <3>2, <4>3
    <3> QED BY <1>1, <3>1, <3>2
  <2> QED BY <2>1 DEF Whole
<1>10. FollowsOn'
  <2>1. ASSUME "full" \notin todo, NEW j \in Numbers', log'[j].place \in Datasets,
               0 < seen[log'[j].place], seen[log'[j].place] < j, Expected(j)', GoesPast(j)'
        PROVE  Coming(j)'
    <3>1. CASE j = n
      BY <1>7, <2>1, <3>1, PlacesAre
    <3>2. CASE j \in Numbers
      <4>1. log'[j] = log[j] /\ GoesPast(j) /\ Expected(j)
        BY <1>1, <1>2, <1>6, <2>1, <3>2
      <4>2. Coming(j)
        BY <2>1, <3>2, <4>1 DEF Trading, FollowsOn
      <4> QED BY <1>2, <2>1, <3>2, <4>1, <4>2, PlacesAre
    <3> QED BY <1>1, <2>1, <3>1, <3>2
  <2> QED BY <1>2, <2>1 DEF FollowsOn
<1>11. AllSince'
  <2>1. ASSUME NEW r \in Heard, NEW i \in had[r], anew < i
        PROVE  /\ log'[i].place \in Datasets /\ i <= seen[log'[i].place]
               /\ \A j \in Numbers' : Alike(i, j)' /\ i < j /\ Expected(j)' /\ j <= seen[log'[i].place]
                     => j \in had[r]
    <3>1. i \in Numbers /\ log'[i] = log[i]
      BY <1>1, <1>3, <2>1 DEF Typed
    <3>2. /\ log[i].place \in Datasets /\ i <= seen[log[i].place]
          /\ \A j \in Numbers :
                Alike(i, j) /\ i < j /\ Expected(j) /\ j <= seen[log[i].place] => j \in had[r]
      BY <2>1 DEF Trading, AllSince
    <3>3. seen[log[i].place] \in 0 .. Len(log)
      BY <1>3, <3>1, LogIs DEF Typed
    <3>4. ~(n <= seen[log[i].place])
      BY <1>3, <3>3 DEF n
    <3> QED BY <1>1, <1>2, <1>5, <3>1, <3>2, <3>4
  <2> QED BY <1>2, <2>1 DEF AllSince
<1> QED BY <1>8, <1>9, <1>10, <1>11 DEF Trading

\* Of a stream broken off, what it still goes past it brings as it did.
LEMMA BreakPasses ==
    ASSUME Order, Break
    PROVE  /\ \A j : GoesPast(j)
           /\ \A j \in Numbers : GoesPast(j)' /\ Coming(j) => Coming(j)'
<1>1. PICK m \in 0 .. Len(log) : stream' = {x \in stream : x.number <= m}
  BY DEF Break
<1>2. up /\ ~up' /\ UNCHANGED log
  BY DEF Break
<1>3. Typed /\ m \in Nat /\ (\A x \in stream : x.number \in Nat) /\ Numbers \in SUBSET Nat
  BY LengthIs DEF Order, Typed
<1>4. ASSUME NEW j \in Numbers, GoesPast(j)', Coming(j) PROVE Coming(j)'
  <2>1. PICK y \in stream' : j < y.number
    BY <1>2, <1>4 DEF GoesPast
  <2>2. PICK z \in stream : z.number = j
    BY <1>4 DEF Coming
  <2>3. j <= m
    BY <1>1, <1>3, <2>1, <2>2
  <2> QED BY <1>1, <2>2, <2>3 DEF Coming
<1>5. \A j : GoesPast(j)
  BY <1>2 DEF GoesPast
<1> QED BY <1>4, <1>5

\* A stream broken off has all up to where it was.
LEMMA TradingBreak == ASSUME Order, Trading, Break PROVE Trading'
<1>1. PICK m \in 0 .. Len(log) : stream' = {x \in stream : x.number <= m}
  BY DEF Break
<1>2. up /\ ~up' /\ UNCHANGED <<log, wanted, since, anew, phase, started, todo, seen, had>>
  BY DEF Break, handVars
<1>3. Numbers' = Numbers /\ (\A i, j : Alike(i, j)' <=> Alike(i, j)) /\ \A j : Expected(j)' <=> Expected(j)
  BY <1>2, ExpectedStays DEF Numbers, Alike
<1>5. ASSUME NEW j \in Numbers, GoesPast(j)', Coming(j) PROVE Coming(j)'
  BY <1>5, BreakPasses
<1>6. \A j : GoesPast(j)
  BY BreakPasses
<1>7. Whole'
  <2>1. ASSUME NEW x \in stream', NEW j \in Numbers, Alike(x.number, j), x.number < j, Expected(j), GoesPast(j)'
        PROVE  Coming(j)'
    BY <1>1, <1>5, <1>6, <2>1 DEF Trading, Whole
  <2> QED BY <1>3, <2>1 DEF Whole
<1>8. FollowsOn'
  <2>1. ASSUME "full" \notin todo, NEW j \in Numbers, log[j].place \in Datasets,
               0 < seen[log[j].place], seen[log[j].place] < j, Expected(j), GoesPast(j)'
        PROVE  Coming(j)'
    BY <1>5, <1>6, <2>1 DEF Trading, FollowsOn
  <2> QED BY <1>2, <1>3, <2>1 DEF FollowsOn
<1>9. AllSince' /\ Phases'
  BY <1>2, <1>3 DEF Trading, AllSince, Phases
<1> QED BY <1>7, <1>8, <1>9 DEF Trading

\* A stream opened brings nothing yet, and trades are read where some were had.
LEMMA TradingOpen == ASSUME Order, Trading, Open PROVE Trading'
<1>1. /\ UNCHANGED <<heard, log, anew, seen, had>> /\ stream' = {} /\ todo' = Rereading \cap heard
      /\ wanted' = named /\ since' = [k \in Keys |-> IF k \in wanted \cap named THEN since[k] ELSE Len(log)]
      /\ (phase' = "following" /\ started' = TRUE) \/ (phase' = "reading" /\ UNCHANGED started)
  BY DEF Open, handVars
<1>2. Typed /\ Numbers' = Numbers /\ \A i, j : Alike(i, j)' <=> Alike(i, j)
  BY <1>1 DEF Numbers, Alike, Order
<1>3. "full" \in todo' <=> started /\ "full" \in heard
  BY <1>1 DEF Rereading, Rows
<1>4. Phases'
  BY <1>1, <1>3 DEF Trading, Phases
<1>5. Whole'
  BY <1>1 DEF Whole
<1>6. FollowsOn'
  <2>1. ASSUME NEW j \in Numbers, log[j].place \in Datasets, 0 < seen[log[j].place]
        PROVE  "full" \in todo'
    <3>1. started
      BY <2>1 DEF Trading, Phases
    <3> QED BY <1>2, <1>3, <2>1, <3>1, LogIs
  <2> QED BY <1>1, <1>2, <2>1 DEF FollowsOn
<1>8. ASSUME NEW j \in Numbers, log[j].place \in Datasets, Expected(j)' PROVE Expected(j)
  <2>1. log[j].of \in Keys
    BY <1>2, <1>8, LogIs
  <2>2. ~(Len(log) < j)
    BY <1>2, LengthIs
  <2> QED BY <1>1, <1>8, <2>1, <2>2 DEF Expected, Owed
<1>7. AllSince'
  BY <1>1, <1>2, <1>8 DEF Trading, AllSince, Alike
<1> QED BY <1>4, <1>5, <1>6, <1>7 DEF Trading

\* What is recorded of a dataset after the last handed on is read, all of it.
LEMMA TradingReadTrades == ASSUME Order, Trading, ReadRow("full") PROVE Trading'
<1>1. /\ UNCHANGED <<log, wanted, since, anew, stream, up>>
      /\ todo' = todo \ {"full"} /\ "full" \in todo /\ "latest" \notin todo
      /\ Hand(AfterWatermark, Seeding)
      /\ (phase' = "following" /\ started' = TRUE) \/ UNCHANGED <<phase, started>>
  BY DEF ReadRow, RowRead, Reading, RowOf, sidecarVars
<1>2. ~Seeding
  BY <1>1 DEF Seeding, Reading, Trading, Phases
<1>3. Typed /\ AfterWatermark \in SUBSET Numbers
  BY DEF AfterWatermark, Of, Order
<1>4. Due(AfterWatermark) = AfterWatermark
  BY DEF Due, Fresh, AfterWatermark
<1>5. PICK got \in [Heard -> SUBSET Due(AfterWatermark)] :
        /\ Valued(got) /\ seen' = Marked(Due(AfterWatermark)) /\ had' = Trades(got)
        /\ \A r \in Heard : Hears(r, Seeding) => got[r] = Due(AfterWatermark)
  BY <1>1, <1>3, HandIs
<1>6. \A r \in Heard : got[r] = AfterWatermark
  BY <1>2, <1>4, <1>5 DEF Hears
<1>7. \A r \in Heard : had'[r] = had[r] \cup AfterWatermark
  BY <1>5, <1>6 DEF Trades, Heard, AfterWatermark
<1>8. \A j \in Numbers : log[j].place \in Datasets =>
        (j \in AfterWatermark <=> log[j].of \in wanted /\ seen[log[j].place] > 0 /\ j > seen[log[j].place])
  BY <1>3, LogIs DEF AfterWatermark, Of
<1>9. ASSUME NEW d \in Datasets
      PROVE  /\ seen[d] \in Nat /\ seen'[d] \in Nat /\ seen[d] <= seen'[d]
             /\ seen[d] = 0 => seen'[d] = 0
             /\ \A j \in AfterWatermark : log[j].place = d => j <= seen'[d]
  <2>1. d \in Places /\ seen[d] \in Nat
    BY <1>3, LengthIs, PlacesAre DEF Typed
  <2>2. /\ seen'[d] \in 0 .. Len(log) /\ seen[d] <= seen'[d]
        /\ \A j \in AfterWatermark : log[j].place = d => j <= seen'[d]
        /\ seen'[d] = seen[d] \/ (seen'[d] \in AfterWatermark /\ log[seen'[d]].place = d)
    BY <1>3, <1>4, <1>5, <2>1, MarkedIs
  <2>3. seen[d] = 0 => seen'[d] = 0
    BY <2>2 DEF AfterWatermark
  <2> QED BY <1>3, <2>1, <2>2, <2>3, LengthIs
<1>10. Numbers' = Numbers /\ Numbers \in SUBSET Nat
  BY <1>1, <1>3, LengthIs DEF Numbers
<1>11. (\A i, j : Alike(i, j)' <=> Alike(i, j)) /\ (\A j : GoesPast(j)' <=> GoesPast(j))
         /\ (\A j : Coming(j)' <=> Coming(j)) /\ \A j : Expected(j)' <=> Expected(j)
  BY <1>1, ExpectedStays DEF Alike, GoesPast, Coming
<1>16. \A j \in Numbers : log[j].place \in Datasets /\ Expected(j) => log[j].of \in wanted
  BY DEF Expected, Owed
<1>12. Phases'
  <2>1. ~started' => \A d \in Datasets : seen'[d] = 0
    BY <1>1, <1>9 DEF Trading, Phases
  <2> QED BY <1>1, <2>1 DEF Trading, Phases
<1>13. Whole'
  BY <1>1, <1>10, <1>11 DEF Trading, Whole
<1>14. FollowsOn'
  <2>1. ASSUME NEW j \in Numbers, log[j].place \in Datasets, 0 < seen'[log[j].place], Expected(j)
        PROVE  j <= seen'[log[j].place]
    BY <1>8, <1>9, <1>10, <1>16, <2>1
  <2>2. ASSUME NEW j \in Numbers, log[j].place \in Datasets, 0 < seen'[log[j].place], seen'[log[j].place] < j,
               Expected(j)
        PROVE  FALSE
    BY <1>9, <1>10, <2>1, <2>2
  <2> QED BY <1>1, <1>10, <1>11, <2>2 DEF FollowsOn
<1>15. AllSince'
  <2>1. ASSUME NEW r \in Heard, NEW i \in had'[r], anew < i
        PROVE  /\ log[i].place \in Datasets /\ i <= seen'[log[i].place]
               /\ \A j \in Numbers : Alike(i, j) /\ i < j /\ Expected(j) /\ j <= seen'[log[i].place]
                     => j \in had'[r]
    <3> DEFINE e == log[i].place
    <3>1. CASE i \in had[r]
      <4>1. /\ e \in Datasets /\ i <= seen[e] /\ i \in Numbers
            /\ \A j \in Numbers : Alike(i, j) /\ i < j /\ Expected(j) /\ j <= seen[e] => j \in had[r]
        BY <1>3, <2>1, <3>1 DEF Trading, AllSince, Typed
      <4>2. i \in Nat /\ 0 < i
        BY <1>10, <4>1 DEF Numbers
      <4>3. i <= seen'[e] /\ 0 < seen[e]
        BY <1>9, <4>1, <4>2
      <4>4. ASSUME NEW j \in Numbers, Alike(i, j), i < j, Expected(j) PROVE j \in had'[r]
        <5>1. CASE j <= seen[e]
          BY <1>7, <4>1, <4>4, <5>1
        <5>2. CASE seen[e] < j
          BY <1>7, <1>8, <1>16, <4>1, <4>3, <4>4, <5>2 DEF Alike
        <5> QED BY <1>9, <1>10, <4>1, <5>1, <5>2
      <4> QED BY <4>1, <4>3, <4>4
    <3>2. CASE i \in AfterWatermark
      <4>1. i \in Numbers /\ e \in Datasets /\ 0 < seen[e] /\ seen[e] < i
        BY <1>3, <3>2, LogIs DEF AfterWatermark, Of
      <4>2. i <= seen'[e]
        BY <1>9, <3>2, <4>1
      <4>3. ASSUME NEW j \in Numbers, Alike(i, j), i < j, Expected(j) PROVE j \in had'[r]
        <5>1. seen[e] < j /\ log[j].place = e
          BY <1>9, <1>10, <4>1, <4>3 DEF Alike
        <5> QED BY <1>7, <1>8, <1>16, <4>1, <4>3, <5>1
      <4> QED BY <4>1, <4>2, <4>3
    <3> QED BY <1>7, <2>1, <3>1, <3>2
  <2> QED BY <1>1, <1>10, <1>11, <2>1 DEF AllSince
<1> QED BY <1>12, <1>13, <1>14, <1>15 DEF Trading

\* Prices read, and replacements, are no trades.
LEMMA TradingReadOther ==
    ASSUME Order, Trading, ReadRow("latest") \/ ReadReplacements
    PROVE  Trading'
<1>1. /\ UNCHANGED <<log, wanted, since, anew, stream, up>>
      /\ "full" \in todo => "full" \in todo'
      /\ (phase' = "following" /\ started' = TRUE) \/ UNCHANGED <<phase, started>>
      /\ "full" \in todo' => "full" \in todo
  BY DEF ReadRow, ReadReplacements, RowRead, Reading, sidecarVars
<1>2. had' = had /\ \A d \in Datasets : seen'[d] = seen[d]
  <2>1. CASE ReadRow("latest")
    <3>1. Typed /\ LatestWanted \in SUBSET Numbers
      BY LatestAbove DEF Above, Order
    <3>2. ASSUME NEW i \in LatestWanted PROVE log[i].place \notin Datasets
      <4>1. PICK k \in wanted : i = LatestOf(k) /\ i # 0
        BY <3>2 DEF LatestWanted
      <4>2. k \in Keys
        BY <3>1 DEF Typed
      <4> QED BY <3>1, <4>1, <4>2, LatestIs, PlacesAre
    <3> QED BY <2>1, <3>1, <3>2, HandOther DEF ReadRow, RowOf
  <2>2. CASE ReadReplacements
    <3>1. Typed /\ Page \in SUBSET Numbers /\ \A i \in Page : log[i].place \notin Datasets
      BY PageAbove, PlacesAre DEF Above, Order
    <3>2. CASE Hand(Page, Seeding)
      BY <3>1, <3>2, HandOther
    <3>3. CASE seen' = Marked(Page) /\ UNCHANGED <<value, had, ids>>
      BY <3>1, <3>3, MarkedIs, PlacesAre
    <3> QED BY <2>2, <3>2, <3>3 DEF ReadReplacements
  <2> QED BY <2>1, <2>2
<1>3. Phases'
  BY <1>1, <1>2 DEF Trading, Phases
<1> QED BY <1>1, <1>2, <1>3, TradingStill

\* A step keeps it, where no handler raises a failed call of its own.
LEMMA TradingStep ==
    ASSUME "call" \notin HandlerRaises, Order, Trading, [Next]_vars
    PROVE  Trading'
<1>1. ASSUME NEW record \in Records, Record(record) PROVE Trading'
  BY <1>1, TradingRecord
<1>2. CASE Break
  BY <1>2, TradingBreak
<1>3. ASSUME UNCHANGED <<log, wanted, since, anew, stream, up, had, seen, started, todo>>,
             phase' = phase \/ phase' = "closed"
      PROVE  Trading'
  <2>1. Phases'
    BY <1>3 DEF Trading, Phases
  <2> QED BY <1>3, <2>1, TradingStill
<1>4. ASSUME NEW key \in Keys, Rename(key) PROVE Trading'
  BY <1>3, <1>4 DEF Rename, handVars
<1>5. CASE OnStart
  BY <1>3, <1>5 DEF OnStart, sidecarVars
<1>6. CASE UNCHANGED vars
  BY <1>3, <1>6 DEF vars, handVars
<1>7. ASSUME NEW row \in {"latest", "full"}, ReadRow(row) PROVE Trading'
  BY <1>7, TradingReadTrades, TradingReadOther
<1>8. CASE ReadReplacements
  BY <1>8, TradingReadOther
<1>9. CASE ReadFails
  <2>1. had \in [Heard -> SUBSET Numbers]
    BY DEF Order, Typed
  <2> QED BY <1>9, <2>1, TradingGone DEF ReadFails, Closed
<1>10. ASSUME NEW numbers, Above(numbers), NEW seeding, Raise(numbers, seeding) PROVE Trading'
  <2>1. numbers \in SUBSET Numbers /\ Typed
    BY <1>10 DEF Above, Order
  <2>2. Closed /\ UNCHANGED <<log, wanted, since>> /\ Afresh
    BY <1>10, <2>1, RaiseIs
  <2>3. had' \in [Heard -> SUBSET Numbers] /\ Numbers' = Numbers
    BY <1>10, <2>2, OrderRaise DEF Order, Typed, Numbers
  <2> QED BY <2>2, <2>3, TradingGone DEF Closed
<1>11. CASE RaiseReading
  <2>1. ASSUME NEW row \in {"latest", "full"}, Raise(RowOf(row), Seeding) PROVE Trading'
    BY <1>10, <2>1, RowsAbove
  <2>2. CASE Raise(Page, Seeding)
    BY <1>10, <2>2, PageAbove
  <2> QED BY <1>11, <2>1, <2>2 DEF RaiseReading
<1>12. CASE RaiseHearing
  BY <1>10, <1>12, ItemAbove DEF RaiseHearing
<1>13. CASE Open
  BY <1>13, TradingOpen
<1>14. ASSUME NEW x \in stream, Hear(x) \/ HearLost(x) PROVE Trading'
  BY <1>14, TradingHear, TradingHearLost
<1>15. CASE SeeBreak \/ SeeReopen
  BY <1>15, TradingGone DEF SeeBreak, SeeReopen, Closed, handVars
<1> QED BY <1>1, <1>2, <1>4, <1>5, <1>6, <1>7, <1>8, <1>9, <1>11, <1>12, <1>13, <1>14, <1>15
        DEF Next, Sidecar, Reads, Fails, Follow

\* No trade is handed on at first.
LEMMA InitTrading == Init => Trading
<1> SUFFICES ASSUME Init PROVE Trading
  OBVIOUS
<1>1. stream = {} /\ phase = "starting" /\ \A r \in Heard : had[r] = {}
  BY DEF Init, Heard
<1>2. \A d \in Datasets : seen[d] = 0
  BY PlacesAre DEF Init
<1>3. Phases /\ Whole /\ AllSince
  BY <1>1, <1>2 DEF Phases, Whole, AllSince
<1>4. FollowsOn
  <2>1. Numbers = {}
    BY InitOrder, EmptySeq DEF Init, Numbers
  <2> QED BY <2>1 DEF FollowsOn
<1> QED BY <1>3, <1>4 DEF Trading

\* What a role was handed since `follow` last ended lacks nothing it is owed.
LEMMA NoneLacks ==
    ASSUME Order, Moments, Trading, NEW r \in Heard, NEW i \in had[r], NEW k \in had[r], NEW j \in Of("full"),
           anew < i, Between(i, j, k)
    PROVE  j \in had[r]
<1>1. /\ Typed /\ j \in Numbers /\ k \in Numbers /\ i \in Numbers /\ Numbers \in SUBSET Nat
      /\ Len(log) \in Nat /\ i < j /\ j < k /\ log[i].place = log[j].place /\ log[j].place = log[k].place
  BY LengthIs DEF Order, Typed, Of, Between
<1>2. anew < k
  BY <1>1 DEF Moments
<1>3. Alike(i, j) /\ k <= seen[log[i].place] /\ Expected(j)
  BY <1>1, <1>2, PlacesAre DEF Trading, AllSince, Alike, Expected, Between
<1>4. seen[log[i].place] \in Nat
  BY <1>1, LogIs DEF Typed
<1>5. j <= seen[log[i].place]
  BY <1>1, <1>3, <1>4
<1> QED BY <1>1, <1>3, <1>5 DEF Trading, AllSince

\* Between two trades a role was handed since `follow` last ended none is missing of
\* a subject asked for all along: whatever was lost, broken off or read again in
\* between, and whatever other subjects were left out or named again, so long as no
\* handler lets a failed call of its own end the stream (receive.py, `_InFull.read`,
\* `_InFull.hand`).
THEOREM TradesWhole ==
    ASSUME "call" \notin HandlerRaises
    PROVE  Spec => []NoTradeMissing
<1>1. Order /\ Moments /\ Trading /\ [Next]_vars => Order' /\ Moments' /\ Trading'
  BY OrderStep, MomentsStep, TradingStep
<1>2. Order /\ Moments /\ Trading => NoTradeMissing
  BY NoneLacks DEF NoTradeMissing, Heard
<1> QED BY <1>1, <1>2, InitOrder, InitMoments, InitTrading, PTL DEF Spec

\* `follow` has not ended, and will not.
Unended == left \in [Mishaps -> Nat] /\ left["ends"] = 0 /\ anew = 0

\* Where nothing may end `follow`, no step does.
LEMMA UnendedStep ==
    ASSUME "call" \notin HandlerRaises, Order, Unended, [Next]_vars
    PROVE  Unended'
<1>1. ASSUME NEW m \in Mishaps \ {"ends"}, Spend(m), UNCHANGED anew PROVE Unended'
  BY <1>1, SpendType DEF Unended, Spend, Mishaps
<1>2. ASSUME UNCHANGED <<left, anew>> PROVE Unended'
  BY <1>2 DEF Unended
<1>3. ~Spend("ends")
  BY DEF Unended, Spend
<1>4. ASSUME NEW record \in Records, Record(record) PROVE Unended'
  <2>1. UNCHANGED anew /\ (UNCHANGED left \/ Spend("losses"))
    BY <1>4 DEF Record
  <2> QED BY <1>1, <1>2, <2>1 DEF Mishaps
<1>5. CASE Break
  BY <1>1, <1>5 DEF Break, Mishaps
<1>6. ASSUME NEW key \in Keys, Rename(key) PROVE Unended'
  BY <1>1, <1>6 DEF Rename, Mishaps
<1>7. CASE ReadFails
  BY <1>1, <1>3, <1>7 DEF ReadFails, Mishaps
<1>8. ASSUME NEW numbers, Above(numbers), NEW seeding, Raise(numbers, seeding) PROVE FALSE
  <2>1. numbers \in SUBSET Numbers /\ Typed
    BY <1>8 DEF Above, Order
  <2> QED BY <1>3, <1>8, <2>1, RaiseIs
<1>9. ~RaiseReading /\ ~RaiseHearing
  BY <1>8, RowsAbove, PageAbove, ItemAbove DEF RaiseReading, RaiseHearing
<1>10. ASSUME NEW x \in stream, Hear(x) \/ HearLost(x) PROVE Unended'
  BY <1>2, <1>10 DEF Hear, HearLost
<1>11. CASE Reads \/ OnStart \/ Open \/ SeeBreak \/ SeeReopen \/ UNCHANGED vars
  BY <1>2, <1>11 DEF Reads, ReadRow, ReadReplacements, OnStart, Open, SeeBreak, SeeReopen, sidecarVars, vars
<1> QED BY <1>4, <1>5, <1>6, <1>7, <1>9, <1>10, <1>11 DEF Next, Sidecar, Fails, Follow

\* Where nothing ends `follow`, of all a role was ever handed of a dataset none is
\* missing in between, of a subject asked for all along: losses, breaks, failed
\* reads and subjects that change take no trade for good (receive.py, `follow`).
THEOREM EveryTradeHad ==
    ASSUME "call" \notin HandlerRaises, \A rows \in Hearings : \A b \in Budgets[rows] : b["ends"] = 0
    PROVE  Spec => []EveryTrade
<1>1. /\ Order /\ Moments /\ Trading /\ Unended /\ [Next]_vars
            => Order' /\ Moments' /\ Trading' /\ Unended'
  BY OrderStep, MomentsStep, TradingStep, UnendedStep
<1>2. Order /\ Moments /\ Trading /\ Unended => EveryTrade
  <2> SUFFICES ASSUME Order, Moments, Trading, Unended, NEW r \in Heard, NEW i \in had[r], NEW k \in had[r],
                      NEW j \in Of("full"), Between(i, j, k)
               PROVE  j \in had[r]
    BY DEF EveryTrade, Heard
  <2>1. i \in Numbers /\ Numbers = 1 .. Len(log) /\ Len(log) \in Nat
    BY LengthIs DEF Order, Typed, Numbers
  <2>2. anew < i
    BY <2>1 DEF Unended
  <2> QED BY <2>2, NoneLacks
<1>3. Init => Unended
  BY CursorsAssumption DEF Init, Unended, CursorsAssumption
<1> QED BY <1>1, <1>2, <1>3, InitOrder, InitMoments, InitTrading, PTL DEF Spec

-----------------------------------------------------------------------------
(* Steps from 0 on. *)

\* What has 0, and each number after one it has, has all of them.
LEMMA AllUpTo ==
    ASSUME NEW N \in Nat, NEW P, 0 \in P, \A n \in 1 .. N : n - 1 \in P => n \in P
    PROVE  \A n \in 0 .. N : n \in P
<1> DEFINE Not == {n \in 0 .. N : n \notin P}
<1> SUFFICES ASSUME Not # {} PROVE FALSE
  OBVIOUS
<1>1. Not \in SUBSET Nat
  OBVIOUS
<1>2. PICK n \in Not : \A m \in Not : n <= m
  BY <1>1, LeastExists
<1>3. n \in 1 .. N /\ n - 1 \in 0 .. N /\ ~(n <= n - 1)
  BY <1>2
<1>4. n - 1 \in P
  BY <1>2, <1>3
<1> QED BY <1>2, <1>3, <1>4

\* `f` goes on from `start` by one step after another.
Takes(f, N, start, step) == f[0] = start /\ \A n \in 1 .. N : f[n] = step[n][f[n - 1]]

\* A value taken from step to step: there is such a sequence of values.
LEMMA StepsExist ==
    ASSUME NEW N \in Nat, NEW X, NEW start \in X, NEW step \in [1 .. N -> [X -> X]]
    PROVE  \E f \in [0 .. N -> X] : Takes(f, N, start, step)
<1> DEFINE Has(n) == \E f \in [0 .. N -> X] :
                        f[0] = start /\ \A m \in 1 .. N : m <= n => f[m] = step[m][f[m - 1]]
           P == {n \in 0 .. N : Has(n)}
<1>1. Has(0)
  <2> DEFINE f == [n \in 0 .. N |-> start]
  <2>1. f \in [0 .. N -> X] /\ f[0] = start /\ \A m \in 1 .. N : ~(m <= 0)
    OBVIOUS
  <2> HIDE DEF f
  <2> QED BY <2>1
<1>2. ASSUME NEW n \in 1 .. N, Has(n - 1) PROVE Has(n)
  <2>1. PICK f \in [0 .. N -> X] :
            f[0] = start /\ \A m \in 1 .. N : m <= n - 1 => f[m] = step[m][f[m - 1]]
    BY <1>2
  <2>2. f[n - 1] \in X /\ step[n] \in [X -> X]
    OBVIOUS
  <2>3. step[n][f[n - 1]] \in X
    BY <2>2
  <2> DEFINE g == [f EXCEPT ![n] = step[n][f[n - 1]]]
  <2>4. g \in [0 .. N -> X] /\ g[n] = step[n][f[n - 1]] /\ \A m \in 0 .. N : m # n => g[m] = f[m]
    BY <2>3
  <2> HIDE DEF g
  <2>5. ASSUME NEW m \in 1 .. N, m <= n PROVE g[m] = step[m][g[m - 1]]
    <3>1. m - 1 \in 0 .. N /\ m - 1 # n
      BY <2>5
    <3>2. g[m - 1] = f[m - 1]
      BY <2>4, <3>1
    <3>3. CASE m = n
      BY <2>4, <3>2, <3>3
    <3>4. CASE m # n
      BY <2>1, <2>4, <2>5, <3>2, <3>4
    <3> QED BY <3>3, <3>4
  <2>6. g[0] = start
    BY <2>1, <2>4
  <2> QED BY <2>4, <2>5, <2>6
<1>3. Has(N)
  <2> HIDE DEF Has
  <2>1. 0 \in P
    BY <1>1
  <2>2. \A n \in 1 .. N : n - 1 \in P => n \in P
    BY <1>2
  <2>3. \A n \in 0 .. N : n \in P
    <3> HIDE DEF P
    <3> QED BY <2>1, <2>2, AllUpTo
  <2> QED BY <2>3
<1> QED BY <1>3 DEF Takes

-----------------------------------------------------------------------------
(* What an ID became. *)

\* Where a walk from `id` stands: `Current`'s.
Walks == [at : Ids, met : SUBSET Ids, on : BOOLEAN]
Onward(became, w) ==
    LET next == became[w.at]
    IN  IF ~w.on \/ next = None THEN w
        ELSE [at |-> next, met |-> w.met \cup {next}, on |-> next \notin w.met]
WalkOf(became, id) ==
    CHOOSE walk : walk = [n \in 0..Cardinality(Ids) |->
                            IF n = 0 THEN [at |-> id, met |-> {id}, on |-> TRUE] ELSE Onward(became, walk[n - 1])]

\* `Current` is where that walk stands in the end.
LEMMA CurrentIsWalk ==
    ASSUME NEW became, NEW id
    PROVE  Current(became, id) = WalkOf(became, id)[Cardinality(Ids)].at
BY DEF Current, WalkOf, Onward

\* There are finitely many IDs.
LEMMA IdsFinite == IsFiniteSet(Ids) /\ Cardinality(Ids) \in Nat /\ None \notin Ids
BY CursorsAssumption, FS_CardinalityType DEF CursorsAssumption

\* It walks step by step.
LEMMA WalkIs ==
    ASSUME NEW became \in [Ids -> Ids \cup {None}], NEW id \in Ids
    PROVE  \E w \in [0 .. Cardinality(Ids) -> Walks] :
              /\ Current(became, id) = w[Cardinality(Ids)].at
              /\ w[0] = [at |-> id, met |-> {id}, on |-> TRUE]
              /\ \A n \in 1 .. Cardinality(Ids) : w[n] = Onward(became, w[n - 1])
<1> DEFINE N == Cardinality(Ids)
           start == [at |-> id, met |-> {id}, on |-> TRUE]
           step == [n \in 1 .. N |-> [w \in Walks |-> Onward(became, w)]]
<1>1. start \in Walks /\ N \in Nat
  BY IdsFinite DEF Walks
<1>2. \A w \in Walks : Onward(became, w) \in Walks
  BY DEF Onward, Walks
<1>3. step \in [1 .. N -> [Walks -> Walks]]
  BY <1>2
<1> HIDE DEF N, start
<1>4. PICK w \in [0 .. N -> Walks] : w[0] = start /\ \A n \in 1 .. N : w[n] = step[n][w[n - 1]]
  <2> HIDE DEF step
  <2>1. \E f \in [0 .. N -> Walks] : Takes(f, N, start, step)
    BY <1>1, <1>3, StepsExist, Zenon
  <2> QED BY <2>1 DEF Takes
<1>5. ASSUME NEW n \in 1 .. N PROVE w[n] = Onward(became, w[n - 1])
  <2>1. n - 1 \in 0 .. N
    BY <1>1
  <2> QED BY <1>4, <2>1
<1>6. w = [n \in 0 .. N |-> IF n = 0 THEN start ELSE Onward(became, w[n - 1])]
  BY <1>1, <1>4, <1>5
<1> DEFINE v == WalkOf(became, id)
<1>7. v = [n \in 0 .. N |-> IF n = 0 THEN start ELSE Onward(became, v[n - 1])]
  BY <1>6 DEF WalkOf, N, start
<1> HIDE DEF v
<1>8. \A n \in 0 .. N : v[n] = IF n = 0 THEN start ELSE Onward(became, v[n - 1])
  BY <1>7
<1> DEFINE P == {n \in 0 .. N : v[n] = w[n]}
<1>9. 0 \in P
  BY <1>1, <1>4, <1>8
<1>10. \A n \in 1 .. N : n - 1 \in P => n \in P
  BY <1>1, <1>5, <1>8
<1>11. \A n \in 0 .. N : n \in P
  <2> HIDE DEF P
  <2> QED BY <1>1, <1>9, <1>10, AllUpTo
<1>12. v[N] = w[N]
  BY <1>1, <1>11
<1> QED BY <1>4, <1>5, <1>12, CurrentIsWalk DEF N, start, v

\* What each ID became is a forest: the roots stand, each of the others stands
\* for what it became does, and there is no way round.
Tree(became, stands) ==
    /\ became \in [Ids -> Ids \cup {None}] /\ stands \in [Ids -> Ids]
    /\ \A x \in Ids : became[x] = None <=> stands[x] = x
    /\ \A x \in Ids : became[x] # None => stands[x] = stands[became[x]]
    /\ \E rank \in [Ids -> Nat] :
          \A x \in Ids : became[x] # None => rank[x] < rank[became[x]]

\* Followed through a forest, an ID leads to what stands for it.
LEMMA CurrentStands ==
    ASSUME NEW became, NEW stands, Tree(became, stands), NEW id \in Ids
    PROVE  Current(became, id) = stands[id]
<1> DEFINE N == Cardinality(Ids)
<1>0. N \in Nat /\ IsFiniteSet(Ids) /\ None \notin Ids
  BY IdsFinite
<1>1. /\ became \in [Ids -> Ids \cup {None}] /\ stands \in [Ids -> Ids]
      /\ \A x \in Ids : became[x] = None <=> stands[x] = x
      /\ \A x \in Ids : became[x] # None => stands[x] = stands[became[x]]
  BY DEF Tree
<1>2. PICK rank \in [Ids -> Nat] : \A x \in Ids : became[x] # None => rank[x] < rank[became[x]]
  BY DEF Tree
<1>3. PICK w \in [0 .. N -> Walks] :
         /\ Current(became, id) = w[N].at
         /\ w[0] = [at |-> id, met |-> {id}, on |-> TRUE]
         /\ \A n \in 1 .. N : w[n] = Onward(became, w[n - 1])
  BY <1>1, WalkIs
<1> HIDE DEF N
<1> DEFINE Good(n) == /\ stands[w[n].at] = stands[id] /\ w[n].on
                      /\ \A x \in w[n].met : rank[x] <= rank[w[n].at]
                      /\ became[w[n].at] = None \/ Cardinality(w[n].met) = n + 1
           P == {n \in 0 .. N : Good(n)}
<1>4. Good(0)
  <2>1. Cardinality({id}) = 1
    BY FS_Singleton
  <2> QED BY <1>2, <1>3, <2>1
<1>5. ASSUME NEW n \in 1 .. N, Good(n - 1) PROVE Good(n)
  <2> DEFINE u == w[n - 1]
             next == became[u.at]
  <2>1. u \in Walks /\ u.at \in Ids /\ u.met \subseteq Ids /\ w[n] = Onward(became, u)
    BY <1>0, <1>3 DEF Walks
  <2>2. CASE next = None
    <3>1. w[n] = u
      BY <2>1, <2>2 DEF Onward
    <3> QED BY <1>5, <2>2, <3>1
  <2>3. CASE next # None
    <3>1. next \in Ids
      BY <1>1, <2>1, <2>3
    <3>2. rank[u.at] < rank[next] /\ rank[u.at] \in Nat /\ rank[next] \in Nat
      BY <1>2, <2>1, <2>3, <3>1
    <3>3. \A x \in u.met : rank[x] \in Nat /\ rank[x] <= rank[u.at]
      BY <1>2, <1>5, <2>1
    <3>4. next \notin u.met
      BY <3>2, <3>3
    <3>5. w[n] = [at |-> next, met |-> u.met \cup {next}, on |-> TRUE]
      BY <1>5, <2>1, <2>3, <3>4 DEF Onward
    <3>6. Cardinality(u.met) = (n - 1) + 1
      BY <1>5, <2>3
    <3>7. IsFiniteSet(u.met)
      BY <1>0, <2>1, FS_Subset
    <3>8. Cardinality(u.met \cup {next}) = Cardinality(u.met) + 1
      BY <3>4, <3>7, FS_AddElement
    <3>9. Cardinality(u.met \cup {next}) = n + 1
      BY <3>6, <3>8
    <3>10. stands[next] = stands[id]
      BY <1>1, <1>5, <2>1, <2>3
    <3>11. \A x \in u.met \cup {next} : rank[x] <= rank[next]
      BY <3>2, <3>3
    <3> QED BY <3>5, <3>9, <3>10, <3>11
  <2> QED BY <2>2, <2>3
<1>6. Good(N)
  <2> HIDE DEF Good
  <2>1. 0 \in P /\ \A n \in 1 .. N : n - 1 \in P => n \in P
    BY <1>0, <1>4, <1>5
  <2>2. \A n \in 0 .. N : n \in P
    <3> HIDE DEF P
    <3> QED BY <1>0, <2>1, AllUpTo
  <2> QED BY <1>0, <2>2
<1>7. w[N] \in Walks /\ w[N].at \in Ids /\ w[N].met \subseteq Ids
  BY <1>0 DEF Walks
<1>8. became[w[N].at] = None
  <2>1. Cardinality(w[N].met) <= N
    BY <1>0, <1>7, FS_Subset DEF N
  <2> QED BY <1>0, <1>6, <2>1
<1> QED BY <1>1, <1>3, <1>6, <1>7, <1>8

\* What stands for each ID once `from` is replaced by `to`.
Replaced(stands, from, to) ==
    [x \in Ids |-> IF stands[x] = from THEN to ELSE stands[x]]

\* One that stands replaced by one that stands, or that it replaced, leaves a
\* forest.
LEMMA BecameStands ==
    ASSUME NEW became, NEW stands, Tree(became, stands), NEW from \in Ids, NEW to \in Ids,
           from # to, stands[from] = from, stands[to] \in {from, to}
    PROVE  Tree(Became(became, from, to), Replaced(stands, from, to))
<1> DEFINE now == Became(became, from, to)
           stood == Replaced(stands, from, to)
<1>1. /\ became \in [Ids -> Ids \cup {None}] /\ stands \in [Ids -> Ids] /\ None \notin Ids
      /\ \A x \in Ids : became[x] = None <=> stands[x] = x
      /\ \A x \in Ids : became[x] # None => stands[x] = stands[became[x]]
  BY IdsFinite DEF Tree
<1>2. PICK rank \in [Ids -> Nat] : \A x \in Ids : became[x] # None => rank[x] < rank[became[x]]
  BY DEF Tree
<1>3. Current(became, to) = stands[to]
  BY CurrentStands
<1>4. now = [x \in Ids |-> IF x = from THEN to ELSE IF x = to THEN None ELSE became[x]]
  BY <1>1, <1>3 DEF Became
<1>5. \A x \in Ids : stood[x] = IF stands[x] = from THEN to ELSE stands[x]
  BY DEF Replaced
<1>6. now \in [Ids -> Ids \cup {None}] /\ stood \in [Ids -> Ids]
  BY <1>1, <1>4 DEF Replaced
<1> HIDE DEF now, stood
<1>7. /\ now[from] = to /\ now[to] = None
      /\ \A x \in Ids : x # from /\ x # to => now[x] = became[x]
  BY <1>4
<1>8. stood[from] = to /\ stood[to] = to
  BY <1>5
<1>9. \A x \in Ids : now[x] = None <=> stood[x] = x
  BY <1>1, <1>5, <1>7, <1>8
<1>10. \A x \in Ids : now[x] # None => stood[x] = stood[now[x]]
  <2>1. ASSUME NEW x \in Ids, x # from, x # to, became[x] # None PROVE stood[x] = stood[became[x]]
    BY <1>1, <1>5, <2>1
  <2> QED BY <1>7, <1>8, <2>1
<1> DEFINE above == [x \in Ids |-> IF x = to THEN rank[from] + rank[to] + 1 ELSE rank[x]]
<1>11. above \in [Ids -> Nat]
  BY <1>2
<1>12. ASSUME NEW x \in Ids, now[x] # None PROVE above[x] < above[now[x]]
  <2>0. \A y \in Ids : rank[y] \in Nat /\ rank[y] <= above[y]
    BY <1>2
  <2>1. CASE x = from
    <3>1. above[x] = rank[from] /\ above[to] = rank[from] + rank[to] + 1
      BY <2>1
    <3> QED BY <1>7, <2>0, <2>1, <3>1
  <2>2. CASE x # from
    <3>1. x # to /\ now[x] = became[x] /\ became[x] # None /\ became[x] \in Ids
      BY <1>1, <1>7, <1>12, <2>2
    <3>2. above[x] = rank[x] /\ rank[x] < rank[became[x]]
      BY <1>2, <3>1
    <3>3. rank[x] \in Nat /\ rank[became[x]] \in Nat /\ rank[became[x]] <= above[became[x]]
          /\ above[became[x]] \in Nat
      <4> HIDE DEF above
      <4> QED BY <1>11, <2>0, <3>1
    <3> HIDE DEF above
    <3> QED BY <3>1, <3>2, <3>3
  <2> QED BY <2>1, <2>2
<1>13. \E r \in [Ids -> Nat] : \A x \in Ids : now[x] # None => r[x] < r[now[x]]
  <2> HIDE DEF above
  <2> QED BY <1>11, <1>12
<1> QED BY <1>6, <1>9, <1>10, <1>13 DEF Tree, now, stood

-----------------------------------------------------------------------------
(* The store's replacements. *)

\* What stands once the first `n` of the records `l` do: `Survivor`'s.
StandsIn(l, n) ==
    LET standing[m \in 0..n] ==
            IF m = 0 THEN [id \in Ids |-> id]
            ELSE LET before == standing[m - 1]
                 IN  [id \in Ids |-> IF before[id] = l[m].from THEN l[m].to ELSE before[id]]
    IN  standing[n]

\* So of the records made.
LEMMA SurvivorIs == ASSUME NEW n PROVE Survivor(n) = StandsIn(log, n) /\ Survivor(n)' = StandsIn(log', n)
BY DEF Survivor, StandsIn

\* It holds for each ID one that stands, from one record to the next.
LEMMA StandsAre ==
    ASSUME NEW l \in Seq(Records)
    PROVE  \A n \in 0 .. Len(l) :
              /\ StandsIn(l, n) \in [Ids -> Ids]
              /\ n = 0 => StandsIn(l, n) = [id \in Ids |-> id]
              /\ n # 0 => StandsIn(l, n) = Replaced(StandsIn(l, n - 1), l[n].from, l[n].to)
<1> DEFINE N == Len(l)
           X == [Ids -> Ids]
           start == [id \in Ids |-> id]
           step == [n \in 1 .. N |-> [stands \in X |-> Replaced(stands, l[n].from, l[n].to)]]
<1>1. N \in Nat /\ start \in X
  BY LenProperties
<1>2. \A n \in 1 .. N : l[n].from \in Ids => l[n].to \in Ids
  <2>1. \A n \in 1 .. N : l[n] \in Records
    BY ElementOfSeq
  <2> QED BY <2>1, IdsFinite DEF Records
<1>3. \A n \in 1 .. N, stands \in X : Replaced(stands, l[n].from, l[n].to) \in X
  BY <1>2 DEF Replaced
<1>4. step \in [1 .. N -> [X -> X]]
  BY <1>3
<1> HIDE DEF N, start
<1>5. \E w \in [0 .. N -> X] : Takes(w, N, start, step)
  <2> HIDE DEF step, X
  <2> QED BY <1>1, <1>4, StepsExist, Zenon
<1>6. PICK w \in [0 .. N -> X] :
         w[0] = start /\ \A n \in 1 .. N : w[n] = Replaced(w[n - 1], l[n].from, l[n].to)
  <2>1. PICK w \in [0 .. N -> X] : Takes(w, N, start, step)
    BY <1>5
  <2>2. \A n \in 1 .. N : w[n - 1] \in X
    BY <1>1
  <2> HIDE DEF X
  <2>3. \A n \in 1 .. N : w[n] = Replaced(w[n - 1], l[n].from, l[n].to)
    BY <2>1, <2>2 DEF Takes
  <2> QED BY <2>1, <2>3 DEF Takes
<1>7. ASSUME NEW n \in 0 .. N PROVE StandsIn(l, n) = w[n]
  <2> DEFINE Body(v) == [m \in 0 .. n |-> IF m = 0 THEN start ELSE Replaced(v[m - 1], l[m].from, l[m].to)]
             v == CHOOSE v : v = Body(v)
             u == [m \in 0 .. n |-> w[m]]
  <2>1. StandsIn(l, n) = v[n]
    BY DEF StandsIn, Replaced, start
  <2>2. u = Body(u)
    <3>1. ASSUME NEW m \in 0 .. n PROVE u[m] = IF m = 0 THEN start ELSE Replaced(u[m - 1], l[m].from, l[m].to)
      <4>1. CASE m = 0
        BY <1>6, <4>1
      <4>2. CASE m # 0
        <5>1. m \in 1 .. N /\ m - 1 \in 0 .. n
          BY <1>1, <4>2
        <5> QED BY <1>6, <4>2, <5>1
      <4> QED BY <4>1, <4>2
    <3> HIDE DEF X
    <3> QED BY <3>1
  <2>3. v = Body(v)
    BY <2>2
  <2> HIDE DEF v
  <2>4. \A m \in 0 .. n : v[m] = IF m = 0 THEN start ELSE Replaced(v[m - 1], l[m].from, l[m].to)
    BY <2>3
  <2> DEFINE P == {m \in 0 .. n : v[m] = w[m]}
  <2>5. n \in Nat /\ 0 \in P
    BY <1>1, <1>6, <2>4
  <2>6. ASSUME NEW m \in 1 .. n, m - 1 \in P PROVE m \in P
    <3>1. m \in 1 .. N /\ m \in 0 .. n /\ m # 0 /\ v[m - 1] = w[m - 1]
      BY <1>1, <2>6
    <3>2. v[m] = Replaced(v[m - 1], l[m].from, l[m].to)
      BY <2>4, <3>1
    <3> QED BY <1>6, <3>1, <3>2
  <2>7. \A m \in 0 .. n : m \in P
    <3> HIDE DEF P
    <3> QED BY <2>5, <2>6, AllUpTo
  <2>8. v[n] = w[n]
    BY <2>5, <2>7
  <2> QED BY <2>1, <2>8
<1>8. ASSUME NEW n \in 0 .. N
      PROVE  /\ w[n] \in X
             /\ n = 0 => w[n] = start
             /\ n # 0 => n - 1 \in 0 .. N /\ w[n] = Replaced(w[n - 1], l[n].from, l[n].to)
  <2>1. n # 0 => n \in 1 .. N /\ n - 1 \in 0 .. N
    BY <1>1
  <2> HIDE DEF X
  <2> QED BY <1>6, <2>1
<1> QED BY <1>7, <1>8 DEF N, start

\* Records with the same beginning leave the same standing there.
LEMMA StandsAlike ==
    ASSUME NEW l \in Seq(Records), NEW k \in Seq(Records), NEW n \in Nat, n <= Len(l), n <= Len(k),
           \A m \in 1 .. n : l[m] = k[m]
    PROVE  \A m \in 0 .. n : StandsIn(l, m) = StandsIn(k, m)
<1> DEFINE P == {m \in 0 .. n : StandsIn(l, m) = StandsIn(k, m)}
<1>1. Len(l) \in Nat /\ Len(k) \in Nat
  BY LenProperties
<1>2. 0 \in P
  BY <1>1, StandsAre
<1>3. ASSUME NEW m \in 1 .. n, m - 1 \in P PROVE m \in P
  <2>1. m \in 0 .. Len(l) /\ m \in 0 .. Len(k) /\ m # 0
    BY <1>1
  <2>2. /\ StandsIn(l, m) = Replaced(StandsIn(l, m - 1), l[m].from, l[m].to)
        /\ StandsIn(k, m) = Replaced(StandsIn(k, m - 1), k[m].from, k[m].to)
    BY <2>1, StandsAre
  <2>3. StandsIn(l, m - 1) = StandsIn(k, m - 1) /\ l[m] = k[m]
    BY <1>3
  <2> QED BY <2>2, <2>3
<1>4. \A m \in 0 .. n : m \in P
  <2> HIDE DEF P
  <2> QED BY <1>2, <1>3, AllUpTo
<1> QED BY <1>4

-----------------------------------------------------------------------------
(* Replacements applied to a map. *)

\* Every replacement made is of one that stood, by one that stood or that it
\* had replaced.
Made ==
    \A i \in Of("sequenced") :
        /\ log[i].from # log[i].to
        /\ Survivor(i - 1)[log[i].from] = log[i].from
        /\ Survivor(i - 1)[log[i].to] \in {log[i].from, log[i].to}

\* A map that names of every ID what stood for it once the last replacement
\* applied was made.
TrueMap(map) ==
    /\ map \in Maps /\ map.sequence \in 0 .. Len(log)
    /\ Tree(map.became, Survivor(map.sequence))

\* A replacement is of IDs, another record of none.
LEMMA ReplacementIs ==
    ASSUME Typed, NEW i \in Numbers
    PROVE  /\ log[i].row = "sequenced" => log[i].from \in Ids /\ log[i].to \in Ids
           /\ log[i].row # "sequenced" => log[i].from = None
BY LogIs DEF Records

\* What stands for an ID, from one record made to the next.
LEMMA SurvivorSteps ==
    ASSUME Typed
    PROVE  \A n \in 0 .. Len(log) :
              /\ Survivor(n) \in [Ids -> Ids]
              /\ n = 0 => Survivor(n) = [id \in Ids |-> id]
              /\ n # 0 => Survivor(n) = Replaced(Survivor(n - 1), log[n].from, log[n].to)
<1>1. log \in Seq(Records)
  BY DEF Typed
<1> QED BY <1>1, StandsAre, SurvivorIs

\* Where nothing was replaced the same stand.
LEMMA SurvivorStill ==
    ASSUME Typed, NEW m \in 0 .. Len(log), NEW n \in 0 .. Len(log), m <= n,
           \A j \in Of("sequenced") : m < j => ~(j <= n)
    PROVE  Survivor(n) = Survivor(m)
<1> DEFINE P == {k \in 0 .. n : k < m \/ Survivor(k) = Survivor(m)}
<1>0. Len(log) \in Nat
  BY LengthIs
<1>1. 0 \in P
  BY <1>0
<1>2. ASSUME NEW k \in 1 .. n, k - 1 \in P PROVE k \in P
  <2>0. k \in 0 .. n /\ k \in 0 .. Len(log) /\ k # 0 /\ k - 1 \in 0 .. Len(log) /\ k \in Numbers
    BY <1>0 DEF Numbers
  <2>1. CASE k <= m
    BY <1>0, <2>0, <2>1
  <2>2. CASE m < k
    <3>1. Survivor(k - 1) = Survivor(m)
      BY <1>0, <1>2, <2>2
    <3>2. log[k].row # "sequenced"
      BY <1>0, <2>0, <2>2 DEF Of
    <3>3. log[k].from = None
      BY <2>0, <3>2, ReplacementIs
    <3>4. Survivor(k) = Replaced(Survivor(k - 1), log[k].from, log[k].to) /\ Survivor(k - 1) \in [Ids -> Ids]
      BY <2>0, SurvivorSteps
    <3>5. \A x \in Ids : Survivor(k - 1)[x] # None
      BY <3>4, IdsFinite
    <3>6. Replaced(Survivor(k - 1), log[k].from, log[k].to) = Survivor(k - 1)
      BY <3>3, <3>4, <3>5 DEF Replaced
    <3> QED BY <2>0, <3>1, <3>4, <3>6
  <2> QED BY <1>0, <2>0, <2>1, <2>2
<1>3. \A k \in 0 .. n : k \in P
  <2>1. n \in Nat
    BY <1>0
  <2> HIDE DEF P
  <2> QED BY <1>1, <1>2, <2>1, AllUpTo
<1> QED BY <1>0, <1>3

\* A map is one after a replacement is applied to it.
LEMMA ApplyType ==
    ASSUME Typed, NEW map \in Maps, NEW i \in Of("sequenced")
    PROVE  Apply(map, i) \in Maps
<1>1. i \in Nat /\ log[i].to \in Ids
  BY ReplacementIs, LengthIs DEF Of
<1>2. map.became \in [Ids -> Ids \cup {None}]
  BY DEF Maps
<1>3. Became(map.became, log[i].from, log[i].to) \in [Ids -> Ids \cup {None}]
  BY <1>1, <1>2 DEF Became
<1> QED BY <1>1, <1>3 DEF Apply, Maps

\* The next replacement, or an earlier one again, leaves a true map true.
LEMMA ApplyKeeps ==
    ASSUME Typed, Made, NEW map, TrueMap(map), NEW i \in Of("sequenced"),
           \A j \in Of("sequenced") : j < i => j <= map.sequence
    PROVE  /\ TrueMap(Apply(map, i))
           /\ map.sequence <= Apply(map, i).sequence /\ i <= Apply(map, i).sequence
<1> DEFINE s == map.sequence
<1>0. i \in Numbers /\ i \in 1 .. Len(log) /\ Len(log) \in Nat /\ s \in 0 .. Len(log) /\ map \in Maps
      /\ log[i].row = "sequenced"
  BY LengthIs DEF Of, Numbers, TrueMap
<1>1. CASE i <= s
  BY <1>0, <1>1 DEF Apply
<1>2. CASE ~(i <= s)
  <2>0. s <= i - 1 /\ i - 1 \in 0 .. Len(log) /\ i \in 0 .. Len(log) /\ i # 0
    BY <1>0, <1>2
  <2>1. \A j \in Of("sequenced") : j \in Nat
    BY LengthIs DEF Of
  <2>2. \A j \in Of("sequenced") : s < j => ~(j <= i - 1)
    BY <1>0, <2>1
  <2>3. Survivor(i - 1) = Survivor(s)
    BY <1>0, <2>0, <2>2, SurvivorStill
  <2>4. Survivor(i) = Replaced(Survivor(s), log[i].from, log[i].to)
    BY <2>0, <2>3, SurvivorSteps
  <2>5. /\ log[i].from \in Ids /\ log[i].to \in Ids /\ log[i].from # log[i].to
        /\ Survivor(s)[log[i].from] = log[i].from
        /\ Survivor(s)[log[i].to] \in {log[i].from, log[i].to}
    BY <1>0, <2>3, ReplacementIs DEF Made
  <2>6. Tree(map.became, Survivor(s))
    BY DEF TrueMap
  <2>7. Tree(Became(map.became, log[i].from, log[i].to), Survivor(i))
    BY <2>4, <2>5, <2>6, BecameStands
  <2>8. Apply(map, i) = [became |-> Became(map.became, log[i].from, log[i].to), sequence |-> i]
    BY <1>2 DEF Apply
  <2>9. Apply(map, i) \in Maps
    BY <1>0, ApplyType
  <2> QED BY <1>0, <2>0, <2>7, <2>8, <2>9 DEF TrueMap
<1> QED BY <1>1, <1>2

\* Replacements are applied one after another.
LEMMA AppliedRuns ==
    ASSUME Typed, NEW map \in Maps, NEW numbers \in SUBSET Of("sequenced")
    PROVE  \E w \in [0 .. Len(log) -> Maps] :
              /\ Applied(map, numbers) = w[Len(log)] /\ w[0] = map
              /\ \A n \in 1 .. Len(log) : w[n] = IF n \in numbers THEN Apply(w[n - 1], n) ELSE w[n - 1]
<1> DEFINE N == Len(log)
           Then(m, n) == IF n \in numbers THEN Apply(m, n) ELSE m
           step == [n \in 1 .. N |-> [m \in Maps |-> Then(m, n)]]
<1>1. N \in Nat
  BY LengthIs
<1>2. \A n \in 1 .. N, m \in Maps : Then(m, n) \in Maps
  BY ApplyType
<1> HIDE DEF Then
<1>3. step \in [1 .. N -> [Maps -> Maps]]
  BY <1>2
<1> HIDE DEF N
<1>4. \E w \in [0 .. N -> Maps] : Takes(w, N, map, step)
  <2> HIDE DEF step
  <2> QED BY <1>1, <1>3, StepsExist, Zenon
<1>5. PICK w \in [0 .. N -> Maps] : w[0] = map /\ \A n \in 1 .. N : w[n] = Then(w[n - 1], n)
  <2>1. PICK w \in [0 .. N -> Maps] : Takes(w, N, map, step)
    BY <1>4
  <2>2. \A n \in 1 .. N : w[n - 1] \in Maps
    BY <1>1
  <2>3. \A n \in 1 .. N : w[n] = Then(w[n - 1], n)
    BY <2>1, <2>2 DEF Takes
  <2> QED BY <2>1, <2>3 DEF Takes
<1> DEFINE Body(f) == [n \in 0 .. N |-> IF n = 0 THEN map ELSE Then(f[n - 1], n)]
           v == CHOOSE f : f = Body(f)
<1>6. Applied(map, numbers) = v[N]
  BY DEF Applied, Then, N
<1>7. w = Body(w)
  <2>1. \A n \in 0 .. N : w[n] = IF n = 0 THEN map ELSE Then(w[n - 1], n)
    BY <1>1, <1>5
  <2> QED BY <2>1
<1>8. v = Body(v)
  BY <1>7
<1> HIDE DEF v
<1>9. \A n \in 0 .. N : v[n] = IF n = 0 THEN map ELSE Then(v[n - 1], n)
  BY <1>8
<1> DEFINE P == {n \in 0 .. N : v[n] = w[n]}
<1>10. 0 \in P
  BY <1>1, <1>5, <1>9
<1>11. ASSUME NEW n \in 1 .. N, n - 1 \in P PROVE n \in P
  <2>1. n \in 0 .. N /\ n # 0 /\ v[n - 1] = w[n - 1]
    BY <1>1, <1>11
  <2>2. v[n] = Then(v[n - 1], n)
    BY <1>9, <2>1
  <2> QED BY <1>5, <2>1, <2>2
<1>12. \A n \in 0 .. N : n \in P
  <2> HIDE DEF P
  <2> QED BY <1>1, <1>10, <1>11, AllUpTo
<1>13. v[N] = w[N]
  BY <1>1, <1>12
<1> QED BY <1>5, <1>6, <1>13 DEF N, Then

\* Replacements among which none after the last applied is missing leave a true
\* map true, and past each of them.
LEMMA AppliedKeeps ==
    ASSUME Typed, Made, NEW map, TrueMap(map), NEW numbers \in SUBSET Of("sequenced"),
           \A i \in numbers, j \in Of("sequenced") : j < i => j <= map.sequence \/ j \in numbers
    PROVE  /\ TrueMap(Applied(map, numbers))
           /\ map.sequence <= Applied(map, numbers).sequence
           /\ \A i \in numbers : i <= Applied(map, numbers).sequence
<1> DEFINE N == Len(log)
<1>0. N \in Nat /\ map \in Maps /\ map.sequence \in 0 .. N /\ Of("sequenced") \subseteq 1 .. N
  BY LengthIs DEF TrueMap, Of, Numbers
<1>1. PICK w \in [0 .. N -> Maps] :
         /\ Applied(map, numbers) = w[N] /\ w[0] = map
         /\ \A n \in 1 .. N : w[n] = IF n \in numbers THEN Apply(w[n - 1], n) ELSE w[n - 1]
  BY <1>0, AppliedRuns
<1> HIDE DEF N
<1> DEFINE Good(n) == /\ TrueMap(w[n]) /\ map.sequence <= w[n].sequence
                      /\ \A i \in numbers : i <= n => i <= w[n].sequence
           P == {n \in 0 .. N : Good(n)}
<1>2. Good(0)
  BY <1>0, <1>1
<1>3. ASSUME NEW n \in 1 .. N, Good(n - 1) PROVE Good(n)
  <2> DEFINE u == w[n - 1]
  <2>0. u \in Maps /\ u.sequence \in Nat /\ n \in Nat
    BY <1>0, <1>1 DEF Maps
  <2> HIDE DEF u
  <2>1. /\ TrueMap(u) /\ map.sequence <= u.sequence /\ \A i \in numbers : i <= n - 1 => i <= u.sequence
        /\ w[n] = IF n \in numbers THEN Apply(u, n) ELSE u
    BY <1>1, <1>3 DEF u
  <2>2. CASE n \notin numbers
    <3>1. \A i \in numbers : i <= n => i <= n - 1
      BY <1>0, <2>2
    <3> QED BY <2>1, <2>2, <3>1
  <2>3. CASE n \in numbers
    <3>1. ASSUME NEW j \in Of("sequenced"), j < n PROVE j <= u.sequence
      <4>1. j \in Nat /\ (j <= map.sequence \/ j \in numbers)
        BY <1>0, <2>3, <3>1
      <4>2. map.sequence \in Nat
        BY <1>0
      <4>3. CASE j <= map.sequence
        BY <2>0, <2>1, <4>1, <4>2, <4>3
      <4>4. CASE j \in numbers
        BY <2>0, <2>1, <3>1, <4>1, <4>4
      <4> QED BY <4>1, <4>3, <4>4
    <3> DEFINE v == Apply(u, n)
    <3>2. TrueMap(v) /\ u.sequence <= v.sequence /\ n <= v.sequence
      BY <2>1, <2>3, <3>1, ApplyKeeps
    <3>3. v.sequence \in Nat
      BY <3>2 DEF TrueMap, Maps
    <3>4. w[n] = v
      BY <2>1, <2>3
    <3> HIDE DEF v
    <3>5. map.sequence <= v.sequence
      BY <1>0, <2>0, <2>1, <3>2, <3>3
    <3>6. \A i \in numbers : i <= n => i <= v.sequence
      BY <1>0, <2>0, <2>1, <3>2, <3>3
    <3> QED BY <3>2, <3>4, <3>5, <3>6
  <2> QED BY <2>2, <2>3
<1>4. Good(N)
  <2> HIDE DEF Good
  <2>1. 0 \in P /\ \A n \in 1 .. N : n - 1 \in P => n \in P
    BY <1>0, <1>2, <1>3
  <2>2. \A n \in 0 .. N : n \in P
    <3> HIDE DEF P
    <3> QED BY <1>0, <2>1, AllUpTo
  <2> QED BY <1>0, <2>2
<1>5. \A i \in numbers : i <= N
  BY <1>0
<1> QED BY <1>1, <1>4, <1>5

-----------------------------------------------------------------------------
(* What the seeding roles' maps know. *)

TrueMaps == \A r \in Seeders : TrueMap(ids[r])

\* What was marked as handed on is applied.
Caught == \A r \in Seeders, j \in Of("sequenced") : j <= seen[All] => j <= ids[r].sequence

\* Pages are read from what was marked.
Paged == after # None => after \in Nat /\ after <= seen[All]

\* What comes of replacements follows on what was marked, unless they are to
\* be read.
InSequence ==
    "sequenced" \notin todo =>
        \A j \in Of("sequenced") : seen[All] < j /\ GoesPast(j) => Coming(j)

MapsKnow == Made /\ TrueMaps /\ Caught
Replacing == MapsKnow /\ Paged /\ InSequence

\* Roles that seed are roles, and replacements have a place of their own.
LEMMA SeedersHeard == Seeders \subseteq Heard /\ All \in Places /\ All \notin Keys
BY CursorsAssumption DEF CursorsAssumption, Heard, Places

\* The replacements are numbers, and of their own place.
LEMMA SequencedAre ==
    ASSUME Typed
    PROVE  /\ \A i : i \in Of("sequenced") <=> i \in Numbers /\ log[i].place = All
           /\ Of("sequenced") \in SUBSET Numbers /\ Of("sequenced") \in SUBSET Nat
           /\ seen[All] \in Nat /\ seen[All] <= Len(log) /\ Len(log) \in Nat
<1>1. \A i : i \in Of("sequenced") <=> i \in Numbers /\ log[i].place = All
  BY LogIs DEF Of
<1>2. seen[All] \in 0 .. Len(log) /\ Len(log) \in Nat
  BY LengthIs, SeedersHeard DEF Typed
<1> QED BY <1>1, <1>2, LengthIs

\* With the same records, what was made is.
LEMMA MadeStill ==
    ASSUME Made, UNCHANGED log
    PROVE  Made'
<1>1. Of("sequenced")' = Of("sequenced") /\ \A n : Survivor(n)' = Survivor(n)
  BY SurvivorIs DEF Of, Numbers
<1> QED BY <1>1 DEF Made

\* With the same records, a map that was true is.
LEMMA TrueStill ==
    ASSUME UNCHANGED log, NEW r, TrueMap(ids'[r])
    PROVE  TrueMap(ids[r])'
<1>1. Survivor(ids[r].sequence)' = StandsIn(log', ids'[r].sequence)
  BY DEF Survivor, StandsIn
<1>2. Survivor(ids'[r].sequence) = StandsIn(log, ids'[r].sequence)
  BY DEF Survivor, StandsIn
<1> QED BY <1>1, <1>2 DEF TrueMap

\* Where nothing is handed on, the maps know what they did.
LEMMA KnowStill ==
    ASSUME Typed, MapsKnow, UNCHANGED <<log, ids>>, seen'[All] = seen[All] \/ seen'[All] = 0
    PROVE  MapsKnow'
<1>1. Made'
  BY MadeStill DEF MapsKnow
<1>2. TrueMaps'
  <2>1. ASSUME NEW r \in Seeders PROVE TrueMap(ids[r])'
    <3>1. TrueMap(ids'[r])
      BY DEF MapsKnow, TrueMaps
    <3> QED BY <3>1, TrueStill
  <2> QED BY <2>1 DEF TrueMaps
<1>3. Caught'
  <2>1. Of("sequenced")' = Of("sequenced")
    BY DEF Of, Numbers
  <2>2. \A j \in Of("sequenced") : j \in Nat /\ ~(j <= 0)
    BY LengthIs DEF Of, Numbers
  <2> QED BY <2>1, <2>2 DEF MapsKnow, Caught
<1> QED BY <1>1, <1>2, <1>3 DEF MapsKnow

\* Replacements applied, none missing after the last applied.
LEMMA KnowApplied ==
    ASSUME Typed, MapsKnow, UNCHANGED log, NEW got \in [Heard -> SUBSET Of("sequenced")],
           ids' = [r \in Heard |-> Applied(ids[r], got[r])],
           \A r \in Seeders : \A i \in got[r], j \in Of("sequenced") :
              j < i => j <= ids[r].sequence \/ j \in got[r]
    PROVE  /\ Made' /\ TrueMaps'
           /\ \A r \in Seeders :
                 /\ ids[r].sequence \in Nat /\ ids'[r].sequence \in Nat
                 /\ ids[r].sequence <= ids'[r].sequence
                 /\ \A i \in got[r] : i <= ids'[r].sequence
<1>1. ASSUME NEW r \in Seeders
      PROVE  /\ TrueMap(ids'[r])
             /\ ids[r].sequence \in Nat /\ ids'[r].sequence \in Nat
             /\ ids[r].sequence <= ids'[r].sequence
             /\ \A i \in got[r] : i <= ids'[r].sequence
  <2>1. TrueMap(ids[r]) /\ r \in Heard /\ got[r] \in SUBSET Of("sequenced") /\ Made
    BY SeedersHeard DEF MapsKnow, TrueMaps
  <2>2. /\ TrueMap(Applied(ids[r], got[r]))
        /\ ids[r].sequence <= Applied(ids[r], got[r]).sequence
        /\ \A i \in got[r] : i <= Applied(ids[r], got[r]).sequence
    BY <2>1, AppliedKeeps
  <2>3. ids'[r] = Applied(ids[r], got[r])
    BY <2>1
  <2>4. ids[r].sequence \in Nat /\ ids'[r].sequence \in Nat
    BY <2>1, <2>2, <2>3 DEF TrueMap, Maps
  <2> QED BY <2>2, <2>3, <2>4
<1>2. TrueMaps'
  BY <1>1, TrueStill DEF TrueMaps
<1>3. Made'
  BY MadeStill DEF MapsKnow
<1> QED BY <1>1, <1>2, <1>3

\* Of what is to be handed on no replacement is missing after the last marked.
NoneSkipped(numbers) ==
    /\ numbers \subseteq Numbers
    /\ \A i \in Due(numbers) \cap Of("sequenced"), j \in Of("sequenced") :
          seen[All] < j /\ j < i => j \in numbers

\* What is due handed on, or some of it with all due before it.
LEMMA KnowMapped ==
    ASSUME Typed, MapsKnow, UNCHANGED log, NEW numbers, NoneSkipped(numbers),
           NEW got \in [Heard -> SUBSET Due(numbers)], Mapped(got),
           \A r \in Seeders : \A i \in got[r], j \in Due(numbers) :
              log[i].place = log[j].place /\ j < i => j \in got[r]
    PROVE  /\ Made' /\ TrueMaps'
           /\ \A r \in Seeders :
                 /\ ids[r].sequence \in Nat /\ ids'[r].sequence \in Nat
                 /\ ids[r].sequence <= ids'[r].sequence
                 /\ \A i \in got[r] \cap Of("sequenced"), j \in Of("sequenced") :
                       j <= i => j <= ids'[r].sequence
<1> DEFINE these == [r \in Heard |-> got[r] \cap Of("sequenced")]
<1>0. /\ \A i : i \in Of("sequenced") <=> i \in Numbers /\ log[i].place = All
      /\ Of("sequenced") \in SUBSET Nat /\ seen[All] \in Nat
  BY SequencedAre
<1>1. these \in [Heard -> SUBSET Of("sequenced")] /\ ids' = [r \in Heard |-> Applied(ids[r], these[r])]
  BY DEF Mapped, Heard
<1>2. ASSUME NEW r \in Seeders, NEW i \in these[r], NEW j \in Of("sequenced"), j < i
      PROVE  j <= ids[r].sequence \/ j \in these[r]
  <2>1. r \in Heard /\ i \in got[r] /\ i \in Of("sequenced") /\ i \in Due(numbers)
    BY SeedersHeard, <1>2
  <2>2. CASE j <= seen[All]
    BY <2>2 DEF MapsKnow, Caught
  <2>3. CASE seen[All] < j
    <3>1. j \in numbers
      BY <1>2, <2>1, <2>3 DEF NoneSkipped
    <3>2. j \in Due(numbers)
      BY <1>0, <2>3, <3>1 DEF Due, Fresh
    <3>3. j \in got[r]
      BY <1>0, <1>2, <2>1, <3>2
    <3> QED BY <2>1, <3>3
  <2> QED BY <1>0, <2>2, <2>3
<1> HIDE DEF these
<1>3. /\ Made' /\ TrueMaps'
      /\ \A r \in Seeders :
            /\ ids[r].sequence \in Nat /\ ids'[r].sequence \in Nat
            /\ ids[r].sequence <= ids'[r].sequence
            /\ \A i \in these[r] : i <= ids'[r].sequence
  BY <1>1, <1>2, KnowApplied
<1>4. ASSUME NEW r \in Seeders, NEW i \in got[r] \cap Of("sequenced"), NEW j \in Of("sequenced"), j <= i
      PROVE  j <= ids'[r].sequence
  <2>1. i \in these[r]
    BY SeedersHeard DEF these
  <2>2. j = i \/ j < i
    BY <1>0, <1>4
  <2>3. j <= ids[r].sequence \/ j \in these[r]
    BY <1>2, <2>1, <2>2
  <2> QED BY <1>0, <1>3, <2>3
<1> QED BY <1>3, <1>4

\* All that is due handed on, it is known and marked.
LEMMA KnowHand ==
    ASSUME Typed, MapsKnow, UNCHANGED log, NEW numbers, NoneSkipped(numbers), NEW seeding,
           Hand(numbers, seeding)
    PROVE  /\ MapsKnow' /\ seen'[All] \in Nat /\ seen[All] <= seen'[All]
           /\ \A i \in numbers : log[i].place = All => i <= seen'[All]
<1> DEFINE got == [r \in Heard |-> IF Hears(r, seeding) THEN Due(numbers) ELSE {}]
<1>0. /\ \A i : i \in Of("sequenced") <=> i \in Numbers /\ log[i].place = All
      /\ Of("sequenced") \in SUBSET Nat /\ seen[All] \in Nat /\ numbers \in SUBSET Numbers
      /\ Due(numbers) \in SUBSET Numbers /\ Len(log) \in Nat
  BY SequencedAre DEF NoneSkipped, Due
<1>1. Mapped(got) /\ seen' = Marked(Due(numbers))
  BY DEF Hand, Handed, Heard
<1>2. got \in [Heard -> SUBSET Due(numbers)] /\ \A r \in Seeders : got[r] = Due(numbers)
  BY SeedersHeard DEF Hears
<1> HIDE DEF got
<1>3. /\ Made' /\ TrueMaps'
      /\ \A r \in Seeders :
            /\ ids[r].sequence \in Nat /\ ids'[r].sequence \in Nat
            /\ ids[r].sequence <= ids'[r].sequence
            /\ \A i \in got[r] \cap Of("sequenced"), j \in Of("sequenced") :
                  j <= i => j <= ids'[r].sequence
  BY <1>1, <1>2, KnowMapped
<1>4. /\ seen'[All] \in 0 .. Len(log) /\ seen[All] <= seen'[All]
      /\ \A i \in Due(numbers) : log[i].place = All => i <= seen'[All]
      /\ \/ seen'[All] = seen[All]
         \/ seen'[All] \in Due(numbers) /\ log[seen'[All]].place = All
  BY <1>0, <1>1, MarkedIs, SeedersHeard
<1>5. ASSUME NEW i \in numbers, log[i].place = All PROVE i <= seen'[All]
  <2>1. i \in Nat /\ seen'[All] \in Nat
    BY <1>0, <1>4, <1>5
  <2>2. CASE i > seen[All]
    BY <1>4, <1>5, <2>2 DEF Due, Fresh
  <2>3. CASE ~(i > seen[All])
    BY <1>0, <1>4, <2>1, <2>3
  <2> QED BY <2>2, <2>3
<1>6. Caught'
  <2>1. ASSUME NEW r \in Seeders, NEW j \in Of("sequenced"), j <= seen'[All] PROVE j <= ids'[r].sequence
    <3>1. CASE seen'[All] = seen[All]
      <4>1. j <= ids[r].sequence
        BY <2>1, <3>1 DEF MapsKnow, Caught
      <4> QED BY <1>0, <1>3, <4>1
    <3>2. CASE seen'[All] \in Due(numbers) /\ log[seen'[All]].place = All
      <4>1. seen'[All] \in got[r] \cap Of("sequenced")
        BY <1>0, <1>2, <3>2
      <4> QED BY <1>3, <2>1, <4>1
    <3> QED BY <1>4, <3>1, <3>2
  <2>2. Of("sequenced")' = Of("sequenced")
    BY DEF Of, Numbers
  <2> QED BY <2>1, <2>2 DEF Caught
<1> QED BY <1>0, <1>3, <1>4, <1>5, <1>6 DEF MapsKnow

\* A handler that raises has been handed nothing that skips what is due before
\* it, and `follow` begins afresh.
LEMMA KnowRaise ==
    ASSUME "call" \notin HandlerRaises, Typed, MapsKnow, NEW numbers, NoneSkipped(numbers),
           NEW seeding, Raise(numbers, seeding)
    PROVE  MapsKnow' /\ Closed /\ UNCHANGED log
<1>1. PICK at \in Due(numbers), before \in SUBSET Due(numbers), n \in 0 .. Len(Hearers(seeding)) - 1,
           raised \in HandlerRaises :
        /\ \A i \in before \cup {at}, j \in Due(numbers) :
              log[j].place = log[i].place /\ j < i => j \in before
        /\ LET got == [r \in ToSet(Roles) |->
                          IF ~Hears(r, seeding) THEN {}
                          ELSE IF r \in ToSet(SubSeq(Hearers(seeding), 1, n)) THEN before \cup {at}
                          ELSE before]
           IN  /\ Handed(got)
               /\ IF raised = "call"
                  THEN seen' = Marked(before \cup {at}) /\ UNCHANGED <<started, anew>>
                  ELSE Afresh
  BY DEF Raise
<1> DEFINE got == [r \in Heard |->
                      IF ~Hears(r, seeding) THEN {}
                      ELSE IF r \in ToSet(SubSeq(Hearers(seeding), 1, n)) THEN before \cup {at} ELSE before]
<1>2. Mapped(got) /\ Afresh
  BY <1>1 DEF Handed, Heard
<1>3. got \in [Heard -> SUBSET Due(numbers)]
  OBVIOUS
<1>4. ASSUME NEW r \in Seeders, NEW i \in got[r], NEW j \in Due(numbers), log[i].place = log[j].place, j < i
      PROVE  j \in got[r]
  <2>1. r \in Heard
    BY SeedersHeard
  <2>2. got[r] = {} \/ got[r] = before \cup {at} \/ got[r] = before
    BY <2>1
  <2> HIDE DEF got
  <2> QED BY <1>1, <1>4, <2>2
<1> HIDE DEF got
<1>5. Closed /\ UNCHANGED log
  BY DEF Raise
<1>6. Made' /\ TrueMaps'
  BY <1>2, <1>3, <1>4, <1>5, KnowMapped
<1>7. Caught'
  <2>1. seen'[All] = 0
    BY <1>2, SeedersHeard DEF Afresh
  <2>2. \A j \in Of("sequenced")' : ~(j <= 0)
    <3>1. Of("sequenced")' = Of("sequenced")
      BY <1>5 DEF Of, Numbers
    <3> QED BY <3>1, LengthIs DEF Of, Numbers
  <2> QED BY <2>1, <2>2 DEF Caught
<1> QED BY <1>5, <1>6, <1>7 DEF MapsKnow

-----------------------------------------------------------------------------
(* Replacements read and heard. *)

\* A page is the first replacements after where it is read from.
LEMMA PageIs ==
    ASSUME Typed, Paged
    PROVE  /\ Page \in SUBSET Of("sequenced") /\ ReadAfter \in Nat /\ ReadAfter <= seen[All]
           /\ \A i \in Page, j \in Of("sequenced") : ReadAfter < j /\ j < i => j \in Page
           /\ Page = {} => \A j \in Of("sequenced") : j <= ReadAfter
<1> DEFINE Within(i) == {j \in Of("sequenced") : ReadAfter < j /\ j < i}
<1>0. /\ Of("sequenced") \in SUBSET Numbers /\ Of("sequenced") \in SUBSET Nat /\ seen[All] \in Nat
      /\ PageSize \in Nat \ {0} /\ None \notin Nat /\ Len(log) \in Nat
  BY SequencedAre, CursorsAssumption DEF CursorsAssumption
<1>1. ReadAfter \in Nat /\ ReadAfter <= seen[All]
  BY <1>0 DEF ReadAfter, Paged
<1>2. \A i : IsFiniteSet(Within(i)) /\ Cardinality(Within(i)) \in Nat
  <2>1. IsFiniteSet(1 .. Len(log))
    BY <1>0, FS_Interval
  <2>2. \A i : Within(i) \in SUBSET (1 .. Len(log))
    BY <1>0 DEF Numbers
  <2> HIDE DEF Within
  <2> QED BY <2>1, <2>2, FS_Subset, FS_CardinalityType
<1>3. \A i : i \in Page <=> i \in Of("sequenced") /\ i > ReadAfter /\ Cardinality(Within(i)) < PageSize
  BY DEF Page
<1>4. ASSUME NEW i \in Page, NEW j \in Of("sequenced"), ReadAfter < j, j < i PROVE j \in Page
  <2>0. i \in Nat /\ j \in Nat
    BY <1>0, <1>3, <1>4
  <2>1. Within(j) \in SUBSET Within(i)
    <3>1. ASSUME NEW k \in Within(j) PROVE k < i
      BY <1>0, <1>4, <2>0
    <3> QED BY <3>1
  <2>2. Cardinality(Within(j)) <= Cardinality(Within(i))
    <3> HIDE DEF Within
    <3> QED BY <1>2, <2>1, FS_Subset
  <2>3. Cardinality(Within(i)) < PageSize
    BY <1>3
  <2> HIDE DEF Within
  <2>4. Cardinality(Within(j)) < PageSize
    BY <1>0, <1>2, <2>2, <2>3
  <2> QED BY <1>0, <1>1, <1>3, <1>4, <2>4
<1>5. ASSUME Page = {}, NEW j \in Of("sequenced"), ~(j <= ReadAfter) PROVE FALSE
  <2> DEFINE Later == {i \in Of("sequenced") : ReadAfter < i}
  <2>1. Later \in SUBSET Nat /\ j \in Later
    BY <1>0, <1>1, <1>5
  <2>2. PICK i \in Later : \A k \in Later : i <= k
    <3> HIDE DEF Later
    <3> QED BY <2>1, LeastExists
  <2>3. Within(i) = {}
    BY <1>0, <2>2
  <2>4. Cardinality(Within(i)) = 0
    BY <2>3, FS_EmptySet
  <2>5. i \in Of("sequenced") /\ i > ReadAfter
    BY <1>0, <1>1, <2>2
  <2> HIDE DEF Within
  <2> QED BY <1>0, <1>3, <1>5, <2>4, <2>5
<1> QED BY <1>1, <1>3, <1>4, <1>5

\* None is skipped by a page.
LEMMA PageSkipsNone == ASSUME Typed, Paged PROVE NoneSkipped(Page)
<1>1. /\ Page \in SUBSET Of("sequenced") /\ ReadAfter \in Nat /\ ReadAfter <= seen[All]
      /\ \A i \in Page, j \in Of("sequenced") : ReadAfter < j /\ j < i => j \in Page
  BY PageIs
<1>2. Of("sequenced") \in SUBSET Numbers /\ Of("sequenced") \in SUBSET Nat /\ seen[All] \in Nat
  BY SequencedAre
<1>3. ASSUME NEW i \in Due(Page) \cap Of("sequenced"), NEW j \in Of("sequenced"), seen[All] < j, j < i
      PROVE  j \in Page
  BY <1>1, <1>2, <1>3 DEF Due
<1> QED BY <1>1, <1>2, <1>3 DEF NoneSkipped

\* Prices and trades read are no replacements.
LEMMA RowsSkipNone ==
    ASSUME Order, NEW row \in {"latest", "full"}
    PROVE  NoneSkipped(RowOf(row)) /\ \A i \in RowOf(row) : log[i].place # All
<1>1. RowOf(row) \in SUBSET Numbers /\ Typed
  BY RowsAbove DEF Above, Order
<1>2. ASSUME NEW i \in RowOf(row) PROVE log[i].place # All
  <2>1. CASE row = "latest"
    <3>1. PICK k \in wanted : i = LatestOf(k) /\ i # 0
      BY <1>2, <2>1 DEF RowOf, LatestWanted
    <3>2. k \in Keys
      BY <1>1 DEF Typed
    <3> QED BY <1>1, <3>1, <3>2, LatestIs, SeedersHeard
  <2>2. CASE row = "full"
    <3>1. i \in Numbers /\ log[i].row = "full"
      BY <1>2, <2>2 DEF RowOf, AfterWatermark, Of
    <3> QED BY <1>1, <3>1, LogIs
  <2> QED BY <2>1, <2>2
<1>3. Due(RowOf(row)) \cap Of("sequenced") = {}
  BY <1>1, <1>2, SequencedAre DEF Due
<1> QED BY <1>1, <1>2, <1>3 DEF NoneSkipped

\* The next delivery skips none: what was missing of its place would be coming.
LEMMA ItemSkipsNone ==
    ASSUME Order, InSequence, NEW x \in stream, Taking(x)
    PROVE  NoneSkipped({x.number})
<1>1. /\ Typed /\ x.number \in Numbers /\ todo = {} /\ \A y \in stream : x.number <= y.number
  BY DEF Order, Typed, Taking
<1>2. ASSUME NEW i \in Due({x.number}) \cap Of("sequenced"), NEW j \in Of("sequenced"), seen[All] < j, j < i
      PROVE  FALSE
  <2>1. i = x.number /\ log[i].place = All /\ log[j].place = All /\ i \in Nat /\ j \in Nat
    BY <1>1, <1>2, SequencedAre DEF Due
  <2>2. GoesPast(j)
    BY <1>2, <2>1, SeedersHeard DEF GoesPast, Alike
  <2>3. PICK y \in stream : y.number = j
    BY <1>1, <1>2, <2>2 DEF InSequence, Coming
  <2> QED BY <1>1, <1>2, <2>1, <2>3
<1> QED BY <1>1, <1>2 DEF NoneSkipped

-----------------------------------------------------------------------------
(* Each step. *)

\* Where the stream is gone nothing comes of it.
LEMMA ReplacingGone ==
    ASSUME MapsKnow', stream' = {}, up' = FALSE, after' = None
    PROVE  Replacing'
<1>1. \A j : ~GoesPast(j)'
  BY DEF GoesPast
<1>2. InSequence' /\ Paged'
  BY <1>1 DEF InSequence, Paged
<1> QED BY <1>2 DEF Replacing

\* Where the stream stays, and no mark is taken back.
LEMMA ReplacingStays ==
    ASSUME Typed, Replacing, MapsKnow', UNCHANGED <<log, stream, up, after>>,
           seen'[All] \in Nat, seen[All] <= seen'[All],
           "sequenced" \in todo => "sequenced" \in todo'
    PROVE  Replacing'
<1>1. Of("sequenced")' = Of("sequenced") /\ (\A j : Coming(j)' <=> Coming(j)) /\ \A j : GoesPast(j)' <=> GoesPast(j)
  BY DEF Of, Numbers, Coming, GoesPast, Alike
<1>2. seen[All] \in Nat /\ Of("sequenced") \in SUBSET Nat
  BY SequencedAre
<1>3. InSequence'
  <2>1. ASSUME "sequenced" \notin todo', NEW j \in Of("sequenced"), seen'[All] < j, GoesPast(j)
        PROVE  Coming(j)
    <3>1. seen[All] < j
      BY <1>2, <2>1
    <3> QED BY <2>1, <3>1 DEF Replacing, InSequence
  <2> QED BY <1>1, <2>1 DEF InSequence
<1>4. Paged'
  BY <1>2 DEF Replacing, Paged
<1> QED BY <1>3, <1>4 DEF Replacing

\* A replacement made is of one that stood.
LEMMA ReplacingRecord ==
    ASSUME Order, Replacing, NEW record \in Records, Record(record)
    PROVE  Replacing'
<1> DEFINE n == Len(log) + 1
<1>1. /\ Numbers' = Numbers \cup {n} /\ n \notin Numbers
      /\ log'[n] = record /\ \A i \in Numbers : log'[i] = log[i]
  BY OrderRecord
<1>2. /\ \A j \in Numbers : log[j].place \notin Keys /\ Coming(j) => Coming(j)'
      /\ UNCHANGED <<todo, seen, ids, after>>
  BY RecordComes DEF Record, handVars
<1>3. /\ \A j \in Numbers : GoesPast(j)' => GoesPast(j)
      /\ \A j : j = n /\ GoesPast(j)' /\ record.place \notin Lake => Coming(j)'
  <2>1. \A j : j = n /\ record.place \notin Lake => Expected(j)' /\ record.place \notin Keys
    BY <1>1, PlacesAre DEF Expected
  <2> QED BY <2>1, RecordPasses
<1>4. /\ Typed /\ Len(log) \in Nat /\ n \in Nat /\ log \in Seq(Records) /\ log' = Append(log, record)
      /\ seen[All] \in Nat /\ seen[All] <= Len(log)
      /\ \A i : i \in Of("sequenced") <=> i \in Numbers /\ log[i].place = All
  BY SequencedAre DEF Order, Typed, Record
<1>5. log' \in Seq(Records) /\ Len(log') = n /\ \A i \in 1 .. Len(log) : log'[i] = log[i]
  BY <1>4, AppendProperties
<1>6. \A m \in 0 .. Len(log) : StandsIn(log', m) = StandsIn(log, m)
  <2>1. Len(log) <= Len(log') /\ Len(log) <= Len(log) /\ \A i \in 1 .. Len(log) : log'[i] = log[i]
    BY <1>4, <1>5
  <2>2. \A l, k \in Seq(Records) :
           Len(log) <= Len(l) /\ Len(log) <= Len(k) /\ (\A m \in 1 .. Len(log) : l[m] = k[m])
              => \A m \in 0 .. Len(log) : StandsIn(l, m) = StandsIn(k, m)
    BY <1>4, StandsAlike
  <2> QED BY <1>4, <1>5, <2>1, <2>2
<1>7. /\ Of("sequenced")' \subseteq Of("sequenced") \cup {n} /\ Of("sequenced") \subseteq Numbers
      /\ n \in Of("sequenced")' => record.row = "sequenced" /\ record.place = All
      /\ Of("sequenced") \in SUBSET Nat
  BY <1>1, <1>4, RecordIs, SequencedAre DEF Of
<1> HIDE DEF n
<1>8. Made'
  <2>1. ASSUME NEW i \in Of("sequenced")'
        PROVE  /\ log'[i].from # log'[i].to
               /\ StandsIn(log', i - 1)[log'[i].from] = log'[i].from
               /\ StandsIn(log', i - 1)[log'[i].to] \in {log'[i].from, log'[i].to}
    <3>1. CASE i \in Of("sequenced")
      <4>1. /\ log[i].from # log[i].to
            /\ StandsIn(log, i - 1)[log[i].from] = log[i].from
            /\ StandsIn(log, i - 1)[log[i].to] \in {log[i].from, log[i].to}
        BY <3>1, SurvivorIs DEF Replacing, MapsKnow, Made
      <4>2. i - 1 \in 0 .. Len(log) /\ log'[i] = log[i]
        BY <1>1, <1>4, <1>7, <3>1 DEF Numbers
      <4> QED BY <1>6, <4>1, <4>2
    <3>2. CASE i = n
      <4>1. /\ record.from # record.to
            /\ StandsIn(log, Len(log))[record.from] = record.from
            /\ StandsIn(log, Len(log))[record.to] \in {record.from, record.to}
        BY <1>7, <2>1, <3>2, SurvivorIs DEF Record, Replaceable
      <4>2. i - 1 = Len(log) /\ log'[i] = record
        BY <1>1, <1>4, <3>2 DEF n
      <4>3. StandsIn(log', Len(log)) = StandsIn(log, Len(log))
        BY <1>4, <1>6
      <4> QED BY <4>1, <4>2, <4>3
    <3> QED BY <1>7, <2>1, <3>1, <3>2
  <2> QED BY <2>1, SurvivorIs DEF Made
<1>9. TrueMaps'
  <2>1. ASSUME NEW r \in Seeders PROVE TrueMap(ids[r])'
    <3>1. /\ ids[r] \in Maps /\ ids[r].sequence \in 0 .. Len(log)
          /\ Tree(ids[r].became, StandsIn(log, ids[r].sequence))
      BY DEF Replacing, MapsKnow, TrueMaps, TrueMap, Survivor, StandsIn
    <3>2. StandsIn(log', ids[r].sequence) = StandsIn(log, ids[r].sequence)
      BY <1>6, <3>1
    <3>3. Survivor(ids[r].sequence)' = StandsIn(log', ids'[r].sequence)
      BY DEF Survivor, StandsIn
    <3>4. ids[r].sequence \in 0 .. Len(log')
      BY <1>4, <1>5, <3>1 DEF n
    <3> QED BY <1>2, <3>1, <3>2, <3>3, <3>4 DEF TrueMap
  <2> QED BY <2>1 DEF TrueMaps
<1>10. Caught'
  <2>1. ASSUME NEW r \in Seeders, NEW j \in Of("sequenced")', j <= seen[All] PROVE j <= ids[r].sequence
    <3>1. j # n
      BY <1>4, <2>1 DEF n
    <3> QED BY <1>7, <2>1, <3>1 DEF Replacing, MapsKnow, Caught
  <2> QED BY <1>2, <2>1 DEF Caught
<1>11. InSequence'
  <2>1. ASSUME "sequenced" \notin todo, NEW j \in Of("sequenced")', seen[All] < j, GoesPast(j)' PROVE Coming(j)'
    <3>1. CASE j = n
      BY <1>3, <1>7, <2>1, <3>1, PlacesAre
    <3>2. CASE j \in Of("sequenced")
      <4>1. j \in Numbers /\ log[j].place = All
        BY <1>4, <3>2
      <4>2. Coming(j)
        BY <1>3, <2>1, <3>2, <4>1 DEF Replacing, InSequence
      <4> QED BY <1>2, <4>1, <4>2, SeedersHeard
    <3> QED BY <1>7, <2>1, <3>1, <3>2
  <2> QED BY <1>2, <2>1 DEF InSequence
<1>12. Paged'
  BY <1>2 DEF Replacing, Paged
<1> QED BY <1>8, <1>9, <1>10, <1>11, <1>12 DEF Replacing, MapsKnow

\* A stream broken off.
LEMMA ReplacingBreak == ASSUME Order, Replacing, Break PROVE Replacing'
<1>1. UNCHANGED <<log, ids, seen, todo, after>> /\ Typed
  BY DEF Break, handVars, Order
<1>2. MapsKnow'
  BY <1>1, KnowStill DEF Replacing
<1>3. Of("sequenced")' = Of("sequenced") /\ Of("sequenced") \in SUBSET Numbers
  BY <1>1 DEF Of, Numbers
<1>4. InSequence'
  BY <1>1, <1>3, BreakPasses DEF Replacing, InSequence
<1>5. Paged'
  BY <1>1 DEF Replacing, Paged
<1> QED BY <1>2, <1>4, <1>5 DEF Replacing

\* A stream opened brings nothing yet, and replacements are read.
LEMMA ReplacingOpen == ASSUME Order, Replacing, Open PROVE Replacing'
<1>1. /\ UNCHANGED <<heard, log, ids, seen, after>> /\ Typed /\ todo' = Rereading \cap heard
  BY DEF Open, handVars, Order
<1>2. MapsKnow'
  BY <1>1, KnowStill DEF Replacing
<1>3. \A j \in Of("sequenced")' : "sequenced" \in todo'
  <2>1. \A j \in Of("sequenced") : "sequenced" \in heard
    BY <1>1, LogIs DEF Of
  <2>2. Of("sequenced")' = Of("sequenced")
    BY <1>1 DEF Of, Numbers
  <2> QED BY <1>1, <2>1, <2>2 DEF Rereading, Rows
<1>4. InSequence' /\ Paged'
  BY <1>1, <1>3 DEF InSequence, Paged, Replacing
<1> QED BY <1>2, <1>4 DEF Replacing

\* Each role's map is caught up on the start.
LEMMA ReplacingStart == ASSUME Order, Replacing, OnStart PROVE Replacing'
<1> DEFINE got == [r \in Heard |-> Of("sequenced")]
<1>1. /\ Typed /\ UNCHANGED <<log, stream, up, todo, after, seen>>
      /\ ids' = [r \in Heard |-> Applied(ids[r], got[r])]
  BY DEF OnStart, CaughtUpMap, Heard, sidecarVars, Order
<1>2. got \in [Heard -> SUBSET Of("sequenced")] /\ \A r \in Seeders : got[r] = Of("sequenced")
  BY SeedersHeard
<1>3. seen[All] \in Nat /\ Of("sequenced") \in SUBSET Nat
  BY <1>1, SequencedAre
<1> HIDE DEF got
<1>4. /\ Made' /\ TrueMaps'
      /\ \A r \in Seeders : \A i \in got[r] : i <= ids'[r].sequence
  BY <1>1, <1>2, KnowApplied DEF Replacing
<1>5. Caught'
  <2>1. Of("sequenced")' = Of("sequenced")
    BY <1>1 DEF Of, Numbers
  <2> QED BY <1>2, <1>4, <2>1 DEF Caught
<1> QED BY <1>1, <1>3, <1>4, <1>5, ReplacingStays DEF MapsKnow

\* Prices or trades read are no replacements.
LEMMA ReplacingReadRow ==
    ASSUME Order, Replacing, NEW row \in {"latest", "full"}, ReadRow(row)
    PROVE  Replacing'
<1>1. /\ Typed /\ UNCHANGED <<log, stream, up, after>> /\ Hand(RowOf(row), Seeding)
      /\ "sequenced" \in todo => "sequenced" \in todo'
  BY DEF ReadRow, RowRead, sidecarVars, Order
<1>2. MapsKnow' /\ seen'[All] \in Nat /\ seen[All] <= seen'[All]
  BY <1>1, RowsSkipNone, KnowHand DEF Replacing
<1> QED BY <1>1, <1>2, ReplacingStays

\* A page read; once a read answers none, all there is is marked.
LEMMA ReplacingReads == ASSUME Order, Replacing, ReadReplacements PROVE Replacing'
<1>1. /\ Typed /\ UNCHANGED <<log, stream, up>> /\ "sequenced" \in todo /\ Paged
      /\ IF Page = {} THEN after' = None /\ todo' = todo \ {"sequenced"}
         ELSE after' = Max(Page) /\ todo' = todo
  BY DEF ReadReplacements, Reading, RowRead, sidecarVars, Order, Replacing
<1>2. /\ Page \in SUBSET Of("sequenced") /\ ReadAfter \in Nat /\ ReadAfter <= seen[All]
      /\ Page = {} => \A j \in Of("sequenced") : j <= ReadAfter
  BY <1>1, PageIs
<1>3. /\ Of("sequenced") \in SUBSET Numbers /\ Of("sequenced") \in SUBSET Nat /\ seen[All] \in Nat
      /\ \A i \in Of("sequenced") : log[i].place = All
      /\ Of("sequenced")' = Of("sequenced")
  BY <1>1, SequencedAre DEF Of, Numbers
<1>4. /\ MapsKnow' /\ seen'[All] \in Nat /\ seen[All] <= seen'[All]
      /\ \A i \in Page : i <= seen'[All]
  <2>1. CASE Hand(Page, Seeding)
    BY <1>1, <1>2, <1>3, <2>1, PageSkipsNone, KnowHand DEF Replacing
  <2>2. CASE ~Seeded /\ seen' = Marked(Page) /\ UNCHANGED ids
    <3>1. Seeders = {}
      BY <2>2 DEF Seeded
    <3>2. MapsKnow'
      BY <1>1, <3>1, MadeStill DEF MapsKnow, TrueMaps, Caught, Replacing
    <3>3. /\ seen'[All] \in 0 .. Len(log) /\ seen[All] <= seen'[All]
          /\ \A i \in Page : log[i].place = All => i <= seen'[All]
      BY <1>1, <1>2, <1>3, <2>2, MarkedIs, SeedersHeard
    <3> QED BY <1>1, <1>2, <1>3, <3>2, <3>3, LengthIs
  <2> QED BY <2>1, <2>2 DEF ReadReplacements
<1>5. Paged'
  <2>1. Page # {} => Max(Page) \in Page
    <3>1. Page \in SUBSET (0 .. Len(log)) /\ Len(log) \in Nat
      BY <1>1, <1>2, <1>3, LengthIs
    <3> QED BY <3>1, MaxIsGreatest
  <2> QED BY <1>1, <1>2, <1>3, <1>4, <2>1 DEF Paged
<1>6. InSequence'
  <2>1. Page = {} => \A j \in Of("sequenced") : ~(seen'[All] < j)
    BY <1>2, <1>3, <1>4
  <2> QED BY <1>1, <1>3, <2>1 DEF InSequence
<1> QED BY <1>4, <1>5, <1>6 DEF Replacing

\* A delivery taken.
LEMMA ReplacingHear ==
    ASSUME Order, Trading, Replacing, NEW x \in stream, Hear(x)
    PROVE  Replacing'
<1>1. /\ Typed /\ Hand({x.number}, FALSE) /\ stream' = stream \ {x}
      /\ UNCHANGED <<log, wanted, since, up, todo, after>>
      /\ Taking(x) /\ \A y \in stream : x.number <= y.number
  BY DEF Hear, Taking, Order
<1>2. NoneSkipped({x.number})
  BY <1>1, ItemSkipsNone DEF Replacing
<1>3. /\ MapsKnow' /\ seen'[All] \in Nat /\ seen[All] <= seen'[All]
      /\ log[x.number].place = All => x.number <= seen'[All]
  BY <1>1, <1>2, KnowHand DEF Replacing
<1>4. /\ \A j : GoesPast(j)' => GoesPast(j)
      /\ \A j : Coming(j) /\ j # x.number => Coming(j)'
  BY <1>1, TakenLeaves
<1>5. /\ Of("sequenced")' = Of("sequenced") /\ Of("sequenced") \in SUBSET Nat /\ seen[All] \in Nat
      /\ \A j \in Of("sequenced") : log[j].place = All
  BY <1>1, SequencedAre DEF Of, Numbers
<1>6. InSequence'
  <2>1. ASSUME "sequenced" \notin todo, NEW j \in Of("sequenced"), seen'[All] < j, GoesPast(j)' PROVE Coming(j)'
    <3>1. seen[All] < j /\ j # x.number
      BY <1>3, <1>5, <2>1
    <3>2. Coming(j)
      BY <1>4, <2>1, <3>1 DEF Replacing, InSequence
    <3> QED BY <1>4, <3>1, <3>2
  <2> QED BY <1>1, <1>5, <2>1 DEF InSequence
<1>7. Paged'
  BY <1>1, <1>3, <1>5 DEF Replacing, Paged
<1> QED BY <1>3, <1>6, <1>7 DEF Replacing

\* A loss of a replacement has them read again.
LEMMA ReplacingHearLost ==
    ASSUME Order, Trading, Replacing, NEW x \in stream, HearLost(x)
    PROVE  Replacing'
<1>1. /\ Typed /\ stream' = stream \ {x} /\ UNCHANGED <<log, wanted, since, up, after, seen, ids>> /\ todo = {}
      /\ (\A y \in stream : x.number <= y.number)
      /\ todo' = {log[x.number].row} \/ todo' = heard
  BY DEF HearLost, Taking, handVars, Order
<1>2. MapsKnow'
  BY <1>1, KnowStill DEF Replacing
<1>3. /\ \A j : GoesPast(j)' => GoesPast(j)
      /\ \A j : Coming(j) /\ j # x.number => Coming(j)'
  BY <1>1, TakenLeaves
<1>4. x.number \in Of("sequenced") => "sequenced" \in todo'
  BY <1>1, LogIs DEF Of
<1>5. Of("sequenced")' = Of("sequenced")
  BY <1>1 DEF Of, Numbers
<1>6. InSequence'
  BY <1>1, <1>3, <1>4, <1>5 DEF Replacing, InSequence
<1>7. Paged'
  BY <1>1 DEF Replacing, Paged
<1> QED BY <1>2, <1>6, <1>7 DEF Replacing

\* A step keeps it, where no handler raises a failed call of its own.
LEMMA ReplacingStep ==
    ASSUME "call" \notin HandlerRaises, Order, Trading, Replacing, [Next]_vars
    PROVE  Replacing'
<1>0. Typed /\ MapsKnow /\ Paged /\ InSequence /\ seen[All] \in Nat
  BY SequencedAre DEF Order, Replacing
<1>1. ASSUME NEW record \in Records, Record(record) PROVE Replacing'
  BY <1>1, ReplacingRecord
<1>2. CASE Break
  BY <1>2, ReplacingBreak
<1>3. ASSUME UNCHANGED <<log, stream, up, after, seen, ids, todo>> PROVE Replacing'
  <2>1. MapsKnow'
    BY <1>0, <1>3, KnowStill
  <2> QED BY <1>0, <1>3, <2>1, ReplacingStays
<1>4. ASSUME NEW key \in Keys, Rename(key) PROVE Replacing'
  BY <1>3, <1>4 DEF Rename, handVars
<1>5. CASE UNCHANGED vars
  BY <1>3, <1>5 DEF vars
<1>6. ASSUME NEW row \in {"latest", "full"}, ReadRow(row) PROVE Replacing'
  BY <1>6, ReplacingReadRow
<1>7. CASE ReadReplacements
  BY <1>7, ReplacingReads
<1>8. ASSUME Closed, UNCHANGED <<log, ids>>, Afresh \/ UNCHANGED seen PROVE Replacing'
  <2>1. seen'[All] = seen[All] \/ seen'[All] = 0
    BY <1>8, SeedersHeard DEF Afresh
  <2>2. MapsKnow'
    BY <1>0, <1>8, <2>1, KnowStill
  <2> QED BY <1>8, <2>2, ReplacingGone DEF Closed
<1>9. CASE ReadFails
  BY <1>8, <1>9 DEF ReadFails
<1>10. ASSUME NEW numbers, NoneSkipped(numbers), NEW seeding, Raise(numbers, seeding) PROVE Replacing'
  <2>1. MapsKnow' /\ Closed
    BY <1>0, <1>10, KnowRaise
  <2> QED BY <2>1, ReplacingGone DEF Closed
<1>11. CASE RaiseReading
  <2>1. ASSUME NEW row \in {"latest", "full"}, Raise(RowOf(row), Seeding) PROVE Replacing'
    BY <1>10, <2>1, RowsSkipNone
  <2>2. CASE Raise(Page, Seeding)
    BY <1>0, <1>10, <2>2, PageSkipsNone
  <2> QED BY <1>11, <2>1, <2>2 DEF RaiseReading
<1>12. CASE RaiseHearing
  <2>1. PICK x \in stream : Taking(x) /\ Raise({x.number}, FALSE)
    BY <1>12 DEF RaiseHearing
  <2>2. NoneSkipped({x.number})
    BY <1>0, <2>1, ItemSkipsNone
  <2> QED BY <1>10, <2>1, <2>2
<1>13. CASE OnStart
  BY <1>13, ReplacingStart
<1>14. CASE Open
  BY <1>14, ReplacingOpen
<1>15. ASSUME NEW x \in stream, Hear(x) \/ HearLost(x) PROVE Replacing'
  BY <1>15, ReplacingHear, ReplacingHearLost
<1>16. CASE SeeBreak \/ SeeReopen
  BY <1>8, <1>16 DEF SeeBreak, SeeReopen, handVars
<1> QED BY <1>1, <1>2, <1>4, <1>5, <1>6, <1>7, <1>9, <1>11, <1>12, <1>13, <1>14, <1>15, <1>16
        DEF Next, Sidecar, Reads, Fails, Follow

\* Nothing is replaced at first.
LEMMA InitReplacing == Init => Replacing
<1> SUFFICES ASSUME Init PROVE Replacing
  OBVIOUS
<1>1. Typed /\ Len(log) = 0 /\ Numbers = {} /\ Of("sequenced") = {}
  BY InitOrder, EmptySeq DEF Init, Order, Numbers, Of
<1>2. Survivor(0) = [id \in Ids |-> id]
  BY <1>1, SurvivorSteps
<1>3. ASSUME NEW r \in Seeders PROVE TrueMap(ids[r])
  <2> DEFINE none == [id \in Ids |-> None]
             same == [id \in Ids |-> id]
  <2>1. ids[r] = [became |-> none, sequence |-> 0]
    BY SeedersHeard DEF Init, Heard
  <2>2. Tree(none, same)
    <3>1. [id \in Ids |-> 0] \in [Ids -> Nat]
      OBVIOUS
    <3>2. none \in [Ids -> Ids \cup {None}] /\ same \in [Ids -> Ids]
          /\ \A x \in Ids : none[x] = None /\ same[x] = x
      OBVIOUS
    <3> HIDE DEF none, same
    <3> QED BY <3>1, <3>2 DEF Tree
  <2>3. none \in [Ids -> Ids \cup {None}]
    OBVIOUS
  <2> HIDE DEF none
  <2>4. ids[r] \in Maps /\ ids[r].became = none /\ ids[r].sequence = 0
    BY <2>1, <2>3 DEF Maps
  <2> QED BY <1>1, <1>2, <2>2, <2>4 DEF TrueMap
<1>4. Made /\ Caught /\ InSequence
  BY <1>1 DEF Made, Caught, InSequence
<1>5. Paged
  BY DEF Init, Paged
<1> QED BY <1>3, <1>4, <1>5 DEF Replacing, MapsKnow, TrueMaps

\* A seeding role's map names of every ID what stood for it once the last
\* replacement applied was made: in the store's sequence, none left out and
\* none applied twice, whatever is lost, broken off, read again or raised, so
\* long as no handler lets a failed call of its own end the stream
\* (replacements.py, `CurrentIdMap`; receive.py, `_Sequenced`).
THEOREM MapsAreTrue ==
    ASSUME "call" \notin HandlerRaises
    PROVE  Spec => []MapIsTrue
<1>1. Order /\ Trading /\ Replacing /\ [Next]_vars => Order' /\ Trading' /\ Replacing'
  BY OrderStep, TradingStep, ReplacingStep
<1>2. Replacing => MapIsTrue
  <2> SUFFICES ASSUME Replacing, NEW r \in Seeders, NEW id \in Ids
               PROVE  Current(ids[r].became, id) = Survivor(ids[r].sequence)[id]
    BY DEF MapIsTrue
  <2>1. Tree(ids[r].became, Survivor(ids[r].sequence))
    BY DEF Replacing, MapsKnow, TrueMaps, TrueMap
  <2> QED BY <2>1, CurrentStands
<1> QED BY <1>1, <1>2, InitOrder, InitTrading, InitReplacing, PTL DEF Spec

-----------------------------------------------------------------------------
(* Types. *)

\* The types of what the order and the maps' truth leave out.
Kinds ==
    /\ reopen \in BOOLEAN /\ phase \in {"starting", "closed", "reading", "following"}
    /\ todo \subseteq Rows /\ after \in Numbers \cup {None}
    /\ had \in [Heard -> SUBSET Of("full")] /\ ids \in [Heard -> Maps]
    /\ left \in [Mishaps -> Nat]

\* Maps stay maps, whatever is applied to them.
LEMMA AppliedType ==
    ASSUME Typed, NEW map \in Maps, NEW numbers \in SUBSET Of("sequenced")
    PROVE  Applied(map, numbers) \in Maps
<1>1. PICK w \in [0 .. Len(log) -> Maps] : Applied(map, numbers) = w[Len(log)]
  BY AppliedRuns
<1>2. Len(log) \in 0 .. Len(log)
  BY LengthIs
<1> QED BY <1>1, <1>2

\* What roles hold once handed on to.
LEMMA HandedType ==
    ASSUME Typed, Kinds, NEW got \in [Heard -> SUBSET Numbers]
    PROVE  /\ Mapped(got) => ids' \in [Heard -> Maps]
           /\ Trades(got) \in [Heard -> SUBSET Of("full")]
<1>1. ASSUME Mapped(got) PROVE ids' \in [Heard -> Maps]
  <2>1. \A r \in Heard : Applied(ids[r], got[r] \cap Of("sequenced")) \in Maps
    BY AppliedType DEF Kinds
  <2> QED BY <1>1, <2>1 DEF Mapped, Heard
<1>2. Trades(got) \in [Heard -> SUBSET Of("full")]
  BY DEF Trades, Kinds, Heard
<1> QED BY <1>1, <1>2

\* All that is due handed on.
LEMMA HandKinds ==
    ASSUME Typed, Kinds, NEW numbers \in SUBSET Numbers, NEW seeding, Hand(numbers, seeding)
    PROVE  ids' \in [Heard -> Maps] /\ had' \in [Heard -> SUBSET Of("full")]
<1> DEFINE got == [r \in Heard |-> IF Hears(r, seeding) THEN Due(numbers) ELSE {}]
<1>1. Mapped(got) /\ had' = Trades(got)
  BY DEF Hand, Handed, Heard
<1>2. got \in [Heard -> SUBSET Numbers]
  BY DEF Due
<1> HIDE DEF got
<1> QED BY <1>1, <1>2, HandedType

\* Some of it handed on, and a handler raising.
LEMMA RaiseKinds ==
    ASSUME Typed, Kinds, NEW numbers \in SUBSET Numbers, NEW seeding, Raise(numbers, seeding)
    PROVE  Kinds'
<1>1. PICK at \in Due(numbers), before \in SUBSET Due(numbers), n \in 0 .. Len(Hearers(seeding)) - 1,
           raised \in HandlerRaises :
        LET got == [r \in ToSet(Roles) |->
                       IF ~Hears(r, seeding) THEN {}
                       ELSE IF r \in ToSet(SubSeq(Hearers(seeding), 1, n)) THEN before \cup {at}
                       ELSE before]
        IN  /\ Handed(got) /\ had' = Trades(got)
            /\ IF raised = "call"
               THEN seen' = Marked(before \cup {at}) /\ UNCHANGED <<started, anew>>
               ELSE Afresh /\ Spend("ends")
  BY DEF Raise
<1> DEFINE got == [r \in Heard |->
                      IF ~Hears(r, seeding) THEN {}
                      ELSE IF r \in ToSet(SubSeq(Hearers(seeding), 1, n)) THEN before \cup {at} ELSE before]
<1>2. Mapped(got) /\ had' = Trades(got)
  BY <1>1 DEF Handed, Heard
<1>3. got \in [Heard -> SUBSET Numbers]
  BY DEF Due
<1> HIDE DEF got
<1>4. ids' \in [Heard -> Maps] /\ Trades(got) \in [Heard -> SUBSET Of("full")]
  BY <1>2, <1>3, HandedType
<1>5. had' \in [Heard -> SUBSET Of("full")]
  BY <1>2, <1>4
<1>6. Closed /\ UNCHANGED <<log, reopen>> /\ (Spend("fails") \/ Spend("ends"))
  BY DEF Raise
<1>7. left' \in [Mishaps -> Nat]
  BY <1>6, SpendType DEF Kinds, Mishaps
<1>8. Numbers' = Numbers /\ Of("full")' = Of("full")
  BY <1>6 DEF Numbers, Of
<1> QED BY <1>4, <1>5, <1>6, <1>7, <1>8 DEF Kinds, Closed

\* Where no record is made and nothing handed on.
LEMMA KindsStay ==
    ASSUME Kinds, UNCHANGED <<log, ids>>, reopen' \in BOOLEAN,
           phase' \in {"starting", "closed", "reading", "following"},
           todo' \subseteq Rows, after' \in Numbers \cup {None}, left' \in [Mishaps -> Nat],
           UNCHANGED had
    PROVE  Kinds'
<1>1. Numbers' = Numbers /\ Of("full")' = Of("full")
  BY DEF Numbers, Of
<1>2. had' \in [Heard -> SUBSET Of("full")]
  BY DEF Kinds
<1> QED BY <1>1, <1>2 DEF Kinds

\* A record made is one more.
LEMMA KindsRecord ==
    ASSUME Order, Kinds, NEW record \in Records, Record(record)
    PROVE  Kinds'
<1>1. Numbers \subseteq Numbers' /\ \A i \in Numbers : log'[i] = log[i]
  BY OrderRecord
<1>2. Of("full") \subseteq Of("full")'
  BY <1>1 DEF Of
<1>3. UNCHANGED <<reopen, phase, todo, after, had, ids>> /\ (UNCHANGED left \/ Spend("losses"))
  BY DEF Record, handVars
<1>4. left' \in [Mishaps -> Nat]
  BY <1>3, SpendType DEF Kinds, Mishaps
<1> QED BY <1>1, <1>2, <1>3, <1>4 DEF Kinds

\* A row read.
LEMMA KindsRead ==
    ASSUME Order, Kinds, Reads
    PROVE  Kinds'
<1>1. Typed /\ Numbers' = Numbers /\ Of("full")' = Of("full") /\ UNCHANGED <<reopen, left, log>>
  BY DEF Reads, ReadRow, ReadReplacements, sidecarVars, Order, Numbers, Of
<1>2. todo' \subseteq Rows /\ phase' \in {"starting", "closed", "reading", "following"}
  BY DEF Reads, ReadRow, ReadReplacements, RowRead, Kinds
<1>3. CASE ReadRow("latest") \/ ReadRow("full")
  <2>1. ASSUME NEW row \in {"latest", "full"}, ReadRow(row) PROVE Kinds'
    <3>1. RowOf(row) \in SUBSET Numbers /\ Hand(RowOf(row), Seeding) /\ UNCHANGED after
      BY <2>1, RowsAbove DEF Above, ReadRow
    <3>2. ids' \in [Heard -> Maps] /\ had' \in [Heard -> SUBSET Of("full")]
      BY <1>1, <3>1, HandKinds
    <3> QED BY <1>1, <1>2, <3>1, <3>2 DEF Kinds
  <2> QED BY <1>3, <2>1
<1>4. CASE ReadReplacements
  <2>1. Page \in SUBSET Numbers
    BY PageAbove DEF Above
  <2>2. ids' \in [Heard -> Maps] /\ had' \in [Heard -> SUBSET Of("full")]
    <3>1. CASE Hand(Page, Seeding)
      BY <1>1, <2>1, <3>1, HandKinds
    <3>2. CASE UNCHANGED <<value, had, ids>>
      BY <3>2 DEF Kinds
    <3> QED BY <1>4, <3>1, <3>2 DEF ReadReplacements
  <2>3. Page # {} => Max(Page) \in Page
    <3>1. Page \in SUBSET (0 .. Len(log)) /\ Len(log) \in Nat
      BY <1>1, <2>1, LengthIs
    <3> QED BY <3>1, MaxIsGreatest
  <2>4. after' \in Numbers \cup {None}
    BY <1>4, <2>1, <2>3 DEF ReadReplacements
  <2> QED BY <1>1, <1>2, <2>2, <2>4 DEF Kinds
<1> QED BY <1>3, <1>4 DEF Reads

\* A step keeps the types.
LEMMA KindsStep ==
    ASSUME Order, Kinds, [Next]_vars
    PROVE  Kinds'
<1>0. /\ Typed /\ heard \subseteq Rows /\ Rereading \subseteq Rows
      /\ reopen \in BOOLEAN /\ phase \in {"starting", "closed", "reading", "following"}
      /\ todo \subseteq Rows /\ after \in Numbers \cup {None} /\ left \in [Mishaps -> Nat]
  BY DEF Order, Typed, Kinds, Rereading
<1>1. ASSUME NEW record \in Records, Record(record) PROVE Kinds'
  BY <1>1, KindsRecord
<1>2. CASE Break
  <2>1. left' \in [Mishaps -> Nat] /\ UNCHANGED <<log, ids, had, reopen, phase, todo, after>>
    BY <1>0, <1>2, SpendType DEF Break, Mishaps, handVars
  <2> QED BY <1>0, <2>1, KindsStay
<1>3. ASSUME NEW key \in Keys, Rename(key) PROVE Kinds'
  <2>1. /\ left' \in [Mishaps -> Nat] /\ UNCHANGED <<log, ids, had, phase, todo, after>> /\ reopen' = TRUE
    BY <1>0, <1>3, SpendType DEF Rename, Mishaps, handVars
  <2> QED BY <1>0, <2>1, KindsStay
<1>4. CASE Reads
  BY <1>4, KindsRead
<1>5. CASE ReadFails
  <2>1. /\ left' \in [Mishaps -> Nat] /\ Closed /\ UNCHANGED <<log, ids, reopen>>
        /\ UNCHANGED had
    BY <1>0, <1>5, SpendType DEF ReadFails, Mishaps
  <2> QED BY <1>0, <2>1, KindsStay DEF Closed
<1>6. CASE RaiseReading
  <2>1. ASSUME NEW row \in {"latest", "full"}, Raise(RowOf(row), Seeding) PROVE Kinds'
    BY <1>0, <2>1, RowsAbove, RaiseKinds DEF Above
  <2>2. CASE Raise(Page, Seeding)
    BY <1>0, <2>2, PageAbove, RaiseKinds DEF Above
  <2> QED BY <1>6, <2>1, <2>2 DEF RaiseReading
<1>7. CASE RaiseHearing
  BY <1>0, <1>7, ItemAbove, RaiseKinds DEF RaiseHearing, Above
<1>8. CASE OnStart
  <2>1. \A r \in Heard : CaughtUpMap(ids[r]) \in Maps
    BY <1>0, AppliedType DEF CaughtUpMap, Kinds
  <2>2. /\ ids' = [r \in Heard |-> CaughtUpMap(ids[r])] /\ phase' = "closed"
        /\ UNCHANGED <<log, reopen, todo, after, had, left>>
    BY <1>8 DEF OnStart, sidecarVars, Heard
  <2>3. Numbers' = Numbers /\ Of("full")' = Of("full") /\ ids' \in [Heard -> Maps]
    BY <2>1, <2>2 DEF Numbers, Of
  <2> QED BY <2>2, <2>3 DEF Kinds
<1>9. CASE Open
  <2>1. /\ UNCHANGED <<log, reopen, after, ids, had, left>> /\ todo' = Rereading \cap heard
        /\ phase' \in {"starting", "closed", "reading", "following"}
    BY <1>9 DEF Open, handVars
  <2> QED BY <1>0, <2>1, KindsStay
<1>10. ASSUME NEW x \in stream, Hear(x) PROVE Kinds'
  <2>1. /\ Hand({x.number}, FALSE) /\ x.number \in Numbers
        /\ UNCHANGED <<log, reopen, phase, todo, after, left>>
    BY <1>0, <1>10 DEF Hear, Typed
  <2>2. ids' \in [Heard -> Maps] /\ had' \in [Heard -> SUBSET Of("full")]
    BY <1>0, <2>1, HandKinds
  <2>3. Numbers' = Numbers /\ Of("full")' = Of("full")
    BY <2>1 DEF Numbers, Of
  <2> QED BY <2>1, <2>2, <2>3 DEF Kinds
<1>11. ASSUME NEW x \in stream, HearLost(x) PROVE Kinds'
  <2>1. x.number \in Numbers /\ log[x.number].row \in heard
    BY <1>0, LogIs DEF Typed
  <2>2. /\ todo' \subseteq Rows /\ UNCHANGED <<log, ids, had, reopen, phase, after, left>>
    BY <1>0, <1>11, <2>1 DEF HearLost, handVars
  <2> QED BY <1>0, <2>2, KindsStay
<1>12. CASE SeeBreak \/ SeeReopen
  <2>1. Closed /\ UNCHANGED <<log, ids, had, left>> /\ reopen' \in BOOLEAN
    BY <1>0, <1>12 DEF SeeBreak, SeeReopen, handVars
  <2> QED BY <1>0, <2>1, KindsStay DEF Closed
<1>13. CASE UNCHANGED vars
  BY <1>0, <1>13, KindsStay DEF vars
<1> QED BY <1>1, <1>2, <1>3, <1>4, <1>5, <1>6, <1>7, <1>8, <1>9, <1>10, <1>11, <1>12, <1>13
        DEF Next, Sidecar, Fails, Follow

\* The types hold at first.
LEMMA InitKinds == Init => Kinds
<1> SUFFICES ASSUME Init PROVE Kinds
  OBVIOUS
<1>1. ids \in [Heard -> Maps]
  BY DEF Init, Maps, Heard
<1>2. left \in [Mishaps -> Nat]
  BY CursorsAssumption DEF Init, CursorsAssumption
<1>3. had \in [Heard -> SUBSET Of("full")]
  BY DEF Init, Heard
<1> QED BY <1>1, <1>2, <1>3 DEF Init, Kinds

\* Every variable keeps its type, and nothing handed on, sent or read is past
\* what was made.
THEOREM TypeCorrect == Spec => []TypeOK
<1>1. Order /\ Kinds /\ Moments /\ [Next]_vars => Order' /\ Kinds' /\ Moments'
  BY OrderStep, KindsStep, MomentsStep
<1>2. Order /\ Kinds /\ Moments => TypeOK
  BY DEF Order, Typed, Kinds, Moments, TypeOK, Heard
<1> QED BY <1>1, <1>2, InitOrder, InitMoments, InitKinds, PTL DEF Spec

=============================================================================
