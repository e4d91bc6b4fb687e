------------------------------ MODULE FillsProofs ------------------------------
(***************************************************************************)
(* That the book never counts a placement's fills over, busts none that    *)
(* was not taken back, and ends no placement with a fill missing, for any  *)
(* number of orders, quantity and bounds on what goes wrong.               *)
(*                                                                         *)
(* Sums over finite sets come first, from the library's definition; then   *)
(* the inductive invariant `Right(b)`, for the bounds `b` of what goes     *)
(* wrong: what the plugin knows of an order is what the venue once said    *)
(* (`Stale`), the orders stand in line (`Lined`), and what it counts is    *)
(* what the book holds, exactly where no fill is taken back (`Exact`) and  *)
(* through the fills it keeps where some are (`Traced`).  Each step of the *)
(* venue is a `Change` of the order that stands; each of the plugin's      *)
(* leaves the venue alone.                                                 *)
(***************************************************************************)
EXTENDS Fills, Integers, FiniteSetTheorems, WellFoundedInduction, TLAPS

-----------------------------------------------------------------------------
(* The least and the greatest of naturals. *)

\* Every set of naturals that is not empty has a least member.
LEMMA LeastExists ==
  ASSUME NEW S \in SUBSET Nat, S # {}
  PROVE  \E x \in S : \A y \in S : x <= y
<1>1. PICK x \in S : \A y \in S : ~(<<y, x>> \in OpToRel(<, Nat))
  BY WFMin, NatLessThanWellFounded, Zenon
<1>2. \A y \in S : ~(y < x)
  BY <1>1, Zenon DEF OpToRel
<1>3. \A y \in S : x <= y
  BY <1>2
<1>. QED BY <1>3

\* Min is the least of a set of naturals.
LEMMA MinIsLeast ==
  ASSUME NEW S \in SUBSET Nat, S # {}
  PROVE  Min(S) \in S /\ \A y \in S : Min(S) <= y
  BY LeastExists DEF Min

\* Max is the greatest of a bounded set of naturals.
LEMMA MaxIsGreatest ==
  ASSUME NEW n \in Nat, NEW S \in SUBSET (0..n), S # {}
  PROVE  Max(S) \in S /\ \A y \in S : Max(S) >= y
<1>. DEFINE T == {m \in 0..n : n - m \in S}
<1>1. PICK m \in S : TRUE
  OBVIOUS
<1>2. n - m \in T
  BY n - (n - m) = m
<1>3. T \in SUBSET Nat /\ T # {}
  BY <1>2
<1>4. PICK t \in T : \A u \in T : t <= u
  BY <1>3, LeastExists
<1>5. t \in 0..n /\ n - t \in S
  OBVIOUS
<1>6. ASSUME NEW y \in S PROVE n - t >= y
  <2>1. n - y \in T
    BY n - (n - y) = y
  <2>2. t <= n - y
    BY <2>1, <1>4
  <2>. QED BY <2>2, <1>5
<1>. QED BY <1>5, <1>6 DEF Max

-----------------------------------------------------------------------------
(* Sums of a function over finite sets. *)

\* One of a set.
One(s) == CHOOSE x \in s : TRUE
\* Whether `i` is at `s` the sum of `f` over it, one at a time.
Adds(f, i, s) == IF s = {} THEN 0 ELSE f[One(s)] + i[s \ {One(s)}]
\* The sums of `f` over the subsets of a set, as the library takes them.
Iter(f, S) == CHOOSE i : i = [s \in SUBSET S |-> Adds(f, i, s)]

\* The library's sum is that of those sums.
LEMMA SumIsIter ==
    ASSUME NEW f, NEW S
    PROVE  SumFunctionOnSet(f, S) = Iter(f, S)[S]
BY DEF SumFunctionOnSet, FoldFunctionOnSet, MapThenFoldSet, Iter, Adds, One

\* One of a set, and the rest.
LEMMA OneLess ==
    ASSUME NEW s, IsFiniteSet(s), s # {}
    PROVE  /\ One(s) \in s /\ IsFiniteSet(s \ {One(s)})
           /\ Cardinality(s) \in Nat /\ Cardinality(s \ {One(s)}) \in Nat
           /\ Cardinality(s \ {One(s)}) < Cardinality(s)
<1>1. One(s) \in s
  BY DEF One
<1>2. /\ IsFiniteSet(s \ {One(s)}) /\ Cardinality(s \ {One(s)}) = Cardinality(s) - 1
      /\ Cardinality(s) \in Nat /\ Cardinality(s \ {One(s)}) \in Nat
  BY <1>1, FS_RemoveElement, FS_CardinalityType
<1> QED BY <1>1, <1>2

\* There are such sums of every set.
LEMMA IterExists ==
    ASSUME NEW f, NEW S, IsFiniteSet(S), \A x \in S : f[x] \in Nat
    PROVE  \E i \in [SUBSET S -> Nat] : \A s \in SUBSET S : i[s] = Adds(f, i, s)
<1> DEFINE Has(n) == \E i \in [SUBSET S -> Nat] :
                         \A s \in SUBSET S : Cardinality(s) <= n => i[s] = Adds(f, i, s)
           Not == {n \in Nat : ~Has(n)}
<1>0. \A s \in SUBSET S : IsFiniteSet(s) /\ Cardinality(s) \in Nat /\ Cardinality(s) <= Cardinality(S)
  BY FS_Subset, FS_CardinalityType
<1>1. Has(0)
  <2>1. \A s \in SUBSET S : Cardinality(s) <= 0 => s = {}
    BY <1>0, FS_EmptySet
  <2>2. [s \in SUBSET S |-> 0] \in [SUBSET S -> Nat]
    OBVIOUS
  <2> QED BY <2>1, <2>2 DEF Adds
<1>2. ASSUME NEW n \in Nat, Has(n) PROVE Has(n + 1)
  <2>1. PICK i \in [SUBSET S -> Nat] : \A s \in SUBSET S : Cardinality(s) <= n => i[s] = Adds(f, i, s)
    BY <1>2
  <2> DEFINE j == [s \in SUBSET S |-> IF Cardinality(s) <= n THEN i[s] ELSE Adds(f, i, s)]
  <2>2. ASSUME NEW s \in SUBSET S PROVE Adds(f, i, s) \in Nat
    <3>1. s # {} => One(s) \in S
      BY <1>0, OneLess
    <3> QED BY <3>1 DEF Adds
  <2>3. j \in [SUBSET S -> Nat]
    BY <2>2
  <2>4. ASSUME NEW s \in SUBSET S, Cardinality(s) <= n + 1 PROVE j[s] = Adds(f, j, s)
    <3>1. j[s] = Adds(f, i, s)
      BY <2>1
    <3>2. s # {} => j[s \ {One(s)}] = i[s \ {One(s)}]
      <4>1. ASSUME s # {} PROVE Cardinality(s \ {One(s)}) <= n /\ s \ {One(s)} \in SUBSET S
        <5>1. /\ Cardinality(s) \in Nat /\ Cardinality(s \ {One(s)}) \in Nat
              /\ Cardinality(s \ {One(s)}) < Cardinality(s)
          BY <1>0, <4>1, OneLess
        <5> QED BY <2>4, <5>1
      <4> QED BY <4>1
    <3> HIDE DEF j
    <3> QED BY <3>1, <3>2 DEF Adds
  <2> HIDE DEF j
  <2> QED BY <2>3, <2>4
<1>3. Not = {}
  <2> SUFFICES ASSUME Not # {} PROVE FALSE
    OBVIOUS
  <2> HIDE DEF Has
  <2>1. PICK n \in Not : \A m \in Not : n <= m
    BY LeastExists
  <2>2. n # 0 /\ n - 1 \in Nat
    BY <1>1, <2>1
  <2>3. Has(n - 1)
    BY <2>1, <2>2
  <2>4. Has((n - 1) + 1)
    BY <1>2, <2>2, <2>3
  <2>5. (n - 1) + 1 = n
    BY <2>2
  <2> QED BY <2>1, <2>4, <2>5
<1>4. Has(Cardinality(S))
  <2> HIDE DEF Has
  <2> QED BY <1>0, <1>3
<1> QED BY <1>0, <1>4

\* What is given by them is given once: sums of functions that agree agree.
LEMMA AddsOnce ==
    ASSUME NEW f, NEW g, NEW i, NEW j, NEW S, IsFiniteSet(S), \A x \in S : f[x] = g[x],
           \A s \in SUBSET S : i[s] = Adds(f, i, s), \A s \in SUBSET S : j[s] = Adds(g, j, s)
    PROVE  \A s \in SUBSET S : i[s] = j[s]
<1>1. \A s \in SUBSET S : IsFiniteSet(s) /\ Cardinality(s) \in Nat
  BY FS_Subset, FS_CardinalityType
<1> DEFINE Not == {Cardinality(s) : s \in {t \in SUBSET S : i[t] # j[t]}}
<1> SUFFICES ASSUME NEW u \in SUBSET S, i[u] # j[u] PROVE FALSE
  OBVIOUS
<1>2. Not \in SUBSET Nat /\ Not # {}
  BY <1>1
<1>3. PICK n \in Not : \A m \in Not : n <= m
  <2> HIDE DEF Not
  <2> QED BY <1>2, LeastExists
<1>4. PICK s \in SUBSET S : Cardinality(s) = n /\ i[s] # j[s]
  BY <1>3
<1>5. s # {} /\ i[s \ {One(s)}] # j[s \ {One(s)}]
  <2>1. i[s] = Adds(f, i, s) /\ j[s] = Adds(g, j, s)
    OBVIOUS
  <2>2. s # {}
    BY <1>4, <2>1 DEF Adds
  <2>3. One(s) \in S
    BY <1>1, <2>2, OneLess
  <2> QED BY <1>4, <2>1, <2>2, <2>3 DEF Adds
<1> DEFINE c == Cardinality(s \ {One(s)})
<1>6. c < Cardinality(s) /\ c \in Nat /\ Cardinality(s) \in Nat
  BY <1>1, <1>5, OneLess
<1>7. c \in Not
  <2>1. s \ {One(s)} \in SUBSET S
    OBVIOUS
  <2> QED BY <1>5, <2>1
<1>8. n <= c
  <2> HIDE DEF Not, c
  <2> QED BY <1>3, <1>7
<1> HIDE DEF c, Not
<1> QED BY <1>4, <1>6, <1>8

\* So the sums are those.
LEMMA IterIs ==
    ASSUME NEW f, NEW S, IsFiniteSet(S), \A x \in S : f[x] \in Nat
    PROVE  /\ Iter(f, S) \in [SUBSET S -> Nat]
           /\ \A s \in SUBSET S : Iter(f, S)[s] = Adds(f, Iter(f, S), s)
<1>1. PICK i \in [SUBSET S -> Nat] : \A s \in SUBSET S : i[s] = Adds(f, i, s)
  BY IterExists
<1>2. i = [s \in SUBSET S |-> Adds(f, i, s)]
  BY <1>1
<1>3. Iter(f, S) = [s \in SUBSET S |-> Adds(f, Iter(f, S), s)]
  BY <1>2 DEF Iter
<1> DEFINE g == Iter(f, S)
<1>4. g = [s \in SUBSET S |-> Adds(f, g, s)]
  BY <1>3
<1> HIDE DEF g
<1>5. \A s \in SUBSET S : g[s] = Adds(f, g, s)
  BY <1>4
<1>6. \A s \in SUBSET S : g[s] = i[s]
  BY <1>1, <1>5, AddsOnce
<1>7. g = i
  <2>1. g = [s \in SUBSET S |-> g[s]]
    BY <1>4
  <2> QED BY <1>6, <2>1
<1> QED BY <1>1, <1>7 DEF g

\* A sum is a natural, and the sum of what functions agree on is the same.
LEMMA SumType ==
    ASSUME NEW f, NEW S, IsFiniteSet(S), \A x \in S : f[x] \in Nat
    PROVE  SumFunctionOnSet(f, S) \in Nat
<1>1. Iter(f, S) \in [SUBSET S -> Nat] /\ S \in SUBSET S
  BY IterIs
<1> QED BY <1>1, SumIsIter

\* The sums of functions that agree are the same.
LEMMA SumAgrees ==
    ASSUME NEW f, NEW g, NEW S, IsFiniteSet(S), \A x \in S : f[x] \in Nat,
           \A x \in S : f[x] = g[x]
    PROVE  SumFunctionOnSet(f, S) = SumFunctionOnSet(g, S)
<1>1. \A x \in S : g[x] \in Nat
  OBVIOUS
<1>2. \A s \in SUBSET S : Iter(f, S)[s] = Adds(f, Iter(f, S), s)
  BY IterIs
<1>3. \A s \in SUBSET S : Iter(g, S)[s] = Adds(g, Iter(g, S), s)
  BY <1>1, IterIs
<1> DEFINE i == Iter(f, S)
           j == Iter(g, S)
<1>4. (\A s \in SUBSET S : i[s] = Adds(f, i, s)) /\ (\A s \in SUBSET S : j[s] = Adds(g, j, s))
  BY <1>2, <1>3
<1>5. \A s \in SUBSET S : i[s] = j[s]
  <2> HIDE DEF i, j
  <2> QED BY <1>4, AddsOnce
<1> QED BY <1>5, SumIsIter

\* The sum of nothing is nothing.
LEMMA SumEmpty ==
    ASSUME NEW f
    PROVE  SumFunctionOnSet(f, {}) = 0
<1>1. IsFiniteSet({}) /\ \A x \in {} : f[x] \in Nat
  BY FS_EmptySet
<1>2. Iter(f, {})[{}] = Adds(f, Iter(f, {}), {})
  BY <1>1, IterIs
<1> QED BY <1>2, SumIsIter DEF Adds

\* The sums over a set's subsets are those over the subsets of its parts.
LEMMA SumWithin ==
    ASSUME NEW f, NEW S, NEW s \in SUBSET S, IsFiniteSet(S), \A x \in S : f[x] \in Nat
    PROVE  Iter(f, S)[s] = SumFunctionOnSet(f, s)
<1>1. IsFiniteSet(s) /\ \A x \in s : f[x] \in Nat
  BY FS_Subset
<1> DEFINE i == Iter(f, S)
           j == Iter(f, s)
<1>2. (\A t \in SUBSET s : i[t] = Adds(f, i, t)) /\ (\A t \in SUBSET s : j[t] = Adds(f, j, t))
  BY <1>1, IterIs
<1>3. \A t \in SUBSET s : i[t] = j[t]
  <2> HIDE DEF i, j
  <2> QED BY <1>1, <1>2, AddsOnce
<1> QED BY <1>3, SumIsIter

\* The sum is one's and the sum of the rest,
LEMMA SumOne ==
    ASSUME NEW f, NEW S, IsFiniteSet(S), S # {}, \A x \in S : f[x] \in Nat
    PROVE  SumFunctionOnSet(f, S) = f[One(S)] + SumFunctionOnSet(f, S \ {One(S)})
<1>1. Iter(f, S)[S] = f[One(S)] + Iter(f, S)[S \ {One(S)}]
  <2>1. \A s \in SUBSET S : Iter(f, S)[s] = Adds(f, Iter(f, S), s)
    BY IterIs
  <2>2. Iter(f, S)[S] = Adds(f, Iter(f, S), S)
    BY <2>1
  <2> QED BY <2>2 DEF Adds
<1>2. Iter(f, S)[S \ {One(S)}] = SumFunctionOnSet(f, S \ {One(S)})
  <2>1. S \ {One(S)} \in SUBSET S
    OBVIOUS
  <2> QED BY <2>1, SumWithin
<1> QED BY <1>1, <1>2, SumIsIter

\* whichever is taken.
LEMMA SumRemove ==
    ASSUME NEW f, NEW S, IsFiniteSet(S), \A x \in S : f[x] \in Nat, NEW x \in S
    PROVE  SumFunctionOnSet(f, S) = f[x] + SumFunctionOnSet(f, S \ {x})
<1> DEFINE P(s, y) == SumFunctionOnSet(f, s) = f[y] + SumFunctionOnSet(f, s \ {y})
           Bad == {s \in SUBSET S : \E y \in s : ~P(s, y)}
           Not == {Cardinality(s) : s \in Bad}
<1>1. \A s \in SUBSET S : IsFiniteSet(s) /\ Cardinality(s) \in Nat
  BY FS_Subset, FS_CardinalityType
<1> SUFFICES ASSUME S \in Bad PROVE FALSE
  OBVIOUS
<1>2. Not \in SUBSET Nat /\ Not # {}
  <2> HIDE DEF P
  <2> QED BY <1>1
<1>3. PICK n \in Not : \A m \in Not : n <= m
  <2> HIDE DEF Not
  <2> QED BY <1>2, LeastExists
<1>4. PICK s \in Bad : Cardinality(s) = n
  <2> HIDE DEF Bad
  <2> QED BY <1>3
<1>5. PICK y \in s : ~P(s, y)
  BY <1>4
<1>6. s \in SUBSET S /\ IsFiniteSet(s) /\ s # {} /\ y \in S /\ \A z \in s : f[z] \in Nat
  <2> HIDE DEF P
  <2> QED BY <1>1, <1>4, <1>5
<1> DEFINE o == One(s)
           r == s \ {o}
<1>7. /\ o \in s /\ IsFiniteSet(r) /\ Cardinality(r) < n /\ Cardinality(r) \in Nat /\ n \in Nat
      /\ r \in SUBSET S
  <2> HIDE DEF Not, Bad, P
  <2> QED BY <1>4, <1>6, OneLess
<1>8. SumFunctionOnSet(f, s) = f[o] + SumFunctionOnSet(f, r)
  <2> HIDE DEF Not, Bad, P
  <2> QED BY <1>6, SumOne
<1>9. y # o
  BY <1>5, <1>8
<1>10. r \notin Bad
  <2>1. Cardinality(r) \notin Not
    <3> HIDE DEF Not, r
    <3> QED BY <1>3, <1>7
  <2> HIDE DEF Bad, r
  <2> QED BY <2>1
<1>11. SumFunctionOnSet(f, r) = f[y] + SumFunctionOnSet(f, r \ {y})
  <2>1. y \in r
    BY <1>9
  <2> QED BY <1>7, <1>10, <2>1
<1>12. SumFunctionOnSet(f, s \ {y}) = f[o] + SumFunctionOnSet(f, r \ {y})
  <2> HIDE DEF Not, Bad, P
  <2> DEFINE t == s \ {y}
  <2>1. Cardinality(t) \in Nat /\ IsFiniteSet(t) /\ t \in SUBSET S /\ Cardinality(t) < n /\ o \in t
    <3>1. IsFiniteSet(t) /\ Cardinality(t) = Cardinality(s) - 1
      BY <1>6, FS_RemoveElement, <1>5
    <3> QED BY <1>6, <1>7, <1>9, <1>1, <1>4, <3>1
  <2>2. t \notin Bad
    <3>1. Cardinality(t) \notin Not
      <4> HIDE DEF t
      <4> QED BY <1>3, <1>7, <2>1
    <3> HIDE DEF t
    <3> QED BY <2>1, <3>1 DEF Not
  <2>3. SumFunctionOnSet(f, t) = f[o] + SumFunctionOnSet(f, t \ {o})
    <3> HIDE DEF t, o
    <3> QED BY <2>1, <2>2 DEF Bad, P
  <2>4. t \ {o} = r \ {y}
    OBVIOUS
  <2> QED BY <2>3, <2>4
<1>13. /\ f[y] \in Nat /\ f[o] \in Nat /\ SumFunctionOnSet(f, r \ {y}) \in Nat
  <2> HIDE DEF Not, Bad, P
  <2>1. IsFiniteSet(r \ {y}) /\ \A z \in r \ {y} : f[z] \in Nat
    BY <1>6, <1>7, FS_Subset
  <2> QED BY <1>6, <1>7, <2>1, SumType
<1>14. SumFunctionOnSet(f, s) # f[y] + SumFunctionOnSet(f, s \ {y})
  BY <1>5
<1> HIDE DEF Not, Bad, P, r, o
<1> QED BY <1>8, <1>11, <1>12, <1>13, <1>14

\* One more adds what it is.
LEMMA SumAdd ==
    ASSUME NEW f, NEW S, NEW x, x \notin S, IsFiniteSet(S), \A y \in S \cup {x} : f[y] \in Nat
    PROVE  SumFunctionOnSet(f, S \cup {x}) = f[x] + SumFunctionOnSet(f, S)
<1>1. IsFiniteSet(S \cup {x}) /\ x \in S \cup {x} /\ (S \cup {x}) \ {x} = S
  BY FS_AddElement
<1>2. SumFunctionOnSet(f, S \cup {x}) = f[x] + SumFunctionOnSet(f, (S \cup {x}) \ {x})
  BY <1>1, SumRemove
<1> QED BY <1>1, <1>2

\* The sum of two sets with nothing in common is the sum of their sums.
LEMMA SumParts ==
    ASSUME NEW f, NEW S, IsFiniteSet(S), \A x \in S : f[x] \in Nat, NEW A \in SUBSET S
    PROVE  SumFunctionOnSet(f, S) = SumFunctionOnSet(f, A) + SumFunctionOnSet(f, S \ A)
<1> DEFINE P(a) == SumFunctionOnSet(f, S) = SumFunctionOnSet(f, a) + SumFunctionOnSet(f, S \ a)
           Not == {Cardinality(a) : a \in {t \in SUBSET S : ~P(t)}}
<1>1. \A s \in SUBSET S : /\ IsFiniteSet(s) /\ Cardinality(s) \in Nat
                          /\ SumFunctionOnSet(f, s) \in Nat /\ \A x \in s : f[x] \in Nat
  <2>1. ASSUME NEW s \in SUBSET S
        PROVE  IsFiniteSet(s) /\ Cardinality(s) \in Nat /\ \A x \in s : f[x] \in Nat
    BY FS_Subset, FS_CardinalityType
  <2> QED BY <2>1, SumType
<1> SUFFICES ASSUME ~P(A) PROVE FALSE
  OBVIOUS
<1>2. Not \in SUBSET Nat /\ Not # {}
  <2> HIDE DEF P
  <2> QED BY <1>1
<1>3. PICK n \in Not : \A m \in Not : n <= m
  <2> HIDE DEF Not
  <2> QED BY <1>2, LeastExists
<1>4. PICK a \in SUBSET S : Cardinality(a) = n /\ ~P(a)
  BY <1>3
<1>5. a # {}
  <2>1. SumFunctionOnSet(f, {}) = 0 /\ S \ {} = S /\ SumFunctionOnSet(f, S) \in Nat
    BY SumEmpty, <1>1
  <2> QED BY <2>1, <1>4
<1>6. PICK x \in a : TRUE
  BY <1>5
<1> DEFINE r == a \ {x}
<1>7. r \in SUBSET S /\ Cardinality(r) \in Nat /\ Cardinality(r) < n /\ n \in Nat
  <2>1. Cardinality(r) = Cardinality(a) - 1
    BY <1>1, <1>6, FS_RemoveElement
  <2> QED BY <1>1, <1>4, <2>1
<1>8. P(r)
  <2>1. Cardinality(r) \notin Not
    <3> HIDE DEF Not, r
    <3> QED BY <1>3, <1>7
  <2> HIDE DEF P, r
  <2> QED BY <1>7, <2>1
<1> HIDE DEF Not
<1>9. SumFunctionOnSet(f, a) = f[x] + SumFunctionOnSet(f, r)
  BY <1>1, <1>4, <1>6, SumRemove
<1>10. SumFunctionOnSet(f, S \ r) = f[x] + SumFunctionOnSet(f, S \ a)
  <2>1. x \notin S \ a /\ S \ r = (S \ a) \cup {x} /\ IsFiniteSet(S \ a)
        /\ \A y \in (S \ a) \cup {x} : f[y] \in Nat
    BY <1>1, <1>6
  <2> HIDE DEF r
  <2>2. SumFunctionOnSet(f, (S \ a) \cup {x}) = f[x] + SumFunctionOnSet(f, S \ a)
    BY <2>1, SumAdd
  <2> QED BY <2>1, <2>2
<1>11. /\ f[x] \in Nat /\ SumFunctionOnSet(f, r) \in Nat /\ SumFunctionOnSet(f, S \ a) \in Nat
  BY <1>1, <1>6
<1>12. SumFunctionOnSet(f, S) = SumFunctionOnSet(f, r) + SumFunctionOnSet(f, S \ r)
  BY <1>8
<1>13. SumFunctionOnSet(f, S) # SumFunctionOnSet(f, a) + SumFunctionOnSet(f, S \ a)
  BY <1>4
<1> HIDE DEF P, r
<1> QED BY <1>9, <1>10, <1>11, <1>12, <1>13

\* A part's sum is no more, and no member's amount is.
LEMMA SumLess ==
    ASSUME NEW f, NEW S, IsFiniteSet(S), \A x \in S : f[x] \in Nat, NEW A \in SUBSET S
    PROVE  SumFunctionOnSet(f, A) <= SumFunctionOnSet(f, S)
<1>1. IsFiniteSet(A) /\ IsFiniteSet(S \ A)
  BY FS_Subset
<1>2. SumFunctionOnSet(f, A) \in Nat /\ SumFunctionOnSet(f, S \ A) \in Nat
  BY <1>1, SumType
<1>3. SumFunctionOnSet(f, S) = SumFunctionOnSet(f, A) + SumFunctionOnSet(f, S \ A)
  BY SumParts
<1> QED BY <1>2, <1>3

\* No member's amount is more than the sum.
LEMMA SumHas ==
    ASSUME NEW f, NEW S, IsFiniteSet(S), \A x \in S : f[x] \in Nat, NEW x \in S
    PROVE  f[x] <= SumFunctionOnSet(f, S)
<1>1. SumFunctionOnSet(f, S) = f[x] + SumFunctionOnSet(f, S \ {x})
  BY SumRemove
<1>2. IsFiniteSet(S \ {x}) /\ \A y \in S \ {x} : f[y] \in Nat
  BY FS_RemoveElement
<1>3. SumFunctionOnSet(f, S \ {x}) \in Nat /\ f[x] \in Nat
  BY <1>2, SumType
<1> QED BY <1>1, <1>3

\* What is nothing adds nothing.
LEMMA SumNothing ==
    ASSUME NEW f, NEW S, IsFiniteSet(S), \A x \in S : f[x] = 0
    PROVE  SumFunctionOnSet(f, S) = 0
<1> SUFFICES ASSUME SumFunctionOnSet(f, S) # 0 PROVE FALSE
  OBVIOUS
<1>0. \A x \in S : f[x] \in Nat
  OBVIOUS
<1> DEFINE Bad == {t \in SUBSET S : SumFunctionOnSet(f, t) # 0}
           Not == {Cardinality(a) : a \in Bad}
<1>1. \A s \in SUBSET S : IsFiniteSet(s) /\ Cardinality(s) \in Nat
  BY FS_Subset, FS_CardinalityType
<1>2. Not \in SUBSET Nat /\ Not # {}
  BY <1>1
<1>3. PICK n \in Not : \A m \in Not : n <= m
  <2> HIDE DEF Not
  <2> QED BY <1>2, LeastExists
<1>4. PICK a \in SUBSET S : Cardinality(a) = n /\ SumFunctionOnSet(f, a) # 0
  BY <1>3
<1>5. a # {}
  BY <1>4, SumEmpty
<1>6. PICK x \in a : TRUE
  BY <1>5
<1> DEFINE r == a \ {x}
<1>7. r \in SUBSET S /\ Cardinality(r) \in Nat /\ Cardinality(r) < n /\ n \in Nat
  <2>1. Cardinality(r) = Cardinality(a) - 1
    BY <1>1, <1>6, FS_RemoveElement
  <2> QED BY <1>1, <1>4, <2>1
<1>8. SumFunctionOnSet(f, r) = 0
  <2>1. Cardinality(r) \notin Not
    <3> HIDE DEF Not, r
    <3> QED BY <1>3, <1>7
  <2> HIDE DEF r
  <2> QED BY <1>7, <2>1
<1>9. SumFunctionOnSet(f, a) = f[x] + SumFunctionOnSet(f, r)
  BY <1>0, <1>1, <1>4, <1>6, SumRemove
<1>10. f[x] = 0
  BY <1>4, <1>6
<1> HIDE DEF r
<1> QED BY <1>4, <1>8, <1>9, <1>10

-----------------------------------------------------------------------------
(* The invariant. *)

\* Bounds under which no fill is ever taken back,
Plain(b) == b["taken"] = 0 /\ b["late"] = 0
\* under which the venue's orders are not replaced,
Still(b) == b["replace"] = 0 /\ b["unanswered"] = 0 /\ b["restate"] = 0
\* those the counts are right under: no report recorded with its answer lost; no
\* fill taken back with a restart, nor, while its order works, with a replace; no
\* report refused where both a replace and a restart come,
Counts(b) ==
    /\ b["lost"] = 0
    /\ \/ Plain(b) /\ (b["crash"] = 0 \/ b["report"] = 0 \/ Still(b))
       \/ b["crash"] = 0 /\ (b["taken"] = 0 \/ Still(b))

\* and those under which the book is whole when it ends a placement.
Settles(b) ==
    /\ Plain(b) /\ b["lost"] = 0 /\ b["date"] = 0 /\ b["replace"] = 0 /\ b["unanswered"] = 0
    /\ b["crash"] = 0 \/ b["report"] = 0 \/ b["restate"] = 0

\* What the orders before `o` filled.
Before(orders, o) == SumFunctionOnSet([p \in Numbers |-> orders[p].filled], {p \in Numbers : p < o})

\* What the plugin has, or may come to have, of an order: its record, and what
\* was streamed or read of it.
Known(o) ==
    {venue[o]} \cup {updates[i].record : i \in {k \in 1..Len(updates) : updates[k].of = o}}
    \cup {j.orders[o] : j \in {job} \ {None}}

\* What is left of each bound is no more than it was.
Bounded(b) == \A m \in Mishaps : left[m] <= b[m]

\* The orders the venue has: each made when the one before it was replaced, and
\* together never filled past what it ever stated.
Lined ==
    /\ venue[1].status # "none"
    /\ \A p, q \in Numbers : p < q /\ venue[q].status # "none" => venue[p].status = "replaced"
    /\ \A p \in Numbers : venue[p].status = "replaced" => p + 1 \in Numbers /\ venue[p + 1].status # "none"
    /\ \A p \in Numbers : venue[p].status = "none" => venue[p].filled = 0 /\ venue[p].at = 0
    /\ Total(venue) <= peak

\* A record known of an order is one the order had: none newer, none the same
\* age and different, and what a later one leaves out was taken back.
Stale ==
    \A o \in Numbers : \A r \in Known(o) :
        /\ r.at <= venue[o].at
        /\ r.status \in {"replaced", "cancelled"} => r = venue[o]
        /\ r.at = venue[o].at => r = venue[o]
        /\ r.status # "none" => venue[o].status # "none"
        /\ r.at = 0 => r.filled = 0
        /\ Before(venue, o) + r.filled <= peak
        /\ \A q \in Known(o) : q.at <= r.at => \A n \in r.filled + 1 .. q.filled : <<o, n>> \in taken

\* Updates are of orders that were made.
Streamed == \A i \in 1..Len(updates) : updates[i].record.status # "none"

\* The record in hand is of the order worked, or of the one that replaces it, and
\* says of the placement what was read.
InHand ==
    job # None =>
        /\ worked # None
        /\ job.at # "replaced" => job.of = worked.order
        /\ job.at = "replaced" => job.of = worked.order + 1 /\ venue[job.of].status # "none"
        /\ job.at \in {"fills", "end", "cancelled"} =>
              job.filled = worked.carried + Record.filled /\ Record.at = worked.seen
        /\ job.at = "cancelled" => Record.status = "cancelled"

\* The order it works,
Works(o) == worked # None /\ worked.order = o
\* and the one it works or, where the process died, is to work.
Follows(o) == o = IF worked = None THEN booked ELSE worked.order

\* What it keeps is of orders made, and counts no more than the venue ever stated.
Kept ==
    /\ venue[booked].status # "none"
    /\ worked # None =>
         /\ worked.filled <= peak /\ worked.carried <= worked.filled
         /\ \A f \in worked.fills : f.cumulative <= worked.filled
    /\ \A o \in Numbers : Works(o) =>
         /\ venue[o].status # "none" /\ worked.seen <= venue[o].at /\ worked.carried <= Before(venue, o)
         /\ \A f \in worked.fills : f.id[1] <= o

\* The executions of fills that brought it to no more than `n`.
Upto(n) == {e \in InBook : \E f \in worked.fills : f.id = e.id /\ f.cumulative <= n}

\* What its fills say where some are taken back: each brought the order to the
\* quantity in its ID; what it carries and has reported is one of theirs; and one
\* that a record as new as what it read leaves out was taken back.
TracedOf(b, o) ==
    /\ \A f \in worked.fills :
         IF f.id[1] = o THEN f.cumulative = worked.carried + f.id[2] /\ f.id[2] > 0
         ELSE f.cumulative <= worked.carried
    /\ worked.carried = 0 \/ \E f \in worked.fills : f.id[1] # o /\ f.cumulative = worked.carried
    /\ b["taken"] = 0 /\ venue[o].status # "filled" =>
         /\ worked.filled = 0 \/ \E f \in worked.fills : f.cumulative = worked.filled
         /\ worked.filled <= Before(venue, o) + venue[o].filled
    /\ \A r \in Known(o) : \A f \in worked.fills :
         f.id[1] = o /\ r.at >= worked.seen /\ r.filled < f.id[2] => f.id \in taken

\* Where fills are taken back, the book is traced through the fills it keeps:
\* each execution is of one, and those up to any count amount to no more.
Traced(b) ==
    /\ worked # None /\ busted \subseteq taken
    /\ b["taken"] = 0 => \A id \in taken : venue[id[1]].status = "filled"
    /\ b["taken"] > 0 => worked.carried = 0 /\ \A p \in Numbers : p # 1 => venue[p].status = "none"
    /\ \A o \in Numbers : Works(o) => TracedOf(b, o)
    /\ \A e \in InBook : \E f \in worked.fills : f.id = e.id
    /\ \A n \in Amounts : Amount(Upto(n)) <= n

\* The executions of an order.
Own(o) == {e \in InBook : e.id[1] = o}

\* What the book holds of an order is what a record of it states or less, and of
\* those before it what it carries.
ExactOf(o) ==
    /\ worked # None => worked.carried = FilledBesides(o)
    /\ \A r \in Known(o) : worked = None \/ r.at >= worked.seen => Amount(Own(o)) <= r.filled
    /\ \A e \in executions : e.id[1] <= o /\ (e.id[1] = o => e.id[2] <= Amount(Own(o)))
    /\ FilledBesides(o) <= Before(venue, o)

\* Where no fill is taken back, what it has reported is what the book holds.
Exact(b) ==
    /\ taken = {} /\ busted = {}
    /\ worked # None => worked.filled = BookFilled
    /\ \A o \in Numbers : Follows(o) => ExactOf(o)
    /\ b["crash"] > 0 /\ worked # None => booked = worked.order
    /\ b["crash"] = 0 => worked # None
    /\ Still(b) => \A p \in Numbers : p # 1 => venue[p].status = "none"

\* What is so whatever goes wrong,
Base(b) == TypeOK /\ IsFiniteSet(executions) /\ Bounded(b) /\ Lined /\ Stale /\ Streamed /\ InHand /\ Kept
\* and the invariant: that, and how the book is counted.
Right(b) == Base(b) /\ (IF Plain(b) THEN Exact(b) ELSE Traced(b))

\* Where nothing keeps it waiting, all that was filled by an order it leaves is
\* in the book: by the orders before its own, and when the placement is ended.
Settled ==
    /\ worked # None => ~worked.replacing
    /\ job # None /\ job.at \in {"end", "cancelled"} => worked.filled = job.filled
    /\ \A o \in Numbers : job # None /\ job.at = "replaced" /\ job.of = o => worked.filled = Before(venue, o)
    /\ \A o \in Numbers : Follows(o) =>
         /\ FilledBesides(o) = Before(venue, o)
         /\ end # "no" => venue[o].status = "cancelled" /\ BookFilled = Total(venue)

-----------------------------------------------------------------------------
(* Sums of orders and of executions. *)

\* The orders are finitely many.
LEMMA NumbersFinite == IsFiniteSet(Numbers) /\ \A S \in SUBSET Numbers : IsFiniteSet(S)
<1>1. IsFiniteSet(1..Orders)
  BY FillsAssumption, FS_Interval
<1> QED BY <1>1, FS_Subset DEF Numbers

\* What was filled before an order, and in all, is a natural, and the order's own
\* comes between.
LEMMA BeforeType ==
    ASSUME NEW v \in [Numbers -> Records], NEW o \in Numbers
    PROVE  /\ Before(v, o) \in Nat /\ Total(v) \in Nat
           /\ Before(v, o) + v[o].filled <= Total(v)
<1> DEFINE f == [p \in Numbers |-> v[p].filled]
           S == {p \in Numbers : p < o}
<1>1. \A p \in Numbers : f[p] \in Nat /\ f[p] = v[p].filled
  BY FillsAssumption DEF Records, Amounts
<1>2. S \cup {o} \in SUBSET Numbers /\ S \in SUBSET Numbers /\ o \notin S /\ \A p \in S \cup {o} : f[p] \in Nat
  BY <1>1, FillsAssumption DEF Numbers
<1> HIDE DEF f
<1>3. IsFiniteSet(Numbers) /\ IsFiniteSet(S)
  BY NumbersFinite
<1> HIDE DEF S
<1>4. SumFunctionOnSet(f, S \cup {o}) = f[o] + SumFunctionOnSet(f, S)
  BY <1>2, <1>3, SumAdd
<1>5. SumFunctionOnSet(f, S \cup {o}) <= SumFunctionOnSet(f, Numbers)
  BY <1>1, <1>2, <1>3, SumLess
<1>6. SumFunctionOnSet(f, S) \in Nat /\ SumFunctionOnSet(f, Numbers) \in Nat
  BY <1>1, <1>2, <1>3, SumType
<1>7. Before(v, o) = SumFunctionOnSet(f, S) /\ Total(v) = SumFunctionOnSet(f, Numbers)
  BY DEF Before, Total, f, S
<1> QED BY <1>1, <1>4, <1>5, <1>6, <1>7

\* Before the next order comes what was before this one, and its own.
LEMMA BeforeNext ==
    ASSUME NEW v \in [Numbers -> Records], NEW o \in Numbers, o + 1 \in Numbers
    PROVE  Before(v, o + 1) = Before(v, o) + v[o].filled
<1> DEFINE f == [p \in Numbers |-> v[p].filled]
           S == {p \in Numbers : p < o}
<1>1. \A p \in Numbers : f[p] \in Nat /\ f[p] = v[p].filled
  BY FillsAssumption DEF Records, Amounts
<1>2. S \cup {o} = {p \in Numbers : p < o + 1} /\ o \notin S /\ \A p \in S \cup {o} : f[p] \in Nat
  BY <1>1, FillsAssumption DEF Numbers
<1>3. IsFiniteSet(S)
  BY NumbersFinite
<1>4. SumFunctionOnSet(f, S \cup {o}) = f[o] + SumFunctionOnSet(f, S)
  <2> HIDE DEF f, S
  <2> QED BY <1>2, <1>3, SumAdd
<1>5. SumFunctionOnSet(f, S) \in Nat
  <2>1. \A p \in S : f[p] \in Nat
    BY <1>1
  <2> HIDE DEF f, S
  <2> QED BY <1>3, <2>1, SumType
<1>6. Before(v, o) = SumFunctionOnSet(f, S) /\ Before(v, o + 1) = SumFunctionOnSet(f, S \cup {o})
  BY <1>2 DEF Before
<1> HIDE DEF f, S
<1> QED BY <1>1, <1>4, <1>5, <1>6

\* Nothing was filled before the first,
LEMMA BeforeFirst ==
    ASSUME NEW v \in [Numbers -> Records]
    PROVE  Before(v, 1) = 0
<1>1. {p \in Numbers : p < 1} = {}
  BY FillsAssumption DEF Numbers
<1> QED BY <1>1, SumEmpty DEF Before

\* and what the orders before filled is the same while they are.
LEMMA BeforeSame ==
    ASSUME NEW v \in [Numbers -> Records], NEW w \in [Numbers -> Records], NEW o \in Numbers,
           \A p \in Numbers : p < o => w[p].filled = v[p].filled
    PROVE  Before(w, o) = Before(v, o)
<1> DEFINE f == [p \in Numbers |-> v[p].filled]
           g == [p \in Numbers |-> w[p].filled]
           S == {p \in Numbers : p < o}
<1>1. \A p \in S : f[p] \in Nat /\ f[p] = g[p]
  BY FillsAssumption DEF Records, Amounts
<1>2. IsFiniteSet(S)
  BY NumbersFinite
<1>3. SumFunctionOnSet(f, S) = SumFunctionOnSet(g, S)
  <2> HIDE DEF f, g, S
  <2> QED BY <1>1, <1>2, SumAgrees
<1> QED BY <1>3 DEF Before

\* The total of orders of which one changed.
LEMMA TotalChanges ==
    ASSUME NEW v \in [Numbers -> Records], NEW w \in [Numbers -> Records], NEW o \in Numbers,
           \A p \in Numbers : p # o => w[p].filled = v[p].filled
    PROVE  Total(w) + v[o].filled = Total(v) + w[o].filled
<1> DEFINE f == [p \in Numbers |-> v[p].filled]
           g == [p \in Numbers |-> w[p].filled]
           S == Numbers \ {o}
<1>1. /\ \A p \in Numbers : f[p] \in Nat /\ g[p] \in Nat
      /\ \A p \in S : f[p] \in Nat /\ f[p] = g[p]
      /\ f[o] = v[o].filled /\ g[o] = w[o].filled
  BY FillsAssumption DEF Records, Amounts
<1>2. IsFiniteSet(S) /\ IsFiniteSet(Numbers)
  BY NumbersFinite
<1>3. SumFunctionOnSet(f, S) = SumFunctionOnSet(g, S)
  <2> HIDE DEF f, g, S
  <2> QED BY <1>1, <1>2, SumAgrees
<1>4. /\ SumFunctionOnSet(f, Numbers) = f[o] + SumFunctionOnSet(f, S)
      /\ SumFunctionOnSet(g, Numbers) = g[o] + SumFunctionOnSet(g, S)
  <2> HIDE DEF f, g
  <2> QED BY <1>1, <1>2, SumRemove
<1>5. SumFunctionOnSet(f, S) \in Nat
  <2> HIDE DEF f, g, S
  <2> QED BY <1>1, <1>2, SumType
<1>6. Total(v) = SumFunctionOnSet(f, Numbers) /\ Total(w) = SumFunctionOnSet(g, Numbers)
  BY DEF Total
<1>7. f[o] \in Nat /\ g[o] \in Nat
  BY <1>1
<1> HIDE DEF f, g, S
<1> QED BY <1>1, <1>3, <1>4, <1>5, <1>6, <1>7

\* Where no order is made beyond `o`, the total is what was filled before it and its own.
LEMMA TotalOfLast ==
    ASSUME NEW v \in [Numbers -> Records], NEW o \in Numbers, \A p \in Numbers : p > o => v[p].filled = 0
    PROVE  Total(v) = Before(v, o) + v[o].filled
<1> DEFINE f == [p \in Numbers |-> v[p].filled]
           S == {p \in Numbers : p < o}
           T == {p \in Numbers : p > o}
<1>1. /\ \A p \in Numbers : f[p] \in Nat
      /\ \A p \in T : f[p] = 0
      /\ f[o] = v[o].filled
  BY FillsAssumption DEF Records, Amounts
<1>2. IsFiniteSet(S) /\ IsFiniteSet(Numbers) /\ IsFiniteSet(T) /\ IsFiniteSet(Numbers \ {o})
  BY NumbersFinite
<1>3. (Numbers \ {o}) \ S = T /\ S \in SUBSET (Numbers \ {o})
  BY FillsAssumption DEF Numbers
<1>4. SumFunctionOnSet(f, T) = 0
  <2> HIDE DEF f, T
  <2> QED BY <1>1, <1>2, SumNothing
<1>5. SumFunctionOnSet(f, Numbers) = f[o] + SumFunctionOnSet(f, Numbers \ {o})
  <2> HIDE DEF f
  <2> QED BY <1>1, <1>2, SumRemove
<1>6. SumFunctionOnSet(f, Numbers \ {o}) = SumFunctionOnSet(f, S) + SumFunctionOnSet(f, (Numbers \ {o}) \ S)
  <2>1. \A p \in Numbers \ {o} : f[p] \in Nat
    BY <1>1
  <2> HIDE DEF f, S, T
  <2> QED BY <2>1, <1>2, <1>3, SumParts
<1>7. SumFunctionOnSet(f, S) \in Nat
  <2>1. \A p \in S : f[p] \in Nat
    BY <1>1
  <2> HIDE DEF f, S, T
  <2> QED BY <2>1, <1>2, SumType
<1>8. Total(v) = SumFunctionOnSet(f, Numbers) /\ Before(v, o) = SumFunctionOnSet(f, S)
  BY DEF Total, Before
<1>9. f[o] \in Nat
  BY <1>1
<1> HIDE DEF f, S, T
<1>10. SumFunctionOnSet(f, (Numbers \ {o}) \ S) = 0
  BY <1>3, <1>4
<1>11. f[o] = v[o].filled
  BY <1>1
<1> QED BY <1>5, <1>6, <1>7, <1>8, <1>9, <1>10, <1>11

\* What executions of the book amount to.
LEMMA AmountType ==
    ASSUME NEW S \in SUBSET Executions, IsFiniteSet(S)
    PROVE  /\ Amount(S) \in Nat
           /\ \A T \in SUBSET S : Amount(T) \in Nat /\ Amount(T) <= Amount(S)
                                   /\ Amount(S) = Amount(T) + Amount(S \ T)
<1> DEFINE f == [e \in Executions |-> e.quantity]
<1>1. \A e \in S : f[e] \in Nat
  BY FillsAssumption DEF Executions, Amounts
<1> HIDE DEF f
<1>2. SumFunctionOnSet(f, S) \in Nat
  BY <1>1, SumType
<1>3. ASSUME NEW T \in SUBSET S
      PROVE  /\ SumFunctionOnSet(f, T) \in Nat /\ SumFunctionOnSet(f, T) <= SumFunctionOnSet(f, S)
             /\ SumFunctionOnSet(f, S) = SumFunctionOnSet(f, T) + SumFunctionOnSet(f, S \ T)
  <2>1. IsFiniteSet(T) /\ \A e \in T : f[e] \in Nat
    BY <1>1, FS_Subset
  <2>2. SumFunctionOnSet(f, T) \in Nat
    BY <2>1, SumType
  <2> QED BY <1>1, <2>2, SumLess, SumParts
<1> QED BY <1>2, <1>3 DEF Amount, f

\* No executions amount to nothing,
LEMMA AmountEmpty == Amount({}) = 0
BY SumEmpty DEF Amount

\* and one more adds its quantity.
LEMMA AmountAdd ==
    ASSUME NEW S \in SUBSET Executions, IsFiniteSet(S), NEW x \in Executions, x \notin S
    PROVE  Amount(S \cup {x}) = Amount(S) + x.quantity
<1> DEFINE f == [e \in Executions |-> e.quantity]
<1>1. (\A e \in S \cup {x} : f[e] \in Nat) /\ f[x] = x.quantity /\ f[x] \in Nat /\ \A e \in S : f[e] \in Nat
  BY FillsAssumption DEF Executions, Amounts
<1> HIDE DEF f
<1>2. SumFunctionOnSet(f, S \cup {x}) = f[x] + SumFunctionOnSet(f, S)
  BY <1>1, SumAdd
<1>3. SumFunctionOnSet(f, S) \in Nat
  BY <1>1, SumType
<1>4. Amount(S \cup {x}) = f[x] + Amount(S) /\ Amount(S) \in Nat
  BY <1>2, <1>3 DEF Amount, f
<1> QED BY <1>1, <1>4

-----------------------------------------------------------------------------
(* The venue's steps are changes of one order. *)

\* The order that stands is the last, and those before it were replaced.
LEMMA LastStands ==
    ASSUME TypeOK, Lined, NEW o \in Numbers, venue[o].status \notin {"none", "replaced"}
    PROVE  /\ \A p \in Numbers : p > o => venue[p].status = "none" /\ venue[p].filled = 0 /\ venue[p].at = 0
           /\ \A p \in Numbers : p < o => venue[p].status = "replaced"
           /\ Total(venue) = Before(venue, o) + venue[o].filled
<1>1. ASSUME NEW p \in Numbers, p > o PROVE venue[p].status = "none" /\ venue[p].filled = 0 /\ venue[p].at = 0
  BY <1>1 DEF Lined
<1>2. ASSUME NEW p \in Numbers, p < o PROVE venue[p].status = "replaced"
  BY <1>2 DEF Lined
<1>3. venue \in [Numbers -> Records]
  BY DEF TypeOK
<1> QED BY <1>1, <1>2, <1>3, TotalOfLast

\* The order that stands is the last made.
LEMMA CurrentIs ==
    ASSUME TypeOK, Lined
    PROVE  /\ Current \in Numbers /\ venue[Current].status # "none"
           /\ \A p \in Numbers : venue[p].status # "none" => p <= Current
<1>1. Made \in SUBSET (0..Orders) /\ 1 \in Made /\ Orders \in Nat
  BY FillsAssumption DEF Made, Numbers, Lined
<1>2. Max(Made) \in Made /\ \A y \in Made : Max(Made) >= y
  BY <1>1, MaxIsGreatest
<1>3. Made \subseteq Numbers
  BY DEF Made
<1> HIDE DEF Made
<1>4. Current \in Made /\ \A y \in Made : y <= Current
  BY <1>1, <1>2, <1>3 DEF Current, Numbers
<1> QED BY <1>4 DEF Made

\* What a step of the venue does to its orders, of which `c` stands.
Change(b, c) ==
    /\ c \in Numbers /\ venue[c].status \in {"open", "filled"} /\ venue' \in [Numbers -> Records]
    /\ venue'[c].at = venue[c].at + 1 /\ venue'[c].status # "none"
    /\ venue[c].status = "filled" => venue'[c].status = "filled"
    /\ \A o \in Numbers \ {c} :
         \/ venue'[o] = venue[o]
         \/ /\ o = c + 1 /\ venue'[c].status = "replaced"
            /\ venue'[o] = [status |-> "open", filled |-> 0, at |-> 1]
    /\ venue'[c].status = "replaced" =>
         /\ venue'[c].filled = venue[c].filled /\ ~Still(b)
         /\ c + 1 \in Numbers /\ venue'[c + 1].status = "open"
    /\ venue'[c].filled < venue[c].filled => ~Plain(b) /\ (venue[c].status = "filled" \/ b["taken"] > 0)
    /\ peak' \in Amounts /\ peak <= peak' /\ Total(venue)' <= peak'
    /\ taken' \subseteq Ids /\ taken \subseteq taken' /\ (Plain(b) => taken' = taken)
    /\ \A n \in venue'[c].filled + 1 .. venue[c].filled : <<c, n>> \in taken'
    /\ \A id \in taken' : id \in taken \/ (id[1] = c /\ (venue[c].status = "filled" \/ b["taken"] > 0))
    /\ Bounded(b)' /\ left' \in [Mishaps -> Nat]
    /\ UNCHANGED bookVars

\* What is spent was left.
LEMMA Spends ==
    ASSUME TypeOK, NEW b \in [Mishaps -> Nat], Bounded(b), NEW m \in Mishaps, Spend(m)
    PROVE  Bounded(b)' /\ left' \in [Mishaps -> Nat] /\ b[m] > 0
<1>1. left \in [Mishaps -> Nat] /\ left[m] > 0 /\ left[m] <= b[m]
  BY DEF TypeOK, Spend, Bounded
<1>2. left' = [left EXCEPT ![m] = left[m] - 1]
  BY DEF Spend
<1>3. left' \in [Mishaps -> Nat]
  BY <1>1, <1>2
<1>4. \A n \in Mishaps : left'[n] <= left[n]
  BY <1>1, <1>2
<1>5. \A n \in Mishaps : left'[n] <= b[n]
  BY <1>1, <1>3, <1>4 DEF Bounded
<1> QED BY <1>1, <1>3, <1>5 DEF Bounded

\* The venue's own steps are such changes: a fill,
LEMMA FillsChange ==
    ASSUME TypeOK, NEW b \in [Mishaps -> Nat], Bounded(b), Lined, FillsAtVenue
    PROVE  Change(b, Current)
<1> DEFINE c == Current
<1>0. c \in Numbers /\ venue \in [Numbers -> Records] /\ peak \in Amounts /\ taken \subseteq Ids
  BY CurrentIs DEF TypeOK
<1>1. PICK n \in 1..Quantity :
         /\ venue[c].status = "open" /\ Total(venue) + n <= Quantity
         /\ Restated(c, "open", venue[c].filled + n) \/ Restated(c, "filled", venue[c].filled + n)
         /\ peak' = Max({peak, Total(venue')})
         /\ UNCHANGED <<taken, bookVars, left>>
  BY DEF FillsAtVenue
<1> HIDE DEF c
<1>2. PICK s \in {"open", "filled"} :
         venue' = [venue EXCEPT ![c] = [status |-> s, filled |-> venue[c].filled + n, at |-> venue[c].at + 1]]
  BY <1>1 DEF Restated
<1>3. venue[c] \in Records /\ venue[c].filled \in Nat /\ venue[c].at \in Nat /\ n \in Nat /\ Quantity \in Nat
  BY <1>0, FillsAssumption DEF Records, Amounts
<1>4. Total(venue) \in Nat /\ Before(venue, c) \in Nat /\ Before(venue, c) + venue[c].filled <= Total(venue)
  BY <1>0, BeforeType
<1>5. venue[c].filled + n \in Amounts
  BY <1>1, <1>3, <1>4 DEF Amounts
<1>6. /\ venue'[c] = [status |-> s, filled |-> venue[c].filled + n, at |-> venue[c].at + 1]
      /\ \A o \in Numbers \ {c} : venue'[o] = venue[o]
  BY <1>0, <1>2
<1>7. venue' \in [Numbers -> Records]
  <2>1. [status |-> s, filled |-> venue[c].filled + n, at |-> venue[c].at + 1] \in Records
    BY <1>3, <1>5 DEF Records, States
  <2> QED BY <1>0, <1>2, <2>1
<1>8. Total(venue') = Total(venue) + n
  <2>1. Total(venue') + venue[c].filled = Total(venue) + venue'[c].filled
    BY <1>0, <1>6, <1>7, TotalChanges
  <2>2. Total(venue') \in Nat
    BY <1>0, <1>7, BeforeType
  <2>3. venue'[c].filled = venue[c].filled + n
    BY <1>6
  <2> QED BY <1>3, <1>4, <2>1, <2>2, <2>3
<1>9. peak' \in Amounts /\ peak <= peak' /\ Total(venue') <= peak'
  <2>1. {peak, Total(venue')} \in SUBSET (0..Quantity)
    BY <1>0, <1>1, <1>3, <1>4, <1>8 DEF Amounts
  <2> DEFINE S == {peak, Total(venue')}
  <2>2. Max(S) \in S /\ \A y \in S : Max(S) >= y
    <3>1. S \in SUBSET (0..Quantity) /\ S # {}
      BY <2>1
    <3> HIDE DEF S
    <3> QED BY <1>3, <3>1, MaxIsGreatest
  <2>3. peak' \in 0..Quantity /\ peak' >= peak /\ peak' >= Total(venue')
    BY <1>1, <2>1, <2>2
  <2>4. peak \in 0..Quantity /\ Total(venue') \in 0..Quantity
    BY <2>1
  <2> QED BY <1>3, <2>3, <2>4 DEF Amounts
<1>10. Total(venue)' = Total(venue')
  BY DEF Total
<1>11. Bounded(b)' /\ left' \in [Mishaps -> Nat]
  BY <1>1 DEF Bounded, TypeOK
<1>12. venue'[c].filled = venue[c].filled + n /\ venue'[c].at = venue[c].at + 1 /\ venue'[c].status = s
  BY <1>6
<1>13. \A k \in venue'[c].filled + 1 .. venue[c].filled : <<c, k>> \in taken'
  BY <1>3, <1>12
<1>14. ~(venue'[c].filled < venue[c].filled)
  BY <1>3, <1>12
<1>15. Change(b, c)
  BY <1>0, <1>1, <1>2, <1>6, <1>7, <1>9, <1>10, <1>11, <1>12, <1>13, <1>14 DEF Change
<1> QED BY <1>15 DEF c

\* one taken back,
LEMMA TakesChange ==
    ASSUME TypeOK, NEW b \in [Mishaps -> Nat], Bounded(b), Lined, TakesBack
    PROVE  Change(b, Current)
<1> DEFINE c == Current
<1>0. c \in Numbers /\ venue \in [Numbers -> Records] /\ peak \in Amounts /\ taken \subseteq Ids
  BY CurrentIs DEF TypeOK
<1>1. /\ venue[c].filled > 0
      /\ (venue[c].status = "open" /\ Spend("taken")) \/ (venue[c].status = "filled" /\ Spend("late"))
      /\ Restated(c, venue[c].status, venue[c].filled - 1)
      /\ taken' = taken \cup {<<c, venue[c].filled>>}
      /\ UNCHANGED <<peak, bookVars>>
  BY DEF TakesBack
<1> HIDE DEF c
<1>2. venue' = [venue EXCEPT ![c] = [status |-> venue[c].status, filled |-> venue[c].filled - 1,
                                     at |-> venue[c].at + 1]]
  BY <1>1 DEF Restated
<1>3. venue[c] \in Records /\ venue[c].filled \in Amounts /\ venue[c].filled \in Nat /\ venue[c].at \in Nat
      /\ Quantity \in Nat
  BY <1>0, FillsAssumption DEF Records, Amounts
<1>5. venue[c].filled - 1 \in Amounts
  BY <1>1, <1>3 DEF Amounts
<1>6. /\ venue'[c] = [status |-> venue[c].status, filled |-> venue[c].filled - 1, at |-> venue[c].at + 1]
      /\ \A o \in Numbers \ {c} : venue'[o] = venue[o]
  BY <1>0, <1>2
<1>7. venue' \in [Numbers -> Records]
  <2>1. [status |-> venue[c].status, filled |-> venue[c].filled - 1, at |-> venue[c].at + 1] \in Records
    BY <1>3, <1>5 DEF Records
  <2> QED BY <1>0, <1>2, <2>1
<1>12. venue'[c].filled = venue[c].filled - 1 /\ venue'[c].at = venue[c].at + 1 /\ venue'[c].status = venue[c].status
  BY <1>6
<1>8. Total(venue') <= Total(venue) /\ Total(venue) <= peak
  <2>1. Total(venue') + venue[c].filled = Total(venue) + venue'[c].filled
    BY <1>0, <1>6, <1>7, TotalChanges
  <2>2. Total(venue') \in Nat /\ Total(venue) \in Nat
    BY <1>0, <1>7, BeforeType
  <2>3. Total(venue) <= peak
    BY DEF Lined
  <2> QED BY <1>3, <1>12, <2>1, <2>2, <2>3
<1>9. peak' \in Amounts /\ peak <= peak' /\ Total(venue') <= peak'
  <2>1. Total(venue') \in Nat /\ Total(venue) \in Nat /\ peak \in Nat
    BY <1>0, <1>7, BeforeType DEF Amounts
  <2> QED BY <1>0, <1>1, <1>8, <2>1 DEF Amounts
<1>10. Total(venue)' = Total(venue')
  BY DEF Total
<1>11. Bounded(b)' /\ left' \in [Mishaps -> Nat] /\ (b["taken"] > 0 \/ (venue[c].status = "filled" /\ b["late"] > 0))
  BY <1>1, Spends DEF Mishaps
<1>13. \A k \in venue'[c].filled + 1 .. venue[c].filled : <<c, k>> \in taken'
  BY <1>1, <1>3, <1>12
<1>14. ~Plain(b)
  BY <1>11 DEF Plain
<1>16. taken' \subseteq Ids
  BY <1>0, <1>1, <1>3 DEF Ids
<1>17. \A id \in taken' : id \in taken \/ id[1] = c
  BY <1>1
<1>18. venue[c].status \in {"open", "filled"}
  BY <1>1
<1>15. Change(b, c)
  BY <1>0, <1>1, <1>6, <1>7, <1>9, <1>10, <1>11, <1>12, <1>13, <1>14, <1>16, <1>17, <1>18 DEF Change
<1> QED BY <1>15 DEF c

\* a cancel,
LEMMA CancelsChange ==
    ASSUME TypeOK, NEW b \in [Mishaps -> Nat], Bounded(b), Lined, CancelsAtVenue
    PROVE  Change(b, Current)
<1> DEFINE c == Current
<1>0. c \in Numbers /\ venue \in [Numbers -> Records] /\ peak \in Amounts /\ taken \subseteq Ids
  BY CurrentIs DEF TypeOK
<1>1. /\ venue[c].status = "open" /\ Restated(c, "cancelled", venue[c].filled)
      /\ UNCHANGED <<peak, taken, bookVars, left>>
  BY DEF CancelsAtVenue
<1> HIDE DEF c
<1>2. venue' = [venue EXCEPT ![c] = [status |-> "cancelled", filled |-> venue[c].filled, at |-> venue[c].at + 1]]
  BY <1>1 DEF Restated
<1>3. venue[c] \in Records /\ venue[c].filled \in Amounts /\ venue[c].filled \in Nat /\ venue[c].at \in Nat
  BY <1>0, FillsAssumption DEF Records, Amounts
<1>6. /\ venue'[c] = [status |-> "cancelled", filled |-> venue[c].filled, at |-> venue[c].at + 1]
      /\ \A o \in Numbers \ {c} : venue'[o] = venue[o]
  BY <1>0, <1>2
<1>7. venue' \in [Numbers -> Records]
  <2>1. [status |-> "cancelled", filled |-> venue[c].filled, at |-> venue[c].at + 1] \in Records
    BY <1>3 DEF Records, States
  <2> QED BY <1>0, <1>2, <2>1
<1>12. venue'[c].filled = venue[c].filled /\ venue'[c].at = venue[c].at + 1 /\ venue'[c].status = "cancelled"
  BY <1>6
<1>9. peak' \in Amounts /\ peak <= peak' /\ Total(venue') <= peak'
  <2>1. Total(venue') + venue[c].filled = Total(venue) + venue'[c].filled
    BY <1>0, <1>6, <1>7, TotalChanges
  <2>2. Total(venue') \in Nat /\ Total(venue) \in Nat
    BY <1>0, <1>7, BeforeType
  <2>3. Total(venue) <= peak
    BY DEF Lined
  <2> QED BY <1>0, <1>1, <1>3, <1>12, <2>1, <2>2, <2>3 DEF Amounts
<1>10. Total(venue)' = Total(venue')
  BY DEF Total
<1>11. Bounded(b)' /\ left' \in [Mishaps -> Nat]
  BY <1>1 DEF Bounded, TypeOK
<1>13. \A k \in venue'[c].filled + 1 .. venue[c].filled : <<c, k>> \in taken'
  BY <1>3, <1>12
<1>14. ~(venue'[c].filled < venue[c].filled)
  BY <1>3, <1>12
<1>15. Change(b, c)
  BY <1>0, <1>1, <1>6, <1>7, <1>9, <1>10, <1>11, <1>12, <1>13, <1>14 DEF Change
<1> QED BY <1>15 DEF c

\* and a replace, whoever asks for it.
LEMMA ReplacesChange ==
    ASSUME TypeOK, NEW b \in [Mishaps -> Nat], Bounded(b), Lined, NEW c \in Numbers, Replaces(c),
           Spend("replace") \/ Spend("unanswered") \/ Spend("restate"),
           UNCHANGED <<peak, taken, bookVars>>
    PROVE  Change(b, c)
<1>0. venue \in [Numbers -> Records] /\ peak \in Amounts /\ taken \subseteq Ids
  BY DEF TypeOK
<1>1. /\ c + 1 \in Numbers /\ venue[c].status = "open"
      /\ venue' = [venue EXCEPT ![c].status = "replaced", ![c].at = @ + 1,
                              ![c + 1] = [status |-> "open", filled |-> 0, at |-> 1]]
  BY DEF Replaces
<1>3. venue[c] \in Records /\ venue[c].filled \in Amounts /\ venue[c].filled \in Nat /\ venue[c].at \in Nat
      /\ c \in Nat /\ 0 \in Amounts
  BY <1>0, FillsAssumption DEF Records, Amounts, Numbers
<1>6. /\ venue'[c] = [status |-> "replaced", filled |-> venue[c].filled, at |-> venue[c].at + 1]
      /\ venue'[c + 1] = [status |-> "open", filled |-> 0, at |-> 1]
      /\ \A o \in Numbers : o \notin {c, c + 1} => venue'[o] = venue[o]
      /\ DOMAIN venue' = Numbers
  <2>1. c # c + 1
    BY <1>3
  <2>2. venue' = [[venue EXCEPT ![c] = [status |-> "replaced", filled |-> venue[c].filled, at |-> venue[c].at + 1]]
                  EXCEPT ![c + 1] = [status |-> "open", filled |-> 0, at |-> 1]]
    BY <1>0, <1>1, <1>3, <2>1 DEF Records
  <2> QED BY <1>0, <1>1, <2>1, <2>2
<1>7. venue' \in [Numbers -> Records]
  <2>1. venue'[c] \in Records /\ venue'[c + 1] \in Records
    BY <1>3, <1>6 DEF Records, States
  <2>2. \A o \in Numbers : venue'[o] \in Records
    BY <1>0, <1>6, <2>1
  <2>3. venue' = [o \in Numbers |-> venue'[o]]
    BY <1>0, <1>1
  <2> QED BY <2>2, <2>3
<1>12. venue'[c].filled = venue[c].filled /\ venue'[c].at = venue[c].at + 1 /\ venue'[c].status = "replaced"
       /\ venue'[c + 1].status = "open" /\ venue'[c + 1].filled = 0
  BY <1>6
<1>8. venue[c + 1].filled = 0
  BY <1>1, <1>3, LastStands
<1>9. peak' \in Amounts /\ peak <= peak' /\ Total(venue') <= peak'
  <2>0. \A p \in Numbers : p # c => venue'[p].filled = venue[p].filled
    BY <1>6, <1>8
  <2>1. Total(venue') + venue[c].filled = Total(venue) + venue'[c].filled
    BY <1>0, <2>0, <1>7, TotalChanges
  <2>2. Total(venue') \in Nat /\ Total(venue) \in Nat
    BY <1>0, <1>7, BeforeType
  <2>3. Total(venue) <= peak
    BY DEF Lined
  <2> QED BY <1>0, <1>3, <1>12, <2>1, <2>2, <2>3 DEF Amounts
<1>10. Total(venue)' = Total(venue')
  BY DEF Total
<1>11. Bounded(b)' /\ left' \in [Mishaps -> Nat] /\ ~Still(b)
  <2>1. "replace" \in Mishaps /\ "unanswered" \in Mishaps /\ "restate" \in Mishaps
    BY DEF Mishaps
  <2>2. Bounded(b)' /\ left' \in [Mishaps -> Nat] /\ (b["replace"] > 0 \/ b["unanswered"] > 0 \/ b["restate"] > 0)
    BY <2>1, Spends
  <2> QED BY <2>2 DEF Still
<1>13. \A k \in venue'[c].filled + 1 .. venue[c].filled : <<c, k>> \in taken'
  BY <1>3, <1>12
<1>14. ~(venue'[c].filled < venue[c].filled)
  BY <1>3, <1>12
<1>16. \A o \in Numbers \ {c} :
         \/ venue'[o] = venue[o]
         \/ o = c + 1 /\ venue'[o] = [status |-> "open", filled |-> 0, at |-> 1]
  BY <1>6
<1> QED BY <1>0, <1>1, <1>7, <1>9, <1>10, <1>11, <1>12, <1>13, <1>14, <1>16 DEF Change

-----------------------------------------------------------------------------
(* What a change leaves. *)

\* What stays of the orders at such a step.
LEMMA ChangeShape ==
    ASSUME TypeOK, Lined, NEW b, NEW c, Change(b, c)
    PROVE  /\ c \in Numbers /\ venue \in [Numbers -> Records] /\ venue' \in [Numbers -> Records]
           /\ \A o \in Numbers : o < c => venue'[o] = venue[o] /\ venue[o].status = "replaced"
           /\ \A o \in Numbers : o > c => venue[o].status = "none" /\ venue[o].at = 0 /\ venue'[o].filled = 0
           /\ \A o \in Numbers : venue[o].status # "none" =>
                o <= c /\ venue'[o].status # "none" /\ Before(venue', o) = Before(venue, o)
           /\ \A o \in Numbers : venue[o].at <= venue'[o].at /\ venue[o].at \in Nat /\ venue'[o].at \in Nat
           /\ \A o \in Numbers : venue[o].status = "filled" => venue'[o].status = "filled"
<1>1. /\ c \in Numbers /\ venue[c].status \in {"open", "filled"} /\ venue' \in [Numbers -> Records]
      /\ venue'[c].at = venue[c].at + 1 /\ venue'[c].status # "none"
      /\ venue[c].status = "filled" => venue'[c].status = "filled"
      /\ \A o \in Numbers \ {c} :
         \/ venue'[o] = venue[o]
         \/ /\ o = c + 1 /\ venue'[c].status = "replaced"
            /\ venue'[o] = [status |-> "open", filled |-> 0, at |-> 1]
  BY DEF Change
<1>2. venue \in [Numbers -> Records] /\ c \in Nat /\ Numbers \subseteq Nat
  BY <1>1, FillsAssumption DEF TypeOK, Numbers
<1>3. /\ \A p \in Numbers : p > c => venue[p].status = "none" /\ venue[p].filled = 0 /\ venue[p].at = 0
      /\ \A p \in Numbers : p < c => venue[p].status = "replaced"
  BY <1>1, LastStands
<1>4. ASSUME NEW o \in Numbers, o < c PROVE venue'[o] = venue[o]
  BY <1>1, <1>2, <1>4
<1>5. ASSUME NEW o \in Numbers, o > c PROVE venue'[o].filled = 0
  BY <1>1, <1>2, <1>3, <1>5
<1>6. ASSUME NEW o \in Numbers, venue[o].status # "none"
      PROVE  o <= c /\ venue'[o].status # "none" /\ Before(venue', o) = Before(venue, o)
  <2>1. o <= c
    BY <1>2, <1>3, <1>6
  <2>2. venue'[o].status # "none"
    BY <1>1, <1>2, <1>4, <1>6, <2>1
  <2>3. \A p \in Numbers : p < o => venue'[p].filled = venue[p].filled
    BY <1>2, <1>4, <2>1
  <2>4. Before(venue', o) = Before(venue, o)
    BY <1>1, <1>2, <2>3, BeforeSame
  <2> QED BY <2>1, <2>2, <2>4
<1>7. ASSUME NEW o \in Numbers PROVE venue[o].at <= venue'[o].at /\ venue[o].at \in Nat /\ venue'[o].at \in Nat
  <2>1. venue[o].at \in Nat /\ venue'[o].at \in Nat
    BY <1>1, <1>2 DEF Records
  <2>2. CASE o > c
    <3>1. venue[o].at = 0
      BY <1>3, <2>2
    <3> QED BY <2>1, <3>1
  <2>3. CASE o = c
    BY <1>1, <2>1, <2>3
  <2>4. CASE o < c
    BY <1>4, <2>1, <2>4
  <2> QED BY <1>2, <2>2, <2>3, <2>4
<1>8. ASSUME NEW o \in Numbers, venue[o].status = "filled" PROVE venue'[o].status = "filled"
  BY <1>1, <1>2, <1>3, <1>4, <1>8
<1> QED BY <1>1, <1>2, <1>3, <1>4, <1>5, <1>6, <1>7, <1>8

\* The orders stay in line.
LEMMA LinedChanges ==
    ASSUME TypeOK, Lined, NEW b, NEW c, Change(b, c)
    PROVE  Lined'
<1>1. /\ c \in Numbers /\ venue \in [Numbers -> Records] /\ venue' \in [Numbers -> Records]
      /\ \A o \in Numbers : o < c => venue'[o] = venue[o] /\ venue[o].status = "replaced"
      /\ \A o \in Numbers : o > c => venue[o].status = "none" /\ venue[o].at = 0 /\ venue'[o].filled = 0
      /\ \A o \in Numbers : venue[o].status # "none" => venue'[o].status # "none"
  BY ChangeShape
<1>2. /\ venue'[c].status # "none"
      /\ \A o \in Numbers \ {c} :
         \/ venue'[o] = venue[o]
         \/ /\ o = c + 1 /\ venue'[c].status = "replaced"
            /\ venue'[o] = [status |-> "open", filled |-> 0, at |-> 1]
      /\ venue'[c].status = "replaced" => c + 1 \in Numbers /\ venue'[c + 1].status = "open"
      /\ Total(venue)' <= peak'
  BY DEF Change
<1>3. Numbers \subseteq Nat /\ c \in Nat /\ 1 \in Numbers
  BY <1>1, FillsAssumption DEF Numbers
<1>4. venue'[1].status # "none"
  BY <1>1, <1>3 DEF Lined
<1>5. ASSUME NEW p \in Numbers, NEW q \in Numbers, p < q, venue'[q].status # "none"
      PROVE  venue'[p].status = "replaced"
  <2>1. CASE q <= c
    BY <1>1, <1>3, <1>5, <2>1
  <2>2. CASE q > c
    <3>1. q = c + 1 /\ venue'[c].status = "replaced"
      BY <1>1, <1>2, <1>3, <1>5, <2>2
    <3> QED BY <1>1, <1>3, <1>5, <3>1
  <2> QED BY <1>3, <2>1, <2>2
<1>6. ASSUME NEW p \in Numbers, venue'[p].status = "replaced"
      PROVE  p + 1 \in Numbers /\ venue'[p + 1].status # "none"
  <2>1. CASE p = c
    BY <1>2, <1>6, <2>1
  <2>2. CASE p < c
    <3>1. p + 1 \in Numbers /\ venue[p + 1].status # "none"
      BY <1>1, <2>2 DEF Lined
    <3> QED BY <1>1, <3>1
  <2>3. CASE p > c
    BY <1>1, <1>2, <1>3, <1>6, <2>3
  <2> QED BY <1>3, <2>1, <2>2, <2>3
<1>7. ASSUME NEW p \in Numbers, venue'[p].status = "none" PROVE venue'[p].filled = 0 /\ venue'[p].at = 0
  <2>1. p > c
    BY <1>1, <1>2, <1>3, <1>7
  <2>2. venue'[p] = venue[p]
    BY <1>2, <1>3, <1>7, <2>1
  <2> QED BY <1>1, <2>1, <2>2
<1> QED BY <1>2, <1>4, <1>5, <1>6, <1>7 DEF Lined

\* What is known of an order: what was, and what is now.
LEMMA KnownGrows ==
    ASSUME TypeOK, NEW c \in Numbers, venue' \in [Numbers -> Records],
           updates' = updates \/ updates' = Append(updates, [of |-> c, record |-> venue'[c]]),
           job' = job \/ job'.orders = venue', NEW o \in Numbers
    PROVE  Known(o)' \subseteq Known(o) \cup {venue'[o]}
<1> DEFINE Heard == {updates[i].record : i \in {k \in 1..Len(updates) : updates[k].of = o}}
           Heard1 == {updates'[i].record : i \in {k \in 1..Len(updates') : updates'[k].of = o}}
           Read == {j.orders[o] : j \in {job} \ {None}}
           Read1 == {j.orders[o] : j \in {job'} \ {None}}
<1>1. Heard1 \subseteq Heard \cup {venue'[o]}
  <2>1. CASE updates' = updates
    BY <2>1
  <2>2. CASE updates' = Append(updates, [of |-> c, record |-> venue'[c]])
    <3>1. updates \in Seq([of : Numbers, record : Records]) /\ Len(updates) \in Nat
      BY DEF TypeOK
    <3>2. [of |-> c, record |-> venue'[c]] \in [of : Numbers, record : Records]
      OBVIOUS
    <3>3. /\ Len(updates') = Len(updates) + 1
          /\ \A i \in 1..Len(updates) : updates'[i] = updates[i]
          /\ updates'[Len(updates) + 1] = [of |-> c, record |-> venue'[c]]
      BY <2>2, <3>1, <3>2
    <3>4. ASSUME NEW i \in 1..Len(updates'), updates'[i].of = o
          PROVE  updates'[i].record \in Heard \cup {venue'[o]}
      <4>1. CASE i \in 1..Len(updates)
        BY <3>3, <3>4, <4>1
      <4>2. CASE i = Len(updates) + 1
        BY <3>3, <3>4, <4>2
      <4> QED BY <3>1, <3>3, <4>1, <4>2
    <3> QED BY <3>4
  <2> QED BY <2>1, <2>2
<1>2. Read1 \subseteq Read \cup {venue'[o]}
  OBVIOUS
<1>3. Known(o) = {venue[o]} \cup Heard \cup Read
  BY DEF Known
<1>4. Known(o)' = {venue'[o]} \cup Heard1 \cup Read1
  BY DEF Known
<1> HIDE DEF Heard, Heard1, Read, Read1
<1> QED BY <1>1, <1>2, <1>3, <1>4

\* What is known of an order are records, the order's own among them.
LEMMA KnownType ==
    ASSUME TypeOK, NEW o \in Numbers
    PROVE  venue[o] \in Known(o) /\ Known(o) \subseteq Records
<1>1. venue[o] \in Records
  BY DEF TypeOK
<1>2. \A i \in 1..Len(updates) : updates[i].record \in Records
  <2> DEFINE S == [of : Numbers, record : Records]
  <2>1. updates \in Seq(S)
    BY DEF TypeOK
  <2>2. \A i \in 1..Len(updates) : updates[i] \in S
    <3> HIDE DEF S
    <3> QED BY <2>1
  <2> QED BY <2>2
<1>3. job # None => job.orders[o] \in Records
  BY DEF TypeOK, Jobs
<1> QED BY <1>1, <1>2, <1>3 DEF Known

\* No record is known that the order had not come to.
LEMMA StaleChanges ==
    ASSUME TypeOK, Lined, Stale, NEW b, NEW c, Change(b, c),
           \A o \in Numbers : Known(o)' \subseteq Known(o) \cup {venue'[o]}
    PROVE  Stale'
<1>1. /\ c \in Numbers /\ venue \in [Numbers -> Records] /\ venue' \in [Numbers -> Records]
      /\ \A o \in Numbers : o < c => venue'[o] = venue[o]
      /\ \A o \in Numbers : o > c => venue[o].status = "none" /\ venue[o].at = 0 /\ venue'[o].filled = 0
      /\ \A o \in Numbers : venue[o].status # "none" =>
                o <= c /\ venue'[o].status # "none" /\ Before(venue', o) = Before(venue, o)
      /\ \A o \in Numbers : venue[o].at <= venue'[o].at /\ venue[o].at \in Nat /\ venue'[o].at \in Nat
  BY ChangeShape
<1>2. /\ venue[c].status \in {"open", "filled"} /\ venue'[c].at = venue[c].at + 1
      /\ \A o \in Numbers \ {c} :
         \/ venue'[o] = venue[o]
         \/ /\ o = c + 1 /\ venue'[c].status = "replaced"
            /\ venue'[o] = [status |-> "open", filled |-> 0, at |-> 1]
      /\ peak' \in Amounts /\ peak <= peak' /\ Total(venue)' <= peak' /\ taken \subseteq taken'
      /\ \A n \in venue'[c].filled + 1 .. venue[c].filled : <<c, n>> \in taken'
  BY DEF Change
<1>3. Numbers \subseteq Nat /\ c \in Nat /\ peak \in Nat /\ peak' \in Nat
  BY <1>1, <1>2, FillsAssumption DEF Numbers, TypeOK, Amounts
<1> SUFFICES ASSUME NEW o \in Numbers, NEW r \in Known(o)'
             PROVE  /\ r.at <= venue'[o].at
                    /\ r.status \in {"replaced", "cancelled"} => r = venue'[o]
                    /\ r.at = venue'[o].at => r = venue'[o]
                    /\ r.status # "none" => venue'[o].status # "none"
                    /\ r.at = 0 => r.filled = 0
                    /\ Before(venue', o) + r.filled <= peak'
                    /\ \A q \in Known(o)' : q.at <= r.at => \A n \in r.filled + 1 .. q.filled : <<o, n>> \in taken'
  <2>1. \A o \in Numbers : Before(venue, o)' = Before(venue', o)
    BY DEF Before
  <2> QED BY <2>1 DEF Stale
<1>4. Known(o) \subseteq Records /\ venue[o] \in Known(o) /\ venue'[o] \in Records
  BY <1>1, KnownType
<1>5. r \in Known(o) \/ r = venue'[o]
  OBVIOUS
<1>6. \A q \in Known(o) :
        /\ q.at <= venue[o].at
        /\ q.status \in {"replaced", "cancelled"} => q = venue[o]
        /\ q.at = venue[o].at => q = venue[o]
        /\ q.status # "none" => venue[o].status # "none"
        /\ q.at = 0 => q.filled = 0
        /\ Before(venue, o) + q.filled <= peak
        /\ \A s \in Known(o) : s.at <= q.at => \A n \in q.filled + 1 .. s.filled : <<o, n>> \in taken
  BY DEF Stale
<1>7. \A q \in Known(o) \cup {venue'[o]} : q.at \in Nat /\ q.filled \in Nat
  BY <1>4, FillsAssumption DEF Records, Amounts
<1>8. Before(venue', o) \in Nat /\ Before(venue', o) + venue'[o].filled <= peak'
  <2>1. Before(venue', o) \in Nat /\ Total(venue') \in Nat /\ Before(venue', o) + venue'[o].filled <= Total(venue')
    BY <1>1, BeforeType
  <2>2. Total(venue)' = Total(venue')
    BY DEF Total
  <2> QED BY <1>2, <1>3, <1>7, <2>1, <2>2
<1>9. \A q \in Known(o) : o > c => q.filled = 0
  BY <1>1, <1>6, <1>7
<1>a. ASSUME NEW q \in Known(o) PROVE Before(venue', o) + q.filled <= peak'
  <2>1. CASE o > c
    BY <1>8, <1>9, <1>7, <2>1, <1>3, <1>1
  <2>2. CASE o <= c
    <3>1. venue[o].status # "none"
      BY <1>1, <1>2, <2>2, <1>3 DEF Lined
    <3>2. Before(venue', o) = Before(venue, o) /\ Before(venue, o) + q.filled <= peak
      BY <1>1, <1>6, <3>1
    <3> QED BY <1>2, <1>3, <1>7, <1>8, <3>2
  <2> QED BY <1>3, <2>1, <2>2
\* The order changed, or it was made anew, or nothing of it did.
<1>b. \/ venue'[o] = venue[o]
      \/ venue'[o].at > venue[o].at
  BY <1>1, <1>2, <1>3, <1>7
<1>c. venue[o].status \in {"replaced", "cancelled"} => venue'[o] = venue[o]
  BY <1>1, <1>2, <1>3
<1>d. venue[o].status # "none" => venue'[o].status # "none"
  BY <1>1
<1>e. r.at <= venue'[o].at /\ (r.at = venue'[o].at => r = venue'[o])
  BY <1>1, <1>5, <1>6, <1>7, <1>b
<1>f. r.status \in {"replaced", "cancelled"} => r = venue'[o]
  BY <1>5, <1>6, <1>c
<1>g. r.status # "none" => venue'[o].status # "none"
  BY <1>5, <1>6, <1>d
<1>h. r.at = 0 => r.filled = 0
  BY <1>1, <1>4, <1>5, <1>6, <1>7, <1>b
<1>i. Before(venue', o) + r.filled <= peak'
  BY <1>5, <1>8, <1>a
<1>j. ASSUME NEW q \in Known(o)', q.at <= r.at, NEW n \in r.filled + 1 .. q.filled PROVE <<o, n>> \in taken'
  <2>1. q \in Known(o) \/ q = venue'[o]
    OBVIOUS
  <2>2. CASE r \in Known(o) /\ q \in Known(o)
    BY <1>2, <1>6, <1>j, <2>2
  <2>3. CASE r \in Known(o) /\ q = venue'[o]
    <3>1. venue'[o].at <= venue[o].at
      BY <1>1, <1>6, <1>7, <1>j, <2>3
    <3>2. venue'[o] = venue[o]
      BY <1>1, <1>b, <3>1
    <3> QED BY <1>2, <1>4, <1>6, <1>j, <2>3, <3>2
  <2>4. CASE r = venue'[o] /\ q = venue'[o]
    BY <1>7, <1>j, <2>4
  <2>5. CASE r = venue'[o] /\ q \in Known(o)
    <3>1. CASE venue'[o] = venue[o]
      BY <1>2, <1>4, <1>6, <1>j, <2>5, <3>1
    <3>2. CASE n > venue[o].filled
      <4>1. q.at <= venue[o].at /\ n \in venue[o].filled + 1 .. q.filled
        BY <1>4, <1>6, <1>7, <1>j, <2>5, <3>2
      <4> QED BY <1>2, <1>4, <1>6, <2>5, <4>1
    <3>3. CASE o = c /\ n <= venue[o].filled
      <4>1. n \in venue'[c].filled + 1 .. venue[c].filled
        BY <1>4, <1>7, <1>j, <2>5, <3>3
      <4> QED BY <1>2, <3>3, <4>1
    <3>4. CASE o > c
      <4>1. q.filled = 0 /\ r.filled \in Nat
        BY <1>7, <1>9, <2>5, <3>4
      <4> QED BY <1>j, <4>1
    <3>5. o < c => venue'[o] = venue[o]
      BY <1>1
    <3> QED BY <1>3, <1>4, <1>7, <1>j, <2>5, <3>1, <3>2, <3>3, <3>4, <3>5
  <2> QED BY <1>5, <2>1, <2>2, <2>3, <2>4, <2>5
<1> QED BY <1>e, <1>f, <1>g, <1>h, <1>i, <1>j

\* What the plugin keeps stands as it stood, but for whether it waits for a replace's order.
Alike ==
    /\ worked' \in Worked \cup {None}
    /\ worked = None <=> worked' = None
    /\ worked # None =>
         /\ worked'.order = worked.order /\ worked'.filled = worked.filled
         /\ worked'.carried = worked.carried /\ worked'.fills = worked.fills
         /\ worked'.seen = worked.seen

\* It works the order it worked,
LEMMA WorksAlike ==
    ASSUME TypeOK, Alike, NEW o
    PROVE  Works(o)' <=> Works(o)
BY DEF Alike, Works

\* and follows the one it followed.
LEMMA FollowsAlike ==
    ASSUME TypeOK, Alike, UNCHANGED booked, NEW o
    PROVE  Follows(o)' <=> Follows(o)
BY DEF Alike, Follows

\* A change leaves what it keeps right,
LEMMA KeptChanges ==
    ASSUME TypeOK, Lined, Kept, NEW b, NEW c, Change(b, c), Alike
    PROVE  Kept'
<1>1. /\ c \in Numbers /\ venue \in [Numbers -> Records] /\ venue' \in [Numbers -> Records]
      /\ \A o \in Numbers : venue[o].status # "none" =>
                o <= c /\ venue'[o].status # "none" /\ Before(venue', o) = Before(venue, o)
      /\ \A o \in Numbers : venue[o].at <= venue'[o].at /\ venue[o].at \in Nat /\ venue'[o].at \in Nat
  BY ChangeShape
<1>2. /\ peak' \in Nat /\ peak \in Nat /\ peak <= peak' /\ booked' = booked /\ booked \in Numbers
  BY FillsAssumption DEF Change, bookVars, TypeOK, Amounts
<1>3. venue'[booked'].status # "none"
  BY <1>1, <1>2 DEF Kept
<1>4. worked # None => worked.filled \in Nat /\ worked.seen \in Nat
  BY FillsAssumption DEF TypeOK, Worked, Amounts
<1>5. ASSUME worked' # None
      PROVE  /\ worked'.filled <= peak' /\ worked'.carried <= worked'.filled
             /\ \A f \in worked'.fills : f.cumulative <= worked'.filled
  BY <1>2, <1>4, <1>5 DEF Alike, Kept
<1>6. ASSUME NEW o \in Numbers, Works(o)'
      PROVE  /\ venue'[o].status # "none" /\ worked'.seen <= venue'[o].at
             /\ worked'.carried <= Before(venue', o)
             /\ \A f \in worked'.fills : f.id[1] <= o
  <2>1. Works(o) /\ worked # None
    BY <1>6, WorksAlike DEF Works
  <2>2. /\ venue[o].status # "none" /\ worked.seen <= venue[o].at /\ worked.carried <= Before(venue, o)
        /\ \A f \in worked.fills : f.id[1] <= o
    BY <2>1 DEF Kept
  <2>3. worked'.seen <= venue'[o].at
    BY <1>1, <1>4, <2>1, <2>2 DEF Alike
  <2>4. worked'.carried <= Before(venue', o)
    BY <1>1, <2>1, <2>2 DEF Alike
  <2> QED BY <1>1, <2>1, <2>2, <2>3, <2>4 DEF Alike
<1>7. \A o \in Numbers : Before(venue, o)' = Before(venue', o)
  BY DEF Before
<1> QED BY <1>3, <1>5, <1>6, <1>7 DEF Kept

\* what it has in hand,
LEMMA InHandStays ==
    ASSUME TypeOK, Lined, InHand, NEW b, NEW c, Change(b, c), Alike, job' = job
    PROVE  InHand'
<1>1. \A o \in Numbers : venue[o].status # "none" => venue'[o].status # "none"
  BY ChangeShape
<1>2. job # None => job.of \in Numbers /\ worked # None
  BY DEF TypeOK, Jobs
<1>3. Record' = Record
  BY DEF Record
<1> QED BY <1>1, <1>2, <1>3 DEF InHand, Alike

\* and what is streamed.
LEMMA StreamedStays ==
    ASSUME TypeOK, Streamed, NEW c \in Numbers, venue' \in [Numbers -> Records], venue'[c].status # "none",
           updates' = updates \/ updates' = Append(updates, [of |-> c, record |-> venue'[c]])
    PROVE  Streamed'
<1>1. CASE updates' = updates
  BY <1>1 DEF Streamed
<1>2. CASE updates' = Append(updates, [of |-> c, record |-> venue'[c]])
  <2>1. updates \in Seq([of : Numbers, record : Records]) /\ Len(updates) \in Nat
    BY DEF TypeOK
  <2>2. [of |-> c, record |-> venue'[c]] \in [of : Numbers, record : Records]
    OBVIOUS
  <2>3. /\ Len(updates') = Len(updates) + 1
        /\ \A i \in 1..Len(updates) : updates'[i] = updates[i]
        /\ updates'[Len(updates) + 1] = [of |-> c, record |-> venue'[c]]
    BY <1>2, <2>1, <2>2
  <2>4. ASSUME NEW i \in 1..Len(updates') PROVE updates'[i].record.status # "none"
    <3>1. i \in 1..Len(updates) \/ i = Len(updates) + 1
      BY <2>1, <2>3
    <3> QED BY <2>3, <3>1 DEF Streamed
  <2> QED BY <2>4 DEF Streamed
<1> QED BY <1>1, <1>2

\* A change of the venue's leaves the book traced: what it takes back is taken.
LEMMA TracedChanges ==
    ASSUME TypeOK, Lined, Stale, Kept, NEW b \in [Mishaps -> Nat], Traced(b), NEW c, Change(b, c), Alike,
           b["taken"] = 0 \/ Still(b),
           \A o \in Numbers : Known(o)' \subseteq Known(o) \cup {venue'[o]}
    PROVE  Traced(b)'
<1>1. /\ c \in Numbers /\ venue \in [Numbers -> Records] /\ venue' \in [Numbers -> Records]
      /\ \A o \in Numbers : o < c => venue'[o] = venue[o] /\ venue[o].status = "replaced"
      /\ \A o \in Numbers : o > c => venue[o].status = "none" /\ venue[o].at = 0 /\ venue'[o].filled = 0
      /\ \A o \in Numbers : venue[o].status # "none" =>
                o <= c /\ venue'[o].status # "none" /\ Before(venue', o) = Before(venue, o)
      /\ \A o \in Numbers : venue[o].at <= venue'[o].at /\ venue[o].at \in Nat /\ venue'[o].at \in Nat
      /\ \A o \in Numbers : venue[o].status = "filled" => venue'[o].status = "filled"
  BY ChangeShape
<1>2. /\ venue[c].status \in {"open", "filled"} /\ venue'[c].status # "none"
      /\ \A o \in Numbers \ {c} :
         \/ venue'[o] = venue[o]
         \/ /\ o = c + 1 /\ venue'[c].status = "replaced"
            /\ venue'[o] = [status |-> "open", filled |-> 0, at |-> 1]
      /\ venue'[c].status = "replaced" => ~Still(b)
      /\ venue'[c].filled < venue[c].filled => venue[c].status = "filled" \/ b["taken"] > 0
      /\ taken' \subseteq Ids /\ taken \subseteq taken'
      /\ \A n \in venue'[c].filled + 1 .. venue[c].filled : <<c, n>> \in taken'
      /\ \A id \in taken' : id \in taken \/ (id[1] = c /\ (venue[c].status = "filled" \/ b["taken"] > 0))
      /\ UNCHANGED <<executions, busted>>
  BY DEF Change, bookVars
<1>3. Numbers \subseteq Nat /\ c \in Nat /\ b["taken"] \in Nat
  BY <1>1, FillsAssumption DEF Numbers, Mishaps
<1>4. worked # None /\ worked' # None /\ busted' \subseteq taken'
  BY <1>2 DEF Traced, Alike
<1>5. /\ worked'.order = worked.order /\ worked'.filled = worked.filled
      /\ worked'.carried = worked.carried /\ worked'.fills = worked.fills /\ worked'.seen = worked.seen
      /\ worked \in Worked
  BY <1>4 DEF Alike, TypeOK
<1>6. ASSUME b["taken"] = 0, NEW id \in taken' PROVE venue'[id[1]].status = "filled"
  <2>1. CASE id \in taken
    <3>1. venue[id[1]].status = "filled" /\ id[1] \in Numbers
      BY <1>6, <2>1 DEF Traced, TypeOK, Ids
    <3> QED BY <1>1, <3>1
  <2>2. CASE id \notin taken
    BY <1>1, <1>2, <1>6, <2>2
  <2> QED BY <2>1, <2>2
<1>7. ASSUME b["taken"] > 0
      PROVE  worked'.carried = 0 /\ \A p \in Numbers : p # 1 => venue'[p].status = "none"
  <2>1. Still(b) /\ worked.carried = 0 /\ \A p \in Numbers : p # 1 => venue[p].status = "none"
    BY <1>3, <1>7 DEF Traced
  <2>2. c = 1
    BY <1>1, <1>2, <2>1
  <2> QED BY <1>2, <1>5, <2>1, <2>2
<1>8. ASSUME NEW o \in Numbers, Works(o)' PROVE TracedOf(b, o)'
  <2>1. Works(o) /\ TracedOf(b, o) /\ venue[o].status # "none" /\ worked.seen <= venue[o].at
    BY <1>4, <1>8, WorksAlike DEF Traced, Kept
  <2>2. Before(venue, o)' = Before(venue, o) /\ o <= c
    BY <1>1, <2>1 DEF Before
  <2>3. /\ \A f \in worked'.fills :
             IF f.id[1] = o THEN f.cumulative = worked'.carried + f.id[2] /\ f.id[2] > 0
             ELSE f.cumulative <= worked'.carried
        /\ worked'.carried = 0 \/ \E f \in worked'.fills : f.id[1] # o /\ f.cumulative = worked'.carried
    BY <1>5, <2>1 DEF TracedOf
  <2>4. ASSUME b["taken"] = 0, venue'[o].status # "filled"
        PROVE  /\ worked'.filled = 0 \/ \E f \in worked'.fills : f.cumulative = worked'.filled
               /\ worked'.filled <= Before(venue, o)' + venue'[o].filled
    <3>1. venue[o].status # "filled"
      BY <1>1, <2>4
    <3>2. /\ worked.filled = 0 \/ \E f \in worked.fills : f.cumulative = worked.filled
          /\ worked.filled <= Before(venue, o) + venue[o].filled
      BY <2>1, <2>4, <3>1 DEF TracedOf
    <3>3. venue[o].filled \in Nat /\ venue'[o].filled \in Nat /\ worked.filled \in Nat /\ Before(venue, o) \in Nat
      BY <1>1, <1>5, BeforeType, FillsAssumption DEF Records, Worked, Amounts
    <3>4. venue[o].filled <= venue'[o].filled
      <4>1. CASE o = c
        BY <1>2, <2>4, <3>1, <3>3, <4>1
      <4>2. CASE o < c
        BY <1>1, <3>3, <4>2
      <4> QED BY <1>3, <2>2, <4>1, <4>2
    <3> QED BY <1>5, <2>2, <3>2, <3>3, <3>4
  <2>5. ASSUME NEW r \in Known(o)', NEW f \in worked'.fills, f.id[1] = o, r.at >= worked'.seen, r.filled < f.id[2]
        PROVE  f.id \in taken'
    <3>1. CASE r \in Known(o)
      BY <1>2, <1>5, <2>1, <2>5, <3>1 DEF TracedOf
    <3>2. CASE r = venue'[o]
      <4>1. venue[o] \in Known(o) /\ venue[o] \in Records /\ venue'[o] \in Records /\ worked.seen \in Nat
        BY <1>1, <1>5, KnownType DEF Worked
      <4>2. f.id \in Ids
        BY <1>5 DEF Worked
      <4>3. /\ f.id = <<o, f.id[2]>> /\ f.id[2] \in Nat
            /\ venue[o].filled \in Nat /\ venue'[o].filled \in Nat /\ venue[o].at \in Nat
        BY <2>5, <4>1, <4>2, FillsAssumption DEF Ids, Amounts, Records
      <4>4. CASE venue[o].filled < f.id[2]
        <5>1. f.id \in taken
          BY <1>5, <2>1, <2>5, <4>1, <4>3, <4>4 DEF TracedOf
        <5> QED BY <1>2, <5>1
      <4>5. CASE f.id[2] <= venue[o].filled
        <5>1. o = c
          <6>1. venue'[o].filled < f.id[2]
            BY <2>5, <3>2
          <6>2. o < c => venue'[o].filled = venue[o].filled
            BY <1>1
          <6> QED BY <1>3, <2>2, <4>3, <4>5, <6>1, <6>2
        <5>2. f.id[2] \in venue'[c].filled + 1 .. venue[c].filled
          BY <2>5, <3>2, <4>3, <4>5, <5>1
        <5> QED BY <1>2, <4>3, <5>1, <5>2
      <4> QED BY <4>3, <4>4, <4>5
    <3> QED BY <3>1, <3>2
  <2> QED BY <2>3, <2>4, <2>5 DEF TracedOf
<1>9. InBook' = InBook
  BY <1>2 DEF InBook
<1>10. \A n \in Amounts : Upto(n)' = Upto(n)
  BY <1>5, <1>9 DEF Upto
<1>11. \A n \in Amounts : Amount(Upto(n))' = Amount(Upto(n))
  BY <1>10 DEF Amount
<1>12. \A e \in InBook' : \E f \in worked'.fills : f.id = e.id
  BY <1>5, <1>9 DEF Traced
<1>13. \A n \in Amounts : (Amount(Upto(n)) <= n)'
  BY <1>11 DEF Traced
<1> QED BY <1>4, <1>6, <1>7, <1>8, <1>12, <1>13 DEF Traced

\* The book is as it was.
LEMMA BookStays ==
    ASSUME UNCHANGED <<executions, busted>>
    PROVE  /\ InBook' = InBook /\ BookFilled' = BookFilled
           /\ \A o \in Numbers : FilledBesides(o)' = FilledBesides(o) /\ Amount(Own(o))' = Amount(Own(o))
BY DEF InBook, BookFilled, FilledBesides, Own, Amount

\* A change of the venue's takes nothing from what the book holds exactly.
LEMMA ExactChanges ==
    ASSUME TypeOK, Lined, Kept, IsFiniteSet(executions),
           NEW b \in [Mishaps -> Nat], Plain(b), Exact(b), NEW c, Change(b, c), Alike,
           \A o \in Numbers : Known(o)' \subseteq Known(o) \cup {venue'[o]}
    PROVE  Exact(b)'
<1>1. /\ c \in Numbers /\ venue \in [Numbers -> Records] /\ venue' \in [Numbers -> Records]
      /\ \A o \in Numbers : o < c => venue'[o] = venue[o] /\ venue[o].status = "replaced"
      /\ \A o \in Numbers : venue[o].status # "none" =>
                o <= c /\ venue'[o].status # "none" /\ Before(venue', o) = Before(venue, o)
  BY ChangeShape
<1>2. /\ venue[c].status \in {"open", "filled"}
      /\ \A o \in Numbers \ {c} :
         \/ venue'[o] = venue[o]
         \/ /\ o = c + 1 /\ venue'[c].status = "replaced"
            /\ venue'[o] = [status |-> "open", filled |-> 0, at |-> 1]
      /\ venue'[c].status = "replaced" => ~Still(b)
      /\ ~(venue'[c].filled < venue[c].filled) /\ taken' = taken
      /\ UNCHANGED <<executions, busted, booked>>
  BY DEF Change, bookVars
<1>3. Numbers \subseteq Nat
  BY FillsAssumption DEF Numbers
<1>4. /\ worked = None <=> worked' = None
      /\ worked # None =>
          /\ worked'.order = worked.order /\ worked'.filled = worked.filled
          /\ worked'.carried = worked.carried /\ worked'.fills = worked.fills /\ worked'.seen = worked.seen
  BY DEF Alike
<1>5. /\ InBook' = InBook /\ BookFilled' = BookFilled
      /\ \A o \in Numbers : FilledBesides(o)' = FilledBesides(o) /\ Amount(Own(o))' = Amount(Own(o))
  BY <1>2, BookStays
<1>6. ASSUME Still(b), NEW p \in Numbers, p # 1 PROVE venue'[p].status = "none"
  <2>1. \A q \in Numbers : q # 1 => venue[q].status = "none"
    BY <1>6 DEF Exact
  <2>2. c = 1
    BY <1>1, <1>2, <2>1
  <2> QED BY <1>2, <1>6, <2>1, <2>2
<1>7. ASSUME NEW o \in Numbers, Follows(o)' PROVE ExactOf(o)'
  <2>1. Follows(o) /\ ExactOf(o)
    BY <1>2, <1>7, FollowsAlike DEF Exact
  <2>2. venue[o].status # "none"
    BY <2>1 DEF Kept, Follows, Works
  <2>3. Before(venue, o)' = Before(venue, o) /\ o <= c
    BY <1>1, <2>2 DEF Before
  <2>4. venue[o].filled <= venue'[o].filled /\ venue[o].filled \in Nat /\ venue'[o].filled \in Nat
    <3>1. venue[o].filled \in Nat /\ venue'[o].filled \in Nat
      BY <1>1, FillsAssumption DEF Records, Amounts
    <3>2. CASE o = c
      BY <1>2, <3>1, <3>2
    <3>3. CASE o # c
      <4>1. o < c
        BY <1>1, <1>3, <2>3, <3>3
      <4> QED BY <1>1, <3>1, <4>1
    <3> QED BY <3>2, <3>3
  <2>5. Amount(Own(o)) \in Nat
    <3>1. InBook \subseteq executions /\ executions \subseteq Executions
      BY DEF InBook, TypeOK
    <3>2. Own(o) \in SUBSET Executions /\ IsFiniteSet(Own(o))
      BY <3>1, FS_Subset DEF Own
    <3> QED BY <3>2, AmountType
  <2>6. ASSUME NEW r \in Known(o)', worked' = None \/ r.at >= worked'.seen PROVE Amount(Own(o)) <= r.filled
    <3>1. CASE r \in Known(o)
      BY <1>4, <2>1, <2>6, <3>1 DEF ExactOf
    <3>2. CASE r = venue'[o]
      <4>1. venue[o] \in Known(o)
        BY KnownType
      <4>2. worked = None \/ venue[o].at >= worked.seen
        <5>1. worked # None => Works(o) /\ worked.seen \in Nat /\ venue[o].at \in Nat
          BY <1>1, <2>1 DEF Follows, Works, TypeOK, Worked, Records
        <5> QED BY <5>1 DEF Kept
      <4>3. Amount(Own(o)) <= venue[o].filled
        BY <2>1, <4>1, <4>2 DEF ExactOf
      <4> QED BY <2>4, <2>5, <3>2, <4>3
    <3> QED BY <3>1, <3>2
  <2>7. worked' # None => worked'.carried = FilledBesides(o)'
    BY <1>4, <1>5, <2>1 DEF ExactOf
  <2>8. (\A e \in executions : e.id[1] <= o /\ (e.id[1] = o => e.id[2] <= Amount(Own(o))))'
    BY <1>2, <1>5, <2>1 DEF ExactOf
  <2>9. (FilledBesides(o) <= Before(venue, o))'
    BY <1>5, <2>1, <2>3 DEF ExactOf
  <2>10. (\A r \in Known(o) : worked = None \/ r.at >= worked.seen => Amount(Own(o)) <= r.filled)'
    BY <1>5, <2>6
  <2> QED BY <2>7, <2>8, <2>9, <2>10 DEF ExactOf
<1>8. taken' = {} /\ busted' = {}
  BY <1>2 DEF Exact
<1>9. worked' # None => worked'.filled = BookFilled'
  BY <1>4, <1>5 DEF Exact
<1>10. /\ b["crash"] > 0 /\ worked' # None => booked' = worked'.order
       /\ b["crash"] = 0 => worked' # None
  BY <1>2, <1>4 DEF Exact
<1> QED BY <1>6, <1>7, <1>8, <1>9, <1>10 DEF Exact

-----------------------------------------------------------------------------
(* The invariant at the venue's steps. *)

\* So a change leaves the invariant, whatever the plugin does beside it.
LEMMA RightChanges ==
    ASSUME NEW b \in [Mishaps -> Nat], Counts(b), Right(b), NEW c, Change(b, c), Alike,
           updates' = updates \/ updates' = Append(updates, [of |-> c, record |-> venue'[c]]),
           job' = job \/ job'.orders = venue', TypeOK', InHand'
    PROVE  Right(b)'
<1>1. TypeOK /\ IsFiniteSet(executions) /\ Bounded(b) /\ Lined /\ Stale /\ Streamed /\ InHand /\ Kept
  BY DEF Right, Base
<1>2. /\ c \in Numbers /\ venue' \in [Numbers -> Records] /\ venue'[c].status # "none" /\ executions' = executions
      /\ Bounded(b)'
  BY DEF Change, bookVars
<1>3. \A o \in Numbers : Known(o)' \subseteq Known(o) \cup {venue'[o]}
  BY <1>1, <1>2, KnownGrows
<1>4. Lined' /\ Stale' /\ Streamed' /\ Kept'
  BY <1>1, <1>2, <1>3, LinedChanges, StaleChanges, StreamedStays, KeptChanges
<1>5. CASE Plain(b)
  <2>1. Exact(b)'
    BY <1>1, <1>3, <1>5, ExactChanges DEF Right
  <2> QED BY <1>1, <1>2, <1>4, <1>5, <2>1 DEF Right, Base
<1>6. CASE ~Plain(b)
  <2>1. b["taken"] = 0 \/ Still(b)
    BY <1>6 DEF Counts
  <2>2. Traced(b)'
    BY <1>1, <1>3, <1>6, <2>1, TracedChanges DEF Right
  <2> QED BY <1>1, <1>2, <1>4, <1>6, <2>2 DEF Right, Base
<1> QED BY <1>5, <1>6

\* And in its own step the venue streams, and the plugin is as it was.
LEMMA VenueSteps ==
    ASSUME NEW b \in [Mishaps -> Nat], Counts(b), Right(b), NEW c, Change(b, c), Streams(c),
           UNCHANGED <<worked, job>>
    PROVE  Right(b)'
<1>1. TypeOK /\ Lined /\ InHand
  BY DEF Right, Base
<1>2. Alike
  BY <1>1 DEF TypeOK, Alike
<1>3. updates' = updates \/ updates' = Append(updates, [of |-> c, record |-> venue'[c]])
  BY DEF Streams
<1>4. InHand'
  BY <1>1, <1>2, InHandStays
<1>5. TypeOK'
  <2>1. /\ c \in Numbers /\ venue' \in [Numbers -> Records] /\ peak' \in Amounts /\ taken' \subseteq Ids
        /\ left' \in [Mishaps -> Nat] /\ UNCHANGED <<executions, busted, end, booked>>
    BY DEF Change, bookVars
  <2>2. updates' \in Seq([of : Numbers, record : Records])
    <3> DEFINE S == [of : Numbers, record : Records]
    <3>1. [of |-> c, record |-> venue'[c]] \in S /\ updates \in Seq(S)
      BY <1>1, <2>1 DEF TypeOK
    <3> HIDE DEF S
    <3>2. updates' \in Seq(S)
      BY <1>3, <3>1
    <3> QED BY <3>2 DEF S
  <2> QED BY <1>1, <2>1, <2>2 DEF TypeOK
<1> QED BY <1>2, <1>3, <1>4, <1>5, RightChanges

\* The invariant at the venue's steps: a fill,
LEMMA FillsAtVenueStep ==
    ASSUME NEW b \in [Mishaps -> Nat], Counts(b), Right(b), FillsAtVenue
    PROVE  Right(b)' /\ Change(b, Current)
<1>1. Change(b, Current)
  BY FillsChange DEF Right, Base
<1>2. Streams(Current) /\ UNCHANGED <<worked, job>>
  BY DEF FillsAtVenue
<1> QED BY <1>1, <1>2, VenueSteps

\* fills taken back,
LEMMA TakesBackStep ==
    ASSUME NEW b \in [Mishaps -> Nat], Counts(b), Right(b), TakesBack
    PROVE  Right(b)' /\ Change(b, Current)
<1>1. Change(b, Current)
  BY TakesChange DEF Right, Base
<1>2. Streams(Current) /\ UNCHANGED <<worked, job>>
  BY DEF TakesBack
<1> QED BY <1>1, <1>2, VenueSteps

\* a cancel,
LEMMA CancelsAtVenueStep ==
    ASSUME NEW b \in [Mishaps -> Nat], Counts(b), Right(b), CancelsAtVenue
    PROVE  Right(b)' /\ Change(b, Current)
<1>1. Change(b, Current)
  BY CancelsChange DEF Right, Base
<1>2. Streams(Current) /\ UNCHANGED <<worked, job>>
  BY DEF CancelsAtVenue
<1> QED BY <1>1, <1>2, VenueSteps

\* and a replace of its own.
LEMMA ReplacesItselfStep ==
    ASSUME NEW b \in [Mishaps -> Nat], Counts(b), Right(b), ReplacesItself
    PROVE  Right(b)' /\ Change(b, Current)
<1>1. TypeOK /\ Lined /\ Bounded(b) /\ Current \in Numbers
  BY CurrentIs DEF Right, Base
<1>2. Spend("restate") /\ Replaces(Current) /\ Streams(Current)
      /\ UNCHANGED <<peak, taken, bookVars>> /\ UNCHANGED <<worked, job>>
  BY DEF ReplacesItself
<1>3. Change(b, Current)
  BY <1>1, <1>2, ReplacesChange
<1> QED BY <1>2, <1>3, VenueSteps

\* What the plugin has left is settled whatever the venue does next.
LEMMA SettledChanges ==
    ASSUME NEW b \in [Mishaps -> Nat], Right(b), Settled, NEW c, Change(b, c), UNCHANGED <<worked, job>>
    PROVE  Settled'
<1>1. TypeOK /\ Lined /\ InHand /\ Kept
  BY DEF Right, Base
<1>2. /\ c \in Numbers
      /\ \A o \in Numbers : o < c => venue[o].status = "replaced"
      /\ \A o \in Numbers : venue[o].status # "none" => o <= c /\ Before(venue', o) = Before(venue, o)
  BY <1>1, ChangeShape
<1>3. venue[c].status \in {"open", "filled"} /\ UNCHANGED <<executions, busted, end, booked>>
  BY DEF Change, bookVars
<1>4. \A o \in Numbers : Before(venue, o)' = Before(venue', o)
  BY DEF Before
<1>5. BookFilled' = BookFilled /\ \A o \in Numbers : FilledBesides(o)' = FilledBesides(o)
  BY <1>3, BookStays
<1>6. ASSUME NEW o \in Numbers, job # None /\ job.at = "replaced" /\ job.of = o
      PROVE  worked.filled = Before(venue', o)
  <2>1. venue[o].status # "none"
    BY <1>1, <1>6 DEF InHand
  <2> QED BY <1>2, <1>6, <2>1 DEF Settled
<1>7. ASSUME NEW o \in Numbers, Follows(o)' PROVE FilledBesides(o) = Before(venue', o) /\ end = "no"
  <2>1. Follows(o)
    BY <1>3, <1>7 DEF Follows
  <2>2. venue[o].status # "none" /\ o \in Nat /\ c \in Nat
    BY <1>1, <1>2, <2>1, FillsAssumption DEF Kept, Follows, Works, Numbers
  <2>3. end # "no" => venue[o].status = "cancelled"
    BY <2>1 DEF Settled
  <2>4. venue[o].status # "cancelled"
    BY <1>2, <1>3, <2>2
  <2> QED BY <1>2, <2>1, <2>2, <2>3, <2>4 DEF Settled
<1>8. /\ (worked # None => ~worked.replacing)'
      /\ (job # None /\ job.at \in {"end", "cancelled"} => worked.filled = job.filled)'
  BY DEF Settled
<1> QED BY <1>3, <1>4, <1>5, <1>6, <1>7, <1>8 DEF Settled

\* A record taken in hand.
LEMMA HandIs ==
    ASSUME NEW at \in {"status", "replaced"}, NEW o \in Numbers, NEW orders \in [Numbers -> Records],
           NEW listed \in BOOLEAN, NEW over \in BOOLEAN
    PROVE  /\ Hand(at, o, orders, listed, over) \in Jobs
           /\ Hand(at, o, orders, listed, over).at = at /\ Hand(at, o, orders, listed, over).of = o
           /\ Hand(at, o, orders, listed, over).orders = orders
BY FillsAssumption DEF Hand, Jobs

\* Of the plugin's own replaces: answered with the order's next,
LEMMA ReplaceMade ==
    ASSUME NEW b \in [Mishaps -> Nat], Counts(b), Right(b), worked # None, job = None, Spend("replace"),
           Replaces(worked.order), job' = Hand("replaced", worked.order + 1, venue', FALSE, TRUE),
           UNCHANGED <<worked, updates, peak, taken, bookVars>>
    PROVE  Right(b)'
<1> DEFINE c == worked.order
<1>1. TypeOK /\ Lined /\ InHand /\ Bounded(b)
  BY DEF Right, Base
<1>2. c \in Numbers
  BY <1>1 DEF TypeOK, Worked
<1>3. Change(b, c)
  BY <1>1, <1>2, ReplacesChange
<1>4. Alike
  BY <1>1 DEF TypeOK, Alike
<1>5. c + 1 \in Numbers /\ venue'[c + 1].status = "open" /\ venue' \in [Numbers -> Records]
  <2>1. venue[c].status = "open" /\ venue'[c].status = "replaced"
    <3>1. venue \in [Numbers -> Records] /\ venue[c] \in Records /\ c # c + 1
      BY <1>1, <1>2, FillsAssumption DEF TypeOK, Numbers
    <3> QED BY <1>2, <3>1 DEF Replaces, Records
  <2> QED BY <1>3, <2>1 DEF Change
<1>6. job'.at = "replaced" /\ job'.of = c + 1 /\ job'.orders = venue' /\ job' \in Jobs
  <2> DEFINE F == FALSE
             T == TRUE
             h == Hand("replaced", c + 1, venue', F, T)
  <2>1. job' = h
    OBVIOUS
  <2>2. F \in BOOLEAN /\ T \in BOOLEAN
    OBVIOUS
  <2>3. h \in Jobs /\ h.at = "replaced" /\ h.of = c + 1 /\ h.orders = venue'
    <3> HIDE DEF F, T
    <3> QED BY <1>5, <2>2, HandIs
  <2> HIDE DEF h
  <2> QED BY <2>1, <2>3
<1>7. job' \in Jobs
  BY <1>6
<1>8. InHand'
  BY <1>5, <1>6 DEF InHand
<1>9. TypeOK'
  BY <1>1, <1>3, <1>7 DEF TypeOK, Change, bookVars
<1>10. job'.orders = venue'
  BY <1>6
<1> HIDE DEF c
<1> QED BY <1>3, <1>4, <1>8, <1>9, <1>10, RightChanges

-----------------------------------------------------------------------------
(* The plugin's steps leave the venue. *)

\* The plugin's steps leave the venue, and no record becomes known by them.
LEMMA KnownShrinks ==
    ASSUME TypeOK, venue' = venue,
           updates' = updates \/ updates' = <<>> \/ (updates # <<>> /\ updates' = Tail(updates)),
           job' = None \/ \A p \in Numbers : job'.orders[p] \in Known(p), NEW o \in Numbers
    PROVE  Known(o)' \subseteq Known(o)
<1> DEFINE Heard == {updates[i].record : i \in {k \in 1..Len(updates) : updates[k].of = o}}
           Heard1 == {updates'[i].record : i \in {k \in 1..Len(updates') : updates'[k].of = o}}
           Read1 == {j.orders[o] : j \in {job'} \ {None}}
<1>1. Heard1 \subseteq Heard
  <2>1. CASE updates' = updates
    BY <2>1
  <2>2. CASE updates' = <<>>
    BY <2>2
  <2>3. CASE updates # <<>> /\ updates' = Tail(updates)
    <3> DEFINE S == [of : Numbers, record : Records]
    <3>1. updates \in Seq(S)
      BY DEF TypeOK
    <3>2. Len(updates') = Len(updates) - 1 /\ Len(updates) \in Nat
          /\ \A i \in 1..Len(updates') : updates'[i] = updates[i + 1] /\ i + 1 \in 1..Len(updates)
      <4> HIDE DEF S
      <4> QED BY <2>3, <3>1
    <3> QED BY <3>2
  <2> QED BY <2>1, <2>2, <2>3
<1>2. Read1 \subseteq Known(o)
  OBVIOUS
<1>3. Heard \subseteq Known(o) /\ venue[o] \in Known(o)
  BY DEF Known
<1>4. Known(o)' = {venue'[o]} \cup Heard1 \cup Read1
  BY DEF Known
<1> HIDE DEF Heard, Heard1, Read1
<1> QED BY <1>1, <1>2, <1>3, <1>4

\* The records in hand are known.
LEMMA KnownInHand ==
    ASSUME job # None
    PROVE  \A o \in Numbers : job.orders[o] \in Known(o)
BY DEF Known

\* What is known stays what the orders had.
LEMMA StaleStays ==
    ASSUME TypeOK, Lined, Stale, UNCHANGED <<venue, peak, taken>>, \A o \in Numbers : Known(o)' \subseteq Known(o)
    PROVE  Lined' /\ Stale'
<1>1. Lined'
  BY DEF Lined, Total
<1>2. \A o \in Numbers : Before(venue, o)' = Before(venue, o)
  BY DEF Before
<1>3. ASSUME NEW o \in Numbers, NEW r \in Known(o)'
      PROVE  /\ r.at <= venue'[o].at
             /\ r.status \in {"replaced", "cancelled"} => r = venue'[o]
             /\ r.at = venue'[o].at => r = venue'[o]
             /\ r.status # "none" => venue'[o].status # "none"
             /\ r.at = 0 => r.filled = 0
             /\ Before(venue, o)' + r.filled <= peak'
             /\ \A q \in Known(o)' : q.at <= r.at => \A n \in r.filled + 1 .. q.filled : <<o, n>> \in taken'
  <2>1. r \in Known(o) /\ \A q \in Known(o)' : q \in Known(o)
    OBVIOUS
  <2> QED BY <1>2, <2>1 DEF Stale
<1> QED BY <1>1, <1>3 DEF Stale

\* What it keeps stands, but that it may have read on.
Onward ==
    /\ worked = None <=> worked' = None
    /\ worked # None =>
         /\ worked'.order = worked.order /\ worked'.filled = worked.filled
         /\ worked'.carried = worked.carried /\ worked'.fills = worked.fills
         /\ worked'.seen >= worked.seen /\ worked'.seen \in Nat
         /\ \A o \in Numbers : o = worked.order => worked'.seen <= venue[o].at

\* What it keeps stays right as it reads on,
LEMMA KeptStays ==
    ASSUME TypeOK, Kept, UNCHANGED <<venue, peak, booked>>, Onward
    PROVE  Kept'
<1>1. \A o \in Numbers : Before(venue, o)' = Before(venue, o)
  BY DEF Before
<1>2. ASSUME NEW o \in Numbers, Works(o)'
      PROVE  /\ venue'[o].status # "none" /\ worked'.seen <= venue'[o].at
             /\ worked'.carried <= Before(venue, o)'
             /\ \A f \in worked'.fills : f.id[1] <= o
  <2>1. Works(o) /\ worked # None /\ worked.order = o
    BY <1>2 DEF Works, Onward
  <2> QED BY <1>1, <2>1 DEF Kept, Onward
<1>3. ASSUME worked' # None
      PROVE  /\ worked'.filled <= peak' /\ worked'.carried <= worked'.filled
             /\ \A f \in worked'.fills : f.cumulative <= worked'.filled
  BY <1>3 DEF Kept, Onward
<1>4. venue'[booked'].status # "none"
  BY DEF Kept
<1> QED BY <1>2, <1>3, <1>4 DEF Kept

\* the book traced,
LEMMA TracedStays ==
    ASSUME TypeOK, NEW b, Traced(b), UNCHANGED <<venue, taken, executions, busted>>, Onward,
           \A o \in Numbers : Known(o)' \subseteq Known(o)
    PROVE  Traced(b)'
<1>1. /\ worked # None /\ worked' # None
      /\ worked'.order = worked.order /\ worked'.filled = worked.filled
      /\ worked'.carried = worked.carried /\ worked'.fills = worked.fills
      /\ worked'.seen >= worked.seen /\ worked'.seen \in Nat /\ worked.seen \in Nat
  BY DEF Onward, Traced, TypeOK, Worked
<1>2. \A o \in Numbers : Before(venue, o)' = Before(venue, o)
  BY DEF Before
<1>3. ASSUME NEW o \in Numbers, Works(o)' PROVE TracedOf(b, o)'
  <2>1. Works(o) /\ TracedOf(b, o)
    BY <1>1, <1>3 DEF Works, Traced
  <2>2. ASSUME NEW r \in Known(o)', NEW f \in worked'.fills, f.id[1] = o, r.at >= worked'.seen, r.filled < f.id[2]
        PROVE  f.id \in taken'
    <3>1. r \in Known(o) /\ r \in Records
      BY KnownType
    <3>2. r.at >= worked.seen
      BY <1>1, <2>2, <3>1 DEF Records
    <3> QED BY <1>1, <2>1, <2>2, <3>1, <3>2 DEF TracedOf
  <2>3. (\A f \in worked.fills :
         IF f.id[1] = o THEN f.cumulative = worked.carried + f.id[2] /\ f.id[2] > 0
         ELSE f.cumulative <= worked.carried)'
    BY <1>1, <2>1 DEF TracedOf
  <2>4. (worked.carried = 0 \/ \E f \in worked.fills : f.id[1] # o /\ f.cumulative = worked.carried)'
    BY <1>1, <2>1 DEF TracedOf
  <2>5. ( b["taken"] = 0 /\ venue[o].status # "filled" =>
         /\ worked.filled = 0 \/ \E f \in worked.fills : f.cumulative = worked.filled
         /\ worked.filled <= Before(venue, o) + venue[o].filled)'
    BY <1>1, <1>2, <2>1 DEF TracedOf
  <2> QED BY <2>2, <2>3, <2>4, <2>5 DEF TracedOf
<1>4. InBook' = InBook
  BY DEF InBook
<1>5. \A n \in Amounts : Amount(Upto(n))' = Amount(Upto(n))
  BY <1>1, <1>4 DEF Amount, Upto
<1>6. \A e \in InBook' : \E f \in worked'.fills : f.id = e.id
  BY <1>1, <1>4 DEF Traced
<1>7. \A n \in Amounts : (Amount(Upto(n)) <= n)'
  BY <1>5 DEF Traced
<1>8. /\ b["taken"] = 0 => \A id \in taken' : venue'[id[1]].status = "filled"
      /\ b["taken"] > 0 => worked'.carried = 0 /\ \A p \in Numbers : p # 1 => venue'[p].status = "none"
  BY <1>1 DEF Traced
<1>9. busted' \subseteq taken'
  BY DEF Traced
<1> QED BY <1>1, <1>3, <1>6, <1>7, <1>8, <1>9 DEF Traced

\* or exact,
LEMMA ExactStays ==
    ASSUME TypeOK, NEW b, Exact(b), UNCHANGED <<venue, taken, executions, busted, booked>>, Onward,
           \A o \in Numbers : Known(o)' \subseteq Known(o)
    PROVE  Exact(b)'
<1>1. /\ worked = None <=> worked' = None
      /\ worked # None =>
          /\ worked'.order = worked.order /\ worked'.filled = worked.filled
          /\ worked'.carried = worked.carried /\ worked'.fills = worked.fills
          /\ worked'.seen >= worked.seen /\ worked'.seen \in Nat /\ worked.seen \in Nat
  BY DEF Onward, TypeOK, Worked
<1>2. \A o \in Numbers : Before(venue, o)' = Before(venue, o)
  BY DEF Before
<1>3. /\ BookFilled' = BookFilled
      /\ \A o \in Numbers : FilledBesides(o)' = FilledBesides(o) /\ Amount(Own(o))' = Amount(Own(o))
  BY BookStays
<1>4. ASSUME NEW o \in Numbers, Follows(o)' PROVE ExactOf(o)'
  <2>1. Follows(o) /\ ExactOf(o)
    BY <1>1, <1>4 DEF Follows, Exact
  <2>2. ASSUME NEW r \in Known(o)', worked' = None \/ r.at >= worked'.seen PROVE Amount(Own(o)) <= r.filled
    <3>1. r \in Known(o) /\ r \in Records
      BY KnownType
    <3>2. worked = None \/ r.at >= worked.seen
      BY <1>1, <2>2, <3>1 DEF Records
    <3> QED BY <2>1, <3>1, <3>2 DEF ExactOf
  <2>3. (\A r \in Known(o) : worked = None \/ r.at >= worked.seen => Amount(Own(o)) <= r.filled)'
    BY <1>3, <2>2
  <2>4. (worked # None => worked.carried = FilledBesides(o))'
    BY <1>1, <1>3, <2>1 DEF ExactOf
  <2>5. (\A e \in executions : e.id[1] <= o /\ (e.id[1] = o => e.id[2] <= Amount(Own(o))))'
    BY <1>3, <2>1 DEF ExactOf
  <2>6. (FilledBesides(o) <= Before(venue, o))'
    BY <1>2, <1>3, <2>1 DEF ExactOf
  <2> QED BY <2>3, <2>4, <2>5, <2>6 DEF ExactOf
<1>5. taken' = {} /\ busted' = {} /\ (worked' # None => worked'.filled = BookFilled')
  BY <1>1, <1>3 DEF Exact
<1>6. /\ b["crash"] > 0 /\ worked' # None => booked' = worked'.order
      /\ b["crash"] = 0 => worked' # None
      /\ Still(b) => \A p \in Numbers : p # 1 => venue'[p].status = "none"
  BY <1>1 DEF Exact
<1> QED BY <1>4, <1>5, <1>6 DEF Exact

\* and what is left of the stream is of orders made.
LEMMA StreamedShrinks ==
    ASSUME TypeOK, Streamed, updates' = updates \/ updates' = <<>> \/ (updates # <<>> /\ updates' = Tail(updates))
    PROVE  Streamed' /\ updates' \in Seq([of : Numbers, record : Records])
<1> DEFINE S == [of : Numbers, record : Records]
<1>1. updates \in Seq(S)
  BY DEF TypeOK
<1> HIDE DEF S
<1>2. updates' \in Seq(S)
  <2>1. <<>> \in Seq(S)
    OBVIOUS
  <2>2. updates # <<>> => Tail(updates) \in Seq(S)
    BY <1>1
  <2> QED BY <1>1, <2>1, <2>2
<1>3. CASE updates' = updates
  BY <1>2, <1>3 DEF Streamed, S
<1>4. CASE updates' = <<>>
  BY <1>2, <1>4 DEF Streamed, S
<1>5. CASE updates # <<>> /\ updates' = Tail(updates)
  <2>1. Len(updates') = Len(updates) - 1 /\ Len(updates) \in Nat
        /\ \A i \in 1..Len(updates') : updates'[i] = updates[i + 1] /\ i + 1 \in 1..Len(updates)
    BY <1>1, <1>5
  <2> QED BY <1>2, <2>1 DEF Streamed, S
<1> QED BY <1>3, <1>4, <1>5

\* So a step that touches neither the venue nor the book leaves the invariant.
LEMMA RightStays ==
    ASSUME NEW b \in [Mishaps -> Nat], Right(b),
           UNCHANGED <<venue, peak, taken, executions, busted, booked>>, Onward,
           updates' = updates \/ updates' = <<>> \/ (updates # <<>> /\ updates' = Tail(updates)),
           job' = None \/ \A p \in Numbers : job'.orders[p] \in Known(p),
           worked' \in Worked \cup {None}, job' \in Jobs \cup {None}, end' \in {"no", "cancelled"},
           Bounded(b)' /\ left' \in [Mishaps -> Nat], InHand'
    PROVE  Right(b)'
<1>1. TypeOK /\ IsFiniteSet(executions) /\ Bounded(b) /\ Lined /\ Stale /\ Streamed /\ InHand /\ Kept
  BY DEF Right, Base
<1>2. \A o \in Numbers : Known(o)' \subseteq Known(o)
  BY <1>1, KnownShrinks
<1>3. Lined' /\ Stale' /\ Kept' /\ Streamed' /\ updates' \in Seq([of : Numbers, record : Records])
  BY <1>1, <1>2, StaleStays, KeptStays, StreamedShrinks
<1>4. TypeOK'
  <2>1. job' # None => worked' # None
    BY DEF InHand
  <2> QED BY <1>1, <1>3, <2>1 DEF TypeOK
<1>5. CASE Plain(b)
  <2>1. Exact(b)'
    BY <1>1, <1>2, <1>5, ExactStays DEF Right
  <2> QED BY <1>1, <1>3, <1>4, <1>5, <2>1 DEF Right, Base
<1>6. CASE ~Plain(b)
  <2>1. Traced(b)'
    BY <1>1, <1>2, <1>6, TracedStays DEF Right
  <2> QED BY <1>1, <1>3, <1>4, <1>6, <2>1 DEF Right, Base
<1> QED BY <1>5, <1>6

-----------------------------------------------------------------------------
(* The steps that leave the book. *)

\* What a step finds right.
LEMMA RightIs ==
    ASSUME NEW b, Right(b)
    PROVE  TypeOK /\ IsFiniteSet(executions) /\ Bounded(b) /\ Lined /\ Stale /\ Streamed /\ InHand /\ Kept
BY DEF Right, Base

\* What it keeps, by its parts,
LEMMA WorkedType ==
    ASSUME TypeOK, worked # None
    PROVE  /\ worked \in Worked /\ worked.order \in Numbers /\ worked.filled \in Nat /\ worked.carried \in Nat
           /\ worked.filled \in Amounts /\ worked.carried \in Amounts /\ worked.seen \in Nat
           /\ worked.fills \in SUBSET [id : Ids, cumulative : Amounts] /\ worked.endedPolls \in 0..EndedPolls
           /\ worked.ended \in {"no", "cancelled", "filled"} /\ worked.replacing \in BOOLEAN
BY FillsAssumption DEF TypeOK, Worked, Amounts

\* what it has in hand,
LEMMA JobType ==
    ASSUME TypeOK, job # None
    PROVE  /\ job \in Jobs /\ job.of \in Numbers /\ job.orders \in [Numbers -> Records] /\ job.filled \in Nat
           /\ job.listed \in BOOLEAN /\ job.over \in BOOLEAN
           /\ Record \in Records /\ Record \in Known(job.of) /\ Record = job.orders[job.of]
           /\ worked # None /\ \A o \in Numbers : job.orders[o] \in Known(o)
<1>1. /\ job \in Jobs /\ job.of \in Numbers /\ job.orders \in [Numbers -> Records] /\ job.filled \in Nat
      /\ job.listed \in BOOLEAN /\ job.over \in BOOLEAN /\ worked # None
  BY DEF TypeOK, Jobs
<1> QED BY <1>1, KnownInHand DEF Record

\* and a record.
LEMMA RecordType ==
    ASSUME NEW r \in Records
    PROVE  r.at \in Nat /\ r.filled \in Amounts /\ r.filled \in Nat /\ r.status \in States
BY FillsAssumption DEF Records, Amounts

\* The record in hand while its order is the one worked.
LEMMA HandOf ==
    ASSUME TypeOK, InHand, job # None, job.at # "replaced"
    PROVE  job.of = worked.order /\ Works(job.of) /\ Follows(job.of) /\ worked # None
BY JobType DEF InHand, Works, Follows

\* A step that leaves what it keeps but for what it has read or how it stands.
LEMMA OnwardSame ==
    ASSUME TypeOK, Kept,
           \/ worked' = worked
           \/ /\ worked # None /\ worked' # None
              /\ worked'.order = worked.order /\ worked'.filled = worked.filled
              /\ worked'.carried = worked.carried /\ worked'.fills = worked.fills
              /\ worked'.seen = worked.seen
    PROVE  Onward
<1>1. worked # None => worked.seen \in Nat /\ worked.order \in Numbers /\ worked.seen <= venue[worked.order].at
  BY WorkedType DEF Kept, Works
<1> QED BY <1>1 DEF Onward

\* The invariant at `Judge`: news is read, and what is older passed over.
LEMMA JudgeStep ==
    ASSUME NEW b \in [Mishaps -> Nat], Right(b), Judge
    PROVE  Right(b)'
<1>1. TypeOK /\ Bounded(b) /\ InHand /\ Kept /\ Stale
  BY RightIs
<1>2. /\ job # None /\ job.at = "status"
      /\ UNCHANGED <<venue, updates, peak, taken, executions, busted, end, booked, left>>
  BY DEF Judge, Doing, venueVars, bookVars
<1>3. /\ worked \in Worked /\ worked # None /\ worked.order \in Numbers /\ worked.seen \in Nat
      /\ worked.carried \in Nat
  BY <1>1, <1>2, JobType, WorkedType
<1>4. job.of = worked.order /\ Record \in Records /\ Record \in Known(worked.order) /\ job \in Jobs
      /\ \A o \in Numbers : job.orders[o] \in Known(o)
  BY <1>1, <1>2, JobType, HandOf
<1>5. Record.at \in Nat /\ Record.filled \in Nat /\ Record.at <= venue[worked.order].at
  BY <1>1, <1>3, <1>4, RecordType DEF Stale
<1>6. CASE News
  <2>1. worked' = [worked EXCEPT !.seen = Record.at] /\ job' = [job EXCEPT !.at = "fills", !.filled = Filled]
    BY <1>6 DEF Judge
  <2>2. worked' \in Worked /\ worked' # None /\ Filled \in Nat
    BY <1>3, <1>5, <2>1, NoneAssumption DEF Worked, Filled
  <2>3. job' \in Jobs
    BY <1>4, <2>1, <2>2 DEF Jobs
  <2>4. /\ worked'.order = worked.order /\ worked'.filled = worked.filled /\ worked'.carried = worked.carried
        /\ worked'.fills = worked.fills /\ worked'.seen = Record.at
    BY <1>3, <2>1 DEF Worked
  <2>5. job'.of = job.of /\ job'.orders = job.orders /\ job'.at = "fills" /\ job'.filled = Filled
    BY <1>4, <2>1 DEF Jobs
  <2>6. Onward
    BY <1>3, <1>5, <1>6, <2>2, <2>4 DEF Onward, News
  <2>7. InHand'
    BY <1>4, <2>2, <2>4, <2>5 DEF InHand, Record, Filled
  <2> QED BY <1>1, <1>2, <1>4, <2>2, <2>3, <2>5, <2>6, <2>7, RightStays DEF Bounded, TypeOK
<1>7. CASE ~News
  <2>1. worked' = worked /\ job' = None
    BY <1>7 DEF Judge
  <2>2. Onward /\ InHand'
    BY <1>1, <2>1, OnwardSame DEF InHand
  <2> QED BY <1>1, <1>2, <2>1, <2>2, RightStays DEF Bounded, TypeOK
<1> QED BY <1>6, <1>7

\* A step that only leaves the record, or goes to the end with it.
LEMMA LeavesOff ==
    ASSUME NEW b \in [Mishaps -> Nat], Right(b),
           UNCHANGED <<venue, updates, peak, taken, executions, busted, booked>>,
           Onward, worked' \in Worked \cup {None}, job' = None, end' \in {"no", "cancelled"},
           left' = left \/ (Bounded(b)' /\ left' \in [Mishaps -> Nat])
    PROVE  Right(b)'
<1>1. TypeOK /\ Bounded(b)
  BY RightIs
<1>2. Bounded(b)' /\ left' \in [Mishaps -> Nat]
  BY <1>1 DEF Bounded, TypeOK
<1>3. InHand'
  BY DEF InHand
<1> QED BY <1>2, <1>3, RightStays

\* A step that goes on to how the order stands.
LEMMA ToEnd ==
    ASSUME NEW b \in [Mishaps -> Nat], Right(b),
           UNCHANGED <<venue, updates, peak, taken, executions, busted, end, booked>>,
           worked' = worked, Doing("fills"), job' = [job EXCEPT !.at = "end"],
           left' = left \/ (Bounded(b)' /\ left' \in [Mishaps -> Nat])
    PROVE  Right(b)'
<1>1. TypeOK /\ Bounded(b) /\ InHand /\ Kept
  BY RightIs
<1>2. Bounded(b)' /\ left' \in [Mishaps -> Nat]
  BY <1>1 DEF Bounded, TypeOK
<1>3. job # None /\ job.at = "fills" /\ job \in Jobs /\ \A o \in Numbers : job.orders[o] \in Known(o)
  BY <1>1, JobType DEF Doing
<1>4. job' \in Jobs /\ job'.of = job.of /\ job'.orders = job.orders /\ job'.filled = job.filled /\ job'.at = "end"
  BY <1>3 DEF Jobs
<1>5. InHand'
  BY <1>1, <1>3, <1>4 DEF InHand, Record
<1>6. Onward /\ worked' \in Worked \cup {None} /\ end' \in {"no", "cancelled"}
  BY <1>1, OnwardSame DEF TypeOK
<1> QED BY <1>2, <1>3, <1>4, <1>5, <1>6, RightStays

\* The invariant at a fill that waits for its settlement date,
LEMMA WaitsStep ==
    ASSUME NEW b \in [Mishaps -> Nat], Right(b), Waits
    PROVE  Right(b)'
<1>1. Bounded(b)' /\ left' \in [Mishaps -> Nat]
  <2>1. TypeOK /\ Bounded(b) /\ "date" \in Mishaps /\ Spend("date")
    BY RightIs DEF Waits, Mishaps
  <2> QED BY <2>1, Spends
<1>2. /\ UNCHANGED <<venue, updates, peak, taken, executions, busted, end, booked>> /\ worked' = worked
      /\ Doing("fills") /\ job' = [job EXCEPT !.at = "end"]
  BY DEF Waits, venueVars, bookVars
<1> QED BY <1>1, <1>2, ToEnd

\* where there is nothing to report,
LEMMA NoneGrownStep ==
    ASSUME NEW b \in [Mishaps -> Nat], Right(b), NoneGrown
    PROVE  Right(b)'
<1>2. /\ UNCHANGED <<venue, updates, peak, taken, executions, busted, end, booked>> /\ worked' = worked
      /\ Doing("fills") /\ job' = [job EXCEPT !.at = "end"] /\ left' = left
  BY DEF NoneGrown, venueVars, bookVars
<1> QED BY <1>2, ToEnd

\* at how the order stands,
LEMMA StandsStep ==
    ASSUME NEW b \in [Mishaps -> Nat], Right(b), Stands
    PROVE  Right(b)'
<1>1. TypeOK /\ Bounded(b) /\ InHand /\ Kept /\ Stale /\ Lined
  BY RightIs
<1>2. /\ job # None /\ job.at = "end"
      /\ UNCHANGED <<venue, updates, peak, taken, executions, busted, end, booked, left>>
  BY DEF Stands, Doing, venueVars, bookVars
<1>3. worked \in Worked /\ worked # None /\ worked.order \in Numbers
  BY <1>1, <1>2, JobType, WorkedType
<1>4. job.of = worked.order /\ Record \in Records /\ Record \in Known(worked.order) /\ job \in Jobs
      /\ \A o \in Numbers : job.orders[o] \in Known(o)
  BY <1>1, <1>2, JobType, HandOf
<1>5. Bounded(b)' /\ left' \in [Mishaps -> Nat] /\ end' \in {"no", "cancelled"}
  BY <1>1, <1>2 DEF Bounded, TypeOK
<1>6. ASSUME Record.status = "replaced", job' = [job EXCEPT !.at = "replaced", !.of = job.of + 1], worked' = worked
      PROVE  Right(b)'
  <2>1. Record = venue[worked.order]
    BY <1>1, <1>3, <1>4, <1>6 DEF Stale
  <2>2. worked.order + 1 \in Numbers /\ venue[worked.order + 1].status # "none"
    BY <1>1, <1>3, <1>6, <2>1 DEF Lined
  <2>3. job' \in Jobs /\ job'.of = worked.order + 1 /\ job'.orders = job.orders /\ job'.at = "replaced"
    BY <1>4, <1>6, <2>2 DEF Jobs
  <2>4. InHand'
    BY <1>2, <1>3, <1>6, <2>2, <2>3 DEF InHand
  <2>5. Onward /\ worked' \in Worked \cup {None}
    BY <1>1, <1>3, <1>6, OnwardSame
  <2> QED BY <1>2, <1>4, <1>5, <2>3, <2>4, <2>5, RightStays
<1>7. ASSUME Record.status = "cancelled", worked' = [worked EXCEPT !.ended = "cancelled"],
             job' = [job EXCEPT !.at = "cancelled"]
      PROVE  Right(b)'
  <2>1. worked' \in Worked /\ worked' # None
    BY <1>3, <1>7, NoneAssumption DEF Worked
  <2>2. /\ worked'.order = worked.order /\ worked'.filled = worked.filled /\ worked'.carried = worked.carried
        /\ worked'.fills = worked.fills /\ worked'.seen = worked.seen
    BY <1>3, <1>7 DEF Worked
  <2>3. /\ job' \in Jobs /\ job'.of = job.of /\ job'.orders = job.orders
        /\ job'.at = "cancelled" /\ job'.filled = job.filled
    BY <1>4, <1>7 DEF Jobs
  <2>4. Onward
    BY <1>1, <1>3, <2>1, <2>2, OnwardSame
  <2>5. InHand'
    BY <1>1, <1>2, <1>4, <1>7, <2>1, <2>2, <2>3 DEF InHand, Record
  <2> QED BY <1>2, <1>4, <1>5, <2>1, <2>3, <2>4, <2>5, RightStays
<1>8. ASSUME worked' = [worked EXCEPT !.ended = "filled"], job' = None PROVE Right(b)'
  <2>1. worked' \in Worked /\ worked' # None
    BY <1>3, <1>8, NoneAssumption DEF Worked
  <2>2. /\ worked'.order = worked.order /\ worked'.filled = worked.filled /\ worked'.carried = worked.carried
        /\ worked'.fills = worked.fills /\ worked'.seen = worked.seen
    BY <1>3, <1>8 DEF Worked
  <2>3. Onward
    BY <1>1, <1>3, <2>1, <2>2, OnwardSame
  <2> QED BY <1>2, <1>5, <1>8, <2>1, <2>3, LeavesOff
<1>9. ASSUME worked' = worked, job' = None PROVE Right(b)'
  <2>1. Onward /\ worked' \in Worked \cup {None}
    BY <1>1, <1>3, <1>9, OnwardSame
  <2> QED BY <1>2, <1>5, <1>9, <2>1, LeavesOff
<1> QED BY <1>6, <1>7, <1>8, <1>9 DEF Stands

\* where its end is reported,
LEMMA CancelledStep ==
    ASSUME NEW b \in [Mishaps -> Nat], Right(b), Cancelled
    PROVE  Right(b)'
<1>1. TypeOK /\ Bounded(b) /\ Kept
  BY RightIs
<1>2. job' = None /\ worked' = worked /\ UNCHANGED <<venue, updates, peak, taken, executions, busted, booked>>
  BY DEF Cancelled, venueVars
<1>3. end' \in {"no", "cancelled"}
  BY <1>1 DEF Cancelled, TypeOK
<1>4. left' = left \/ Spend("report")
  BY DEF Cancelled
<1>5. left' = left \/ (Bounded(b)' /\ left' \in [Mishaps -> Nat])
  <2>1. "report" \in Mishaps
    BY DEF Mishaps
  <2> QED BY <1>1, <1>4, <2>1, Spends
<1>6. Onward /\ worked' \in Worked \cup {None}
  BY <1>1, <1>2, OnwardSame DEF TypeOK
<1> QED BY <1>2, <1>3, <1>5, <1>6, LeavesOff

\* where the orders are read,
LEMMA PollStep ==
    ASSUME NEW b \in [Mishaps -> Nat], Right(b), Poll
    PROVE  Right(b)'
<1>1. TypeOK /\ Bounded(b) /\ InHand /\ Kept
  BY RightIs
<1> DEFINE polls == IF worked.ended = "no" THEN 0 ELSE worked.endedPolls + 1
<1>2. /\ worked # None /\ PollsStill(polls) /\ worked' = [worked EXCEPT !.endedPolls = polls]
      /\ job' = Hand("status", worked.order, venue, TRUE, FALSE)
      /\ UNCHANGED <<venue, updates, peak, taken, executions, busted, end, booked, left>>
  BY DEF Poll, venueVars, bookVars
<1>3. worked \in Worked /\ worked.order \in Numbers /\ worked.endedPolls \in 0..EndedPolls
  BY <1>1, <1>2, WorkedType
<1>4. polls \in 0..EndedPolls
  BY <1>2, <1>3, FillsAssumption DEF PollsStill
<1> HIDE DEF polls
<1>5. worked' \in Worked /\ worked' # None
  BY <1>2, <1>3, <1>4, NoneAssumption DEF Worked
<1>6. /\ worked'.order = worked.order /\ worked'.filled = worked.filled /\ worked'.carried = worked.carried
      /\ worked'.fills = worked.fills /\ worked'.seen = worked.seen
  BY <1>2, <1>3 DEF Worked
<1>7. Onward
  BY <1>1, <1>2, <1>5, <1>6, OnwardSame
<1>8. job' \in Jobs /\ job'.at = "status" /\ job'.of = worked.order /\ job'.orders = venue
  <2> DEFINE F == FALSE
             T == TRUE
             h == Hand("status", worked.order, venue, T, F)
  <2>1. job' = h
    BY <1>2
  <2>2. F \in BOOLEAN /\ T \in BOOLEAN /\ venue \in [Numbers -> Records]
    BY <1>1 DEF TypeOK
  <2>3. h \in Jobs /\ h.at = "status" /\ h.of = worked.order /\ h.orders = venue
    <3> HIDE DEF F, T
    <3> QED BY <1>3, <2>2, HandIs
  <2> HIDE DEF h
  <2> QED BY <2>1, <2>3
<1>9. \A p \in Numbers : job'.orders[p] \in Known(p)
  BY <1>1, <1>8, KnownType
<1>10. InHand'
  BY <1>5, <1>6, <1>8 DEF InHand
<1>11. Bounded(b)' /\ left' \in [Mishaps -> Nat] /\ end' \in {"no", "cancelled"}
  BY <1>1, <1>2 DEF Bounded, TypeOK
<1> QED BY <1>2, <1>5, <1>7, <1>8, <1>9, <1>10, <1>11, RightStays

\* and where an update is heard.
LEMMA HearUpdateStep ==
    ASSUME NEW b \in [Mishaps -> Nat], Right(b), HearUpdate
    PROVE  Right(b)'
<1>1. TypeOK /\ Bounded(b) /\ InHand /\ Kept /\ Streamed /\ Stale
  BY RightIs
<1> DEFINE o == Head(updates).of
           r == Head(updates).record
           orders == [venue EXCEPT ![o] = r]
<1>2. /\ worked # None /\ updates # <<>> /\ updates' = Tail(updates)
      /\ UNCHANGED <<venue, peak, taken, executions, busted, end, booked, worked, left>>
      /\ \/ o = worked.order /\ job' = Hand("status", o, orders, FALSE, FALSE)
         \/ o = worked.order + 1 /\ job' = Hand("replaced", o, orders, FALSE, FALSE)
         \/ job' = None
  BY DEF HearUpdate, bookVars
<1>3. o \in Numbers /\ r \in Records /\ r \in Known(o) /\ r.status # "none"
  <2> DEFINE S == [of : Numbers, record : Records]
  <2>1. updates \in Seq(S)
    BY <1>1 DEF TypeOK
  <2>2. Head(updates) = updates[1] /\ 1 \in 1..Len(updates) /\ updates[1] \in S
    <3> HIDE DEF S
    <3> QED BY <1>2, <2>1
  <2> QED BY <1>1, <2>2 DEF Known, Streamed
<1>4. Bounded(b)' /\ left' \in [Mishaps -> Nat] /\ end' \in {"no", "cancelled"} /\ Onward
      /\ worked' \in Worked \cup {None} /\ worked.order \in Numbers
  BY <1>1, <1>2, OnwardSame, WorkedType DEF Bounded, TypeOK
<1>5. venue \in [Numbers -> Records]
  BY <1>1 DEF TypeOK
<1> HIDE DEF o, r
<1>6. orders \in [Numbers -> Records] /\ \A p \in Numbers : orders[p] \in Known(p)
  BY <1>1, <1>3, <1>5, KnownType
<1> HIDE DEF orders
<1>7. ASSUME NEW at \in {"status", "replaced"}, NEW p \in Numbers, job' = Hand(at, p, orders, FALSE, FALSE)
      PROVE  job' \in Jobs /\ job'.at = at /\ job'.of = p /\ job'.orders = orders
  <2> DEFINE F == FALSE
             h == Hand(at, p, orders, F, F)
  <2>1. job' = h
    BY <1>7
  <2>2. F \in BOOLEAN
    OBVIOUS
  <2>3. h \in Jobs /\ h.at = at /\ h.of = p /\ h.orders = orders
    <3> HIDE DEF F
    <3> QED BY <1>6, <2>2, HandIs
  <2> HIDE DEF h
  <2> QED BY <2>1, <2>3
<1>8. CASE o = worked.order /\ job' = Hand("status", o, orders, FALSE, FALSE)
  <2>1. job' \in Jobs /\ job'.at = "status" /\ job'.of = o /\ job'.orders = orders
    BY <1>3, <1>7, <1>8
  <2>2. InHand'
    BY <1>2, <1>8, <2>1 DEF InHand
  <2> QED BY <1>2, <1>4, <1>6, <2>1, <2>2, RightStays
<1>9. CASE o = worked.order + 1 /\ job' = Hand("replaced", o, orders, FALSE, FALSE)
  <2>1. job' \in Jobs /\ job'.at = "replaced" /\ job'.of = o /\ job'.orders = orders
    BY <1>3, <1>7, <1>9
  <2>2. venue[o].status # "none"
    BY <1>1, <1>3 DEF Stale
  <2>3. InHand'
    BY <1>2, <1>9, <2>1, <2>2 DEF InHand
  <2> QED BY <1>2, <1>4, <1>6, <2>1, <2>3, RightStays
<1>10. CASE job' = None
  <2>1. InHand'
    BY <1>10 DEF InHand
  <2> QED BY <1>2, <1>4, <1>10, <2>1, RightStays
<1> QED BY <1>2, <1>8, <1>9, <1>10

-----------------------------------------------------------------------------
(* Busts. *)

\* No report is recorded with its answer lost.
LEMMA NoneLost ==
    ASSUME NEW b \in [Mishaps -> Nat], Counts(b), Right(b)
    PROVE  ~Spend("lost")
<1>1. TypeOK /\ Bounded(b) /\ "lost" \in Mishaps /\ b["lost"] = 0
  BY RightIs DEF Mishaps, Counts
<1> QED BY <1>1, Spends

\* What the book holds: of an order, and of the others.
LEMMA BookType ==
    ASSUME TypeOK, IsFiniteSet(executions)
    PROVE  /\ InBook \in SUBSET Executions /\ IsFiniteSet(InBook) /\ BookFilled \in Nat
           /\ \A o : /\ Amount(Own(o)) \in Nat /\ FilledBesides(o) \in Nat
                     /\ BookFilled = FilledBesides(o) + Amount(Own(o))
<1>1. InBook \subseteq executions /\ executions \subseteq Executions
  BY DEF InBook, TypeOK
<1>2. InBook \in SUBSET Executions /\ IsFiniteSet(InBook)
  BY <1>1, FS_Subset
<1>3. Amount(InBook) \in Nat /\ \A T \in SUBSET InBook : Amount(T) \in Nat
                               /\ Amount(InBook) = Amount(T) + Amount(InBook \ T)
  BY <1>2, AmountType
<1>4. ASSUME NEW o
      PROVE  /\ Amount(Own(o)) \in Nat /\ FilledBesides(o) \in Nat
             /\ BookFilled = FilledBesides(o) + Amount(Own(o))
  <2> DEFINE T == {e \in InBook : e.id[1] # o}
  <2>1. T \in SUBSET InBook /\ InBook \ T = Own(o) /\ Own(o) \in SUBSET InBook
    BY DEF Own
  <2>2. Amount(T) \in Nat /\ Amount(Own(o)) \in Nat /\ Amount(InBook) = Amount(T) + Amount(InBook \ T)
    <3> HIDE DEF T
    <3> QED BY <1>3, <2>1
  <2> QED BY <2>1, <2>2 DEF BookFilled, FilledBesides
<1> QED BY <1>2, <1>3, <1>4 DEF BookFilled

\* Where no fill is taken back, no record read says less than it reported.
LEMMA NoneTakenBack ==
    ASSUME NEW b, Right(b), Plain(b), Doing("fills")
    PROVE  worked.filled <= job.filled
<1>1. TypeOK /\ IsFiniteSet(executions) /\ InHand /\ Exact(b)
  BY RightIs DEF Right
<1>2. job # None /\ job.at = "fills"
  BY DEF Doing
<1> DEFINE o == job.of
<1>3. /\ o \in Numbers /\ worked # None /\ worked.order = o /\ Follows(o)
      /\ Record \in Records /\ Record \in Known(o)
  BY <1>1, <1>2, JobType, HandOf
<1>4. job.filled = worked.carried + Record.filled /\ Record.at = worked.seen
  BY <1>1, <1>2 DEF InHand
<1> HIDE DEF o
<1>5. worked.filled = BookFilled /\ ExactOf(o)
  BY <1>1, <1>3 DEF Exact
<1>6. Record.filled \in Nat /\ Record.at \in Nat
  BY <1>3, RecordType
<1>7. Amount(Own(o)) <= Record.filled /\ worked.carried = FilledBesides(o)
  BY <1>3, <1>4, <1>5, <1>6 DEF ExactOf
<1>8. Amount(Own(o)) \in Nat /\ FilledBesides(o) \in Nat /\ BookFilled = FilledBesides(o) + Amount(Own(o))
  BY <1>1, BookType
<1> QED BY <1>4, <1>5, <1>6, <1>7, <1>8

\* What is doomed was taken back.
LEMMA DoomedTaken ==
    ASSUME NEW b, Right(b), ~Plain(b), Doing("fills"), NEW f \in Doomed
    PROVE  f.id \in taken /\ f \in worked.fills /\ f.id[1] = worked.order
<1>1. TypeOK /\ InHand /\ Traced(b)
  BY RightIs DEF Right
<1>2. job # None /\ job.at = "fills"
  BY DEF Doing
<1> DEFINE o == job.of
<1>3. /\ o \in Numbers /\ worked # None /\ worked.order = o /\ Works(o) /\ Record \in Records /\ Record \in Known(o)
  BY <1>1, <1>2, JobType, HandOf
<1>4. job.filled = worked.carried + Record.filled /\ Record.at = worked.seen
  BY <1>1, <1>2 DEF InHand
<1> HIDE DEF o
<1>5. TracedOf(b, o)
  BY <1>1, <1>3 DEF Traced
<1>6. Record.filled \in Nat /\ Record.at \in Nat /\ worked.carried \in Nat
  BY <1>1, <1>3, RecordType, WorkedType
<1>7. f \in worked.fills /\ f.cumulative > job.filled
  BY DEF Doomed
<1>8. f.id \in Ids /\ f.cumulative \in Nat /\ f.id[2] \in Nat
  BY <1>1, <1>3, <1>7, WorkedType, FillsAssumption DEF Ids, Amounts
<1>9. f.id[1] = o
  BY <1>4, <1>5, <1>6, <1>7, <1>8 DEF TracedOf
<1>10. f.id[2] > Record.filled
  BY <1>4, <1>5, <1>6, <1>7, <1>8, <1>9 DEF TracedOf
<1> QED BY <1>3, <1>4, <1>5, <1>6, <1>7, <1>9, <1>10 DEF TracedOf

\* The invariant at a bust: what is busted was taken back, the last fill first.
LEMMA BustStep ==
    ASSUME NEW b \in [Mishaps -> Nat], Counts(b), Right(b), Bust
    PROVE  Right(b)' /\ ~Plain(b)
<1>1. TypeOK /\ IsFiniteSet(executions) /\ Bounded(b) /\ InHand /\ Kept /\ Stale /\ Lined /\ Streamed
  BY RightIs
<1>2. /\ Doing("fills") /\ job.filled < worked.filled
      /\ UNCHANGED <<venue, updates, peak, taken, executions, end, booked>>
  BY DEF Bust, venueVars
<1>3. /\ job # None /\ job.at = "fills"
      /\ worked # None /\ worked \in Worked /\ job.filled \in Nat /\ worked.filled \in Nat
      /\ worked.order \in Numbers /\ job.of = worked.order
  BY <1>1, <1>2, JobType, WorkedType, HandOf DEF Doing
<1>4. ~Plain(b)
  BY <1>2, <1>3, NoneTakenBack
<1>5. Traced(b)
  BY <1>4 DEF Right
<1>6. PICK f \in Doomed :
        \/ /\ busted' = busted \cup {f.id}
           /\ worked' = [worked EXCEPT !.fills = @ \ {f}]
           /\ UNCHANGED <<job, left>>
        \/ /\ \/ Spend("report") /\ UNCHANGED busted
              \/ Spend("lost") /\ busted' = busted \cup {f.id}
           /\ job' = None
           /\ UNCHANGED worked
  BY DEF Bust
<1>7. f.id \in taken /\ f \in worked.fills /\ f.id[1] = worked.order
  BY <1>2, <1>4, DoomedTaken
<1>8. CASE Spend("report") /\ UNCHANGED busted /\ job' = None /\ UNCHANGED worked
  <2>1. Bounded(b)' /\ left' \in [Mishaps -> Nat]
    <3>1. "report" \in Mishaps
      BY DEF Mishaps
    <3> QED BY <1>1, <1>8, <3>1, Spends
  <2>2. Onward /\ worked' \in Worked \cup {None} /\ end' \in {"no", "cancelled"}
    BY <1>1, <1>2, <1>8, OnwardSame DEF TypeOK
  <2> QED BY <1>2, <1>4, <1>8, <2>1, <2>2, LeavesOff
<1>9. CASE busted' = busted \cup {f.id} /\ worked' = [worked EXCEPT !.fills = @ \ {f}] /\ UNCHANGED <<job, left>>
  <2>1. /\ worked' \in Worked /\ worked' # None
        /\ worked'.order = worked.order /\ worked'.filled = worked.filled /\ worked'.carried = worked.carried
        /\ worked'.fills = worked.fills \ {f} /\ worked'.seen = worked.seen
    BY <1>3, <1>9, NoneAssumption DEF Worked
  <2>2. TypeOK'
    <3>1. f.id \in Ids
      BY <1>3, <1>7 DEF Worked
    <3> QED BY <1>1, <1>2, <1>9, <2>1, <3>1 DEF TypeOK
  <2>3. \A o \in Numbers : Known(o)' \subseteq Known(o)
    BY <1>1, <1>2, <1>9, <1>3, KnownShrinks, KnownInHand
  <2>4. Lined' /\ Stale' /\ Streamed'
    BY <1>1, <1>2, <2>3, StaleStays, StreamedShrinks
  <2>5. \A o \in Numbers : Before(venue, o)' = Before(venue, o)
    BY <1>2 DEF Before
  <2>6. Kept'
    <3>1. ASSUME NEW o \in Numbers, Works(o)'
          PROVE  /\ venue'[o].status # "none" /\ worked'.seen <= venue'[o].at
                 /\ worked'.carried <= Before(venue, o)'
                 /\ \A g \in worked'.fills : g.id[1] <= o
      <4>1. Works(o)
        BY <1>3, <2>1, <3>1 DEF Works
      <4> QED BY <1>1, <1>2, <2>1, <2>5, <4>1 DEF Kept
    <3>2. /\ worked'.filled <= peak' /\ worked'.carried <= worked'.filled
          /\ \A g \in worked'.fills : g.cumulative <= worked'.filled
      BY <1>1, <1>2, <1>3, <2>1 DEF Kept
    <3> QED BY <1>1, <1>2, <3>1, <3>2 DEF Kept
  <2>7. InHand' /\ Bounded(b)'
    BY <1>1, <1>2, <1>3, <1>9, <2>1 DEF InHand, Bounded, Record
  <2>8. InBook' = {e \in InBook : e.id # f.id}
    BY <1>2, <1>9 DEF InBook
  <2>9. Traced(b)'
    <3>1. ASSUME NEW o \in Numbers, Works(o)' PROVE TracedOf(b, o)'
      <4>1. Works(o) /\ o = worked.order /\ TracedOf(b, o)
        BY <1>3, <1>5, <2>1, <3>1 DEF Works, Traced
      <4>2. \A g \in worked'.fills :
              IF g.id[1] = o THEN g.cumulative = worked'.carried + g.id[2] /\ g.id[2] > 0
              ELSE g.cumulative <= worked'.carried
        BY <2>1, <4>1 DEF TracedOf
      <4>3. worked'.carried = 0 \/ \E g \in worked'.fills : g.id[1] # o /\ g.cumulative = worked'.carried
        BY <1>7, <2>1, <4>1 DEF TracedOf
      <4>4. b["taken"] = 0 => venue'[o].status = "filled"
        BY <1>2, <1>5, <1>7, <4>1 DEF Traced
      <4>5. \A r \in Known(o)' : \A g \in worked'.fills :
              g.id[1] = o /\ r.at >= worked'.seen /\ r.filled < g.id[2] => g.id \in taken'
        <5>1. \A r \in Known(o) : \A g \in worked.fills :
                g.id[1] = o /\ r.at >= worked.seen /\ r.filled < g.id[2] => g.id \in taken
          BY <4>1 DEF TracedOf
        <5>2. Known(o)' \subseteq Known(o)
          BY <2>3
        <5> QED BY <1>2, <2>1, <5>1, <5>2
      <4> QED BY <4>2, <4>3, <4>4, <4>5 DEF TracedOf
    <3>2. \A e \in InBook' : \E g \in worked'.fills : g.id = e.id
      <4>1. ASSUME NEW e \in InBook' PROVE \E g \in worked'.fills : g.id = e.id
        <5>1. e \in InBook /\ e.id # f.id
          BY <2>8
        <5>2. PICK g \in worked.fills : g.id = e.id
          BY <1>5, <5>1 DEF Traced
        <5> QED BY <2>1, <5>1, <5>2
      <4> QED BY <4>1
    <3>3. ASSUME NEW n \in Amounts PROVE (Amount(Upto(n)) <= n)'
      <4>1. Upto(n)' \subseteq Upto(n)
        BY <2>1, <2>8 DEF Upto
      <4>2. Upto(n) \in SUBSET Executions /\ IsFiniteSet(Upto(n)) /\ n \in Nat
        <5>1. Upto(n) \subseteq InBook
          BY DEF Upto
        <5> QED BY <1>1, <5>1, BookType, FS_Subset, FillsAssumption DEF Amounts
      <4> DEFINE T == Upto(n)'
                 S == Upto(n)
      <4>3. Amount(T) \in Nat /\ Amount(T) <= Amount(S) /\ Amount(S) \in Nat
        <5>1. T \in SUBSET S /\ S \in SUBSET Executions /\ IsFiniteSet(S)
          BY <4>1, <4>2
        <5> HIDE DEF S, T
        <5> QED BY <5>1, AmountType
      <4>4. Amount(S) <= n
        BY <1>5 DEF Traced
      <4>5. Amount(Upto(n))' = Amount(T)
        BY DEF Amount
      <4> HIDE DEF S, T
      <4> QED BY <4>2, <4>3, <4>4, <4>5
    <3>4. busted' \subseteq taken'
      BY <1>2, <1>5, <1>7, <1>9 DEF Traced
    <3>5. /\ b["taken"] = 0 => \A id \in taken' : venue'[id[1]].status = "filled"
          /\ b["taken"] > 0 => worked'.carried = 0 /\ \A p \in Numbers : p # 1 => venue'[p].status = "none"
      BY <1>2, <1>5, <2>1 DEF Traced
    <3> QED BY <2>1, <3>1, <3>2, <3>3, <3>4, <3>5 DEF Traced
  <2>10. IsFiniteSet(executions)'
    BY <1>1, <1>2
  <2> QED BY <1>4, <2>2, <2>4, <2>6, <2>7, <2>9, <2>10 DEF Right, Base
<1>10. ~Spend("lost")
  BY NoneLost
<1> QED BY <1>4, <1>6, <1>8, <1>9, <1>10

\* What is left to it after busts.
LEMMA StaysIs ==
    ASSUME TypeOK, worked # None
    PROVE  LET C == {f.cumulative : f \in worked.fills} \cup {0}
           IN  /\ Max(C) \in C /\ \A n \in C : n <= Max(C)
               /\ Max(C) \in Amounts /\ 0 <= Max(C) /\ Max(C) \in Nat
<1> DEFINE C == {f.cumulative : f \in worked.fills} \cup {0}
<1>1. C \in SUBSET (0..Quantity) /\ C # {} /\ Quantity \in Nat /\ 0 \in C
  BY WorkedType, FillsAssumption DEF Amounts
<1>2. Max(C) \in C /\ \A n \in C : Max(C) >= n
  <2> HIDE DEF C
  <2> QED BY <1>1, MaxIsGreatest
<1>3. \A n \in C : n \in Nat /\ n \in 0..Quantity
  BY <1>1
<1> HIDE DEF C
<1>4. Max(C) \in C /\ (\A n \in C : n <= Max(C)) /\ Max(C) \in Amounts /\ 0 <= Max(C) /\ Max(C) \in Nat
  BY <1>1, <1>2, <1>3 DEF Amounts
<1> QED BY <1>4 DEF C

\* The less of two.
LEMMA LessOf ==
    ASSUME NEW m \in Nat, NEW n \in Nat, m <= n
    PROVE  Min({m, n}) = m
<1>1. {m, n} \in SUBSET Nat /\ {m, n} # {}
  OBVIOUS
<1>2. Min({m, n}) \in {m, n} /\ \A y \in {m, n} : Min({m, n}) <= y
  BY <1>1, MinIsLeast
<1> QED BY <1>2

\* The invariant where the busts are done: what it has reported is what its last
\* fill left brought it to.
LEMMA BustedStep ==
    ASSUME NEW b \in [Mishaps -> Nat], Counts(b), Right(b), Busted
    PROVE  Right(b)' /\ ~Plain(b)
<1>1. TypeOK /\ IsFiniteSet(executions) /\ Bounded(b) /\ InHand /\ Kept /\ Stale /\ Lined /\ Streamed
  BY RightIs
<1> DEFINE C == {f.cumulative : f \in worked.fills} \cup {0}
           stays == Max(C)
<1>2. /\ Doing("fills") /\ job.filled < worked.filled /\ Doomed = {}
      /\ UNCHANGED <<venue, updates, peak, taken, executions, busted, end, booked, left>>
      /\ worked' = [worked EXCEPT !.filled = stays, !.carried = Min({worked.carried, stays})]
      /\ job' = [job EXCEPT !.at = IF job.filled > stays THEN "fills" ELSE "end"]
  BY DEF Busted, venueVars, bookVars
<1>3. /\ job # None /\ job.at = "fills" /\ worked # None /\ worked \in Worked /\ worked.order \in Numbers
      /\ job.filled \in Nat /\ worked.filled \in Nat /\ worked.carried \in Nat /\ worked.carried \in Amounts
      /\ job.of = worked.order /\ job \in Jobs /\ Works(job.of) /\ \A o \in Numbers : job.orders[o] \in Known(o)
  BY <1>1, <1>2, JobType, WorkedType, HandOf DEF Doing
<1>4. ~Plain(b)
  BY <1>2, <1>3, NoneTakenBack
<1>5. Traced(b)
  BY <1>4 DEF Right
<1>6. stays \in C /\ (\A n \in C : n <= stays) /\ stays \in Amounts /\ stays \in Nat
  BY <1>1, <1>3, StaysIs
<1> HIDE DEF stays
<1>7. stays = 0 \/ \E f \in worked.fills : f.cumulative = stays
  BY <1>6
<1>8. \A f \in worked.fills : f.cumulative <= stays
  BY <1>6
<1>9. stays <= worked.filled
  BY <1>1, <1>3, <1>7 DEF Kept
<1>10. worked.carried <= stays
  <2>1. worked.carried = 0 \/ \E f \in worked.fills : f.cumulative = worked.carried
    BY <1>3, <1>5 DEF Traced, TracedOf
  <2> QED BY <1>6, <1>8, <2>1
<1>11. Min({worked.carried, stays}) = worked.carried
  BY <1>3, <1>6, <1>10, LessOf
<1> HIDE DEF C
<1>12. /\ worked' \in Worked /\ worked' # None
       /\ worked'.order = worked.order /\ worked'.filled = stays /\ worked'.carried = worked.carried
       /\ worked'.fills = worked.fills /\ worked'.seen = worked.seen
  BY <1>2, <1>3, <1>6, <1>11, NoneAssumption DEF Worked
<1>13. /\ job' \in Jobs /\ job'.of = job.of /\ job'.orders = job.orders /\ job'.filled = job.filled
       /\ job'.at \in {"fills", "end"}
  BY <1>2, <1>3 DEF Jobs
<1>14. TypeOK'
  BY <1>1, <1>2, <1>12, <1>13 DEF TypeOK
<1>15. \A o \in Numbers : Known(o)' \subseteq Known(o)
  BY <1>1, <1>2, <1>3, <1>13, KnownShrinks
<1>16. Lined' /\ Stale' /\ Streamed'
  BY <1>1, <1>2, <1>15, StaleStays, StreamedShrinks
<1>17. \A o \in Numbers : Before(venue, o)' = Before(venue, o)
  BY <1>2 DEF Before
<1>18. Kept'
  <2>1. ASSUME NEW o \in Numbers, Works(o)'
        PROVE  /\ venue'[o].status # "none" /\ worked'.seen <= venue'[o].at
               /\ worked'.carried <= Before(venue, o)'
               /\ \A g \in worked'.fills : g.id[1] <= o
    <3>1. Works(o)
      BY <1>3, <1>12, <2>1 DEF Works
    <3> QED BY <1>1, <1>2, <1>12, <1>17, <3>1 DEF Kept
  <2>2. worked.filled <= peak /\ peak \in Nat
    BY <1>1, <1>3, FillsAssumption DEF Kept, TypeOK, Amounts
  <2>3. /\ worked'.filled <= peak' /\ worked'.carried <= worked'.filled
        /\ \A g \in worked'.fills : g.cumulative <= worked'.filled
    BY <1>2, <1>3, <1>6, <1>8, <1>9, <1>10, <1>12, <2>2
  <2> QED BY <1>1, <1>2, <2>1, <2>3 DEF Kept
<1>19. InHand' /\ Bounded(b)'
  BY <1>1, <1>2, <1>3, <1>12, <1>13 DEF InHand, Bounded, Record
<1>20. InBook' = InBook
  BY <1>2 DEF InBook
<1>21. Traced(b)'
  <2>1. ASSUME NEW o \in Numbers, Works(o)' PROVE TracedOf(b, o)'
    <3>1. Works(o) /\ o = worked.order /\ TracedOf(b, o)
      BY <1>3, <1>5, <1>12, <2>1 DEF Works, Traced
    <3>2. \A g \in worked'.fills :
            IF g.id[1] = o THEN g.cumulative = worked'.carried + g.id[2] /\ g.id[2] > 0
            ELSE g.cumulative <= worked'.carried
      BY <1>12, <3>1 DEF TracedOf
    <3>3. worked'.carried = 0 \/ \E g \in worked'.fills : g.id[1] # o /\ g.cumulative = worked'.carried
      BY <1>12, <3>1 DEF TracedOf
    <3>4. ASSUME b["taken"] = 0, venue'[o].status # "filled"
          PROVE  /\ worked'.filled = 0 \/ \E f \in worked'.fills : f.cumulative = worked'.filled
                 /\ worked'.filled <= Before(venue, o)' + venue'[o].filled
      <4>1. worked.filled <= Before(venue, o) + venue[o].filled
        BY <1>2, <3>1, <3>4 DEF TracedOf
      <4>2. Before(venue, o) \in Nat /\ venue[o].filled \in Nat
        <5>1. venue \in [Numbers -> Records]
          BY <1>1 DEF TypeOK
        <5> QED BY <5>1, BeforeType, RecordType
      <4> QED BY <1>2, <1>3, <1>6, <1>7, <1>9, <1>12, <1>17, <4>1, <4>2
    <3>5. \A r \in Known(o)' : \A g \in worked'.fills :
            g.id[1] = o /\ r.at >= worked'.seen /\ r.filled < g.id[2] => g.id \in taken'
      <4>1. \A r \in Known(o) : \A g \in worked.fills :
              g.id[1] = o /\ r.at >= worked.seen /\ r.filled < g.id[2] => g.id \in taken
        BY <3>1 DEF TracedOf
      <4>2. Known(o)' \subseteq Known(o)
        BY <1>15
      <4> QED BY <1>2, <1>12, <4>1, <4>2
    <3> QED BY <3>2, <3>3, <3>4, <3>5 DEF TracedOf
  <2>2. \A e \in InBook' : \E g \in worked'.fills : g.id = e.id
    BY <1>5, <1>12, <1>20 DEF Traced
  <2>3. \A n \in Amounts : (Amount(Upto(n)) <= n)'
    <3>1. \A n \in Amounts : Amount(Upto(n))' = Amount(Upto(n))
      BY <1>12, <1>20 DEF Upto, Amount
    <3> QED BY <1>5, <3>1 DEF Traced
  <2>4. busted' \subseteq taken'
    BY <1>2, <1>5 DEF Traced
  <2>5. /\ b["taken"] = 0 => \A id \in taken' : venue'[id[1]].status = "filled"
        /\ b["taken"] > 0 => worked'.carried = 0 /\ \A p \in Numbers : p # 1 => venue'[p].status = "none"
    BY <1>2, <1>5, <1>12 DEF Traced
  <2> QED BY <1>12, <2>1, <2>2, <2>3, <2>4, <2>5 DEF Traced
<1>22. IsFiniteSet(executions)'
  BY <1>1, <1>2
<1> QED BY <1>4, <1>14, <1>16, <1>18, <1>19, <1>21, <1>22 DEF Right, Base

\* What there is to report of the record in hand.
LEMMA GrownIs ==
    ASSUME NEW b \in [Mishaps -> Nat], Right(b), Doing("fills"), job.filled > worked.filled
    PROVE  /\ job # None /\ worked # None /\ job.of = worked.order /\ worked.order \in Numbers
           /\ Works(worked.order) /\ Follows(worked.order) /\ job.at = "fills" /\ job \in Jobs
           /\ Record \in Records /\ Record \in Known(worked.order)
           /\ job.filled = worked.carried + Record.filled /\ Record.at = worked.seen
           /\ Record.filled \in Nat /\ Record.filled > 0 /\ Record.at \in Nat
           /\ job.filled \in Amounts /\ job.filled \in Nat /\ job.filled <= peak
           /\ Grown \in Executions /\ Grown.id = <<worked.order, Record.filled>>
           /\ Grown.quantity = job.filled - worked.filled
           /\ Before(venue, worked.order) + Record.filled <= peak
<1>1. TypeOK /\ InHand /\ Kept /\ Stale
  BY RightIs
<1> DEFINE o == worked.order
<1>2. job # None /\ job.at = "fills"
  BY DEF Doing
<1>3. /\ worked # None /\ job.of = o /\ o \in Numbers /\ Works(o) /\ Follows(o) /\ job \in Jobs
      /\ Record \in Records /\ Record \in Known(o) /\ job.filled \in Nat
  BY <1>1, <1>2, JobType, HandOf, WorkedType
<1>4. job.filled = worked.carried + Record.filled /\ Record.at = worked.seen
  BY <1>1, <1>2 DEF InHand
<1>5. /\ Record.filled \in Nat /\ Record.filled \in Amounts /\ Record.at \in Nat
      /\ worked.carried \in Nat /\ worked.filled \in Nat /\ Quantity \in Nat
  BY <1>1, <1>3, RecordType, WorkedType, FillsAssumption
<1> HIDE DEF o
<1>6. worked.carried <= Before(venue, o) /\ worked.carried <= worked.filled
  BY <1>1, <1>3 DEF Kept
<1>7. Before(venue, o) + Record.filled <= peak
  BY <1>1, <1>3 DEF Stale
<1>8. Before(venue, o) \in Nat /\ peak \in Nat /\ peak <= Quantity
  <2>1. venue \in [Numbers -> Records] /\ peak \in Amounts
    BY <1>1 DEF TypeOK
  <2> QED BY <1>3, <2>1, BeforeType, FillsAssumption DEF Amounts
<1>9. job.filled <= peak /\ job.filled \in Amounts /\ Record.filled > 0 /\ job.filled - worked.filled \in Amounts
  BY <1>3, <1>4, <1>5, <1>6, <1>7, <1>8 DEF Amounts
<1>10. Grown = [id |-> <<o, Record.filled>>, quantity |-> job.filled - worked.filled]
  BY DEF Grown, o
<1>11. Grown \in Executions
  BY <1>3, <1>5, <1>9, <1>10 DEF Executions, Ids
<1> QED BY <1>2, <1>3, <1>4, <1>5, <1>7, <1>9, <1>10, <1>11 DEF o

-----------------------------------------------------------------------------
(* Executions. *)

\* What an execution recorded leaves as it was, however the books are counted.
Recording(g) ==
    /\ Doing("fills") /\ job.filled > worked.filled /\ g = Grown
    /\ executions' = IF Used THEN executions ELSE executions \cup {g}
    /\ worked' = [worked EXCEPT !.filled = job.filled,
                     !.fills = @ \cup {[id |-> g.id, cumulative |-> job.filled]}]
    /\ job' = [job EXCEPT !.at = "end"]
    /\ UNCHANGED <<venue, updates, peak, taken, busted, end, booked, left>>

\* Whatever the counting, a report leaves the rest of the invariant.
LEMMA RecordedBase ==
    ASSUME NEW b \in [Mishaps -> Nat], Right(b), NEW g, Recording(g)
    PROVE  /\ Base(b)' /\ worked' # None
           /\ worked'.order = worked.order /\ worked'.carried = worked.carried /\ worked'.seen = worked.seen
           /\ worked'.filled = job.filled
           /\ worked'.fills = worked.fills \cup {[id |-> g.id, cumulative |-> job.filled]}
           /\ \A o \in Numbers : Known(o)' \subseteq Known(o)
<1>1. TypeOK /\ IsFiniteSet(executions) /\ Bounded(b) /\ InHand /\ Kept /\ Stale /\ Lined /\ Streamed
  BY RightIs
<1>2. /\ Doing("fills") /\ job.filled > worked.filled /\ g = Grown
      /\ executions' = IF Used THEN executions ELSE executions \cup {g}
      /\ worked' = [worked EXCEPT !.filled = job.filled,
                     !.fills = @ \cup {[id |-> g.id, cumulative |-> job.filled]}]
      /\ job' = [job EXCEPT !.at = "end"]
      /\ UNCHANGED <<venue, updates, peak, taken, busted, end, booked, left>>
  BY DEF Recording
<1>3. /\ job # None /\ worked # None /\ job.of = worked.order /\ worked.order \in Numbers
      /\ Works(worked.order) /\ job.at = "fills" /\ job \in Jobs
      /\ job.filled = worked.carried + Record.filled /\ Record.at = worked.seen
      /\ job.filled \in Amounts /\ job.filled \in Nat /\ job.filled <= peak
      /\ g \in Executions /\ g.id = <<worked.order, Record.filled>>
  BY <1>2, GrownIs
<1>4. /\ worked \in Worked /\ worked.filled \in Nat /\ worked.carried \in Nat
      /\ worked.fills \in SUBSET [id : Ids, cumulative : Amounts]
      /\ \A o \in Numbers : job.orders[o] \in Known(o)
  BY <1>1, <1>3, WorkedType, JobType
<1> DEFINE new == [id |-> g.id, cumulative |-> job.filled]
<1>5. new \in [id : Ids, cumulative : Amounts]
  BY <1>3 DEF Executions
<1>6. /\ worked' \in Worked /\ worked' # None
      /\ worked'.order = worked.order /\ worked'.carried = worked.carried /\ worked'.seen = worked.seen
      /\ worked'.filled = job.filled /\ worked'.fills = worked.fills \cup {new}
  <2> HIDE DEF new
  <2>1. worked' = [worked EXCEPT !.filled = job.filled, !.fills = worked.fills \cup {new}]
    BY <1>2 DEF new
  <2>2. worked.fills \cup {new} \in SUBSET [id : Ids, cumulative : Amounts]
    BY <1>4, <1>5
  <2> DEFINE fs == worked.fills \cup {new}
  <2> HIDE DEF fs
  <2> QED BY <1>3, <1>4, <2>1, <2>2, NoneAssumption DEF Worked, fs
<1>7. /\ job' \in Jobs /\ job'.of = job.of /\ job'.orders = job.orders /\ job'.filled = job.filled /\ job'.at = "end"
  BY <1>2, <1>3 DEF Jobs
<1>8. executions' \subseteq Executions /\ IsFiniteSet(executions')
  <2>1. executions \subseteq Executions /\ IsFiniteSet(executions \cup {g})
    BY <1>1, FS_AddElement DEF TypeOK
  <2> QED BY <1>1, <1>2, <1>3, <2>1
<1>9. TypeOK'
  BY <1>1, <1>2, <1>6, <1>7, <1>8 DEF TypeOK
<1>10. \A o \in Numbers : Known(o)' \subseteq Known(o)
  BY <1>1, <1>2, <1>4, <1>7, KnownShrinks
<1>11. Lined' /\ Stale' /\ Streamed'
  BY <1>1, <1>2, <1>10, StaleStays, StreamedShrinks
<1>12. Kept'
  <2>0. \A o \in Numbers : Before(venue, o)' = Before(venue, o)
    BY <1>2 DEF Before
  <2>1. ASSUME NEW o \in Numbers, Works(o)'
        PROVE  /\ venue'[o].status # "none" /\ worked'.seen <= venue'[o].at
               /\ worked'.carried <= Before(venue, o)'
               /\ \A f \in worked'.fills : f.id[1] <= o
    <3>1. Works(o) /\ o = worked.order
      BY <1>3, <1>6, <2>1 DEF Works
    <3>2. /\ venue[o].status # "none" /\ worked.seen <= venue[o].at /\ worked.carried <= Before(venue, o)
          /\ \A f \in worked.fills : f.id[1] <= o
      BY <1>1, <3>1 DEF Kept
    <3>3. new.id[1] = o /\ o <= o
      BY <1>3, <3>1, FillsAssumption DEF Numbers
    <3> HIDE DEF new
    <3>4. \A f \in worked'.fills : f.id[1] <= o
      BY <1>6, <3>2, <3>3
    <3> QED BY <1>2, <1>6, <2>0, <3>2, <3>4
  <2>2. worked.carried <= worked.filled /\ \A f \in worked.fills : f.cumulative <= worked.filled
    BY <1>1, <1>3 DEF Kept
  <2>3. /\ worked'.filled <= peak' /\ worked'.carried <= worked'.filled
        /\ \A f \in worked'.fills : f.cumulative <= worked'.filled
    <3>1. \A f \in worked.fills : f.cumulative \in Nat
      BY <1>4, FillsAssumption DEF Amounts
    <3>2. new.cumulative = job.filled
      OBVIOUS
    <3> HIDE DEF new
    <3> QED BY <1>2, <1>3, <1>4, <1>6, <2>2, <3>1, <3>2
  <2> QED BY <1>1, <1>2, <2>1, <2>3 DEF Kept
<1>13. InHand' /\ Bounded(b)'
  BY <1>1, <1>2, <1>3, <1>6, <1>7 DEF InHand, Bounded, Record
<1> QED BY <1>6, <1>8, <1>9, <1>10, <1>11, <1>12, <1>13 DEF Base

\* Where no fill is taken back, a report brings the book to what the record says.
LEMMA RecordedExact ==
    ASSUME NEW b \in [Mishaps -> Nat], Right(b), Plain(b), NEW g, Recording(g)
    PROVE  Exact(b)'
<1>1. TypeOK /\ IsFiniteSet(executions) /\ Stale /\ Kept /\ Exact(b)
  BY RightIs DEF Right
<1>2. /\ Doing("fills") /\ job.filled > worked.filled /\ g = Grown
      /\ executions' = IF Used THEN executions ELSE executions \cup {g}
      /\ UNCHANGED <<venue, taken, busted, booked>>
  BY DEF Recording
<1>0. PICK o \in Numbers : o = worked.order
  BY <1>2, GrownIs
<1> DEFINE own == Amount(Own(o))
           rest == FilledBesides(o)
<1>3. /\ worked # None /\ o \in Numbers /\ Follows(o) /\ Works(o)
      /\ Record \in Records /\ Record \in Known(o)
      /\ job.filled = worked.carried + Record.filled /\ Record.at = worked.seen
      /\ Record.filled \in Nat /\ Record.at \in Nat /\ job.filled \in Nat
      /\ g \in Executions /\ g.id = <<o, Record.filled>> /\ g.quantity = job.filled - worked.filled
  BY <1>0, <1>2, GrownIs
<1>4. /\ worked' # None /\ worked'.order = o /\ worked'.carried = worked.carried /\ worked'.seen = worked.seen
      /\ worked'.filled = job.filled
      /\ \A p \in Numbers : Known(p)' \subseteq Known(p)
  BY <1>0, RecordedBase
<1>5. /\ ExactOf(o) /\ worked.filled = BookFilled /\ taken = {} /\ busted = {}
      /\ worked.carried = rest /\ rest \in Nat /\ own \in Nat /\ BookFilled = rest + own
  BY <1>1, <1>3, BookType DEF Exact, ExactOf
<1>6. own < Record.filled
  BY <1>2, <1>3, <1>5
<1>7. ~Used
  <2> SUFFICES ASSUME NEW e \in executions, e.id = g.id PROVE FALSE
    BY <1>2 DEF Used
  <2>1. e.id[1] = o /\ e.id[2] = Record.filled
    BY <1>3
  <2>2. Record.filled <= own
    BY <1>5, <2>1 DEF ExactOf
  <2> QED BY <1>3, <1>5, <1>6, <2>2
<1>8. executions' = executions \cup {g} /\ g \notin executions
  BY <1>2, <1>7 DEF Used
<1>9. InBook' = InBook \cup {g} /\ g \notin InBook
  BY <1>2, <1>5, <1>8 DEF InBook
<1>10. InBook \in SUBSET Executions /\ IsFiniteSet(InBook) /\ Own(o) \in SUBSET Executions /\ IsFiniteSet(Own(o))
  <2>1. InBook \in SUBSET Executions /\ IsFiniteSet(InBook)
    BY <1>1, BookType
  <2>2. Own(o) \subseteq InBook
    BY DEF Own
  <2> QED BY <2>1, <2>2, FS_Subset
<1>11. BookFilled' = job.filled
  <2>1. Amount(InBook \cup {g}) = Amount(InBook) + g.quantity
    BY <1>3, <1>9, <1>10, AmountAdd
  <2>2. BookFilled' = Amount(InBook \cup {g})
    BY <1>9 DEF BookFilled, Amount
  <2>3. BookFilled = Amount(InBook)
    BY DEF BookFilled
  <2> QED BY <1>3, <1>5, <2>1, <2>2, <2>3
<1>12. Amount(Own(o))' = Record.filled
  <2>0. g.id[1] = o
    BY <1>3
  <2>1. {e \in InBook' : e.id[1] = o} = Own(o) \cup {g} /\ g \notin Own(o)
    BY <1>9, <2>0 DEF Own
  <2>2. Amount(Own(o) \cup {g}) = own + g.quantity
    BY <1>3, <1>10, <2>1, AmountAdd
  <2>3. Amount(Own(o))' = Amount({e \in InBook' : e.id[1] = o})
    BY DEF Own, Amount
  <2>4. Amount(Own(o))' = Amount(Own(o) \cup {g})
    BY <2>1, <2>3
  <2> QED BY <1>3, <1>5, <2>2, <2>4
<1>13. FilledBesides(o)' = rest
  <2>0. g.id[1] = o
    BY <1>3
  <2>1. {e \in InBook' : e.id[1] # o} = {e \in InBook : e.id[1] # o}
    BY <1>9, <2>0
  <2>3. FilledBesides(o)' = Amount({e \in InBook' : e.id[1] # o})
    BY DEF FilledBesides, Amount
  <2> QED BY <2>1, <2>3 DEF FilledBesides
<1> HIDE DEF own, rest
<1>14. ASSUME NEW r \in Known(o)', r.at >= worked'.seen PROVE Record.filled <= r.filled
  <2>1. r \in Known(o) /\ r \in Records /\ r.filled \in Nat
    BY <1>1, <1>3, <1>4, KnownType, RecordType
  <2>2. \A n \in r.filled + 1 .. Record.filled : <<o, n>> \in taken
    BY <1>1, <1>3, <1>4, <1>14, <2>1 DEF Stale
  <2>3. ~(r.filled < Record.filled)
    <3>1. ASSUME r.filled < Record.filled PROVE FALSE
      <4>1. Record.filled \in r.filled + 1 .. Record.filled
        BY <1>3, <2>1, <3>1
      <4> QED BY <1>5, <2>2, <4>1
    <3> QED BY <3>1
  <2> QED BY <1>3, <2>1, <2>3
<1>15. ASSUME NEW e \in executions' PROVE e.id[1] <= o /\ (e.id[1] = o => e.id[2] <= Record.filled)
  <2>1. CASE e \in executions
    <3>1. e.id[1] <= o /\ (e.id[1] = o => e.id[2] <= own)
      BY <1>5, <2>1 DEF ExactOf, own
    <3>2. e.id[2] \in Nat
      BY <1>1, <2>1, FillsAssumption DEF TypeOK, Executions, Ids, Amounts
    <3> QED BY <1>3, <1>5, <1>6, <3>1, <3>2
  <2>2. CASE e = g
    <3>1. o \in Nat
      BY <1>3, FillsAssumption DEF Numbers
    <3> QED BY <1>3, <2>2, <3>1
  <2> QED BY <1>8, <2>1, <2>2
<1>16. FilledBesides(o)' <= Before(venue, o)'
  <2>1. Before(venue, o)' = Before(venue, o)
    BY <1>2 DEF Before
  <2>2. rest <= Before(venue, o)
    BY <1>5 DEF ExactOf, rest
  <2> QED BY <1>13, <2>1, <2>2
<1>17. ASSUME NEW p \in Numbers, Follows(p)' PROVE ExactOf(p)'
  <2>1. p = o
    BY <1>0, <1>4, <1>17 DEF Follows
  <2>2. /\ FilledBesides(p)' = rest /\ Amount(Own(p))' = Record.filled
        /\ FilledBesides(p)' <= Before(venue, p)' /\ Known(p)' = Known(o)'
    BY <1>12, <1>13, <1>16, <2>1
  <2>3. (worked # None => worked.carried = FilledBesides(p))'
    BY <1>4, <1>5, <2>2
  <2>4. (\A r \in Known(p) : worked = None \/ r.at >= worked.seen => Amount(Own(p)) <= r.filled)'
    BY <1>4, <1>14, <2>2
  <2>5. (\A e \in executions : e.id[1] <= p /\ (e.id[1] = p => e.id[2] <= Amount(Own(p))))'
    BY <1>15, <2>1, <2>2
  <2> QED BY <2>2, <2>3, <2>4, <2>5 DEF ExactOf
<1>18. /\ taken' = {} /\ busted' = {} /\ worked'.filled = BookFilled'
       /\ b["crash"] > 0 => booked' = worked'.order
       /\ Still(b) => \A p \in Numbers : p # 1 => venue'[p].status = "none"
  BY <1>1, <1>2, <1>3, <1>4, <1>5, <1>11, <1>0 DEF Exact
<1> QED BY <1>4, <1>17, <1>18 DEF Exact

\* What the fills kept amount to bounds what the book holds.
LEMMA TracedHolds ==
    ASSUME TypeOK, Kept, IsFiniteSet(executions), NEW b, Traced(b)
    PROVE  BookFilled <= worked.filled
<1>1. worked # None /\ worked.filled \in Amounts
  BY WorkedType DEF Traced
<1>2. \A f \in worked.fills : f.cumulative <= worked.filled
  BY <1>1 DEF Kept
<1>3. Upto(worked.filled) = InBook
  BY <1>2 DEF Upto, Traced
<1>4. Amount(Upto(worked.filled)) <= worked.filled
  BY <1>1 DEF Traced
<1> QED BY <1>3, <1>4 DEF BookFilled

\* Where some are, the fill reported traces what the book comes to hold.
LEMMA RecordedTraced ==
    ASSUME NEW b \in [Mishaps -> Nat], Counts(b), Right(b), ~Plain(b), NEW g, Recording(g)
    PROVE  Traced(b)'
<1>1. TypeOK /\ IsFiniteSet(executions) /\ Stale /\ Kept /\ Traced(b)
  BY RightIs DEF Right
<1>2. /\ Doing("fills") /\ job.filled > worked.filled /\ g = Grown
      /\ executions' = IF Used THEN executions ELSE executions \cup {g}
      /\ UNCHANGED <<venue, taken, busted, booked>>
  BY DEF Recording
<1>0. PICK o \in Numbers : o = worked.order
  BY <1>2, GrownIs
<1>3. /\ worked # None /\ o \in Numbers /\ Works(o)
      /\ Record \in Records /\ Record \in Known(o)
      /\ job.filled = worked.carried + Record.filled /\ Record.at = worked.seen
      /\ Record.filled \in Nat /\ Record.filled > 0 /\ Record.at \in Nat /\ job.filled \in Nat
      /\ g \in Executions /\ g.id = <<o, Record.filled>> /\ g.quantity = job.filled - worked.filled
  BY <1>0, <1>2, GrownIs
<1>4. /\ worked' # None /\ worked'.order = o /\ worked'.carried = worked.carried /\ worked'.seen = worked.seen
      /\ worked'.filled = job.filled
      /\ worked'.fills = worked.fills \cup {[id |-> g.id, cumulative |-> job.filled]}
      /\ \A p \in Numbers : Known(p)' \subseteq Known(p)
  BY <1>0, RecordedBase
<1> DEFINE new == [id |-> g.id, cumulative |-> job.filled]
<1>5. /\ new.id = g.id /\ new.id[1] = o /\ new.id[2] = Record.filled /\ new.cumulative = job.filled
      /\ worked'.fills = worked.fills \cup {new}
  BY <1>3, <1>4
<1> HIDE DEF new
<1>6. /\ worked.carried \in Nat /\ worked.filled \in Nat
      /\ \A f \in worked.fills : f.cumulative \in Nat /\ f.id[2] \in Nat
  <2>1. worked.fills \in SUBSET [id : Ids, cumulative : Amounts] /\ worked.carried \in Nat /\ worked.filled \in Nat
    BY <1>1, <1>3, WorkedType
  <2> QED BY <2>1, FillsAssumption DEF Ids, Amounts
<1>7. TracedOf(b, o)
  BY <1>1, <1>3 DEF Traced
<1>8. InBook' \subseteq InBook \cup {g}
  BY <1>2 DEF InBook
<1>9. InBook \in SUBSET Executions /\ IsFiniteSet(InBook) /\ BookFilled \in Nat /\ BookFilled <= worked.filled
  BY <1>1, BookType, TracedHolds
<1>10. TracedOf(b, o)'
  <2>1. (\A f \in worked.fills :
         IF f.id[1] = o THEN f.cumulative = worked.carried + f.id[2] /\ f.id[2] > 0
         ELSE f.cumulative <= worked.carried)'
    <3>1. \A f \in worked.fills :
         IF f.id[1] = o THEN f.cumulative = worked.carried + f.id[2] /\ f.id[2] > 0
         ELSE f.cumulative <= worked.carried
      BY <1>7 DEF TracedOf
    <3> QED BY <1>3, <1>4, <1>5, <3>1
  <2>2. (worked.carried = 0 \/ \E f \in worked.fills : f.id[1] # o /\ f.cumulative = worked.carried)'
    BY <1>4, <1>5, <1>7 DEF TracedOf
  <2>3. ASSUME b["taken"] = 0, venue[o].status # "filled"
        PROVE  job.filled <= Before(venue, o) + venue[o].filled
    <3>1. venue[o] \in Known(o) /\ venue \in [Numbers -> Records] /\ venue[o] \in Records
      BY <1>1, KnownType DEF TypeOK
    <3>2. Record.at <= venue[o].at /\ venue[o].filled \in Nat /\ Before(venue, o) \in Nat
      BY <1>1, <1>3, <3>1, BeforeType, RecordType DEF Stale
    <3>3. \A n \in venue[o].filled + 1 .. Record.filled : <<o, n>> \in taken
      BY <1>1, <1>3, <3>1, <3>2 DEF Stale
    <3>4. \A n : <<o, n>> \notin taken
      BY <1>1, <2>3 DEF Traced
    <3>5. Record.filled <= venue[o].filled
      <4> DEFINE x == Record.filled
                 y == venue[o].filled
      <4>1. x \in Nat /\ y \in Nat
        BY <1>3, <3>2
      <4>2. x \notin y + 1 .. x
        BY <3>3, <3>4
      <4> HIDE DEF x, y
      <4>3. x <= y
        BY <4>1, <4>2
      <4> QED BY <4>3 DEF x, y
    <3>6. worked.carried <= Before(venue, o)
      BY <1>1, <1>3 DEF Kept
    <3> QED BY <1>3, <1>6, <3>2, <3>5, <3>6
  <2>4. (b["taken"] = 0 /\ venue[o].status # "filled" =>
         /\ worked.filled = 0 \/ \E f \in worked.fills : f.cumulative = worked.filled
         /\ worked.filled <= Before(venue, o) + venue[o].filled)'
    <3>1. Before(venue, o)' = Before(venue, o)
      BY <1>2 DEF Before
    <3> QED BY <1>2, <1>4, <1>5, <2>3, <3>1
  <2>5. ASSUME NEW r \in Known(o)', NEW f \in worked'.fills, f.id[1] = o, r.at >= worked'.seen, r.filled < f.id[2]
        PROVE  f.id \in taken'
    <3>1. r \in Known(o) /\ r \in Records
      BY <1>1, <1>4, KnownType
    <3>2. r.at >= worked.seen
      BY <1>4, <2>5
    <3>3. CASE f \in worked.fills
      BY <1>2, <1>7, <2>5, <3>1, <3>2, <3>3 DEF TracedOf
    <3>4. CASE f = new
      <4>1. r.filled \in Nat /\ r.at \in Nat
        BY <3>1, RecordType
      <4>2. Record.filled \in r.filled + 1 .. Record.filled
        BY <1>3, <1>5, <2>5, <3>4, <4>1
      <4>3. <<o, Record.filled>> \in taken
        BY <1>1, <1>3, <3>1, <3>2, <4>1, <4>2 DEF Stale
      <4> QED BY <1>2, <1>3, <1>5, <3>4, <4>3
    <3> QED BY <1>5, <2>5, <3>3, <3>4
  <2> QED BY <2>1, <2>2, <2>4, <2>5 DEF TracedOf
<1>11. \A p \in Numbers : Works(p)' => p = o
  BY <1>4 DEF Works
<1>12. ASSUME NEW e \in InBook' PROVE \E f \in worked'.fills : f.id = e.id
  <2>1. CASE e \in InBook
    BY <1>1, <1>5, <2>1 DEF Traced
  <2>2. CASE e = g
    BY <1>5, <2>2
  <2> QED BY <1>8, <2>1, <2>2
<1>13. ASSUME NEW n \in Amounts PROVE (Amount(Upto(n)) <= n)'
  <2> DEFINE T == Upto(n)'
             U == InBook \cup {g}
  <2>0. n \in Nat
    BY FillsAssumption DEF Amounts
  <2>1. T \subseteq InBook'
    BY DEF Upto
  <2>2. CASE job.filled > n
    <3>1. ASSUME NEW e \in T PROVE e \in Upto(n)
      <4>1. e \in InBook' /\ \E f \in worked'.fills : f.id = e.id /\ f.cumulative <= n
        BY DEF Upto
      <4>2. PICK f \in worked'.fills : f.id = e.id /\ f.cumulative <= n
        BY <4>1
      <4>3. f \in worked.fills
        <5>1. f # new
          BY <1>3, <1>5, <2>0, <2>2, <4>2
        <5> QED BY <1>5, <5>1
      <4>4. e.id # g.id
        <5> SUFFICES ASSUME e.id = g.id PROVE FALSE
          OBVIOUS
        <5>1. f.id[1] = o /\ f.id[2] = Record.filled
          BY <1>3, <4>2
        <5>2. f.cumulative = worked.carried + Record.filled
          BY <1>7, <4>3, <5>1 DEF TracedOf
        <5> QED BY <1>3, <2>0, <2>2, <4>2, <5>2
      <4>5. e \in InBook
        BY <1>8, <4>1, <4>4
      <4> QED BY <4>2, <4>3, <4>5 DEF Upto
    <3>2. T \in SUBSET Upto(n) /\ Upto(n) \in SUBSET Executions /\ IsFiniteSet(Upto(n))
      <4>1. Upto(n) \subseteq InBook
        BY DEF Upto
      <4> QED BY <1>9, <3>1, <4>1, FS_Subset
    <3> HIDE DEF T
    <3>3. Amount(T) \in Nat /\ Amount(T) <= Amount(Upto(n)) /\ Amount(Upto(n)) \in Nat
      BY <3>2, AmountType
    <3>4. Amount(Upto(n)) <= n
      BY <1>1 DEF Traced
    <3>5. Amount(T) <= n
      BY <2>0, <3>3, <3>4
    <3> QED BY <3>5 DEF T, Amount
  <2>3. CASE job.filled <= n
    <3>1. T \in SUBSET U /\ U \in SUBSET Executions /\ IsFiniteSet(U)
      BY <1>3, <1>8, <1>9, <2>1, FS_AddElement
    <3>2. Amount(U) <= job.filled
      <4>1. Amount(InBook) <= worked.filled /\ Amount(InBook) \in Nat
        BY <1>9 DEF BookFilled
      <4>2. CASE g \in InBook
        <5>1. U = InBook
          BY <4>2
        <5>2. Amount(U) = Amount(InBook)
          BY <5>1
        <5> QED BY <1>2, <1>3, <1>6, <4>1, <5>2
      <4>3. CASE g \notin InBook
        <5>1. Amount(U) = Amount(InBook) + g.quantity
          BY <1>3, <1>9, <4>3, AmountAdd
        <5> QED BY <1>2, <1>3, <1>6, <4>1, <5>1
      <4> QED BY <4>2, <4>3
    <3> HIDE DEF T, U
    <3>3. Amount(T) \in Nat /\ Amount(T) <= Amount(U) /\ Amount(U) \in Nat
      BY <3>1, AmountType
    <3>4. Amount(T) <= n
      BY <1>3, <2>0, <2>3, <3>2, <3>3
    <3> QED BY <3>4 DEF T, Amount
  <2> QED BY <1>3, <2>0, <2>2, <2>3
<1>14. busted' \subseteq taken'
  BY <1>1, <1>2 DEF Traced
<1>15. /\ b["taken"] = 0 => \A id \in taken' : venue'[id[1]].status = "filled"
       /\ b["taken"] > 0 => worked'.carried = 0 /\ \A p \in Numbers : p # 1 => venue'[p].status = "none"
  BY <1>1, <1>2, <1>4 DEF Traced
<1> QED BY <1>4, <1>10, <1>11, <1>12, <1>13, <1>14, <1>15 DEF Traced

\* The invariant at an execution, recorded, refused or answered as it first was.
LEMMA ExecuteStep ==
    ASSUME NEW b \in [Mishaps -> Nat], Counts(b), Right(b), Execute
    PROVE  Right(b)'
<1>1. TypeOK /\ Bounded(b) /\ Kept /\ "report" \in Mishaps
  BY RightIs DEF Mishaps
<1>2. ~Spend("lost") /\ UNCHANGED <<venue, updates, peak, taken, busted, end, booked>>
      /\ Doing("fills") /\ job.filled > worked.filled
  BY NoneLost DEF Execute, venueVars
<1>3. CASE executions' = executions /\ worked' = worked /\ job' = None /\ (left' = left \/ Spend("report"))
  <2>1. left' = left \/ (Bounded(b)' /\ left' \in [Mishaps -> Nat])
    BY <1>1, <1>3, Spends
  <2>2. Onward /\ worked' \in Worked \cup {None} /\ end' \in {"no", "cancelled"}
    BY <1>1, <1>2, <1>3, OnwardSame DEF TypeOK
  <2> QED BY <1>2, <1>3, <2>1, <2>2, LeavesOff
<1>4. CASE /\ Recorded
           /\ worked' = [worked EXCEPT !.filled = job.filled,
                            !.fills = @ \cup {[id |-> Grown.id, cumulative |-> job.filled]}]
           /\ job' = [job EXCEPT !.at = "end"]
           /\ left' = left
  <2>1. PICK g : g = Grown
    OBVIOUS
  <2>2. Recording(g)
    BY <1>2, <1>4, <2>1 DEF Recording, Recorded
  <2>3. Base(b)'
    BY <2>2, RecordedBase
  <2>4. Plain(b) => Exact(b)'
    BY <2>2, RecordedExact
  <2>5. ~Plain(b) => Traced(b)'
    BY <2>2, RecordedTraced
  <2> QED BY <2>3, <2>4, <2>5 DEF Right
<1> QED BY <1>2, <1>3, <1>4 DEF Execute

-----------------------------------------------------------------------------
(* Replaces, and restarts. *)

\* The invariant at a replace that is answered,
LEMMA ReplaceStep ==
    ASSUME NEW b \in [Mishaps -> Nat], Counts(b), Right(b), Replace
    PROVE  Right(b)'
<1>1. TypeOK /\ Bounded(b) /\ InHand /\ Kept
  BY RightIs
<1>2. /\ worked # None /\ job = None /\ Spend("replace") /\ UNCHANGED <<updates, peak, taken, bookVars>>
      /\ \/ /\ Replaces(worked.order)
            /\ job' = Hand("replaced", worked.order + 1, venue', FALSE, TRUE)
            /\ UNCHANGED worked
         \/ UNCHANGED <<venue, job, worked>>
  BY DEF Replace
<1>3. CASE /\ Replaces(worked.order)
           /\ job' = Hand("replaced", worked.order + 1, venue', FALSE, TRUE)
           /\ UNCHANGED worked
  BY <1>2, <1>3, ReplaceMade
<1>4. CASE UNCHANGED <<venue, job, worked>>
  <2>1. Bounded(b)' /\ left' \in [Mishaps -> Nat]
    <3>1. "replace" \in Mishaps
      BY DEF Mishaps
    <3> QED BY <1>1, <1>2, <3>1, Spends
  <2>2. Onward /\ worked' \in Worked \cup {None} /\ UNCHANGED <<executions, busted, end, booked>>
    BY <1>1, <1>2, <1>4, OnwardSame DEF TypeOK, bookVars
  <2>3. end' \in {"no", "cancelled"} /\ job' = None /\ job' \in Jobs \cup {None} /\ InHand'
    BY <1>1, <1>2, <1>4, <2>2 DEF TypeOK, InHand
  <2> QED BY <1>2, <1>4, <2>1, <2>2, <2>3, RightStays
<1> QED BY <1>2, <1>3, <1>4

\* and at one that is not.
LEMMA ReplaceUnansweredStep ==
    ASSUME NEW b \in [Mishaps -> Nat], Counts(b), Right(b), ReplaceUnanswered
    PROVE  Right(b)' /\ b["unanswered"] > 0
<1>1. TypeOK /\ Bounded(b) /\ InHand /\ Kept /\ Lined
  BY RightIs
<1>2. /\ worked # None /\ job = None /\ Spend("unanswered") /\ UNCHANGED <<updates, peak, taken, bookVars, job>>
      /\ Replaces(worked.order) \/ UNCHANGED venue
      /\ worked' = [worked EXCEPT !.replacing = TRUE]
  BY DEF ReplaceUnanswered
<1>3. /\ worked' \in Worked /\ worked' # None
      /\ worked'.order = worked.order /\ worked'.filled = worked.filled /\ worked'.carried = worked.carried
      /\ worked'.fills = worked.fills /\ worked'.seen = worked.seen
  BY <1>1, <1>2, NoneAssumption, WorkedType DEF Worked
<1>4. Bounded(b)' /\ left' \in [Mishaps -> Nat] /\ b["unanswered"] > 0
  <2>1. "unanswered" \in Mishaps
    BY DEF Mishaps
  <2> QED BY <1>1, <1>2, <2>1, Spends
<1>5. job' = None /\ job' = job /\ InHand' /\ UNCHANGED <<executions, busted, end, booked>>
  BY <1>2 DEF InHand, bookVars
<1>6. CASE Replaces(worked.order)
  <2>1. worked.order \in Numbers
    BY <1>1, <1>2, WorkedType
  <2>2. Change(b, worked.order)
    BY <1>1, <1>2, <1>6, <2>1, ReplacesChange
  <2>3. Alike
    BY <1>2, <1>3 DEF Alike
  <2>4. TypeOK'
    BY <1>1, <1>2, <1>3, <1>4, <1>5, <2>2 DEF TypeOK, Change
  <2> QED BY <1>2, <1>4, <1>5, <2>2, <2>3, <2>4, RightChanges
<1>7. CASE UNCHANGED venue
  <2>1. Onward /\ end' \in {"no", "cancelled"}
    BY <1>1, <1>2, <1>3, <1>5, OnwardSame DEF TypeOK
  <2> QED BY <1>2, <1>3, <1>4, <1>5, <1>7, <2>1, RightStays
<1> QED BY <1>2, <1>6, <1>7

\* What it has reported is no more than its order and those before it filled.
LEMMA WithinOrders ==
    ASSUME NEW b \in [Mishaps -> Nat], Right(b), NEW o \in Numbers, Follows(o),
           Plain(b) \/ (b["taken"] = 0 /\ venue[o].status # "filled")
    PROVE  /\ worked # None => worked.filled <= Before(venue, o) + venue[o].filled
           /\ Plain(b) => /\ ExactOf(o) /\ Amount(Own(o)) <= venue[o].filled
                          /\ BookFilled <= Before(venue, o) + venue[o].filled
<1>1. TypeOK /\ IsFiniteSet(executions) /\ Kept /\ (Plain(b) => Exact(b)) /\ (~Plain(b) => Traced(b))
  BY RightIs DEF Right
<1>2. /\ venue \in [Numbers -> Records] /\ venue[o] \in Known(o)
      /\ venue[o].filled \in Nat /\ venue[o].at \in Nat /\ Before(venue, o) \in Nat
  <2>1. venue \in [Numbers -> Records] /\ venue[o] \in Known(o) /\ venue[o] \in Records
    BY <1>1, KnownType DEF TypeOK
  <2> QED BY <2>1, BeforeType, RecordType
<1>3. CASE Plain(b)
  <2>1. ExactOf(o) /\ (worked # None => worked.filled = BookFilled)
    BY <1>1, <1>3 DEF Exact
  <2>2. worked = None \/ venue[o].at >= worked.seen
    <3>1. worked # None => Works(o) /\ worked.seen \in Nat
      BY <1>1, WorkedType DEF Follows, Works
    <3>2. worked # None => worked.seen <= venue[o].at
      BY <1>1, <3>1 DEF Kept
    <3> QED BY <1>2, <3>1, <3>2
  <2>3. Amount(Own(o)) <= venue[o].filled /\ FilledBesides(o) <= Before(venue, o)
    BY <1>2, <2>1, <2>2 DEF ExactOf
  <2>4. Amount(Own(o)) \in Nat /\ FilledBesides(o) \in Nat /\ BookFilled = FilledBesides(o) + Amount(Own(o))
    BY <1>1, BookType
  <2> QED BY <1>2, <2>1, <2>3, <2>4
<1>4. CASE ~Plain(b)
  <2>1. Works(o)
    BY <1>1, <1>4 DEF Works, Follows, Traced
  <2>2. TracedOf(b, o)
    BY <1>1, <1>4, <2>1 DEF Traced
  <2> QED BY <1>4, <2>2 DEF TracedOf
<1> QED BY <1>3, <1>4

\* The invariant where the new order is followed, the old one's fills carried.
LEMMA ReplacedStep ==
    ASSUME NEW b \in [Mishaps -> Nat], Counts(b), Right(b), Replaced
    PROVE  /\ Right(b)'
           /\ \E o \in Numbers : \E p \in Numbers :
                /\ worked # None /\ worked.order = o /\ p = o + 1 /\ job.of = p /\ job.at = "replaced"
                /\ worked' # None /\ worked'.order = p /\ worked'.filled = worked.filled
                /\ venue[o].status = "replaced"
<1>1. TypeOK /\ IsFiniteSet(executions) /\ Bounded(b) /\ InHand /\ Kept /\ Stale /\ Lined /\ Streamed
  BY RightIs
<1>2. /\ job # None /\ job.at = "replaced" /\ worked' = Moved(job.of)
      /\ UNCHANGED <<venue, updates, peak, taken, executions, busted, end>>
      /\ \/ booked' = job.of /\ left' = left /\ (job' = None \/ job' = [job EXCEPT !.at = "status"])
         \/ booked' = booked /\ Spend("report") /\ job' = None
  BY DEF Replaced, Doing, venueVars
<1>3. PICK o \in Numbers : o = worked.order
  BY <1>1, <1>2, JobType, WorkedType
<1>4. PICK p \in Numbers : p = job.of
  BY <1>1, <1>2, JobType
<1>5. p = o + 1 /\ venue[p].status # "none" /\ p # o /\ p # 1 /\ o < p /\ o \in Nat /\ p \in Nat
  BY <1>1, <1>2, <1>3, <1>4, FillsAssumption DEF InHand, Numbers
<1>6. /\ worked # None /\ worked \in Worked /\ worked.filled \in Amounts /\ worked.filled \in Nat
      /\ worked.fills \in SUBSET [id : Ids, cumulative : Amounts]
      /\ Works(o) /\ Follows(o) /\ job \in Jobs /\ \A q \in Numbers : job.orders[q] \in Known(q)
  BY <1>1, <1>2, <1>3, JobType, WorkedType DEF Works, Follows
<1>7. /\ worked' \in Worked /\ worked' # None /\ worked'.order = p /\ worked'.filled = worked.filled
      /\ worked'.carried = worked.filled /\ worked'.fills = worked.fills /\ worked'.seen = 0
  <2> DEFINE F == FALSE
             moved == [worked EXCEPT !.order = p, !.carried = worked.filled, !.seen = 0, !.replacing = F]
  <2>1. worked' = moved /\ F \in BOOLEAN
    BY <1>2, <1>4 DEF Moved
  <2> HIDE DEF F
  <2>2. /\ moved \in Worked /\ moved.order = p /\ moved.filled = worked.filled
        /\ moved.carried = worked.filled /\ moved.fills = worked.fills /\ moved.seen = 0
    BY <1>6, <2>1 DEF Worked
  <2> HIDE DEF moved
  <2> QED BY <2>1, <2>2, NoneAssumption
<1>8. \/ job' = None
      \/ job' \in Jobs /\ job'.of = p /\ job'.orders = job.orders /\ job'.at = "status"
  BY <1>2, <1>4, <1>6 DEF Jobs
<1>9. /\ Bounded(b)' /\ left' \in [Mishaps -> Nat] /\ booked' \in {p, booked}
      /\ booked' # p => b["report"] > 0
  <2>1. CASE booked' = job.of /\ left' = left
    BY <1>1, <1>4, <2>1 DEF Bounded, TypeOK
  <2>2. CASE booked' = booked /\ Spend("report")
    <3>1. "report" \in Mishaps
      BY DEF Mishaps
    <3> QED BY <1>1, <2>2, <3>1, Spends
  <2> QED BY <1>2, <2>1, <2>2
<1>10. venue[o].status = "replaced"
  BY <1>1, <1>5 DEF Lined
<1>11. Plain(b) \/ b["taken"] = 0
  <2>1. ~Plain(b) => ~(b["taken"] > 0)
    BY <1>5 DEF Right, Traced
  <2>2. b["taken"] \in Nat
    BY DEF Mishaps
  <2> QED BY <2>1, <2>2
<1>12. /\ worked.filled <= Before(venue, o) + venue[o].filled
       /\ Plain(b) => ExactOf(o) /\ BookFilled <= Before(venue, o) + venue[o].filled
  BY <1>6, <1>10, <1>11, WithinOrders
<1>13. Before(venue, p) = Before(venue, o) + venue[o].filled /\ venue \in [Numbers -> Records]
       /\ Before(venue, p) \in Nat /\ venue[p].filled \in Nat
  <2>1. venue \in [Numbers -> Records]
    BY <1>1 DEF TypeOK
  <2> QED BY <1>5, <2>1, BeforeNext, BeforeType, RecordType
<1>14. \A q \in Numbers : Before(venue, q)' = Before(venue, q)
  BY <1>2 DEF Before
<1>15. TypeOK'
  BY <1>1, <1>2, <1>7, <1>8, <1>9 DEF TypeOK
<1>16. \A q \in Numbers : Known(q)' \subseteq Known(q)
  BY <1>1, <1>2, <1>6, <1>8, KnownShrinks
<1>17. Lined' /\ Stale' /\ Streamed'
  BY <1>1, <1>2, <1>16, StaleStays, StreamedShrinks
<1>18. InHand'
  BY <1>7, <1>8 DEF InHand
<1>19. \A f \in worked.fills : f.id[1] <= o /\ f.cumulative <= worked.filled /\ f.id[1] # p
  <2>1. \A f \in worked.fills : f.id[1] <= o /\ f.cumulative <= worked.filled
    BY <1>1, <1>6 DEF Kept
  <2> QED BY <1>5, <2>1
<1>20. Kept'
  <2>1. venue'[booked'].status # "none"
    BY <1>1, <1>2, <1>5, <1>9 DEF Kept
  <2>2. worked'.filled <= peak' /\ worked'.carried <= worked'.filled
        /\ \A f \in worked'.fills : f.cumulative <= worked'.filled
    BY <1>1, <1>2, <1>6, <1>7, <1>19 DEF Kept
  <2>3. /\ venue'[p].status # "none" /\ worked'.seen <= venue'[p].at /\ worked'.carried <= Before(venue, p)'
        /\ \A f \in worked'.fills : f.id[1] <= p
    <3>1. venue[p] \in Records /\ venue[p].at \in Nat
      BY <1>13, RecordType
    <3>2. \A f \in worked.fills : f.id[1] <= p
      <4>1. \A f \in worked.fills : f.id[1] \in Nat
        BY <1>6, FillsAssumption DEF Ids, Numbers
      <4> QED BY <1>5, <1>19, <4>1
    <3> QED BY <1>2, <1>5, <1>7, <1>12, <1>13, <1>14, <3>1, <3>2
  <2>4. \A q \in Numbers : Works(q)' => q = p
    BY <1>7 DEF Works
  <2> QED BY <2>1, <2>2, <2>3, <2>4 DEF Kept
<1>21. InBook' = InBook
  BY <1>2 DEF InBook
<1>22. CASE Plain(b)
  <2>1. Exact(b) /\ ExactOf(o) /\ worked.filled = BookFilled
    BY <1>6, <1>12, <1>22 DEF Right, Exact
  <2>2. \A e \in executions : e.id[1] <= o /\ e.id[1] \in Nat /\ e.id[1] # p
    <3>1. \A e \in executions : e.id[1] <= o
      BY <2>1 DEF ExactOf
    <3>2. \A e \in executions : e.id[1] \in Nat
      BY <1>1, FillsAssumption DEF TypeOK, Executions, Ids, Numbers
    <3> QED BY <1>5, <3>1, <3>2
  <2>3. Own(p) = {} /\ {e \in InBook : e.id[1] # p} = InBook
    BY <2>2 DEF Own, InBook
  <2>4. /\ Amount(Own(p)) = 0 /\ FilledBesides(p) = BookFilled
        /\ Amount(Own(p))' = 0 /\ FilledBesides(p)' = BookFilled /\ BookFilled' = BookFilled
    <3>1. Amount(Own(p)) = 0
      BY <2>3, AmountEmpty
    <3>2. FilledBesides(p) = BookFilled
      BY <2>3 DEF FilledBesides, BookFilled
    <3> QED BY <1>2, <3>1, <3>2, BookStays
  <2>5. ExactOf(p)'
    <3>1. \A r \in Known(p)' : 0 <= r.filled
      <4>1. Known(p)' \subseteq Records
        BY <1>1, <1>16, KnownType
      <4> QED BY <4>1, RecordType
    <3>2. (\A e \in executions : e.id[1] <= p /\ (e.id[1] = p => e.id[2] <= Amount(Own(p))))'
      BY <1>2, <1>5, <2>2
    <3>3. (FilledBesides(p) <= Before(venue, p))'
      BY <1>12, <1>13, <1>14, <1>22, <2>4
    <3>4. (worked # None => worked.carried = FilledBesides(p))'
      BY <1>7, <2>1, <2>4
    <3>5. (\A r \in Known(p) : worked = None \/ r.at >= worked.seen => Amount(Own(p)) <= r.filled)'
      BY <2>4, <3>1
    <3> QED BY <3>2, <3>3, <3>4, <3>5 DEF ExactOf
  <2>6. \A q \in Numbers : Follows(q)' => q = p
    BY <1>7 DEF Follows
  <2>7. b["crash"] > 0 => booked' = worked'.order
    <3> SUFFICES ASSUME b["crash"] > 0, booked' # p PROVE FALSE
      BY <1>7
    <3>1. Still(b)
      <4>1. b["report"] > 0
        BY <1>9
      <4> QED BY <4>1 DEF Counts
    <3> QED BY <1>5, <2>1, <3>1 DEF Exact
  <2>8. Exact(b)'
    BY <1>2, <1>7, <2>1, <2>4, <2>5, <2>6, <2>7 DEF Exact
  <2> QED BY <1>1, <1>2, <1>3, <1>4, <1>5, <1>6, <1>7, <1>9, <1>10,
         <1>15, <1>17, <1>18, <1>20, <1>22, <2>8 DEF Right, Base
<1>23. CASE ~Plain(b)
  <2>1. Traced(b) /\ TracedOf(b, o) /\ b["taken"] = 0
    BY <1>6, <1>11, <1>23 DEF Right, Traced
  <2>2. worked.filled = 0 \/ \E f \in worked.fills : f.cumulative = worked.filled
    BY <1>10, <2>1 DEF TracedOf
  <2>3. TracedOf(b, p)'
    <3>1. (\A f \in worked.fills :
         IF f.id[1] = p THEN f.cumulative = worked.carried + f.id[2] /\ f.id[2] > 0
         ELSE f.cumulative <= worked.carried)'
      BY <1>7, <1>19
    <3>2. (worked.carried = 0 \/ \E f \in worked.fills : f.id[1] # p /\ f.cumulative = worked.carried)'
      BY <1>7, <1>19, <2>2
    <3>3. (/\ worked.filled = 0 \/ \E f \in worked.fills : f.cumulative = worked.filled
           /\ worked.filled <= Before(venue, p) + venue[p].filled)'
      BY <1>2, <1>6, <1>7, <1>12, <1>13, <1>14, <2>2
    <3>4. (\A r \in Known(p) : \A f \in worked.fills :
         f.id[1] = p /\ r.at >= worked.seen /\ r.filled < f.id[2] => f.id \in taken)'
      BY <1>7, <1>19
    <3> QED BY <3>1, <3>2, <3>3, <3>4 DEF TracedOf
  <2>4. \A q \in Numbers : Works(q)' => q = p
    BY <1>7 DEF Works
  <2>5. \A n \in Amounts : (Amount(Upto(n)) <= n)'
    <3>1. \A n \in Amounts : Amount(Upto(n))' = Amount(Upto(n))
      BY <1>7, <1>21 DEF Upto, Amount
    <3> QED BY <2>1, <3>1 DEF Traced
  <2>6. \A e \in InBook' : \E f \in worked'.fills : f.id = e.id
    BY <1>7, <1>21, <2>1 DEF Traced
  <2>7. busted' \subseteq taken' /\ \A id \in taken' : venue'[id[1]].status = "filled"
    BY <1>2, <2>1 DEF Traced
  <2>8. Traced(b)'
    BY <1>7, <2>1, <2>3, <2>4, <2>5, <2>6, <2>7 DEF Traced
  <2> QED BY <1>1, <1>2, <1>3, <1>4, <1>5, <1>6, <1>7, <1>9, <1>10,
         <1>15, <1>17, <1>18, <1>20, <1>23, <2>8 DEF Right, Base
<1> QED BY <1>22, <1>23

\* A process that dies leaves the book, and what the venue states of the order it names.
LEMMA CrashStep ==
    ASSUME NEW b \in [Mishaps -> Nat], Counts(b), Right(b), Crash
    PROVE  /\ Right(b)'
           /\ worked # None /\ worked' = None /\ job' = None /\ booked' = worked.order
           /\ UNCHANGED <<venue, peak, taken, executions, busted, end, booked>>
<1>1. TypeOK /\ IsFiniteSet(executions) /\ Bounded(b) /\ InHand /\ Kept /\ Stale /\ Lined /\ Streamed
  BY RightIs
<1>2. /\ worked # None /\ Spend("crash") /\ worked' = None /\ job' = None /\ updates' = <<>>
      /\ UNCHANGED <<venue, peak, taken, executions, busted, end, booked>>
  BY DEF Crash, bookVars
<1>3. Bounded(b)' /\ left' \in [Mishaps -> Nat] /\ b["crash"] > 0
  <2>1. "crash" \in Mishaps
    BY DEF Mishaps
  <2> QED BY <1>1, <1>2, <2>1, Spends
<1>4. Plain(b) /\ b["crash"] # 0
  BY <1>3 DEF Counts
<1>5. Exact(b) /\ booked = worked.order
  BY <1>2, <1>3, <1>4 DEF Right, Exact
<1>6. PICK o \in Numbers : o = worked.order
  BY <1>1, <1>2, WorkedType
<1>7. Follows(o) /\ Works(o)
  BY <1>2, <1>6 DEF Follows, Works
<1>8. ExactOf(o) /\ Amount(Own(o)) <= venue[o].filled
  BY <1>4, <1>7, WithinOrders
<1>9. \A q \in Numbers : Known(q)' \subseteq Known(q)
  BY <1>1, <1>2, KnownShrinks
<1>10. Lined' /\ Stale' /\ Streamed' /\ updates' \in Seq([of : Numbers, record : Records])
  BY <1>1, <1>2, <1>9, StaleStays, StreamedShrinks
<1>11. TypeOK' /\ InHand' /\ Kept'
  BY <1>1, <1>2, <1>3, <1>10 DEF TypeOK, InHand, Kept, Works
<1>12. \A q \in Numbers : Follows(q)' => q = o
  BY <1>2, <1>5, <1>6 DEF Follows
<1>13. /\ FilledBesides(o)' = FilledBesides(o) /\ Amount(Own(o))' = Amount(Own(o))
       /\ Before(venue, o)' = Before(venue, o)
  BY <1>2, BookStays DEF Before
<1>14. Known(o)' = {venue[o]}
  BY <1>2 DEF Known
<1>15. ExactOf(o)'
  <2>1. (\A e \in executions : e.id[1] <= o /\ (e.id[1] = o => e.id[2] <= Amount(Own(o))))'
    BY <1>2, <1>8, <1>13 DEF ExactOf
  <2>2. (\A r \in Known(o) : worked = None \/ r.at >= worked.seen => Amount(Own(o)) <= r.filled)'
    BY <1>8, <1>13, <1>14
  <2>3. (FilledBesides(o) <= Before(venue, o))'
    BY <1>8, <1>13 DEF ExactOf
  <2> QED BY <1>2, <2>1, <2>2, <2>3 DEF ExactOf
<1>16. Exact(b)'
  BY <1>2, <1>4, <1>5, <1>12, <1>15 DEF Exact
<1> QED BY <1>1, <1>2, <1>3, <1>4, <1>5, <1>10, <1>11, <1>16 DEF Right, Base

\* Started again, it works from what the book holds.
LEMMA ResumeStep ==
    ASSUME NEW b \in [Mishaps -> Nat], Counts(b), Right(b), Resume
    PROVE  /\ Right(b)'
           /\ worked = None /\ job = None /\ job' = None /\ end = "no"
           /\ worked' = WorkedAgain /\ worked' # None /\ worked'.order = booked /\ ~worked'.replacing
           /\ UNCHANGED <<venue, peak, taken, executions, busted, end, booked>>
<1>1. TypeOK /\ IsFiniteSet(executions) /\ Bounded(b) /\ InHand /\ Kept /\ Stale /\ Lined /\ Streamed
  BY RightIs
<1>2. /\ worked = None /\ BookFilled < Quantity /\ end = "no" /\ worked' = WorkedAgain
      /\ UNCHANGED <<venue, updates, peak, taken, executions, busted, end, booked, job, left>>
  BY DEF Resume, BookWorks, venueVars, bookVars
<1>3. job = None /\ job' = None
  BY <1>1, <1>2 DEF TypeOK
<1>4. PICK o \in Numbers : o = booked
  BY <1>1 DEF TypeOK
<1>5. Follows(o) /\ venue[o].status # "none"
  BY <1>1, <1>2, <1>4 DEF Follows, Kept
<1>6. Plain(b) /\ Exact(b)
  BY <1>2 DEF Right, Traced
<1>7. ExactOf(o) /\ BookFilled <= Before(venue, o) + venue[o].filled
  BY <1>5, <1>6, WithinOrders
<1>8. /\ FilledBesides(o) \in Nat /\ BookFilled \in Nat /\ FilledBesides(o) <= BookFilled /\ BookFilled <= peak
      /\ FilledBesides(o) \in Amounts /\ BookFilled \in Amounts
  <2>1. Amount(Own(o)) \in Nat /\ FilledBesides(o) \in Nat /\ BookFilled = FilledBesides(o) + Amount(Own(o))
        /\ BookFilled \in Nat
    BY <1>1, BookType
  <2>2. venue \in [Numbers -> Records] /\ peak \in Nat /\ Total(venue) <= peak
    BY <1>1, FillsAssumption DEF TypeOK, Amounts, Lined
  <2>3. Before(venue, o) + venue[o].filled <= Total(venue) /\ Total(venue) \in Nat /\ Before(venue, o) \in Nat
        /\ venue[o].filled \in Nat
    BY <2>2, BeforeType, RecordType
  <2> QED BY <1>2, <1>7, <2>1, <2>2, <2>3, FillsAssumption DEF Amounts
<1>9. /\ worked' \in Worked /\ worked' # None /\ worked'.order = o /\ worked'.filled = BookFilled
      /\ worked'.carried = FilledBesides(o) /\ worked'.fills = {} /\ worked'.seen = 0 /\ ~worked'.replacing
  <2> DEFINE F == FALSE
             again == [order |-> o, filled |-> BookFilled, carried |-> FilledBesides(o), fills |-> {}, ended |-> "no",
                       seen |-> 0, replacing |-> F, endedPolls |-> 0]
  <2>1. worked' = again /\ F \in BOOLEAN /\ ~F
    BY <1>2, <1>4 DEF WorkedAgain, Fresh
  <2> HIDE DEF F
  <2>2. /\ again \in Worked /\ again.order = o /\ again.filled = BookFilled /\ again.replacing = F
        /\ again.carried = FilledBesides(o) /\ again.fills = {} /\ again.seen = 0
    BY <1>8, <2>1, FillsAssumption DEF Worked
  <2> HIDE DEF again
  <2> QED BY <2>1, <2>2, NoneAssumption
<1>10. \A q \in Numbers : Known(q)' \subseteq Known(q)
  BY <1>1, <1>2, <1>3, KnownShrinks
<1>11. Lined' /\ Stale' /\ Streamed'
  BY <1>1, <1>2, <1>10, StaleStays, StreamedShrinks
<1>12. TypeOK' /\ InHand' /\ Bounded(b)'
  BY <1>1, <1>2, <1>3, <1>9 DEF TypeOK, InHand, Bounded
<1>13. \A q \in Numbers : (Follows(q)' => q = o) /\ (Works(q)' => q = o)
  BY <1>9 DEF Follows, Works
<1>14. /\ FilledBesides(o)' = FilledBesides(o) /\ Amount(Own(o))' = Amount(Own(o)) /\ BookFilled' = BookFilled
       /\ Before(venue, o)' = Before(venue, o)
  BY <1>2, BookStays DEF Before
<1>15. Kept'
  <2>1. venue[o] \in Records /\ 0 <= venue[o].at
    <3>1. venue[o] \in Records
      BY <1>1 DEF TypeOK
    <3> QED BY <3>1, RecordType
  <2>2. FilledBesides(o) <= Before(venue, o)
    BY <1>7 DEF ExactOf
  <2>3. /\ venue'[o].status # "none" /\ worked'.seen <= venue'[o].at /\ worked'.carried <= Before(venue, o)'
        /\ \A f \in worked'.fills : f.id[1] <= o
    BY <1>2, <1>5, <1>9, <1>14, <2>1, <2>2
  <2>4. /\ venue'[booked'].status # "none" /\ worked'.filled <= peak' /\ worked'.carried <= worked'.filled
        /\ \A f \in worked'.fills : f.cumulative <= worked'.filled
    BY <1>2, <1>4, <1>5, <1>8, <1>9
  <2> QED BY <1>13, <2>3, <2>4 DEF Kept
<1>16. ExactOf(o)'
  <2>1. (\A e \in executions : e.id[1] <= o /\ (e.id[1] = o => e.id[2] <= Amount(Own(o))))'
    BY <1>2, <1>7, <1>14 DEF ExactOf
  <2>2. \A r \in Known(o)' : Amount(Own(o)) <= r.filled
    BY <1>2, <1>7, <1>10 DEF ExactOf
  <2>3. (\A r \in Known(o) : worked = None \/ r.at >= worked.seen => Amount(Own(o)) <= r.filled)'
    BY <1>14, <2>2
  <2>4. (FilledBesides(o) <= Before(venue, o))' /\ (worked # None => worked.carried = FilledBesides(o))'
    BY <1>7, <1>9, <1>14 DEF ExactOf
  <2> QED BY <2>1, <2>3, <2>4 DEF ExactOf
<1>17. Exact(b)'
  BY <1>2, <1>4, <1>6, <1>9, <1>13, <1>14, <1>16 DEF Exact
<1> QED BY <1>1, <1>2, <1>3, <1>4, <1>6, <1>9, <1>11, <1>12, <1>15, <1>17 DEF Right, Base

-----------------------------------------------------------------------------
(* That the end is whole. *)

\* Bounds the end is whole under are among those the counts are right under.
LEMMA SettlesCounts ==
    ASSUME NEW b \in [Mishaps -> Nat], Settles(b)
    PROVE  Counts(b) /\ Plain(b)
BY DEF Settles, Counts, Still

\* What is settled stays so where the venue and the book stand.
LEMMA SettledStays ==
    ASSUME Settled, UNCHANGED <<venue, executions, busted, end>>, \A o \in Numbers : Follows(o)' => Follows(o),
           worked' # None => ~worked'.replacing,
           job' # None /\ job'.at \in {"end", "cancelled"} => worked'.filled = job'.filled,
           \A o \in Numbers : job' # None /\ job'.at = "replaced" /\ job'.of = o => worked'.filled = Before(venue, o)
    PROVE  Settled'
<1>1. \A o \in Numbers : Before(venue, o)' = Before(venue, o)
  BY DEF Before
<1>2. BookFilled' = BookFilled /\ \A o \in Numbers : FilledBesides(o)' = FilledBesides(o)
  BY BookStays
<1>3. Total(venue)' = Total(venue)
  BY DEF Total
<1>4. ASSUME NEW o \in Numbers, Follows(o)'
      PROVE  /\ FilledBesides(o)' = Before(venue, o)'
             /\ end' # "no" => venue'[o].status = "cancelled" /\ BookFilled' = Total(venue)'
  <2>1. /\ FilledBesides(o) = Before(venue, o)
        /\ end # "no" => venue[o].status = "cancelled" /\ BookFilled = Total(venue)
    BY <1>4 DEF Settled
  <2> QED BY <1>1, <1>2, <1>3, <2>1
<1>5. \A o \in Numbers : (job # None /\ job.at = "replaced" /\ job.of = o => worked.filled = Before(venue, o))'
  BY <1>1
<1> QED BY <1>4, <1>5 DEF Settled

\* A step that leaves the record.
LEMMA SettledOff ==
    ASSUME Settled, UNCHANGED <<venue, executions, busted, end, booked>>, job' = None,
           \/ worked' = worked
           \/ worked # None /\ worked' # None /\ worked'.order = worked.order /\ worked'.replacing = worked.replacing
    PROVE  Settled'
<1>1. \A o \in Numbers : Follows(o)' => Follows(o)
  BY DEF Follows
<1>2. worked' # None => ~worked'.replacing
  BY DEF Settled
<1> QED BY <1>1, <1>2, SettledStays

\* What is settled stays so as news is read,
LEMMA SettledByJudge ==
    ASSUME NEW b \in [Mishaps -> Nat], Right(b), Settled, Judge
    PROVE  Settled'
<1>1. TypeOK /\ job # None
  BY RightIs DEF Judge, Doing
<1>2. worked \in Worked /\ worked # None /\ job \in Jobs
  BY <1>1, JobType, WorkedType
<1>3. UNCHANGED <<venue, executions, busted, end, booked>>
  BY DEF Judge, venueVars, bookVars
<1>4. CASE News
  <2>1. worked' = [worked EXCEPT !.seen = Record.at] /\ job' = [job EXCEPT !.at = "fills", !.filled = Filled]
    BY <1>4 DEF Judge
  <2>2. worked'.order = worked.order /\ worked'.replacing = worked.replacing /\ job'.at = "fills"
    BY <1>2, <2>1 DEF Worked, Jobs
  <2>3. ~worked.replacing
    BY <1>2 DEF Settled
  <2>4. \A o \in Numbers : Follows(o)' => Follows(o)
    <3>1. worked' \in Worked
      <4>1. Record.at \in Nat
        BY <1>1, JobType, RecordType
      <4> QED BY <1>2, <2>1, <4>1 DEF Worked
    <3>2. worked' # None
      BY <3>1, NoneAssumption
    <3> QED BY <1>2, <2>2, <3>2 DEF Follows
  <2> QED BY <1>3, <2>2, <2>3, <2>4, SettledStays
<1>5. CASE ~News
  BY <1>3, <1>5, SettledOff DEF Judge
<1> QED BY <1>4, <1>5

\* as a fill is recorded,
LEMMA SettledByExecute ==
    ASSUME NEW b \in [Mishaps -> Nat], Settles(b), Right(b), Right(b)', Settled, Execute
    PROVE  Settled'
<1>1. Plain(b) /\ TypeOK /\ ~Spend("lost") /\ Exact(b) /\ Exact(b)'
  BY SettlesCounts, RightIs, NoneLost DEF Right
<1>2. UNCHANGED <<venue, updates, peak, taken, busted, end, booked>> /\ Doing("fills") /\ job.filled > worked.filled
  BY DEF Execute, venueVars
<1>3. CASE executions' = executions /\ worked' = worked /\ job' = None
  BY <1>2, <1>3, SettledOff
<1>4. CASE /\ Recorded
           /\ worked' = [worked EXCEPT !.filled = job.filled,
                            !.fills = @ \cup {[id |-> Grown.id, cumulative |-> job.filled]}]
           /\ job' = [job EXCEPT !.at = "end"]
           /\ left' = left
  <2>1. PICK g : g = Grown
    OBVIOUS
  <2>2. Recording(g)
    BY <1>2, <1>4, <2>1 DEF Recording, Recorded
  <2>3. PICK o \in Numbers : o = worked.order
    BY <1>2, GrownIs
  <2>4. worked # None /\ worked \in Worked /\ Follows(o) /\ job \in Jobs /\ job.filled \in Nat
    BY <1>1, <1>2, <2>3, GrownIs, WorkedType
  <2>5. /\ worked' # None /\ worked'.order = o /\ worked'.carried = worked.carried /\ worked'.filled = job.filled
        /\ worked'.replacing = worked.replacing /\ job'.at = "end" /\ job'.filled = job.filled
    <3>1. /\ worked' # None /\ worked'.order = o /\ worked'.carried = worked.carried /\ worked'.filled = job.filled
      BY <2>2, <2>3, RecordedBase
    <3> QED BY <1>4, <2>4, <3>1 DEF Worked, Jobs
  <2>6. Follows(o)' /\ \A q \in Numbers : Follows(q)' => q = o
    BY <2>5 DEF Follows
  <2>7. FilledBesides(o) = worked.carried /\ FilledBesides(o)' = worked.carried
    <3>1. ExactOf(o) /\ ExactOf(o)'
      BY <1>1, <2>4, <2>6 DEF Exact
    <3> QED BY <2>4, <2>5, <3>1 DEF ExactOf
  <2>8. FilledBesides(o)' = Before(venue, o)'
    <3>1. Before(venue, o)' = Before(venue, o)
      BY <1>2 DEF Before
    <3> QED BY <2>4, <2>7, <3>1 DEF Settled
  <2>9. end = "no"
    <3> SUFFICES ASSUME end # "no" PROVE FALSE
      OBVIOUS
    <3>1. worked.filled = BookFilled /\ BookFilled = Total(venue)
      BY <1>1, <2>4 DEF Exact, Settled
    <3>2. /\ venue[o] \in Known(o) /\ venue[o] \in Records /\ Record \in Known(o) /\ Record \in Records
          /\ job.filled = worked.carried + Record.filled
      BY <1>1, <1>2, <2>3, GrownIs, KnownType DEF TypeOK
    <3>3. job.filled <= Before(venue, o) + venue[o].filled
      <4>1. Record.at <= venue[o].at /\ \A n \in venue[o].filled + 1 .. Record.filled : <<o, n>> \in taken
        BY <3>2, RightIs DEF Stale
      <4>2. Record.filled \in Nat /\ venue[o].filled \in Nat
        BY <3>2, RecordType
      <4>3. taken = {}
        BY <1>1 DEF Exact
      <4>4. Record.filled <= venue[o].filled
        BY <4>1, <4>2, <4>3
      <4>5. worked.carried = Before(venue, o) /\ worked.carried \in Nat
        BY <1>1, <2>4, <2>7, WorkedType DEF Settled
      <4> QED BY <3>2, <4>2, <4>4, <4>5
    <3>4. /\ Before(venue, o) + venue[o].filled <= Total(venue) /\ Total(venue) \in Nat
          /\ Before(venue, o) \in Nat /\ venue[o].filled \in Nat
      <4>1. venue \in [Numbers -> Records]
        BY <1>1 DEF TypeOK
      <4> QED BY <4>1, BeforeType, RecordType
    <3> QED BY <1>2, <2>4, <3>1, <3>3, <3>4
  <2>10. (\A o1 \in Numbers : Follows(o1) =>
            /\ FilledBesides(o1) = Before(venue, o1)
            /\ end # "no" => venue[o1].status = "cancelled" /\ BookFilled = Total(venue))'
    BY <1>2, <2>6, <2>8, <2>9
  <2>11. ~worked'.replacing
    BY <2>4, <2>5 DEF Settled
  <2> QED BY <2>5, <2>10, <2>11 DEF Settled
<1> QED BY <1>1, <1>2, <1>3, <1>4 DEF Execute

\* as the order is found replaced or cancelled, all it filled reported,
LEMMA SettledByStands ==
    ASSUME NEW b \in [Mishaps -> Nat], Settles(b), Right(b), Settled, Stands
    PROVE  Settled'
<1>1. TypeOK /\ Stale /\ Lined /\ InHand /\ Exact(b)
  BY SettlesCounts, RightIs DEF Right
<1>2. /\ job # None /\ job.at = "end"
      /\ UNCHANGED <<venue, executions, busted, end, booked>>
  BY DEF Stands, Doing, venueVars, bookVars
<1>3. PICK o \in Numbers : o = worked.order
  BY <1>1, <1>2, JobType, WorkedType
<1>4. /\ worked \in Worked /\ worked # None /\ job \in Jobs /\ job.of = o /\ Record \in Records /\ Record \in Known(o)
      /\ Follows(o) /\ job.filled = worked.carried + Record.filled
  BY <1>1, <1>2, <1>3, JobType, WorkedType, HandOf DEF InHand
<1>5. worked.filled = job.filled /\ ~worked.replacing /\ FilledBesides(o) = Before(venue, o)
  BY <1>2, <1>4 DEF Settled
<1>6. ASSUME Record.status = "replaced", job' = [job EXCEPT !.at = "replaced", !.of = job.of + 1], worked' = worked
      PROVE  Settled'
  <2>1. Record = venue[o] /\ o + 1 \in Numbers
    BY <1>1, <1>4, <1>6 DEF Stale, Lined
  <2>2. worked.carried = FilledBesides(o)
    BY <1>1, <1>4 DEF Exact, ExactOf
  <2>3. Before(venue, o + 1) = Before(venue, o) + venue[o].filled
    BY <1>1, <2>1, BeforeNext DEF TypeOK
  <2>4. worked.filled = Before(venue, o + 1)
    BY <1>4, <1>5, <2>1, <2>2, <2>3
  <2>5. job'.at = "replaced" /\ job'.of = o + 1
    BY <1>4, <1>6 DEF Jobs
  <2>6. \A q \in Numbers : Follows(q)' => Follows(q)
    BY <1>2, <1>6 DEF Follows
  <2> QED BY <1>2, <1>5, <1>6, <2>4, <2>5, <2>6, SettledStays
<1>7. ASSUME worked' = [worked EXCEPT !.ended = "cancelled"], job' = [job EXCEPT !.at = "cancelled"] PROVE Settled'
  <2>1. worked' \in Worked /\ worked' # None
    BY <1>4, <1>7, NoneAssumption DEF Worked
  <2>2. /\ worked'.order = worked.order /\ worked'.filled = worked.filled /\ worked'.replacing = worked.replacing
        /\ job'.at = "cancelled" /\ job'.filled = job.filled
    BY <1>4, <1>7 DEF Worked, Jobs
  <2>3. \A q \in Numbers : Follows(q)' => Follows(q)
    BY <1>4, <2>1, <2>2 DEF Follows
  <2> QED BY <1>2, <1>5, <2>2, <2>3, SettledStays
<1>8. ASSUME worked' = [worked EXCEPT !.ended = "filled"], job' = None PROVE Settled'
  <2>1. worked' \in Worked /\ worked' # None
    BY <1>4, <1>8, NoneAssumption DEF Worked
  <2>2. worked'.order = worked.order /\ worked'.replacing = worked.replacing
    BY <1>4, <1>8 DEF Worked
  <2> QED BY <1>2, <1>4, <1>8, <2>1, <2>2, SettledOff
<1>9. ASSUME worked' = worked, job' = None PROVE Settled'
  BY <1>2, <1>9, SettledOff
<1> QED BY <1>6, <1>7, <1>8, <1>9 DEF Stands

\* as its end is reported, when the book holds all its orders filled,
LEMMA SettledByCancelled ==
    ASSUME NEW b \in [Mishaps -> Nat], Settles(b), Right(b), Settled, Cancelled
    PROVE  Settled'
<1>1. TypeOK /\ Stale /\ Lined /\ InHand /\ Exact(b)
  BY SettlesCounts, RightIs DEF Right
<1>2. /\ job # None /\ job.at = "cancelled" /\ job' = None /\ worked' = worked
      /\ UNCHANGED <<venue, executions, busted, booked>>
      /\ end' = end \/ end' = "cancelled"
  BY DEF Cancelled, Doing, venueVars
<1>3. PICK o \in Numbers : o = worked.order
  BY <1>1, <1>2, JobType, WorkedType
<1>4. /\ worked \in Worked /\ worked # None /\ Record \in Known(o) /\ Record.status = "cancelled"
      /\ Follows(o) /\ job.filled = worked.carried + Record.filled
  BY <1>1, <1>2, <1>3, JobType, WorkedType, HandOf DEF InHand
<1>5. worked.filled = job.filled /\ ~worked.replacing /\ FilledBesides(o) = Before(venue, o)
  BY <1>2, <1>4 DEF Settled
<1>6. Record = venue[o] /\ venue[o].status = "cancelled"
  BY <1>1, <1>4 DEF Stale
<1>7. BookFilled = Total(venue)
  <2>1. Total(venue) = Before(venue, o) + venue[o].filled
    BY <1>1, <1>6, LastStands
  <2>2. worked.carried = FilledBesides(o) /\ worked.filled = BookFilled
    BY <1>1, <1>4 DEF Exact, ExactOf
  <2> QED BY <1>4, <1>5, <1>6, <2>1, <2>2
<1>8. /\ BookFilled' = BookFilled /\ Total(venue)' = Total(venue)
      /\ FilledBesides(o)' = FilledBesides(o) /\ Before(venue, o)' = Before(venue, o)
  BY <1>2, BookStays DEF Total, Before
<1>9. \A q \in Numbers : Follows(q)' => q = o
  BY <1>2, <1>3, <1>4 DEF Follows
<1>10. (\A q \in Numbers : Follows(q) =>
            /\ FilledBesides(q) = Before(venue, q)
            /\ end # "no" => venue[q].status = "cancelled" /\ BookFilled = Total(venue))'
  BY <1>2, <1>5, <1>6, <1>7, <1>8, <1>9
<1> QED BY <1>2, <1>5, <1>10 DEF Settled

\* as the next order is followed, when the book holds all those before it filled,
LEMMA SettledByReplaced ==
    ASSUME NEW b \in [Mishaps -> Nat], Settles(b), Right(b), Right(b)', Settled, Replaced
    PROVE  Settled'
<1>1. TypeOK /\ Exact(b)' /\ Counts(b)
  BY SettlesCounts, RightIs DEF Right
<1>2. PICK o \in Numbers, p \in Numbers :
         /\ worked # None /\ worked.order = o /\ p = o + 1 /\ job.of = p /\ job.at = "replaced"
         /\ worked' # None /\ worked'.order = p /\ worked'.filled = worked.filled
         /\ venue[o].status = "replaced"
  BY <1>1, ReplacedStep
<1>3. /\ UNCHANGED <<venue, executions, busted, end>> /\ job # None
      /\ worked' = Moved(job.of)
      /\ job' = None \/ job' = [job EXCEPT !.at = "status"]
  BY DEF Replaced, Doing, venueVars
<1>4. worked'.carried = worked.filled /\ ~worked'.replacing
  <2>1. worked \in Worked
    BY <1>1, <1>2, WorkedType
  <2> QED BY <1>3, <2>1 DEF Moved, Worked
<1>5. job' # None => job'.at = "status"
  <2>1. job \in Jobs
    BY <1>1, <1>3, JobType
  <2> QED BY <1>3, <2>1 DEF Jobs
<1>6. Follows(p)' /\ \A q \in Numbers : Follows(q)' => q = p
  BY <1>2 DEF Follows
<1>7. FilledBesides(p)' = Before(venue, p)'
  <2>1. worked.filled = Before(venue, p)
    BY <1>2, <1>3 DEF Settled
  <2>2. worked'.carried = FilledBesides(p)'
    BY <1>1, <1>2, <1>6 DEF Exact, ExactOf
  <2>3. Before(venue, p)' = Before(venue, p)
    BY <1>3 DEF Before
  <2> QED BY <1>4, <2>1, <2>2, <2>3
<1>8. end' = "no"
  <2>1. Follows(o)
    BY <1>2 DEF Follows
  <2>2. end # "no" => venue[o].status = "cancelled"
    BY <2>1 DEF Settled
  <2> QED BY <1>2, <1>3, <2>2
<1>9. (\A q \in Numbers : Follows(q) =>
            /\ FilledBesides(q) = Before(venue, q)
            /\ end # "no" => venue[q].status = "cancelled" /\ BookFilled = Total(venue))'
  BY <1>6, <1>7, <1>8
<1> QED BY <1>4, <1>5, <1>9 DEF Settled

\* as an update is heard,
LEMMA SettledByHearing ==
    ASSUME NEW b \in [Mishaps -> Nat], Right(b), Settled, HearUpdate
    PROVE  Settled'
<1>1. worked # None /\ UNCHANGED <<venue, executions, busted, end, booked, worked>>
  BY DEF HearUpdate, bookVars
<1>2. ~worked.replacing
  BY <1>1 DEF Settled
<1>3. job' = None \/ job'.at = "status"
  BY <1>2 DEF HearUpdate, Hand
<1>4. \A o \in Numbers : Follows(o)' => Follows(o)
  BY <1>1 DEF Follows
<1> QED BY <1>1, <1>2, <1>3, <1>4, SettledStays

\* as the orders are read,
LEMMA SettledByPoll ==
    ASSUME NEW b \in [Mishaps -> Nat], Right(b), Settled, Poll
    PROVE  Settled'
<1> DEFINE polls == IF worked.ended = "no" THEN 0 ELSE worked.endedPolls + 1
<1>1. /\ worked # None /\ UNCHANGED <<venue, executions, busted, end, booked>> /\ PollsStill(polls)
      /\ worked' = [worked EXCEPT !.endedPolls = polls] /\ job' = Hand("status", worked.order, venue, TRUE, FALSE)
  BY DEF Poll, venueVars, bookVars
<1>2. worked \in Worked /\ worked.endedPolls \in 0..EndedPolls
  BY <1>1, RightIs, WorkedType
<1>3. polls \in 0..EndedPolls
  BY <1>1, <1>2, FillsAssumption DEF PollsStill
<1> HIDE DEF polls
<1>4. worked' \in Worked /\ worked' # None /\ worked'.order = worked.order /\ worked'.replacing = worked.replacing
  BY <1>1, <1>2, <1>3, NoneAssumption DEF Worked
<1>5. job'.at = "status"
  BY <1>1 DEF Hand
<1>6. \A o \in Numbers : Follows(o)' => Follows(o)
  BY <1>1, <1>4 DEF Follows
<1>7. ~worked'.replacing
  BY <1>1, <1>4 DEF Settled
<1> QED BY <1>1, <1>5, <1>6, <1>7, SettledStays

\* and as the process dies and starts again.
LEMMA SettledByCrash ==
    ASSUME NEW b \in [Mishaps -> Nat], Settles(b), Right(b), Settled, Crash \/ Resume
    PROVE  Settled'
<1>1. Counts(b)
  BY SettlesCounts
<1>2. CASE Crash
  <2>1. /\ worked # None /\ worked' = None /\ job' = None /\ booked' = worked.order
        /\ UNCHANGED <<venue, executions, busted, end, booked>>
    BY <1>1, <1>2, CrashStep
  <2>2. \A o \in Numbers : Follows(o)' => Follows(o)
    BY <2>1 DEF Follows
  <2> QED BY <2>1, <2>2, SettledStays
<1>3. CASE Resume
  <2>1. /\ worked = None /\ job' = None /\ worked' # None /\ worked'.order = booked /\ ~worked'.replacing
        /\ UNCHANGED <<venue, executions, busted, end, booked>>
    BY <1>1, <1>3, ResumeStep
  <2>2. \A o \in Numbers : Follows(o)' => Follows(o)
    BY <2>1 DEF Follows
  <2> QED BY <2>1, <2>2, SettledStays
<1> QED BY <1>2, <1>3

-----------------------------------------------------------------------------
(* Every step. *)

\* The inductive invariant, for the bounds that were chosen.
Sound == \E b \in Budgets : Right(b) /\ (Settles(b) => Settled)

\* The invariant at the start,
LEMMA InitSound == Init => Sound
<1> SUFFICES ASSUME Init PROVE Sound
  OBVIOUS
<1>1. /\ venue = [o \in Numbers |-> IF o = 1 THEN [Absent EXCEPT !.status = "open"] ELSE Absent]
      /\ updates = <<>> /\ executions = {} /\ busted = {} /\ end = "no" /\ booked = 1
      /\ worked = Fresh(1, 0, 0) /\ job = None /\ peak = 0 /\ taken = {} /\ left \in Budgets
  BY DEF Init
<1>2. /\ 1 \in Numbers /\ Numbers \subseteq Nat /\ 0 \in Amounts
      /\ Orders \in Nat /\ Quantity \in Nat /\ EndedPolls \in Nat
      /\ Budgets \subseteq [Mishaps -> Nat]
  BY FillsAssumption DEF Numbers, Amounts
<1>3. /\ venue \in [Numbers -> Records]
      /\ venue[1] = [status |-> "open", filled |-> 0, at |-> 0]
      /\ \A o \in Numbers : o # 1 => venue[o] = [status |-> "none", filled |-> 0, at |-> 0]
  BY <1>1, <1>2 DEF Absent, Records, States
<1>4. \A o \in Numbers : venue[o].filled = 0 /\ venue[o].at = 0 /\ venue[o].status \in {"open", "none"}
                         /\ (venue[o].status = "none" <=> o # 1)
  BY <1>3
<1>5. /\ worked \in Worked /\ worked # None /\ worked.order = 1 /\ worked.filled = 0 /\ worked.carried = 0
      /\ worked.fills = {} /\ worked.seen = 0 /\ ~worked.replacing
  <2> DEFINE F == FALSE
             first == [order |-> 1, filled |-> 0, carried |-> 0, fills |-> {}, ended |-> "no",
                       seen |-> 0, replacing |-> F, endedPolls |-> 0]
  <2>1. worked = first /\ F \in BOOLEAN /\ ~F
    BY <1>1 DEF Fresh
  <2> HIDE DEF F
  <2>2. /\ first \in Worked /\ first.order = 1 /\ first.filled = 0 /\ first.replacing = F
        /\ first.carried = 0 /\ first.fills = {} /\ first.seen = 0
    BY <1>2, <2>1 DEF Worked
  <2> HIDE DEF first
  <2> QED BY <2>1, <2>2, NoneAssumption
<1>6. TypeOK
  <2>1. <<>> \in Seq([of : Numbers, record : Records])
    OBVIOUS
  <2> QED BY <1>1, <1>2, <1>3, <1>5, <2>1 DEF TypeOK
<1>7. \A o \in Numbers : Known(o) = {venue[o]}
  BY <1>1 DEF Known
<1>8. Total(venue) = 0 /\ \A o \in Numbers : Before(venue, o) = 0
  <2> DEFINE f == [p \in Numbers |-> venue[p].filled]
  <2>1. \A p \in Numbers : f[p] = 0
    BY <1>4
  <2> HIDE DEF f
  <2>2. \A S \in SUBSET Numbers : SumFunctionOnSet(f, S) = 0
    BY <2>1, NumbersFinite, SumNothing
  <2>3. \A o \in Numbers : {p \in Numbers : p < o} \in SUBSET Numbers
    OBVIOUS
  <2> QED BY <2>2, <2>3 DEF Total, Before, f
<1>9. Lined
  <2>1. \A p, q \in Numbers : p < q => q # 1
    BY FillsAssumption DEF Numbers
  <2>2. venue[1].status # "none"
    BY <1>2, <1>4
  <2>3. \A p, q \in Numbers : p < q /\ venue[q].status # "none" => venue[p].status = "replaced"
    BY <1>4, <2>1
  <2>4. \A p \in Numbers : venue[p].status # "replaced"
    BY <1>4
  <2>5. Total(venue) <= peak
    BY <1>1, <1>8
  <2> QED BY <1>4, <2>2, <2>3, <2>4, <2>5 DEF Lined
<1>10. Stale
  <2>1. ASSUME NEW o \in Numbers
        PROVE  /\ venue[o].at <= venue[o].at
               /\ venue[o].filled = 0
               /\ Before(venue, o) + venue[o].filled <= peak
               /\ \A n \in venue[o].filled + 1 .. venue[o].filled : <<o, n>> \in taken
    <3>1. venue[o].filled = 0 /\ venue[o].at = 0 /\ Before(venue, o) = 0 /\ peak = 0
      BY <1>1, <1>4, <1>8
    <3> QED BY <3>1
  <2> QED BY <1>7, <2>1 DEF Stale
<1>11. InBook = {} /\ BookFilled = 0 /\ \A o : Own(o) = {} /\ Amount(Own(o)) = 0 /\ FilledBesides(o) = 0
  <2>1. InBook = {} /\ \A o : Own(o) = {} /\ {e \in InBook : e.id[1] # o} = {}
    BY <1>1 DEF InBook, Own
  <2>2. \A o : Amount(Own(o)) = 0 /\ Amount({e \in InBook : e.id[1] # o}) = 0
    BY <2>1, AmountEmpty
  <2> QED BY <2>1, <2>2, AmountEmpty DEF BookFilled, FilledBesides
<1>12. Kept
  <2>1. venue[1].status # "none" /\ venue[1].at = 0 /\ Before(venue, 1) = 0
    BY <1>2, <1>4, <1>8
  <2>2. \A o \in Numbers : Works(o) => o = 1
    BY <1>5 DEF Works
  <2>3. worked.filled <= peak /\ worked.carried <= worked.filled
    BY <1>1, <1>5
  <2> QED BY <1>1, <1>5, <2>1, <2>2, <2>3 DEF Kept
<1>13. Streamed /\ InHand /\ Bounded(left) /\ IsFiniteSet(executions)
  <2>1. IsFiniteSet(executions)
    BY <1>1, FS_EmptySet
  <2>2. Bounded(left)
    BY <1>1, <1>2 DEF Bounded
  <2> QED BY <1>1, <2>1, <2>2 DEF Streamed, InHand
<1>14. \A o \in Numbers : (Works(o) => o = 1) /\ (Follows(o) => o = 1)
  BY <1>5 DEF Works, Follows
<1>15. Traced(left)
  <2>1. TracedOf(left, 1)
    BY <1>4, <1>5, <1>8, <1>2 DEF TracedOf
  <2>2. \A n \in Amounts : Amount(Upto(n)) <= n
    <3>1. \A n : Upto(n) = {}
      BY <1>11 DEF Upto
    <3>2. \A n : Amount(Upto(n)) = 0
      BY <3>1, AmountEmpty
    <3> QED BY <1>2, <3>2 DEF Amounts
  <2> QED BY <1>1, <1>4, <1>5, <1>11, <1>14, <2>1, <2>2 DEF Traced
<1>16. Exact(left)
  <2>1. ExactOf(1)
    <3>1. Amount(Own(1)) = 0 /\ FilledBesides(1) = 0 /\ Before(venue, 1) = 0 /\ Known(1) = {venue[1]}
          /\ venue[1].filled = 0 /\ worked.carried = 0 /\ executions = {}
      BY <1>1, <1>2, <1>4, <1>5, <1>7, <1>8, <1>11
    <3>2. \A r \in Known(1) : Amount(Own(1)) <= r.filled
      BY <3>1
    <3> QED BY <3>1, <3>2 DEF ExactOf
  <2> QED BY <1>1, <1>4, <1>5, <1>11, <1>14, <2>1 DEF Exact
<1>17. Settled
  BY <1>1, <1>5, <1>8, <1>11, <1>14 DEF Settled
<1> QED BY <1>1, <1>2, <1>6, <1>9, <1>10, <1>12, <1>13, <1>15, <1>16, <1>17 DEF Sound, Right, Base

\* at every step,
LEMMA NextRight ==
    ASSUME NEW b \in [Mishaps -> Nat], Counts(b), Right(b), [Next]_vars
    PROVE  Right(b)'
<1>1. CASE FillsAtVenue
  BY <1>1, FillsAtVenueStep
<1>2. CASE TakesBack
  BY <1>2, TakesBackStep
<1>3. CASE CancelsAtVenue
  BY <1>3, CancelsAtVenueStep
<1>4. CASE ReplacesItself
  BY <1>4, ReplacesItselfStep
<1>5. CASE Judge
  BY <1>5, JudgeStep
<1>6. CASE Bust
  BY <1>6, BustStep
<1>7. CASE Busted
  BY <1>7, BustedStep
<1>8. CASE Execute
  BY <1>8, ExecuteStep
<1>9. CASE Waits
  BY <1>9, WaitsStep
<1>10. CASE NoneGrown
  BY <1>10, NoneGrownStep
<1>11. CASE Stands
  BY <1>11, StandsStep
<1>12. CASE Cancelled
  BY <1>12, CancelledStep
<1>13. CASE Replaced
  BY <1>13, ReplacedStep
<1>14. CASE Poll
  BY <1>14, PollStep
<1>15. CASE HearUpdate
  BY <1>15, HearUpdateStep
<1>16. CASE Replace
  BY <1>16, ReplaceStep
<1>17. CASE ReplaceUnanswered
  BY <1>17, ReplaceUnansweredStep
<1>18. CASE Crash
  BY <1>18, CrashStep
<1>19. CASE Resume
  BY <1>19, ResumeStep
<1>20. CASE UNCHANGED vars
  <2>1. TypeOK /\ Bounded(b) /\ InHand /\ Kept
    BY RightIs
  <2>2. UNCHANGED <<venue, updates, executions, busted, end, booked, worked, job, peak, taken, left>>
    BY <1>20 DEF vars
  <2>3. Onward /\ worked' \in Worked \cup {None} /\ job' \in Jobs \cup {None} /\ end' \in {"no", "cancelled"}
    BY <2>1, <2>2, OnwardSame DEF TypeOK
  <2>4. job' = None \/ \A p \in Numbers : job'.orders[p] \in Known(p)
    BY <2>2, KnownInHand
  <2>5. InHand' /\ Bounded(b)' /\ left' \in [Mishaps -> Nat]
    BY <2>1, <2>2 DEF InHand, Record, Bounded, TypeOK
  <2> QED BY <2>2, <2>3, <2>4, <2>5, RightStays
<1> QED BY <1>1, <1>2, <1>3, <1>4, <1>5, <1>6, <1>7, <1>8, <1>9, <1>10, <1>11, <1>12, <1>13, <1>14, <1>15,
           <1>16, <1>17, <1>18, <1>19, <1>20 DEF Next, Reports

\* what is settled with it,
LEMMA NextSettled ==
    ASSUME NEW b \in [Mishaps -> Nat], Settles(b), Right(b), Settled, [Next]_vars
    PROVE  Settled'
<1>0. Counts(b) /\ Plain(b) /\ Right(b)' /\ TypeOK /\ Bounded(b)
  BY SettlesCounts, NextRight, RightIs
<1>1. CASE FillsAtVenue
  <2>1. Change(b, Current) /\ UNCHANGED <<worked, job>>
    BY <1>0, <1>1, FillsAtVenueStep DEF FillsAtVenue
  <2> QED BY <2>1, SettledChanges
<1>2. CASE TakesBack
  <2>1. Change(b, Current) /\ UNCHANGED <<worked, job>>
    BY <1>0, <1>2, TakesBackStep DEF TakesBack
  <2> QED BY <2>1, SettledChanges
<1>3. CASE CancelsAtVenue
  <2>1. Change(b, Current) /\ UNCHANGED <<worked, job>>
    BY <1>0, <1>3, CancelsAtVenueStep DEF CancelsAtVenue
  <2> QED BY <2>1, SettledChanges
<1>4. CASE ReplacesItself
  <2>1. Change(b, Current) /\ UNCHANGED <<worked, job>>
    BY <1>0, <1>4, ReplacesItselfStep DEF ReplacesItself
  <2> QED BY <2>1, SettledChanges
<1>5. CASE Judge
  BY <1>5, SettledByJudge
<1>6. ~Bust
  BY <1>0, BustStep
<1>7. ~Busted
  BY <1>0, BustedStep
<1>8. CASE Execute
  BY <1>0, <1>8, SettledByExecute
<1>9. ~Spend("date") /\ ~Spend("replace") /\ ~Spend("unanswered")
  <2>1. "date" \in Mishaps /\ "replace" \in Mishaps /\ "unanswered" \in Mishaps
    BY DEF Mishaps
  <2>2. b["date"] = 0 /\ b["replace"] = 0 /\ b["unanswered"] = 0
    BY DEF Settles
  <2> QED BY <1>0, <2>1, <2>2, Spends
<1>10. CASE NoneGrown
  <2>1. /\ job # None /\ job.at = "fills" /\ job.filled = worked.filled /\ job' = [job EXCEPT !.at = "end"]
        /\ worked' = worked /\ UNCHANGED <<venue, executions, busted, end, booked>>
    BY <1>10 DEF NoneGrown, Doing, venueVars, bookVars
  <2>2. job \in Jobs /\ worked # None
    BY <1>0, <2>1, JobType
  <2>3. job'.at = "end" /\ job'.filled = job.filled
    BY <2>1, <2>2 DEF Jobs
  <2>4. \A o \in Numbers : Follows(o)' => Follows(o)
    BY <2>1 DEF Follows
  <2>5. ~worked'.replacing
    BY <2>1, <2>2 DEF Settled
  <2> QED BY <2>1, <2>3, <2>4, <2>5, SettledStays
<1>11. CASE Stands
  BY <1>11, SettledByStands
<1>12. CASE Cancelled
  BY <1>12, SettledByCancelled
<1>13. CASE Replaced
  BY <1>0, <1>13, SettledByReplaced
<1>14. CASE Poll
  BY <1>14, SettledByPoll
<1>15. CASE HearUpdate
  BY <1>15, SettledByHearing
<1>18. CASE Crash \/ Resume
  BY <1>18, SettledByCrash
<1>20. CASE UNCHANGED vars
  <2>1. UNCHANGED <<venue, executions, busted, end, booked, worked, job>>
    BY <1>20 DEF vars
  <2>2. \A o \in Numbers : Follows(o)' => Follows(o)
    BY <2>1 DEF Follows
  <2>3. /\ worked # None => ~worked.replacing
        /\ job # None /\ job.at \in {"end", "cancelled"} => worked.filled = job.filled
        /\ \A o \in Numbers : job # None /\ job.at = "replaced" /\ job.of = o => worked.filled = Before(venue, o)
    BY DEF Settled
  <2> QED BY <2>1, <2>2, <2>3, SettledStays
<1>21. ~Waits /\ ~Replace /\ ~ReplaceUnanswered
  BY <1>9 DEF Waits, Replace, ReplaceUnanswered
<1> QED BY <1>1, <1>2, <1>3, <1>4, <1>5, <1>6, <1>7, <1>8, <1>10, <1>11, <1>12, <1>13, <1>14, <1>15,
           <1>18, <1>20, <1>21 DEF Next, Reports

\* under the bounds that were chosen.
LEMMA NextSound ==
    ASSUME \A b \in Budgets : Counts(b), Sound, [Next]_vars
    PROVE  Sound'
<1>1. PICK b \in Budgets : Right(b) /\ (Settles(b) => Settled)
  BY DEF Sound
<1>2. b \in [Mishaps -> Nat] /\ Counts(b)
  BY FillsAssumption
<1>3. Right(b)'
  BY <1>1, <1>2, NextRight
<1>4. Settles(b) => Settled'
  BY <1>1, <1>2, NextSettled
<1>5. Settles(b)' <=> Settles(b)
  BY DEF Settles, Plain
<1> QED BY <1>3, <1>4, <1>5 DEF Sound

\* What a sound state says.
LEMMA SoundShows ==
    ASSUME Sound
    PROVE  /\ TypeOK /\ NeverOver /\ BustIsTaken
           /\ (\A b \in Budgets : Settles(b)) => EndIsWhole
<1>1. PICK b \in Budgets : Right(b) /\ (Settles(b) => Settled)
  BY DEF Sound
<1>2. b \in [Mishaps -> Nat]
  BY FillsAssumption
<1>3. TypeOK /\ IsFiniteSet(executions) /\ Kept /\ Lined
  BY <1>1, RightIs
<1>4. PICK o \in Numbers : o = IF worked = None THEN booked ELSE worked.order
  BY <1>3, WorkedType DEF TypeOK
<1>5. Follows(o)
  BY <1>4 DEF Follows
<1>6. ASSUME Plain(b) PROVE NeverOver /\ BustIsTaken
  <2>1. BookFilled <= Before(venue, o) + venue[o].filled /\ busted = {}
    BY <1>1, <1>2, <1>5, <1>6, WithinOrders DEF Right, Exact
  <2>2. /\ Before(venue, o) + venue[o].filled <= Total(venue) /\ Total(venue) \in Nat
        /\ Before(venue, o) \in Nat /\ venue[o].filled \in Nat /\ Total(venue) <= peak /\ peak \in Nat
    <3>1. venue \in [Numbers -> Records] /\ peak \in Nat
      BY <1>3, FillsAssumption DEF TypeOK, Amounts
    <3> QED BY <1>3, <3>1, BeforeType, RecordType DEF Lined
  <2>3. BookFilled \in Nat
    BY <1>3, BookType
  <2>4. BookFilled <= peak
    BY <2>1, <2>2, <2>3
  <2> QED BY <2>1, <2>4 DEF NeverOver, BustIsTaken
<1>7. ASSUME ~Plain(b) PROVE NeverOver /\ BustIsTaken
  <2>1. Traced(b) /\ worked # None /\ busted \subseteq taken
    BY <1>1, <1>7 DEF Right, Traced
  <2>2. BookFilled <= worked.filled /\ worked.filled <= peak
    BY <1>3, <2>1, TracedHolds DEF Kept
  <2>3. BookFilled \in Nat /\ worked.filled \in Nat /\ peak \in Nat
    BY <1>3, <2>1, BookType, WorkedType, FillsAssumption DEF TypeOK, Amounts
  <2> QED BY <2>1, <2>2, <2>3 DEF NeverOver, BustIsTaken
<1>8. (\A d \in Budgets : Settles(d)) => EndIsWhole
  BY <1>1, <1>5 DEF Settled, EndIsWhole
<1> QED BY <1>3, <1>6, <1>7, <1>8

\* So it holds always.
LEMMA AlwaysSound ==
    ASSUME \A b \in Budgets : Counts(b)
    PROVE  Spec => []Sound
<1>1. Init => Sound
  BY InitSound
<1>2. Sound /\ [Next]_vars => Sound'
  BY NextSound
<1> QED BY <1>1, <1>2, PTL DEF Spec

\* Every variable holds what it may: the placement's orders never fill past its
\* quantity as the plugin counts them, and nothing is in hand of a plugin that
\* died, over every interleaving of the venue, the plugin and its restarts.
THEOREM TypeCorrect ==
    ASSUME \A b \in Budgets : Counts(b)
    PROVE  Spec => []TypeOK
<1>1. Sound => TypeOK
  BY SoundShows
<1> QED BY <1>1, AlwaysSound, PTL

\* `_report_status` and `_busts`, `_replaced` and `_resume` together: the book never
\* holds more filled than the venue ever stated, whatever older updates are heard
\* after a poll, orders replaced, reports refused and restarts come between. What
\* the bounds must leave out (`Counts`) is where the code counts over (README,
\* Disagreements), with the rest of the restarts and replaces beside fills taken
\* back, which are not proved.
THEOREM NeverCountsOver ==
    ASSUME \A b \in Budgets : Counts(b)
    PROVE  Spec => []NeverOver
<1>1. Sound => NeverOver
  BY SoundShows
<1> QED BY <1>1, AlwaysSound, PTL

\* `_busts`: a fill is busted in the book only where the venue took it back, never
\* because an update older than the last read leaves it out, or because the order
\* that replaced its own does not state it.
THEOREM BustsWereTaken ==
    ASSUME \A b \in Budgets : Counts(b)
    PROVE  Spec => []BustIsTaken
<1>1. Sound => BustIsTaken
  BY SoundShows
<1> QED BY <1>1, AlwaysSound, PTL

\* `_report_status`: a placement the book has ended holds every fill the venue's
\* orders had, those of orders replaced and those reported again after a report
\* was refused or a process died included. The bounds must satisfy `Settles`: a
\* fill that waits for its date, or an order replaced while its last fill is not
\* read, are ended over (README, Disagreements).
THEOREM EndsWhole ==
    ASSUME \A b \in Budgets : Settles(b)
    PROVE  Spec => []EndIsWhole
<1>1. \A b \in Budgets : Counts(b)
  BY FillsAssumption, SettlesCounts
<1>2. Sound => EndIsWhole
  BY SoundShows
<1> QED BY <1>1, <1>2, AlwaysSound, PTL

=============================================================================
