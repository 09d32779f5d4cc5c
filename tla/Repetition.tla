----------------------------- MODULE Repetition -----------------------------
(***************************************************************************)
(* A step taken a number of times, and what it keeps: induction for the    *)
(* loops of the readers, which are recursive functions.  A module that     *)
(* proves something about a loop instantiates this one with its body.  So  *)
(* does one that asks whether another recursive definition says anything:  *)
(* its step gets the whole function, and asks it of smaller things only.   *)
(***************************************************************************)
EXTENDS Integers, WellFoundedInduction, TLAPS

CONSTANT Step(_, _, _)   \* the body of the loop, given p, the i-th time

\* The state after n steps.
Repeated(p, start, n) ==
  LET r[i \in 0 .. n] == IF i = 0 THEN start ELSE Step(p, i, r[i - 1]) IN r[n]

\* f are the states on the way to the n-th.
Trace(p, start, n, f) ==
  f = [i \in 0 .. n |-> IF i = 0 THEN start ELSE Step(p, i, f[i - 1])]

\* What holds of 0, and of the number after any it holds of, holds of all.
LEMMA SetInduction ==
  ASSUME NEW S, 0 \in S, \A k \in Nat : k \in S => k + 1 \in S
  PROVE  Nat \subseteq S
<1> SUFFICES ASSUME Nat \ S # {} PROVE FALSE
  OBVIOUS
<1> DEFINE R == OpToRel(<, Nat)
<1>1. PICK x \in Nat \ S : \A y \in Nat \ S : ~ (<<y, x>> \in R)
  <2>1. Nat \ S \subseteq Nat
    OBVIOUS
  <2>2. IsWellFoundedOn(R, Nat)
    BY NatLessThanWellFounded
  <2> HIDE DEF R
  <2> QED BY <2>1, <2>2, WFMin
<1>2. \A y \in Nat : y < x => <<y, x>> \in R
  BY DEF OpToRel
<1> HIDE DEF R
<1>3. x - 1 \in Nat /\ x - 1 < x /\ (x - 1) + 1 = x
  BY 0 \in S
<1>4. x - 1 \notin S
  BY <1>3
<1> QED BY <1>1, <1>2, <1>3, <1>4

\* There is such a trace for every n.
LEMMA TraceExists ==
  ASSUME NEW p, NEW start, NEW n \in Nat
  PROVE  \E f : Trace(p, start, n, f)
<1> DEFINE S == {k \in Nat : \E f : Trace(p, start, k, f)}
<1>1. 0 \in S
  <2>1. Trace(p, start, 0, [i \in 0 .. 0 |-> start])
    BY DEF Trace
  <2> QED BY <2>1
<1>2. ASSUME NEW k \in Nat, k \in S PROVE k + 1 \in S
  <2>1. PICK f : Trace(p, start, k, f)
    BY <1>2
  <2> DEFINE g == [i \in 0 .. k + 1 |-> IF i = k + 1 THEN Step(p, k + 1, f[k]) ELSE f[i]]
  <2>2. ASSUME NEW i \in 0 .. k + 1
        PROVE  g[i] = IF i = 0 THEN start ELSE Step(p, i, g[i - 1])
    <3>1. f[0] = start /\ \A j \in 1 .. k : f[j] = Step(p, j, f[j - 1])
      BY <2>1 DEF Trace
    <3> QED BY <3>1
  <2>3. g = [i \in 0 .. k + 1 |-> IF i = 0 THEN start ELSE Step(p, i, g[i - 1])]
    BY <2>2
  <2>4. Trace(p, start, k + 1, g)
    BY <2>3 DEF Trace
  <2> QED BY <2>4
<1> QED BY <1>1, <1>2, SetInduction

\* Traces agree as far as both go.
LEMMA TraceUnique ==
  ASSUME NEW p, NEW start, NEW m \in Nat, NEW n \in Nat, m <= n,
         NEW f, Trace(p, start, m, f), NEW g, Trace(p, start, n, g)
  PROVE  f[m] = g[m]
<1>1. f[0] = start /\ \A j \in 1 .. m : f[j] = Step(p, j, f[j - 1])
  BY DEF Trace
<1>2. g[0] = start /\ \A j \in 1 .. m : g[j] = Step(p, j, g[j - 1])
  BY DEF Trace
<1> DEFINE S == {k \in Nat : k <= m => f[k] = g[k]}
<1>3. 0 \in S
  BY <1>1, <1>2
<1>4. ASSUME NEW k \in Nat, k \in S PROVE k + 1 \in S
  <2> SUFFICES ASSUME k + 1 <= m PROVE f[k + 1] = g[k + 1]
    OBVIOUS
  <2>1. k + 1 \in 1 .. m /\ (k + 1) - 1 = k /\ f[k] = g[k]
    BY <1>4
  <2> QED BY <1>1, <1>2, <2>1
<1>5. m \in S
  BY <1>3, <1>4, SetInduction
<1> QED BY <1>5

\* So n + 1 steps are n steps and one more.
LEMMA RepeatedUnfolds ==
  ASSUME NEW p, NEW start
  PROVE  /\ Repeated(p, start, 0) = start
         /\ \A n \in Nat : Repeated(p, start, n + 1) = Step(p, n + 1, Repeated(p, start, n))
<1> DEFINE r(n) == CHOOSE f : Trace(p, start, n, f)
<1>1. \A n : Repeated(p, start, n) = r(n)[n]
  BY DEF Repeated, Trace
<1>2. \A n \in Nat : Trace(p, start, n, r(n))
  BY TraceExists
<1> HIDE DEF r
<1>3. r(0)[0] = start
  <2>1. Trace(p, start, 0, r(0))
    BY <1>2
  <2> QED BY <2>1 DEF Trace
<1>4. ASSUME NEW n \in Nat
      PROVE  r(n + 1)[n + 1] = Step(p, n + 1, r(n)[n])
  <2>1. n + 1 \in Nat /\ n <= n + 1
    OBVIOUS
  <2>2. Trace(p, start, n, r(n)) /\ Trace(p, start, n + 1, r(n + 1))
    BY <1>2, <2>1
  <2>3. r(n)[n] = r(n + 1)[n]
    BY <2>1, <2>2, TraceUnique
  <2>4. r(n + 1)[n + 1] = Step(p, n + 1, r(n + 1)[n])
    BY <2>2 DEF Trace
  <2> QED BY <2>3, <2>4
<1> QED BY <1>1, <1>3, <1>4

-----------------------------------------------------------------------------
(* Recursion over things that have ranks                                    *)

\* f is what the recursive definition says of the members of S.
Solves(p, S, f) == f = [v \in S |-> Step(p, v, f)]

\* The definition at v asks for nothing but members of S of lower rank.
Descends(p, S, rank) ==
  /\ \A v \in S : rank[v] \in Nat
  /\ \A v \in S : \A f, h :
       (\A u \in S : rank[u] < rank[v] => f[u] = h[u]) => Step(p, v, f) = Step(p, v, h)

\* f is what it says of those of rank less than k.
SolvesBelow(p, S, rank, k, f) ==
  /\ f = [v \in S |-> f[v]]
  /\ \A v \in S : rank[v] < k => f[v] = Step(p, v, f)

\* It says one thing only.
LEMMA BelowUnique ==
  ASSUME NEW p, NEW S, NEW rank, Descends(p, S, rank), NEW k \in Nat, NEW m \in Nat, k <= m,
         NEW f, SolvesBelow(p, S, rank, k, f), NEW h, SolvesBelow(p, S, rank, m, h)
  PROVE  \A v \in S : rank[v] < k => f[v] = h[v]
<1> DEFINE T == {j \in Nat : \A v \in S : rank[v] < j /\ rank[v] < k => f[v] = h[v]}
<1>1. 0 \in T
  BY DEF Descends
<1>2. ASSUME NEW j \in Nat, j \in T PROVE j + 1 \in T
  <2> SUFFICES ASSUME NEW v \in S, rank[v] < j + 1, rank[v] < k PROVE f[v] = h[v]
    OBVIOUS
  <2>1. rank[v] \in Nat /\ \A u \in S : rank[u] \in Nat
    BY DEF Descends
  <2>2. \A u \in S : rank[u] < rank[v] => f[u] = h[u]
    BY <1>2, <2>1
  <2>3. Step(p, v, f) = Step(p, v, h)
    BY <2>2 DEF Descends
  <2>4. rank[v] < m
    BY <2>1
  <2> QED BY <2>3, <2>4 DEF SolvesBelow
<1>3. k \in T
  <2> HIDE DEF T
  <2> QED BY <1>1, <1>2, SetInduction
<1> QED BY <1>3

\* It says something of every rank.
LEMMA BelowExists ==
  ASSUME NEW p, NEW S, NEW rank, Descends(p, S, rank), NEW k \in Nat
  PROVE  \E f : SolvesBelow(p, S, rank, k, f)
<1> DEFINE T == {j \in Nat : \E f : SolvesBelow(p, S, rank, j, f)}
<1>1. 0 \in T
  <2> DEFINE f == [v \in S |-> p]
  <2>1. f = [v \in S |-> f[v]] /\ \A v \in S : ~ (rank[v] < 0)
    BY DEF Descends
  <2> HIDE DEF f
  <2> QED BY <2>1 DEF SolvesBelow
<1>2. ASSUME NEW j \in Nat, j \in T PROVE j + 1 \in T
  <2>1. PICK f : SolvesBelow(p, S, rank, j, f)
    BY <1>2
  <2> DEFINE h == [v \in S |-> IF rank[v] = j THEN Step(p, v, f) ELSE f[v]]
  <2>2. /\ h = [v \in S |-> h[v]]
        /\ \A v \in S : h[v] = IF rank[v] = j THEN Step(p, v, f) ELSE f[v]
    OBVIOUS
  <2> HIDE DEF h
  <2>3. ASSUME NEW v \in S, rank[v] < j + 1 PROVE h[v] = Step(p, v, h)
    <3>1. rank[v] \in Nat /\ \A u \in S : rank[u] \in Nat
      BY DEF Descends
    <3>2. \A u \in S : rank[u] < rank[v] => h[u] = f[u]
      BY <2>2, <2>3, <3>1
    <3>3. Step(p, v, h) = Step(p, v, f)
      BY <3>2 DEF Descends
    <3>4. CASE rank[v] = j
      BY <2>2, <3>3, <3>4
    <3>5. CASE rank[v] < j
      <4>1. h[v] = f[v] /\ f[v] = Step(p, v, f)
        BY <2>1, <2>2, <3>1, <3>5 DEF SolvesBelow
      <4> QED BY <3>3, <4>1
    <3> QED BY <2>3, <3>1, <3>4, <3>5
  <2>4. SolvesBelow(p, S, rank, j + 1, h)
    BY <2>2, <2>3 DEF SolvesBelow
  <2> QED BY <2>4
<1>3. k \in T
  <2> HIDE DEF T
  <2> QED BY <1>1, <1>2, SetInduction
<1> QED BY <1>3

\* So it defines a function.
LEMMA SolutionExists ==
  ASSUME NEW p, NEW S, NEW rank, Descends(p, S, rank)
  PROVE  \E f : Solves(p, S, f)
<1> DEFINE b(k) == CHOOSE f : SolvesBelow(p, S, rank, k, f)
           f == [v \in S |-> b(rank[v] + 1)[v]]
<1>1. \A k \in Nat : SolvesBelow(p, S, rank, k, b(k))
  BY BelowExists
<1> HIDE DEF b
<1>2. \A v \in S : rank[v] \in Nat /\ rank[v] + 1 \in Nat /\ f[v] = b(rank[v] + 1)[v]
  BY DEF Descends
<1>3. f = [v \in S |-> f[v]]
  OBVIOUS
<1> HIDE DEF f
<1>4. ASSUME NEW v \in S PROVE f[v] = Step(p, v, f)
  <2> DEFINE k == rank[v] + 1
  <2>1. \A u \in S : rank[u] < rank[v] => f[u] = b(k)[u]
    <3> SUFFICES ASSUME NEW u \in S, rank[u] < rank[v] PROVE f[u] = b(k)[u]
      OBVIOUS
    <3>1. rank[u] + 1 \in Nat /\ k \in Nat /\ rank[u] + 1 <= k /\ rank[u] < rank[u] + 1
      BY <1>2
    <3>2. b(rank[u] + 1)[u] = b(k)[u]
      <4> HIDE DEF k
      <4> QED BY <1>1, <3>1, BelowUnique
    <3> QED BY <1>2, <3>2
  <2>2. Step(p, v, f) = Step(p, v, b(k))
    BY <2>1 DEF Descends
  <2>3. b(k)[v] = Step(p, v, b(k))
    <3>1. k \in Nat /\ rank[v] < k
      BY <1>2
    <3> HIDE DEF k
    <3> QED BY <1>1, <3>1 DEF SolvesBelow
  <2> QED BY <1>2, <2>2, <2>3
<1>5. f = [v \in S |-> Step(p, v, f)]
  BY <1>3, <1>4
<1> QED BY <1>5 DEF Solves
=============================================================================
