------------------------------ MODULE Induction ------------------------------
(* Induction over the natural numbers with a set in the place of the usual   *)
(* operator parameter, and what follows from it for the loops of the models. *)
EXTENDS Integers, WellFoundedInduction, TLAPS

(* A set of numbers that has 0, and the next of each of its numbers, has all.*)
THEOREM SetInduction ==
  ASSUME NEW S, S \subseteq Nat, 0 \in S, \A n \in S : n + 1 \in S
  PROVE  S = Nat
<1> DEFINE R == OpToRel(<, Nat)
           T == Nat \ S
<1>1. SUFFICES ASSUME T # {} PROVE FALSE
  OBVIOUS
<1>2. IsWellFoundedOn(R, Nat)
  BY NatLessThanWellFounded
<1>3. \A x, y \in Nat : x < y => <<x, y>> \in R
  BY Zenon DEF OpToRel
<1>4. T \subseteq Nat /\ T # {}
  BY <1>1
<1> HIDE DEF R, T
<1>5. PICK x \in T : \A y \in T : ~ (<<y, x>> \in R)
  BY <1>2, <1>4, WFMin
<1>6. x \in Nat /\ x # 0 /\ x - 1 \in Nat /\ x - 1 < x /\ (x - 1) + 1 = x
  BY <1>5 DEF T
<1>7. x - 1 \notin T
  BY <1>3, <1>4, <1>5, <1>6
<1> QED BY <1>5, <1>6, <1>7 DEF T

(* f runs the loop that turns s into next[s] as long as s is in B. *)
Runs(f, S, B, next) == f = [s \in S |-> IF s \in B THEN f[next[s]] ELSE s]

(* A loop: while its variables s are in B they become next[s].  If a measure *)
(* decreases with every round, the recursive function that runs the loop     *)
(* exists, whatever it is started with.                                      *)
THEOREM LoopIsDefined ==
  ASSUME NEW S, NEW B, NEW next \in [S -> S], NEW measure \in [S -> Nat],
         \A s \in S : s \in B => measure[next[s]] < measure[s]
  PROVE  \E f : Runs(f, S, B, next)
<1> DEFINE Good(f, n) ==
             \A s \in S : measure[s] < n => f[s] = IF s \in B THEN f[next[s]] ELSE s
           Upto == {n \in Nat : \E f \in [S -> S] : Good(f, n)}
           Same == {n \in Nat : \A f, g \in [S -> S] :
                      Good(f, n) /\ Good(g, n) => \A s \in S : measure[s] < n => f[s] = g[s]}
<1>1. Upto = Nat
  <2>1. 0 \in Upto
    <3>1. [s \in S |-> s] \in [S -> S] /\ Good([s \in S |-> s], 0)
      OBVIOUS
    <3> QED BY <3>1
  <2>2. ASSUME NEW n \in Upto PROVE n + 1 \in Upto
    <3>1. PICK f \in [S -> S] : Good(f, n)
      OBVIOUS
    <3> DEFINE g == [s \in S |-> IF s \in B THEN f[next[s]] ELSE s]
    <3>2. g \in [S -> S]
      OBVIOUS
    <3>3. ASSUME NEW s \in S, measure[s] < n + 1, s \in B
          PROVE  g[s] = g[next[s]]
      <4>1. next[s] \in S /\ measure[next[s]] \in Nat /\ measure[s] \in Nat
        OBVIOUS
      <4>2. measure[next[s]] < n
        BY <3>3, <4>1
      <4>3. f[next[s]] = IF next[s] \in B THEN f[next[next[s]]] ELSE next[s]
        BY <3>1, <4>1, <4>2
      <4> QED BY <3>3, <4>1, <4>3
    <3>4. Good(g, n + 1)
      BY <3>3
    <3> HIDE DEF g, Good
    <3> QED BY <3>2, <3>4
  <2>3. Upto \subseteq Nat
    OBVIOUS
  <2> HIDE DEF Upto
  <2> QED BY <2>1, <2>2, <2>3, SetInduction
<1>2. Same = Nat
  <2>1. 0 \in Same
    OBVIOUS
  <2>2. ASSUME NEW n \in Same PROVE n + 1 \in Same
    <3>1. SUFFICES ASSUME NEW f \in [S -> S], NEW g \in [S -> S],
                          Good(f, n + 1), Good(g, n + 1),
                          NEW s \in S, measure[s] < n + 1
                   PROVE  f[s] = g[s]
      OBVIOUS
    <3>2. Good(f, n) /\ Good(g, n)
      BY <3>1
    <3>3. \A t \in S : measure[t] < n => f[t] = g[t]
      BY <3>2
    <3>4. CASE s \in B
      <4>1. next[s] \in S /\ measure[next[s]] \in Nat /\ measure[s] \in Nat
        OBVIOUS
      <4>2. measure[next[s]] < n
        BY <3>1, <3>4, <4>1
      <4> QED BY <3>1, <3>3, <3>4, <4>1, <4>2
    <3>5. CASE s \notin B
      BY <3>1, <3>5
    <3> QED BY <3>4, <3>5
  <2>3. Same \subseteq Nat
    OBVIOUS
  <2> HIDE DEF Same
  <2> QED BY <2>1, <2>2, <2>3, SetInduction
<1> DEFINE Runner(n) == CHOOSE f \in [S -> S] : Good(f, n)
           h == [s \in S |-> Runner(measure[s] + 1)[s]]
<1>3. \A n \in Nat : Runner(n) \in [S -> S] /\ Good(Runner(n), n)
  <2> HIDE DEF Good
  <2> QED BY <1>1
<1> HIDE DEF Runner
<1>4. ASSUME NEW s \in S, s \in B PROVE h[s] = h[next[s]]
  <2> DEFINE n == measure[s] + 1
             m == measure[next[s]] + 1
  <2>1. next[s] \in S /\ m \in Nat /\ n \in Nat /\ m < n /\ measure[s] < n /\ measure[next[s]] < m
    BY <1>4
  <2>2. h[s] = Runner(n)[s] /\ h[next[s]] = Runner(m)[next[s]]
    BY <2>1
  <2> HIDE DEF m, n
  <2>3. Runner(n) \in [S -> S] /\ Good(Runner(n), n)
    BY <1>3, <2>1
  <2>4. Runner(n)[s] = Runner(n)[next[s]]
    BY <1>4, <2>1, <2>3
  <2>5. Good(Runner(n), m)
    BY <2>1, <2>3
  <2>6. m \in Same /\ Good(Runner(m), m) /\ Runner(m) \in [S -> S]
    BY <1>2, <1>3, <2>1
  <2>7. Runner(n)[next[s]] = Runner(m)[next[s]]
    <3> HIDE DEF Good
    <3> QED BY <2>1, <2>3, <2>5, <2>6
  <2> HIDE DEF h
  <2> QED BY <2>2, <2>4, <2>7
<1>5. ASSUME NEW s \in S, s \notin B PROVE h[s] = s
  <2> DEFINE n == measure[s] + 1
  <2>1. n \in Nat /\ measure[s] < n /\ h[s] = Runner(n)[s]
    OBVIOUS
  <2> HIDE DEF n, h
  <2>2. Good(Runner(n), n)
    BY <1>3, <2>1
  <2> QED BY <1>5, <2>1, <2>2
<1>6. h = [s \in S |-> IF s \in B THEN h[next[s]] ELSE s]
  <2>1. \A s \in S : h[s] = IF s \in B THEN h[next[s]] ELSE s
    BY <1>4, <1>5
  <2>2. h = [s \in S |-> h[s]]
    OBVIOUS
  <2> HIDE DEF h
  <2> QED BY <2>1, <2>2
<1> QED BY <1>6 DEF Runs

(* One round of a loop, or none.                                             *)
THEOREM LoopStep ==
  ASSUME NEW S, NEW B, NEW next, NEW f, Runs(f, S, B, next)
  PROVE  \A s \in S : f[s] = IF s \in B THEN f[next[s]] ELSE s
  BY DEF Runs
=============================================================================
