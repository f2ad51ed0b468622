------------------------------- MODULE NatFacts -------------------------------
(***************************************************************************)
(* Induction over the natural numbers in the form the provers can use: a   *)
(* set of numbers that is not empty has a least element. A property that   *)
(* holds of every number is proved by looking at its least counterexample, *)
(* and a recurrence over 0..k has a solution, as the least k without one   *)
(* would extend the solution for k - 1.                                    *)
(***************************************************************************)
EXTENDS Integers, WellFoundedInduction, TLAPS

(* A set of numbers has a least element.                                  *)
LEMMA LeastNumber ==
  ASSUME NEW T \in SUBSET Nat, T # {}
  PROVE  \E n \in T : \A m \in T : n <= m
<1> DEFINE R == OpToRel(<, Nat)
<1>1. IsWellFoundedOn(R, Nat)
  BY NatLessThanWellFounded DEF OpToRel
<1>2. \A m, n \in Nat : m < n => <<m, n>> \in R
  BY DEF OpToRel
<1> HIDE DEF R
<1>3. PICK n \in T : \A m \in T : ~(<<m, n>> \in R)
  BY <1>1, WFMin
<1>4. \A m \in T : ~(m < n)
  BY <1>2, <1>3
<1> QED BY <1>4

(* A bounded set of numbers has a greatest element.                        *)
LEMMA GreatestNumber ==
  ASSUME NEW T \in SUBSET Nat, T # {}, NEW k \in Nat, \A n \in T : n <= k
  PROVE  \E n \in T : \A m \in T : m <= n
<1> DEFINE U == {d \in Nat : \E n \in T : d = k - n}
<1>1. PICK n \in T : TRUE
  OBVIOUS
<1>2. k - n \in U
  OBVIOUS
<1>3. PICK d \in U : \A e \in U : d <= e
  BY <1>2, LeastNumber
<1>4. PICK m \in T : d = k - m
  BY <1>3
<1>5. ASSUME NEW q \in T PROVE q <= m
  <2>1. k - q \in U
    OBVIOUS
  <2> QED BY <1>3, <1>4, <2>1
<1> QED BY <1>5

(* A recurrence over 0..k, whose step G may look at the index.             *)
Recurs(f, S, x, G, k) ==
  f \in [0..k -> S] /\ f[0] = x /\ \A i \in 1..k : f[i] = G[i][f[i - 1]]

LEMMA Recurrence ==
  ASSUME NEW S, NEW x \in S, NEW G \in [Nat -> [S -> S]], NEW k \in Nat
  PROVE  \E f : Recurs(f, S, x, G, k)
<1> DEFINE P(n) == \E f \in [0..n -> S] : f[0] = x /\ \A i \in 1..n : f[i] = G[i][f[i - 1]]
           T == {n \in Nat : ~P(n)}
<1> SUFFICES ASSUME T # {} PROVE FALSE
  BY DEF Recurs
<1>1. PICK n \in T : \A m \in T : n <= m
  BY LeastNumber
<1>2. n # 0
  <2>1. P(0)
    <3> DEFINE f == [i \in 0..0 |-> x]
    <3>1. f \in [0..0 -> S] /\ f[0] = x
      OBVIOUS
    <3>2. \A i \in 1..0 : f[i] = G[i][f[i - 1]]
      OBVIOUS
    <3> QED BY <3>1, <3>2
  <2> QED BY <2>1
<1>3. n \in Nat /\ n - 1 \in Nat /\ n - 1 \notin T
  <2>1. n \in Nat /\ \A m \in T : n <= m
    BY <1>1
  <2> HIDE DEF T
  <2> QED BY <1>2, <2>1
<1>4. PICK f \in [0..(n - 1) -> S] : f[0] = x /\ \A i \in 1..(n - 1) : f[i] = G[i][f[i - 1]]
  BY <1>3
<1> DEFINE g == [i \in 0..n |-> IF i = n THEN G[n][f[n - 1]] ELSE f[i]]
<1>5. f[n - 1] \in S
  BY <1>3, <1>4
<1>6. g \in [0..n -> S]
  BY <1>3, <1>4, <1>5
<1>7. g[0] = x
  BY <1>2, <1>3, <1>4
<1>8. \A i \in 1..n : g[i] = G[i][g[i - 1]]
  BY <1>3, <1>4
<1>9. P(n)
  BY <1>6, <1>7, <1>8
<1> QED BY <1>1, <1>9

(* What holds of 0 and is handed on from each number to the next holds up  *)
(* to n. T is the set of numbers it holds of.                              *)
LEMMA CountUp ==
  ASSUME NEW n \in Nat, NEW T, 0 \in T, \A i \in 1..n : i - 1 \in T => i \in T
  PROVE  0..n \subseteq T
<1> DEFINE U == {i \in 0..n : i \notin T}
<1> SUFFICES ASSUME U # {} PROVE FALSE
  OBVIOUS
<1>1. U \in SUBSET Nat
  OBVIOUS
<1>2. PICK i \in U : \A j \in U : i <= j
  <2> HIDE DEF U
  <2> QED BY <1>1, LeastNumber
<1>3. i \in 1..n /\ i \notin T
  OBVIOUS
<1>4. i - 1 \in T
  <2>1. i - 1 \in 0..n /\ i - 1 < i
    BY <1>3
  <2>2. i - 1 \notin U
    <3> HIDE DEF U
    <3> QED BY <1>2, <1>3, <2>1
  <2> QED BY <2>1, <2>2
<1> QED BY <1>3, <1>4

(* The same from n downwards.                                              *)
LEMMA CountDown ==
  ASSUME NEW n \in Nat, NEW T, \A i \in 1..n : (\A j \in 1..n : j > i => j \in T) => i \in T
  PROVE  1..n \subseteq T
<1> DEFINE U == {i \in 1..n : i \notin T}
<1> SUFFICES ASSUME U # {} PROVE FALSE
  OBVIOUS
<1>1. U \in SUBSET Nat /\ \A i \in U : i <= n
  OBVIOUS
<1>2. PICK i \in U : \A j \in U : j <= i
  <2> HIDE DEF U
  <2> QED BY <1>1, GreatestNumber
<1>3. ASSUME NEW j \in 1..n, j > i PROVE j \in T
  <2>1. j \notin U
    <3> HIDE DEF U
    <3> QED BY <1>1, <1>2, <1>3
  <2> QED BY <2>1
<1> QED BY <1>3

(* A function applied over and over to x.                                  *)
Iterates(f, S, x, g, k) ==
  f \in [0..k -> S] /\ f[0] = x /\ \A i \in 1..k : f[i] = g[f[i - 1]]

LEMMA Iteration ==
  ASSUME NEW S, NEW x \in S, NEW g, \A s \in S : g[s] \in S, NEW k \in Nat
  PROVE  \E f : Iterates(f, S, x, g, k)
<1> DEFINE G == [i \in Nat |-> [s \in S |-> g[s]]]
<1>1. k \in Nat /\ x \in S /\ G \in [Nat -> [S -> S]]
  OBVIOUS
<1>2. \A i \in Nat : \A s \in S : G[i][s] = g[s]
  OBVIOUS
<1> HIDE DEF G
<1>3. PICK f : Recurs(f, S, x, G, k)
  BY <1>1, Recurrence
<1>4. f \in [0..k -> S] /\ f[0] = x /\ \A i \in 1..k : f[i] = G[i][f[i - 1]]
  BY <1>3 DEF Recurs
<1>5. \A i \in 1..k : f[i] = g[f[i - 1]]
  <2>1. ASSUME NEW i \in 1..k PROVE f[i] = g[f[i - 1]]
    <3>1. i \in Nat /\ i - 1 \in 0..k /\ f[i - 1] \in S
      BY <1>4
    <3> QED BY <1>2, <1>4, <3>1
  <2> QED BY <2>1
<1> QED BY <1>4, <1>5 DEF Iterates
=============================================================================
