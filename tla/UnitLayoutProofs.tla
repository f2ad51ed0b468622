-------------------------- MODULE UnitLayoutProofs --------------------------
(***************************************************************************)
(* Theorems about the layout of a unit, for any number of blocks and       *)
(* instructions: the operations on the doubly linked lists do to the       *)
(* sequence a list represents what their names say, and so every list of   *)
(* a unit represents a sequence at all times.                              *)
(***************************************************************************)
EXTENDS UnitLayoutRefinement, FiniteSetTheorems, NatFacts, TLAPS

-----------------------------------------------------------------------------
(* A list is one that represents some sequence without repetitions: its    *)
(* length is the number of nodes.                                          *)
LEMMA ListOf ==
  ASSUME NEW n \in Nat, NEW S, NEW s \in [1..n -> S], NEW l, Represents(l, s, n)
  PROVE  IsList(l) /\ Cardinality(Nodes(l)) = n
<1>1. /\ Nodes(l) = {s[k] : k \in 1..n}
      /\ \A j, k \in 1..n : s[j] = s[k] => j = k
  BY DEF Represents, Nodes
<1>2. s \in [1..n -> Nodes(l)]
  BY <1>1
<1>3. s \in Bijection(1..n, Nodes(l))
  BY <1>1, <1>2 DEF Bijection, Injection, IsInjective, Surjection
<1>4. Cardinality(Nodes(l)) = n
  BY <1>3, FS_CountingElements DEF ExistsBijection
<1>5. n \in 0..Cardinality(Nodes(l))
  BY <1>4
<1> QED BY <1>2, <1>4, <1>5 DEF IsList

(* A list and a sequence it represents.                                    *)
LEMMA OrderOf ==
  ASSUME NEW l, IsList(l)
  PROVE  \E n \in Nat : \E s \in [1..n -> Nodes(l)] : Represents(l, s, n)
<1>1. PICK n \in 0..Cardinality(Nodes(l)) : \E s \in [1..n -> Nodes(l)] : Represents(l, s, n)
  BY DEF IsList
<1>2. n \in Nat
  OBVIOUS
<1> QED BY <1>1, <1>2

(* The iterators walk over the sequence that the list represents, and so   *)
(* there is only one.                                                      *)
LEMMA WalkOf ==
  ASSUME NEW n \in Nat, NEW S, NEW s \in [1..n -> S], NEW l, Represents(l, s, n)
  PROVE  Walk(l) = s /\ Len(Walk(l)) = n
<1>1. /\ Nodes(l) = {s[k] : k \in 1..n}
      /\ \A k \in 1..n : l.next[s[k]] = IF k = n THEN None ELSE s[k + 1]
      /\ l.first = IF n = 0 THEN None ELSE s[1]
  BY DEF Represents, Nodes
<1>2. Cardinality(Nodes(l)) = n
  BY ListOf
<1> DEFINE R(f) == [k \in 1..Cardinality(Nodes(l)) |->
                      IF k = 1 THEN l.first
                      ELSE IF f[k - 1] \in Nodes(l) THEN l.next[f[k - 1]] ELSE None]
           at[k \in 1..Cardinality(Nodes(l))] ==
             IF k = 1 THEN l.first
             ELSE IF at[k - 1] \in Nodes(l) THEN l.next[at[k - 1]] ELSE None
<1>3. \A k \in 1..n : k # 1 => k - 1 \in 1..n /\ s[k - 1] \in Nodes(l) /\ l.next[s[k - 1]] = s[k]
  BY <1>1
<1>4. s = R(s)
  <2>1. s = [k \in 1..n |-> s[k]]
    OBVIOUS
  <2>2. ASSUME NEW k \in 1..n PROVE s[k] = R(s)[k]
    BY <1>1, <1>2, <1>3
  <2>3. R(s) = [k \in 1..n |-> R(s)[k]]
    BY <1>2
  <2> HIDE DEF R
  <2> QED BY <2>1, <2>2, <2>3
<1>5. at = R(at)
  BY <1>4
<1>6. Walk(l) = at
  BY DEF Walk
<1> HIDE DEF at
<1> DEFINE T == {k \in 1..n : at[k] # s[k]}
<1>7. T = {}
  <2> SUFFICES ASSUME T # {} PROVE FALSE
    OBVIOUS
  <2>1. T \in SUBSET Nat
    OBVIOUS
  <2>2. PICK k \in T : \A j \in T : k <= j
    <3> HIDE DEF T
    <3> QED BY <2>1, LeastNumber
  <2>3. k \in 1..n /\ at[k] # s[k]
    OBVIOUS
  <2>4. k # 1
    BY <1>1, <1>2, <1>5, <2>3
  <2>5. k - 1 \in 1..n /\ k - 1 \notin T
    <3> HIDE DEF T
    <3> QED BY <2>2, <2>3, <2>4
  <2>6. at[k - 1] = s[k - 1]
    BY <2>5
  <2>7. at[k] = IF at[k - 1] \in Nodes(l) THEN l.next[at[k - 1]] ELSE None
    BY <1>2, <1>5, <2>3, <2>4
  <2> QED BY <1>3, <2>3, <2>4, <2>6, <2>7
<1>8. DOMAIN at = 1..n /\ at = [k \in 1..n |-> at[k]]
  BY <1>2, <1>5
<1>9. at = s
  BY <1>7, <1>8
<1> QED BY <1>6, <1>9

LEMMA EmptyIsList == IsList(EmptyList) /\ Nodes(EmptyList) = {}
<1> DEFINE s == [k \in 1..0 |-> None]
<1>1. /\ DOMAIN EmptyList.next = {} /\ DOMAIN EmptyList.prev = {}
      /\ EmptyList.first = None /\ EmptyList.last = None
  BY DEF EmptyList
<1>2. Represents(EmptyList, s, 0)
  BY <1>1 DEF Represents
<1>3. s \in [1..0 -> {None}]
  OBVIOUS
<1> HIDE DEF s
<1> QED BY <1>1, <1>2, <1>3, ListOf DEF Nodes

-----------------------------------------------------------------------------
(* m is l with the new node x at the k-th place of s, between p and q.     *)
HasSpliced(m, l, s, n, x, k, p, q) ==
  /\ x # None /\ x \notin Nodes(l) /\ k \in 1..(n + 1)
  /\ p = (IF k = 1 THEN None ELSE s[k - 1])
  /\ q = (IF k = n + 1 THEN None ELSE s[k])
  /\ DOMAIN m.next = Nodes(l) \cup {x} /\ DOMAIN m.prev = Nodes(l) \cup {x}
  /\ m.prev[x] = p /\ m.next[x] = q
  /\ \A z \in Nodes(l) : m.prev[z] = IF z = q THEN x ELSE l.prev[z]
  /\ \A z \in Nodes(l) : m.next[z] = IF z = p THEN x ELSE l.next[z]
  /\ m.first = (IF k = 1 THEN x ELSE l.first)
  /\ m.last = (IF k = n + 1 THEN x ELSE l.last)

LEMMA Spliced ==
  ASSUME NEW l, NEW n \in Nat, NEW s \in [1..n -> Nodes(l)], Represents(l, s, n),
         NEW x, NEW k, NEW p, NEW q, NEW m, HasSpliced(m, l, s, n, x, k, p, q)
  PROVE  IsList(m) /\ Walk(m) = InsertedAt(s, k, x)
<1> USE DEF HasSpliced
<1> DEFINE t == [j \in 1..(n + 1) |-> IF j < k THEN s[j] ELSE IF j = k THEN x ELSE s[j - 1]]
           T == Nodes(l) \cup {x}
<1>1. /\ Nodes(l) = {s[j] : j \in 1..n} /\ DOMAIN l.prev = Nodes(l)
      /\ \A i, j \in 1..n : s[i] = s[j] => i = j
      /\ \A j \in 1..n : /\ s[j] # None
                         /\ l.prev[s[j]] = IF j = 1 THEN None ELSE s[j - 1]
                         /\ l.next[s[j]] = IF j = n THEN None ELSE s[j + 1]
      /\ l.first = IF n = 0 THEN None ELSE s[1]
      /\ l.last = IF n = 0 THEN None ELSE s[n]
  BY DEF Nodes, Represents
<1>2. t = [j \in 1..(n + 1) |-> IF j < k THEN s[j] ELSE IF j = k THEN x ELSE s[j - 1]]
  OBVIOUS
<1> HIDE DEF t
<1>3. n + 1 \in Nat /\ t \in [1..(n + 1) -> T]
  BY <1>2
<1>4. /\ t[k] = x
      /\ \A j \in 1..n : j < k => t[j] = s[j]
      /\ \A j \in 1..n : j >= k => t[j + 1] = s[j]
  BY <1>2
<1>5. \A j \in 1..(n + 1) : j = k \/ (j < k /\ j \in 1..n /\ t[j] = s[j])
                            \/ (j > k /\ j - 1 \in 1..n /\ t[j] = s[j - 1])
  BY <1>2
<1>6. DOMAIN m.next = {t[j] : j \in 1..(n + 1)}
  <2>1. \A j \in 1..(n + 1) : t[j] \in Nodes(l) \cup {x}
    BY <1>1, <1>4, <1>5
  <2>2. ASSUME NEW z \in Nodes(l) PROVE \E j \in 1..(n + 1) : t[j] = z
    <3>1. PICK j \in 1..n : s[j] = z
      BY <1>1
    <3>2. j \in 1..(n + 1) /\ j + 1 \in 1..(n + 1) /\ (t[j] = z \/ t[j + 1] = z)
      BY <1>4, <3>1
    <3> QED BY <3>2
  <2>3. \E j \in 1..(n + 1) : t[j] = x
    BY <1>4
  <2> QED BY <2>1, <2>2, <2>3
<1>7. \A i, j \in 1..(n + 1) : t[i] = t[j] => i = j
  BY SMTT(30), <1>1, <1>4, <1>5
<1>8. ASSUME NEW j \in 1..(n + 1)
      PROVE  /\ t[j] # None
             /\ m.prev[t[j]] = IF j = 1 THEN None ELSE t[j - 1]
             /\ m.next[t[j]] = IF j = n + 1 THEN None ELSE t[j + 1]
  <2>1. CASE j = k
    <3>1. k # 1 => t[k - 1] = s[k - 1]
      BY <1>4
    <3>2. k # n + 1 => t[k + 1] = s[k]
      BY <1>4
    <3> QED BY <1>4, <2>1, <3>1, <3>2
  <2>2. CASE j < k
    <3>1. j \in 1..n /\ t[j] = s[j] /\ s[j] \in Nodes(l)
      BY <1>1, <1>4, <2>2
    <3>2. s[j] # q
      BY <1>1, <2>2, <3>1
    <3>3. m.prev[t[j]] = IF j = 1 THEN None ELSE t[j - 1]
      BY <1>1, <1>4, <2>2, <3>1, <3>2
    <3>4. m.next[t[j]] = t[j + 1]
      <4>1. CASE j = k - 1
        BY <1>4, <3>1, <4>1
      <4>2. CASE j < k - 1
        <5>1. s[j] # p
          BY <1>1, <3>1, <4>2
        <5>2. j + 1 \in 1..n /\ t[j + 1] = s[j + 1]
          BY <1>4, <3>1, <4>2
        <5> QED BY <1>1, <3>1, <5>1, <5>2
      <4> QED BY <2>2, <4>1, <4>2
    <3> QED BY <1>1, <2>2, <3>1, <3>3, <3>4
  <2>3. CASE j > k
    <3>1. j - 1 \in 1..n /\ t[j] = s[j - 1] /\ s[j - 1] \in Nodes(l)
      BY <1>1, <1>5, <2>3
    <3>2. s[j - 1] # p
      BY <1>1, <2>3, <3>1
    <3>3. m.next[t[j]] = IF j = n + 1 THEN None ELSE t[j + 1]
      <4>1. CASE j = n + 1
        BY <1>1, <3>1, <3>2, <4>1
      <4>2. CASE j # n + 1
        <5>1. j \in 1..n /\ j >= k
          BY <2>3, <4>2
        <5>2. t[j + 1] = s[j]
          BY <1>4, <5>1
        <5>3. m.next[s[j - 1]] = l.next[s[j - 1]]
          BY <3>1, <3>2
        <5>4. l.next[s[j - 1]] = s[j]
          <6>1. j - 1 \in 1..n /\ j - 1 # n /\ (j - 1) + 1 = j
            BY <3>1, <5>1
          <6> HIDE DEF t
          <6> QED BY <1>1, <6>1
        <5> QED BY ONLY <3>1, <4>2, <5>2, <5>3, <5>4
      <4> QED BY <4>1, <4>2
    <3>4. m.prev[t[j]] = t[j - 1]
      <4>1. CASE j = k + 1
        BY <1>4, <3>1, <4>1
      <4>2. CASE j > k + 1
        <5>1. s[j - 1] # q
          BY <1>1, <3>1, <4>2
        <5>2. j - 2 \in 1..n /\ t[j - 1] = s[j - 2]
          BY <1>4, <3>1, <4>2
        <5> QED BY <1>1, <3>1, <5>1, <5>2
      <4> QED BY <2>3, <4>1, <4>2
    <3> QED BY <1>1, <2>3, <3>1, <3>3, <3>4
  <2> QED BY <2>1, <2>2, <2>3
<1>9. m.first = t[1] /\ m.last = t[n + 1]
  BY SMTT(30), <1>1, <1>4
<1>10. Represents(m, t, n + 1)
  BY <1>6, <1>7, <1>8, <1>9 DEF Represents
<1>11. t = InsertedAt(s, k, x)
  BY <1>2 DEF InsertedAt
<1>12. IsList(m)
  BY <1>3, <1>10, ListOf
<1>13. Walk(m) = t
  <2> DEFINE r == n + 1
  <2>1. r \in Nat /\ t \in [1..r -> T] /\ Represents(m, t, r)
    BY <1>3, <1>10
  <2> HIDE DEF r, T
  <2> QED BY ONLY <2>1, WalkOf
<1> QED BY <1>11, <1>12, <1>13

(* The four ways to insert a node.                                         *)
LEMMA PushBackIsList ==
  ASSUME NEW l, IsList(l), NEW x, x # None, x \notin Nodes(l)
  PROVE  IsList(PushBack(l, x)) /\ Nodes(PushBack(l, x)) = Nodes(l) \cup {x}
         /\ Walk(PushBack(l, x)) = InsertedAt(Walk(l), Len(Walk(l)) + 1, x)
<1>0. PICK n \in Nat : \E s \in [1..n -> Nodes(l)] : Represents(l, s, n)
  BY OrderOf
<1>1. PICK s \in [1..n -> Nodes(l)] : Represents(l, s, n)
  BY <1>0
<1>walk. Walk(l) = s /\ Len(Walk(l)) = n
  BY <1>1, WalkOf
<1> DEFINE m == PushBack(l, x)
           p == IF n + 1 = 1 THEN None ELSE s[n + 1 - 1]
<1>2. /\ DOMAIN l.prev = Nodes(l) /\ l.last = p /\ (l.first = None <=> n + 1 = 1)
      /\ None \notin Nodes(l)
  BY <1>1 DEF Represents, Nodes
<1>3. /\ DOMAIN m.next = Nodes(l) \cup {x} /\ DOMAIN m.prev = Nodes(l) \cup {x}
      /\ m.prev[x] = p /\ m.next[x] = None
      /\ \A z \in Nodes(l) : m.prev[z] = IF z = None THEN x ELSE l.prev[z]
      /\ \A z \in Nodes(l) : m.next[z] = IF z = p THEN x ELSE l.next[z]
      /\ m.first = IF n + 1 = 1 THEN x ELSE l.first
      /\ m.last = x
  <2> HIDE DEF p
  <2>1. p # x
    BY <1>1, <1>2 DEF Represents, Nodes, p
  <2> QED BY <1>2, <2>1 DEF PushBack, Put, Link, Nodes
<1> HIDE DEF m
<1>4. n + 1 \in 1..(n + 1) /\ None = (IF n + 1 = n + 1 THEN None ELSE s[n + 1])
      /\ p = IF n + 1 = 1 THEN None ELSE s[n + 1 - 1]
  OBVIOUS
<1> HIDE DEF p
<1>5. HasSpliced(m, l, s, n, x, n + 1, p, None)
  BY <1>3, <1>4 DEF HasSpliced
<1>10. IsList(m) /\ Walk(m) = InsertedAt(s, n + 1, x)
  BY <1>1, <1>5, Spliced
<1> QED BY <1>walk, <1>3, <1>10 DEF m, Nodes

LEMMA PushFrontIsList ==
  ASSUME NEW l, IsList(l), NEW x, x # None, x \notin Nodes(l)
  PROVE  IsList(PushFront(l, x)) /\ Nodes(PushFront(l, x)) = Nodes(l) \cup {x}
         /\ Walk(PushFront(l, x)) = InsertedAt(Walk(l), 1, x)
<1>0. PICK n \in Nat : \E s \in [1..n -> Nodes(l)] : Represents(l, s, n)
  BY OrderOf
<1>1. PICK s \in [1..n -> Nodes(l)] : Represents(l, s, n)
  BY <1>0
<1>walk. Walk(l) = s /\ Len(Walk(l)) = n
  BY <1>1, WalkOf
<1> DEFINE m == PushFront(l, x)
           q == IF 1 = n + 1 THEN None ELSE s[1]
<1>2. /\ DOMAIN l.prev = Nodes(l) /\ l.first = q /\ (l.last = None <=> 1 = n + 1)
      /\ None \notin Nodes(l)
  BY <1>1 DEF Represents, Nodes
<1>3. /\ DOMAIN m.next = Nodes(l) \cup {x} /\ DOMAIN m.prev = Nodes(l) \cup {x}
      /\ m.prev[x] = None /\ m.next[x] = q
      /\ \A z \in Nodes(l) : m.prev[z] = IF z = q THEN x ELSE l.prev[z]
      /\ \A z \in Nodes(l) : m.next[z] = IF z = None THEN x ELSE l.next[z]
      /\ m.first = x
      /\ m.last = IF 1 = n + 1 THEN x ELSE l.last
  <2> HIDE DEF q
  <2>1. q # x
    BY <1>1, <1>2 DEF Represents, Nodes, q
  <2> QED BY <1>2, <2>1 DEF PushFront, Put, Link, Nodes
<1> HIDE DEF m
<1>4. 1 \in 1..(n + 1) /\ q = IF 1 = n + 1 THEN None ELSE s[1]
  OBVIOUS
<1> HIDE DEF q
<1>5. HasSpliced(m, l, s, n, x, 1, None, q)
  BY <1>3, <1>4 DEF HasSpliced
<1>10. IsList(m) /\ Walk(m) = InsertedAt(s, 1, x)
  BY <1>1, <1>5, Spliced
<1> QED BY <1>walk, <1>3, <1>10 DEF m, Nodes

LEMMA InsertAfterIsList ==
  ASSUME NEW l, IsList(l), NEW x, x # None, x \notin Nodes(l), NEW y \in Nodes(l)
  PROVE  IsList(InsertAfter(l, x, y)) /\ Nodes(InsertAfter(l, x, y)) = Nodes(l) \cup {x}
         /\ \E j \in 1..Len(Walk(l)) : /\ Walk(l)[j] = y
                                     /\ Walk(InsertAfter(l, x, y)) = InsertedAt(Walk(l), j + 1, x)
<1>0. PICK n \in Nat : \E s \in [1..n -> Nodes(l)] : Represents(l, s, n)
  BY OrderOf
<1>1. PICK s \in [1..n -> Nodes(l)] : Represents(l, s, n)
  BY <1>0
<1>walk. Walk(l) = s /\ Len(Walk(l)) = n
  BY <1>1, WalkOf
<1>2. PICK j \in 1..n : s[j] = y
  BY <1>1 DEF Represents, Nodes
<1> DEFINE m == InsertAfter(l, x, y)
           k == j + 1
           q == IF k = n + 1 THEN None ELSE s[k]
<1>3. /\ DOMAIN l.prev = Nodes(l) /\ l.next[y] = q /\ (l.last = y <=> k = n + 1)
      /\ None \notin Nodes(l) /\ y # x
  <2>1. n # 0 /\ n \in 1..n /\ (k = n + 1 <=> j = n)
    BY <1>2
  <2>2. DOMAIN l.prev = Nodes(l) /\ None \notin Nodes(l) /\ y # x
    BY <1>1 DEF Represents, Nodes
  <2>3. /\ \A i, h \in 1..n : s[i] = s[h] => i = h
        /\ l.next[s[j]] = IF j = n THEN None ELSE s[j + 1]
        /\ l.last = IF n = 0 THEN None ELSE s[n]
    BY <1>1 DEF Represents
  <2>4. l.next[y] = q
    BY <1>2, <2>1, <2>3
  <2>5. l.last = y <=> j = n
    BY <1>2, <2>1, <2>3
  <2> QED BY <2>1, <2>2, <2>4, <2>5
<1>4. /\ DOMAIN m.next = Nodes(l) \cup {x} /\ DOMAIN m.prev = Nodes(l) \cup {x}
      /\ m.prev[x] = y /\ m.next[x] = q
      /\ \A z \in Nodes(l) : m.prev[z] = IF z = q THEN x ELSE l.prev[z]
      /\ \A z \in Nodes(l) : m.next[z] = IF z = y THEN x ELSE l.next[z]
      /\ m.first = l.first
      /\ m.last = IF k = n + 1 THEN x ELSE l.last
  <2> HIDE DEF q, k
  <2>1. q # x
    BY <1>1, <1>2, <1>3 DEF Represents, Nodes, q, k
  <2> QED BY <1>3, <2>1 DEF InsertAfter, Put, Link, Nodes
<1> HIDE DEF m
<1>5. k \in 1..(n + 1) /\ k # 1 /\ q = (IF k = n + 1 THEN None ELSE s[k])
      /\ y = IF k = 1 THEN None ELSE s[k - 1]
  BY <1>2
<1> HIDE DEF q, k
<1>6. HasSpliced(m, l, s, n, x, k, y, q)
  BY <1>4, <1>5 DEF HasSpliced
<1>10. IsList(m) /\ Walk(m) = InsertedAt(s, k, x)
  BY <1>1, <1>6, Spliced
<1> QED BY <1>walk, <1>2, <1>4, <1>10 DEF m, Nodes, k

LEMMA InsertBeforeIsList ==
  ASSUME NEW l, IsList(l), NEW x, x # None, x \notin Nodes(l), NEW y \in Nodes(l)
  PROVE  IsList(InsertBefore(l, x, y)) /\ Nodes(InsertBefore(l, x, y)) = Nodes(l) \cup {x}
         /\ \E j \in 1..Len(Walk(l)) : /\ Walk(l)[j] = y
                                     /\ Walk(InsertBefore(l, x, y)) = InsertedAt(Walk(l), j, x)
<1>0. PICK n \in Nat : \E s \in [1..n -> Nodes(l)] : Represents(l, s, n)
  BY OrderOf
<1>1. PICK s \in [1..n -> Nodes(l)] : Represents(l, s, n)
  BY <1>0
<1>walk. Walk(l) = s /\ Len(Walk(l)) = n
  BY <1>1, WalkOf
<1>2. PICK k \in 1..n : s[k] = y
  BY <1>1 DEF Represents, Nodes
<1> DEFINE m == InsertBefore(l, x, y)
           p == IF k = 1 THEN None ELSE s[k - 1]
<1>3. /\ DOMAIN l.prev = Nodes(l) /\ l.prev[y] = p /\ (l.first = y <=> k = 1)
      /\ None \notin Nodes(l) /\ y # x
  BY SMTT(30), <1>1, <1>2 DEF Represents, Nodes
<1>4. /\ DOMAIN m.next = Nodes(l) \cup {x} /\ DOMAIN m.prev = Nodes(l) \cup {x}
      /\ m.prev[x] = p /\ m.next[x] = y
      /\ \A z \in Nodes(l) : m.prev[z] = IF z = y THEN x ELSE l.prev[z]
      /\ \A z \in Nodes(l) : m.next[z] = IF z = p THEN x ELSE l.next[z]
      /\ m.first = IF k = 1 THEN x ELSE l.first
      /\ m.last = l.last
  <2> HIDE DEF p
  <2>1. p # x
    BY <1>1, <1>2, <1>3 DEF Represents, Nodes, p
  <2> QED BY <1>3, <2>1 DEF InsertBefore, Put, Link, Nodes
<1> HIDE DEF m
<1>5. k \in 1..(n + 1) /\ k # n + 1 /\ p = (IF k = 1 THEN None ELSE s[k - 1])
      /\ y = IF k = n + 1 THEN None ELSE s[k]
  BY <1>2
<1> HIDE DEF p
<1>6. HasSpliced(m, l, s, n, x, k, p, y)
  BY <1>4, <1>5 DEF HasSpliced
<1>10. IsList(m) /\ Walk(m) = InsertedAt(s, k, x)
  BY <1>1, <1>6, Spliced
<1> QED BY <1>walk, <1>2, <1>4, <1>10 DEF m, Nodes

(* Taking a node out.                                                      *)
LEMMA UnlinkIsList ==
  ASSUME NEW l, IsList(l), NEW x \in Nodes(l)
  PROVE  IsList(Unlink(l, x)) /\ Nodes(Unlink(l, x)) = Nodes(l) \ {x}
         /\ \E k \in 1..Len(Walk(l)) : Walk(l)[k] = x /\ Walk(Unlink(l, x)) = RemovedAt(Walk(l), k)
<1>0. PICK n \in Nat : \E s \in [1..n -> Nodes(l)] : Represents(l, s, n)
  BY OrderOf
<1>1. PICK s \in [1..n -> Nodes(l)] : Represents(l, s, n)
  BY <1>0
<1>walk. Walk(l) = s /\ Len(Walk(l)) = n
  BY <1>1, WalkOf
<1>2. /\ Nodes(l) = {s[j] : j \in 1..n} /\ DOMAIN l.prev = Nodes(l)
      /\ \A i, j \in 1..n : s[i] = s[j] => i = j
      /\ \A j \in 1..n : /\ s[j] # None
                         /\ l.prev[s[j]] = IF j = 1 THEN None ELSE s[j - 1]
                         /\ l.next[s[j]] = IF j = n THEN None ELSE s[j + 1]
      /\ l.first = IF n = 0 THEN None ELSE s[1]
      /\ l.last = IF n = 0 THEN None ELSE s[n]
  BY <1>1 DEF Nodes, Represents
<1>3. PICK k \in 1..n : s[k] = x
  BY <1>2
<1> DEFINE m == Unlink(l, x)
           p == IF k = 1 THEN None ELSE s[k - 1]
           q == IF k = n THEN None ELSE s[k + 1]
           t == [j \in 1..(n - 1) |-> IF j < k THEN s[j] ELSE s[j + 1]]
<1>4. l.prev[x] = p /\ l.next[x] = q /\ (l.first = x <=> k = 1) /\ (l.last = x <=> k = n)
  <2>1. n # 0 /\ 1 \in 1..n /\ n \in 1..n
    BY <1>3
  <2> QED BY <1>2, <1>3, <2>1
<1>5. /\ DOMAIN m.next = Nodes(l) \ {x} /\ DOMAIN m.prev = Nodes(l) \ {x}
      /\ \A z \in Nodes(l) \ {x} : m.prev[z] = IF z = q THEN p ELSE l.prev[z]
      /\ \A z \in Nodes(l) \ {x} : m.next[z] = IF z = p THEN q ELSE l.next[z]
      /\ m.first = (IF k = 1 THEN q ELSE l.first)
      /\ m.last = (IF k = n THEN p ELSE l.last)
  <2> HIDE DEF p, q
  <2> QED BY <1>2, <1>4 DEF Unlink, Without, Link, Nodes
<1>6. /\ \A j \in 1..(n - 1) : j < k => t[j] = s[j] /\ j \in 1..n
      /\ \A j \in 1..(n - 1) : j >= k => t[j] = s[j + 1] /\ j + 1 \in 1..n
  BY <1>3
<1>7. n - 1 \in Nat /\ t \in [1..(n - 1) -> Nodes(l)]
  BY <1>3
<1> HIDE DEF m, t
<1>8. DOMAIN m.next = {t[j] : j \in 1..(n - 1)}
  <2>1. ASSUME NEW j \in 1..(n - 1) PROVE t[j] \in Nodes(l) \ {x}
    <3>1. CASE j < k
      BY <1>2, <1>3, <1>6, <1>7, <3>1
    <3>2. CASE j >= k
      BY <1>2, <1>3, <1>6, <1>7, <3>2
    <3> QED BY <3>1, <3>2
  <2>2. ASSUME NEW z \in Nodes(l) \ {x} PROVE \E j \in 1..(n - 1) : t[j] = z
    <3>1. PICK j \in 1..n : s[j] = z
      BY <1>2
    <3>2. j # k
      BY <1>3, <3>1
    <3>3. CASE j < k
      <4>1. j \in 1..(n - 1)
        BY <3>3
      <4> QED BY <1>6, <3>1, <3>3, <4>1
    <3>4. CASE j > k
      <4>1. j - 1 \in 1..(n - 1) /\ j - 1 >= k /\ j - 1 + 1 = j
        BY <3>4
      <4> QED BY <1>6, <3>1, <4>1
    <3> QED BY <3>2, <3>3, <3>4
  <2> QED BY <1>5, <2>1, <2>2
<1>9. \A i, j \in 1..(n - 1) : t[i] = t[j] => i = j
  <2>1. ASSUME NEW i \in 1..(n - 1), NEW j \in 1..(n - 1), t[i] = t[j] PROVE i = j
    <3>1. CASE i < k /\ j < k
      BY <1>2, <1>6, <2>1, <3>1
    <3>2. CASE i >= k /\ j >= k
      BY <1>2, <1>6, <2>1, <3>2
    <3>3. CASE i < k /\ j >= k
      BY <1>2, <1>6, <2>1, <3>3
    <3>4. CASE i >= k /\ j < k
      BY <1>2, <1>6, <2>1, <3>4
    <3> QED BY <3>1, <3>2, <3>3, <3>4
  <2> QED BY <2>1
<1>10. ASSUME NEW j \in 1..(n - 1)
       PROVE  /\ t[j] # None
              /\ m.prev[t[j]] = IF j = 1 THEN None ELSE t[j - 1]
              /\ m.next[t[j]] = IF j = n - 1 THEN None ELSE t[j + 1]
  <2>1. t[j] \in Nodes(l) \ {x}
    BY <1>5, <1>8
  <2>2. CASE j < k
    <3>1. t[j] = s[j] /\ j \in 1..n
      BY <1>6, <2>2
    <3>2. s[j] # q
      BY <1>2, <2>2, <3>1
    <3>3. j # 1 => j - 1 \in 1..(n - 1) /\ t[j - 1] = s[j - 1]
      BY <1>6, <2>2
    <3>4. m.prev[t[j]] = IF j = 1 THEN None ELSE t[j - 1]
      BY <1>2, <1>5, <2>1, <3>1, <3>2, <3>3
    <3>5. m.next[t[j]] = IF j = n - 1 THEN None ELSE t[j + 1]
      <4>1. CASE j = k - 1
        <5>1. s[j] = p
          BY <2>2, <4>1
        <5>2. j # n - 1 => j + 1 \in 1..(n - 1) /\ t[j + 1] = s[k + 1]
          BY <1>6, <4>1
        <5>3. j = n - 1 <=> k = n
          BY <4>1
        <5> QED BY <1>5, <2>1, <3>1, <5>1, <5>2, <5>3
      <4>2. CASE j < k - 1
        <5>1. s[j] # p
          BY <1>2, <3>1, <4>2
        <5>2. j + 1 \in 1..(n - 1) /\ j + 1 < k
          BY <4>2
        <5>3. t[j + 1] = s[j + 1]
          BY <1>6, <5>2
        <5>4. j # n - 1 /\ j # n
          BY <4>2
        <5> QED BY <1>2, <1>5, <2>1, <3>1, <5>1, <5>3, <5>4
      <4> QED BY <2>2, <4>1, <4>2
    <3> QED BY <1>2, <3>1, <3>4, <3>5
  <2>3. CASE j >= k
    <3>1. t[j] = s[j + 1] /\ j + 1 \in 1..n
      BY <1>6, <2>3
    <3>2. s[j + 1] # p
      BY <1>2, <2>3, <3>1
    <3>3. m.next[t[j]] = IF j = n - 1 THEN None ELSE t[j + 1]
      <4>1. j # n - 1 => j + 1 \in 1..(n - 1) /\ j + 1 >= k
        BY <2>3
      <4>2. j # n - 1 => t[j + 1] = s[j + 1 + 1]
        BY <1>6, <4>1
      <4> QED BY <1>2, <1>5, <2>1, <3>1, <3>2, <4>2
    <3>4. m.prev[t[j]] = IF j = 1 THEN None ELSE t[j - 1]
      <4>1. CASE j = k
        <5>1. s[j + 1] = q
          BY <3>1, <4>1
        <5>2. j # 1 => j - 1 \in 1..(n - 1) /\ j - 1 < k
          BY <4>1
        <5>3. j # 1 => t[j - 1] = s[k - 1]
          BY <1>6, <4>1, <5>2
        <5> QED BY <1>5, <2>1, <3>1, <4>1, <5>1, <5>3
      <4>2. CASE j > k
        <5>1. s[j + 1] # q
          BY <1>2, <3>1, <4>2
        <5>2. j - 1 \in 1..(n - 1) /\ j - 1 >= k /\ j # 1 /\ j - 1 + 1 = j
          BY <4>2
        <5>3. t[j - 1] = s[j]
          BY <1>6, <5>2
        <5>4. l.prev[s[j + 1]] = s[j]
          BY <1>2, <3>1, <5>2
        <5> QED BY <1>5, <2>1, <3>1, <5>1, <5>2, <5>3, <5>4
      <4> QED BY <2>3, <4>1, <4>2
    <3> QED BY <1>2, <3>1, <3>3, <3>4
  <2> QED BY <2>2, <2>3
<1>11. /\ m.first = IF n - 1 = 0 THEN None ELSE t[1]
       /\ m.last = IF n - 1 = 0 THEN None ELSE t[n - 1]
  <2>1. CASE n = 1
    BY <1>3, <1>5, <2>1
  <2>2. CASE n # 1
    <3>1. 1 \in 1..(n - 1) /\ n - 1 \in 1..(n - 1)
      BY <2>2
    <3>2. t[1] = IF k = 1 THEN s[2] ELSE s[1]
      BY <1>6, <3>1
    <3>3. t[n - 1] = IF k = n THEN s[n - 1] ELSE s[n]
      BY <1>6, <3>1
    <3> QED BY <1>2, <1>3, <1>5, <2>2, <3>2, <3>3
  <2> QED BY <2>1, <2>2
<1>12. Represents(m, t, n - 1)
  BY <1>5, <1>8, <1>9, <1>10, <1>11 DEF Represents
<1>13. IsList(m) /\ Walk(m) = t
  BY <1>7, <1>12, ListOf, WalkOf
<1>14. t = RemovedAt(s, k)
  BY DEF RemovedAt, t
<1> QED BY <1>walk, <1>3, <1>5, <1>13, <1>14 DEF m, Nodes

(* Exchanging two nodes, neighbours or not: as the links of a list are     *)
(* inverse to each other and no two nodes follow each other mutually, the  *)
(* links of the exchanged nodes are the exchanged links.                   *)
TwoWay(l) ==
  /\ None \notin Nodes(l) /\ DOMAIN l.prev = Nodes(l)
  /\ \A z \in Nodes(l) : /\ l.next[z] \in Nodes(l) \cup {None} /\ l.next[z] # z
                         /\ l.prev[z] \in Nodes(l) \cup {None} /\ l.prev[z] # z
  /\ \A z, w \in Nodes(l) : l.next[z] = w <=> l.prev[w] = z
  /\ \A z, w \in Nodes(l) : ~(l.next[z] = w /\ l.next[w] = z)

LEMMA LinksInverse ==
  ASSUME NEW n \in Nat, NEW S, NEW s \in [1..n -> S], NEW l, Represents(l, s, n)
  PROVE  TwoWay(l)
<1>1. /\ Nodes(l) = {s[j] : j \in 1..n} /\ DOMAIN l.prev = Nodes(l)
      /\ \A i, j \in 1..n : s[i] = s[j] => i = j
      /\ \A j \in 1..n : /\ s[j] # None
                         /\ l.prev[s[j]] = IF j = 1 THEN None ELSE s[j - 1]
                         /\ l.next[s[j]] = IF j = n THEN None ELSE s[j + 1]
  BY DEF Nodes, Represents
<1>2. None \notin Nodes(l)
  BY <1>1
<1>3. ASSUME NEW z \in Nodes(l)
      PROVE  /\ l.next[z] \in Nodes(l) \cup {None} /\ l.next[z] # z
             /\ l.prev[z] \in Nodes(l) \cup {None} /\ l.prev[z] # z
  <2>1. PICK j \in 1..n : z = s[j]
    BY <1>1
  <2>2. /\ j # n => j + 1 \in 1..n
        /\ j # 1 => j - 1 \in 1..n
    OBVIOUS
  <2> QED BY <1>1, <2>1, <2>2
<1>4. ASSUME NEW z \in Nodes(l), NEW w \in Nodes(l)
      PROVE  /\ l.next[z] = w <=> l.prev[w] = z
             /\ ~(l.next[z] = w /\ l.next[w] = z)
  <2>1. PICK j \in 1..n : z = s[j]
    BY <1>1
  <2>2. PICK i \in 1..n : w = s[i]
    BY <1>1
  <2>3. /\ l.next[z] = w <=> i = j + 1
        /\ l.next[w] = z <=> j = i + 1
        /\ l.prev[w] = z <=> j = i - 1
    <3>1. /\ j # n => j + 1 \in 1..n
          /\ i # n => i + 1 \in 1..n
          /\ i # 1 => i - 1 \in 1..n
      OBVIOUS
    <3> QED BY <1>1, <2>1, <2>2, <3>1
  <2> QED BY <2>3
<1> QED BY <1>1, <1>2, <1>3, <1>4 DEF TwoWay

LEMMA SwapNodesIsList ==
  ASSUME NEW l, IsList(l), NEW x \in Nodes(l), NEW y \in Nodes(l)
  PROVE  IsList(SwapNodes(l, x, y)) /\ Nodes(SwapNodes(l, x, y)) = Nodes(l)
         /\ Walk(SwapNodes(l, x, y)) = Exchanged(Walk(l), x, y)
<1>1. CASE x = y
  <2>1. PICK n \in Nat : \E s \in [1..n -> Nodes(l)] : Represents(l, s, n)
    BY OrderOf
  <2>2. PICK s \in [1..n -> Nodes(l)] : Represents(l, s, n)
    BY <2>1
  <2>3. Walk(l) = s /\ Len(s) = n
    BY <2>2, WalkOf
  <2>4. Exchanged(s, x, y) = s
    BY <1>1, <2>3 DEF Exchanged, Other
  <2> QED BY <1>1, <2>3, <2>4 DEF SwapNodes
<1>2. CASE x # y
  <2>0. PICK n \in Nat : \E s \in [1..n -> Nodes(l)] : Represents(l, s, n)
    BY OrderOf
  <2>1. PICK s \in [1..n -> Nodes(l)] : Represents(l, s, n)
    BY <2>0
  <2> DEFINE m  == SwapNodes(l, x, y)
             t  == [j \in 1..n |-> Other(s[j], x, y)]
             xn == Turned(l.next[x], x, y)
             xp == Turned(l.prev[x], x, y)
             yn == Turned(l.next[y], y, x)
             yp == Turned(l.prev[y], y, x)
  <2>2. /\ None \notin Nodes(l) /\ DOMAIN l.prev = Nodes(l)
        /\ \A z \in Nodes(l) : /\ l.next[z] \in Nodes(l) \cup {None} /\ l.next[z] # z
                               /\ l.prev[z] \in Nodes(l) \cup {None} /\ l.prev[z] # z
        /\ \A z, w \in Nodes(l) : l.next[z] = w <=> l.prev[w] = z
        /\ \A z, w \in Nodes(l) : ~(l.next[z] = w /\ l.next[w] = z)
    <3>1. n \in Nat /\ s \in [1..n -> Nodes(l)] /\ Represents(l, s, n)
      BY <2>1
    <3>2. TwoWay(l)
      BY ONLY <3>1, LinksInverse
    <3> QED BY ONLY <3>2 DEF TwoWay
  <2>3. /\ DOMAIN m.next = Nodes(l) /\ DOMAIN m.prev = Nodes(l)
        /\ \A w \in Nodes(l) :
             /\ m.prev[w] = IF w = yn THEN x ELSE IF w = xn THEN y
                            ELSE IF w = y THEN xp ELSE IF w = x THEN yp ELSE l.prev[w]
             /\ m.next[w] = IF w = yp THEN x ELSE IF w = xp THEN y
                            ELSE IF w = y THEN xn ELSE IF w = x THEN yn ELSE l.next[w]
        /\ m.first = Other(l.first, x, y) /\ m.last = Other(l.last, x, y)
    <3> HIDE DEF xn, xp, yn, yp
    <3>1. m = [prev  |-> Link(Link(Link(Link(l.prev, x, yp), y, xp), xn, y), yn, x),
               next  |-> Link(Link(Link(Link(l.next, x, yn), y, xn), xp, y), yp, x),
               first |-> Other(l.first, x, y), last |-> Other(l.last, x, y)]
      BY <1>2 DEF SwapNodes, xn, xp, yn, yp
    <3> HIDE DEF m
    <3>2. DOMAIN l.next = Nodes(l)
      BY DEF Nodes
    <3> QED BY <2>2, <3>1, <3>2 DEF Link
  <2> HIDE DEF m
  <2>4. ASSUME NEW z \in Nodes(l)
        PROVE  m.prev[Other(z, x, y)] = Other(l.prev[z], x, y) /\ m.next[Other(z, x, y)] = Other(l.next[z], x, y)
    <3>1. CASE z = x
      BY <1>2, <2>2, <2>3, <3>1 DEF Turned, Other
    <3>2. CASE z = y
      BY <1>2, <2>2, <2>3, <3>2 DEF Turned, Other
    <3>3. CASE z # x /\ z # y
      BY <1>2, <2>2, <2>3, <3>3 DEF Turned, Other
    <3> QED BY <3>1, <3>2, <3>3
  <2>5. /\ Other(None, x, y) = None
        /\ \A z \in Nodes(l) : Other(z, x, y) \in Nodes(l) /\ Other(Other(z, x, y), x, y) = z
    BY <2>2 DEF Other
  <2>6. /\ Nodes(l) = {s[j] : j \in 1..n}
        /\ \A i, j \in 1..n : s[i] = s[j] => i = j
        /\ \A j \in 1..n : /\ s[j] \in Nodes(l)
                           /\ l.prev[s[j]] = IF j = 1 THEN None ELSE s[j - 1]
                           /\ l.next[s[j]] = IF j = n THEN None ELSE s[j + 1]
        /\ l.first = IF n = 0 THEN None ELSE s[1]
        /\ l.last = IF n = 0 THEN None ELSE s[n]
    BY <2>1 DEF Nodes, Represents
  <2>7. t \in [1..n -> Nodes(l)] /\ \A j \in 1..n : t[j] = Other(s[j], x, y)
    BY <2>5, <2>6
  <2> HIDE DEF t
  <2>8. DOMAIN m.next = {t[j] : j \in 1..n}
    <3>1. ASSUME NEW z \in Nodes(l) PROVE \E j \in 1..n : t[j] = z
      <4>1. PICK j \in 1..n : s[j] = Other(z, x, y)
        BY <2>5, <2>6
      <4>2. t[j] = Other(Other(z, x, y), x, y)
        BY <2>7, <4>1
      <4>3. Other(Other(z, x, y), x, y) = z
        BY <2>5
      <4> QED BY <4>1, <4>2, <4>3
    <3>2. \A j \in 1..n : t[j] \in Nodes(l)
      BY <2>7
    <3>3. Nodes(l) = {t[j] : j \in 1..n}
      BY <3>1, <3>2
    <3> QED BY <2>3, <3>3
  <2>9. \A i, j \in 1..n : t[i] = t[j] => i = j
    <3>1. \A j \in 1..n : Other(t[j], x, y) = s[j]
      BY <2>5, <2>6, <2>7
    <3> QED BY <2>6, <3>1
  <2>10. ASSUME NEW j \in 1..n
         PROVE  /\ t[j] # None
                /\ m.prev[t[j]] = IF j = 1 THEN None ELSE t[j - 1]
                /\ m.next[t[j]] = IF j = n THEN None ELSE t[j + 1]
    <3>1. /\ j # 1 => j - 1 \in 1..n
          /\ j # n => j + 1 \in 1..n
      OBVIOUS
    <3>2. m.prev[t[j]] = Other(l.prev[s[j]], x, y) /\ m.next[t[j]] = Other(l.next[s[j]], x, y)
      BY <2>4, <2>6, <2>7
    <3>3. t[j] \in Nodes(l)
      BY <2>7
    <3>4. m.prev[t[j]] = IF j = 1 THEN None ELSE t[j - 1]
      <4>1. CASE j = 1
        BY <2>5, <2>6, <3>2, <4>1
      <4>2. CASE j # 1
        <5>1. j - 1 \in 1..n /\ l.prev[s[j]] = s[j - 1]
          BY <2>6, <4>2
        <5>2. t[j - 1] = Other(s[j - 1], x, y)
          BY <2>7, <5>1
        <5> QED BY <3>2, <4>2, <5>1, <5>2
      <4> QED BY <4>1, <4>2
    <3>5. m.next[t[j]] = IF j = n THEN None ELSE t[j + 1]
      <4>1. CASE j = n
        BY <2>5, <2>6, <3>2, <4>1
      <4>2. CASE j # n
        <5>1. j + 1 \in 1..n /\ l.next[s[j]] = s[j + 1]
          BY <2>6, <4>2
        <5>2. t[j + 1] = Other(s[j + 1], x, y)
          BY <2>7, <5>1
        <5> QED BY <3>2, <4>2, <5>1, <5>2
      <4> QED BY <4>1, <4>2
    <3> QED BY <2>2, <3>3, <3>4, <3>5
  <2>11. /\ m.first = IF n = 0 THEN None ELSE t[1]
         /\ m.last = IF n = 0 THEN None ELSE t[n]
    <3>1. n # 0 => 1 \in 1..n /\ n \in 1..n
      OBVIOUS
    <3>2. CASE n = 0
      BY <2>3, <2>5, <2>6, <3>2
    <3>3. CASE n # 0
      <4>1. l.first = s[1] /\ l.last = s[n]
        BY <2>6, <3>3
      <4>2. t[1] = Other(s[1], x, y) /\ t[n] = Other(s[n], x, y)
        BY <2>7, <3>1, <3>3
      <4> QED BY <2>3, <3>3, <4>1, <4>2
    <3> QED BY <3>2, <3>3
  <2>12. Represents(m, t, n)
    BY <2>3, <2>8, <2>9, <2>10, <2>11 DEF Represents
  <2>13. IsList(m) /\ Walk(m) = t
    BY <2>7, <2>12, ListOf, WalkOf
  <2>14. Walk(l) = s
    BY <2>1, WalkOf
  <2>15. t = Exchanged(s, x, y)
    BY DEF Exchanged, t
  <2> QED BY <2>3, <2>13, <2>14, <2>15 DEF m, Nodes
<1> QED BY <1>1, <1>2

-----------------------------------------------------------------------------
(* The inductive invariant: the lists of a unit are linked, and what they  *)
(* hold is mapped to the block that holds it. The converse, that a mapped  *)
(* instruction is in its block, holds as long as remove_block is called    *)
(* for empty blocks only.                                                  *)
HeldIsMapped == \A b \in Laid : \A i \in Nodes(code[b]) : i \in Inserted /\ Home(i) = b
MappedIsHeld == \A i \in Inserted : Home(i) \in Laid /\ i \in Nodes(code[Home(i)])

LayoutInv == TypeOK /\ ListsLinked /\ HeldIsMapped
Kept      == LayoutInv' /\ (MappedIsHeld => MappedIsHeld')

(* An instruction that was in no list enters the one of the block b.       *)
LEMMA EnterKeeps ==
  ASSUME LayoutInv, NEW i \in Inst, NEW b \in Laid, NEW list,
         i \notin Inserted => IsList(list) /\ Nodes(list) = Nodes(code[b]) \cup {i},
         Enter(i, b, list), UNCHANGED <<blocks, bbs>>,
         insts' = insts \cup {i},
         pos'.at \in {"none", "append", "prepend", "after", "before"}
  PROVE  Kept
<1>1. /\ Laid' = Laid /\ blocks' = blocks /\ bbs' = bbs
      /\ DOMAIN code' = Laid /\ code'[b] = list
      /\ \A c \in Laid : c # b => code'[c] = code[c]
  BY DEF Enter, Laid, Nodes, LayoutInv, TypeOK
<1>2. /\ i \notin Inserted /\ Inserted' = Inserted \cup {i}
      /\ Home(i)' = b
      /\ \A j \in Inserted : Home(j)' = Home(j)
  BY DEF Enter, Inserted, Home, Put
<1>3. TypeOK'
  BY <1>1, <1>2 DEF LayoutInv, TypeOK
<1>4. ListsLinked'
  BY <1>1, <1>2 DEF LayoutInv, ListsLinked
<1>5. HeldIsMapped'
  BY <1>1, <1>2 DEF LayoutInv, HeldIsMapped
<1>6. ASSUME MappedIsHeld PROVE MappedIsHeld'
  BY <1>1, <1>2, <1>6 DEF MappedIsHeld
<1> QED BY <1>3, <1>4, <1>5, <1>6 DEF Kept, LayoutInv

(* An instruction leaves the list of its block.                            *)
LEMMA LeaveKeeps ==
  ASSUME LayoutInv, NEW i \in Inst, Reachable(i), Leave(i), UNCHANGED <<blocks, bbs>>,
         insts' = insts \/ insts' = insts \ {i},
         pos'.at \in {"none", "append", "prepend", "after", "before"}
  PROVE  Kept
<1> DEFINE b == Home(i)
<1>1. b \in Laid /\ i \in Nodes(code[b]) /\ i \in Inserted
  BY DEF Reachable
<1>2. /\ Laid' = Laid /\ blocks' = blocks /\ bbs' = bbs
      /\ DOMAIN code' = Laid /\ code'[b] = Unlink(code[b], i)
      /\ \A c \in Laid : c # b => code'[c] = code[c]
  BY <1>1 DEF Leave, Laid, Nodes, LayoutInv, TypeOK
<1>3. /\ Inserted' = Inserted \ {i}
      /\ \A j \in Inserted \ {i} : Home(j)' = Home(j)
  BY DEF Leave, Inserted, Home, Without
<1>4. IsList(code'[b]) /\ Nodes(code'[b]) = Nodes(code[b]) \ {i}
  BY <1>1, <1>2, UnlinkIsList DEF LayoutInv, ListsLinked
<1>5. \A c \in Laid : c # b => i \notin Nodes(code[c])
  BY DEF LayoutInv, HeldIsMapped
<1> HIDE DEF b
<1>6. TypeOK'
  BY <1>2, <1>3 DEF LayoutInv, TypeOK
<1>7. ListsLinked'
  BY <1>2, <1>4 DEF LayoutInv, ListsLinked
<1>8. HeldIsMapped'
  BY <1>2, <1>3, <1>4, <1>5 DEF LayoutInv, HeldIsMapped
<1>9. ASSUME MappedIsHeld PROVE MappedIsHeld'
  BY <1>2, <1>3, <1>4, <1>9 DEF MappedIsHeld
<1> QED BY <1>6, <1>7, <1>8, <1>9 DEF Kept, LayoutInv

(* A block enters the list of blocks, with no instructions.                *)
LEMMA BlockEnters ==
  ASSUME LayoutInv, NEW b \in Block, b \notin Laid, NEW list,
         IsList(list), Nodes(list) = Laid \cup {b},
         bbs' = list, code' = Put(code, b, EmptyList), blocks' = blocks \cup {b},
         UNCHANGED <<insts, inst_map, pos>>
  PROVE  Kept
<1>1. /\ Laid' = Laid \cup {b} /\ DOMAIN code' = Laid \cup {b}
      /\ code'[b] = EmptyList
      /\ \A c \in Laid : code'[c] = code[c]
  BY DEF Laid, Put, LayoutInv, TypeOK
<1>2. Inserted' = Inserted /\ \A j \in Inserted : Home(j)' = Home(j)
  BY DEF Inserted, Home
<1>3. TypeOK'
  BY <1>1, <1>2 DEF LayoutInv, TypeOK
<1>4. ListsLinked'
  BY <1>1, EmptyIsList DEF LayoutInv, ListsLinked
<1>5. HeldIsMapped'
  BY <1>1, <1>2, EmptyIsList DEF LayoutInv, HeldIsMapped
<1>6. ASSUME MappedIsHeld PROVE MappedIsHeld'
  BY <1>1, <1>2, <1>6 DEF MappedIsHeld
<1> QED BY <1>3, <1>4, <1>5, <1>6 DEF Kept, LayoutInv

(* The lists that the insertions of an instruction put in place.           *)
LEMMA EnteredLists ==
  ASSUME LayoutAssumption, LayoutInv, NEW i \in Inst, i \notin Inserted, NEW b \in Laid
  PROVE  /\ IsList(PushBack(code[b], i)) /\ Nodes(PushBack(code[b], i)) = Nodes(code[b]) \cup {i}
         /\ IsList(PushFront(code[b], i)) /\ Nodes(PushFront(code[b], i)) = Nodes(code[b]) \cup {i}
         /\ \A j \in Nodes(code[b]) :
              /\ IsList(InsertAfter(code[b], i, j))
              /\ Nodes(InsertAfter(code[b], i, j)) = Nodes(code[b]) \cup {i}
              /\ IsList(InsertBefore(code[b], i, j))
              /\ Nodes(InsertBefore(code[b], i, j)) = Nodes(code[b]) \cup {i}
<1>1. IsList(code[b]) /\ i # None /\ i \notin Nodes(code[b])
  BY DEF LayoutAssumption, LayoutInv, ListsLinked, HeldIsMapped
<1> QED BY <1>1, PushBackIsList, PushFrontIsList, InsertAfterIsList, InsertBeforeIsList

(* A step of each of the four insertions.                                  *)
LEMMA InsertionKeeps ==
  ASSUME LayoutAssumption, LayoutInv, NEW i \in Inst, NEW p,
         \/ EnterLast(i, p) \/ EnterFirst(i, p) \/ EnterAfter(i, p) \/ EnterBefore(i, p),
         UNCHANGED <<blocks, bbs>>, insts' = insts \cup {i},
         pos'.at \in {"none", "append", "prepend", "after", "before"}
  PROVE  Kept
<1>1. CASE EnterLast(i, p)
  <2>1. p \in Laid /\ Enter(i, p, PushBack(code[p], i))
    BY <1>1 DEF EnterLast
  <2> QED BY <2>1, EnteredLists, EnterKeeps
<1>2. CASE EnterFirst(i, p)
  <2>1. p \in Laid /\ Enter(i, p, PushFront(code[p], i))
    BY <1>2 DEF EnterFirst
  <2> QED BY <2>1, EnteredLists, EnterKeeps
<1>3. CASE EnterAfter(i, p)
  <2>1. /\ Home(p) \in Laid /\ p \in Nodes(code[Home(p)])
        /\ Enter(i, Home(p), InsertAfter(code[Home(p)], i, p))
    BY <1>3 DEF EnterAfter, Reachable
  <2> QED BY <2>1, EnteredLists, EnterKeeps
<1>4. CASE EnterBefore(i, p)
  <2>1. /\ Home(p) \in Laid /\ p \in Nodes(code[Home(p)])
        /\ Enter(i, Home(p), InsertBefore(code[Home(p)], i, p))
    BY <1>4 DEF EnterBefore, Reachable
  <2> QED BY <2>1, EnteredLists, EnterKeeps
<1> QED BY <1>1, <1>2, <1>3, <1>4

LEMMA BuildKeeps ==
  ASSUME LayoutAssumption, LayoutInv, NEW i \in Inst, BuildInst(i)
  PROVE  Kept
<1>1. \/ EnterLast(i, pos.ref) \/ EnterFirst(i, pos.ref)
      \/ EnterAfter(i, pos.ref) \/ EnterBefore(i, pos.ref)
  BY DEF BuildInst
<1>2. pos'.at \in {"none", "append", "prepend", "after", "before"}
  BY DEF BuildInst, At, LayoutInv, TypeOK
<1>3. UNCHANGED <<blocks, bbs>> /\ insts' = insts \cup {i}
  BY DEF BuildInst
<1> QED BY <1>1, <1>2, <1>3, InsertionKeeps

LEMMA MoveKeeps ==
  ASSUME LayoutAssumption, LayoutInv, NEW i \in Inst, NEW p,
         \/ AppendInst(i, p) \/ PrependInst(i, p)
         \/ InsertInstAfter(i, p) \/ InsertInstBefore(i, p)
  PROVE  Kept
<1>1. \/ EnterLast(i, p) \/ EnterFirst(i, p) \/ EnterAfter(i, p) \/ EnterBefore(i, p)
  BY DEF AppendInst, PrependInst, InsertInstAfter, InsertInstBefore
<1>2. /\ UNCHANGED <<blocks, bbs>> /\ insts' = insts \cup {i}
      /\ pos'.at \in {"none", "append", "prepend", "after", "before"}
  BY DEF AppendInst, PrependInst, InsertInstAfter, InsertInstBefore, Moves, LayoutInv, TypeOK
<1> QED BY <1>1, <1>2, InsertionKeeps

LEMMA RemoveInstKeeps ==
  ASSUME LayoutInv, NEW i \in Inst, RemoveInst(i) \/ DeleteInst(i)
  PROVE  Kept
<1>1. /\ Reachable(i) /\ Leave(i) /\ UNCHANGED <<blocks, bbs>>
      /\ insts' = insts \/ insts' = insts \ {i}
  BY DEF RemoveInst, DeleteInst, Moves
<1>2. pos'.at \in {"none", "append", "prepend", "after", "before"}
  BY DEF RemoveInst, DeleteInst, Moves, PosWithout, At, LayoutInv, TypeOK
<1> QED BY <1>1, <1>2, LeaveKeeps

LEMMA BlockEntersKeeps ==
  ASSUME LayoutAssumption, LayoutInv, NEW b \in Block,
         \/ AddBlock(b) \/ AppendBlock(b) \/ PrependBlock(b)
         \/ \E c \in Block : InsertBlockAfter(b, c) \/ InsertBlockBefore(b, c)
  PROVE  Kept
<1>1. IsList(bbs) /\ b # None /\ Laid = Nodes(bbs)
  BY DEF LayoutAssumption, LayoutInv, ListsLinked, Laid
<1>2. CASE AddBlock(b)
  <2>1. b \notin Laid
    BY <1>2 DEF AddBlock, LayoutInv, TypeOK
  <2>2. IsList(PushBack(bbs, b)) /\ Nodes(PushBack(bbs, b)) = Laid \cup {b}
    BY <1>1, <2>1, PushBackIsList
  <2> QED BY <1>2, <2>1, <2>2, BlockEnters DEF AddBlock
<1>3. ASSUME NEW list, PutBack(b, list),
             b \notin Laid => IsList(list) /\ Nodes(list) = Laid \cup {b}
      PROVE  Kept
  <2>1. b \notin Laid /\ blocks' = blocks \cup {b}
    BY <1>3 DEF PutBack
  <2> QED BY <1>3, <2>1, BlockEnters DEF PutBack
<1>4. CASE AppendBlock(b)
  <2>1. b \notin Laid => IsList(PushBack(bbs, b)) /\ Nodes(PushBack(bbs, b)) = Laid \cup {b}
    BY <1>1, PushBackIsList
  <2> QED BY <1>3, <1>4, <2>1 DEF AppendBlock
<1>5. CASE PrependBlock(b)
  <2>1. b \notin Laid => IsList(PushFront(bbs, b)) /\ Nodes(PushFront(bbs, b)) = Laid \cup {b}
    BY <1>1, PushFrontIsList
  <2> QED BY <1>3, <1>5, <2>1 DEF PrependBlock
<1>6. ASSUME NEW c \in Block, InsertBlockAfter(b, c) PROVE Kept
  <2>1. c \in Laid
    BY <1>6 DEF InsertBlockAfter
  <2>2. b \notin Laid => IsList(InsertAfter(bbs, b, c)) /\ Nodes(InsertAfter(bbs, b, c)) = Laid \cup {b}
    BY <1>1, <2>1, InsertAfterIsList
  <2> QED BY <1>3, <1>6, <2>2 DEF InsertBlockAfter
<1>7. ASSUME NEW c \in Block, InsertBlockBefore(b, c) PROVE Kept
  <2>1. c \in Laid
    BY <1>7 DEF InsertBlockBefore
  <2>2. b \notin Laid => IsList(InsertBefore(bbs, b, c)) /\ Nodes(InsertBefore(bbs, b, c)) = Laid \cup {b}
    BY <1>1, <2>1, InsertBeforeIsList
  <2> QED BY <1>3, <1>7, <2>2 DEF InsertBlockBefore
<1> QED BY <1>2, <1>4, <1>5, <1>6, <1>7

LEMMA SwapKeeps ==
  ASSUME LayoutInv, NEW b \in Block, NEW c \in Block, SwapBlocks(b, c)
  PROVE  Kept
<1>1. b \in Nodes(bbs) /\ c \in Nodes(bbs) /\ IsList(bbs)
  BY DEF SwapBlocks, Laid, LayoutInv, ListsLinked
<1>2. IsList(bbs') /\ Laid' = Laid
  BY <1>1, SwapNodesIsList DEF SwapBlocks, Laid
<1>3. /\ blocks' = blocks /\ insts' = insts /\ code' = code
      /\ inst_map' = inst_map /\ pos' = pos
  BY DEF SwapBlocks
<1> QED BY <1>2, <1>3 DEF Kept, LayoutInv, TypeOK, ListsLinked, HeldIsMapped, MappedIsHeld,
                          Inserted, Home

LEMMA DeleteBlockKeeps ==
  ASSUME LayoutInv, NEW b \in Block, DeleteBlock(b)
  PROVE  Kept
<1> DEFINE gone == Nodes(code[b])
<1>1. b \in Laid /\ gone \subseteq Inserted
  BY DEF DeleteBlock
<1>2. IsList(bbs') /\ Laid' = Laid \ {b}
  BY <1>1, UnlinkIsList DEF DeleteBlock, Laid, LayoutInv, ListsLinked
<1>3. /\ blocks' = blocks \ {b} /\ insts' = insts \ gone /\ pos' = pos
      /\ DOMAIN code' = Laid \ {b} /\ \A c \in Laid \ {b} : code'[c] = code[c]
      /\ Inserted' = Inserted \ gone /\ \A i \in Inserted \ gone : Home(i)' = Home(i)
  BY DEF DeleteBlock, Without, Inserted, Home, LayoutInv, TypeOK
<1>4. /\ \A i \in gone : Home(i) = b
      /\ \A c \in Laid \ {b} : \A i \in Nodes(code[c]) : i \in Inserted /\ Home(i) = c /\ i \notin gone
  BY <1>1 DEF LayoutInv, HeldIsMapped
<1> HIDE DEF gone
<1>5. TypeOK'
  BY <1>2, <1>3 DEF LayoutInv, TypeOK
<1>6. ListsLinked'
  BY <1>2, <1>3 DEF LayoutInv, ListsLinked
<1>7. HeldIsMapped'
  BY <1>2, <1>3, <1>4 DEF HeldIsMapped
<1>8. ASSUME MappedIsHeld PROVE MappedIsHeld'
  <2>1. \A i \in Inserted : Home(i) = b => i \in gone
    BY <1>8 DEF MappedIsHeld, gone
  <2> QED BY <1>2, <1>3, <1>8, <2>1 DEF MappedIsHeld
<1> QED BY <1>5, <1>6, <1>7, <1>8 DEF Kept, LayoutInv

(* remove_block leaves the map alone: a mapped instruction of the block    *)
(* is held nowhere afterwards, unless the block was empty.                 *)
LEMMA RemoveBlockKeeps ==
  ASSUME LayoutInv, NEW b \in Block, RemoveBlock(b)
  PROVE  LayoutInv' /\ (~TakeOutFilled /\ MappedIsHeld => MappedIsHeld')
<1>1. b \in Laid
  BY DEF RemoveBlock
<1>2. IsList(bbs') /\ Laid' = Laid \ {b}
  BY <1>1, UnlinkIsList DEF RemoveBlock, Laid, LayoutInv, ListsLinked
<1>3. /\ blocks' = blocks /\ insts' = insts /\ pos' = pos
      /\ DOMAIN code' = Laid \ {b} /\ \A c \in Laid \ {b} : code'[c] = code[c]
      /\ Inserted' = Inserted /\ \A i \in Inserted : Home(i)' = Home(i)
  BY DEF RemoveBlock, Without, Inserted, Home, LayoutInv, TypeOK
<1>4. TypeOK'
  BY <1>2, <1>3 DEF LayoutInv, TypeOK
<1>5. ListsLinked'
  BY <1>2, <1>3 DEF LayoutInv, ListsLinked
<1>6. HeldIsMapped'
  BY <1>2, <1>3 DEF LayoutInv, HeldIsMapped
<1>7. ASSUME ~TakeOutFilled, MappedIsHeld PROVE MappedIsHeld'
  <2>1. Nodes(code[b]) = {}
    BY <1>7 DEF RemoveBlock
  <2>2. \A i \in Inserted : Home(i) # b
    BY <1>7, <2>1 DEF MappedIsHeld
  <2> QED BY <1>2, <1>3, <1>7, <2>2 DEF MappedIsHeld
<1> QED BY <1>4, <1>5, <1>6, <1>7 DEF LayoutInv

LEMMA PositionKeeps ==
  ASSUME LayoutInv, NEW p, SetPos(p),
         p.at \in {"none", "append", "prepend", "after", "before"}
  PROVE  Kept
BY DEF SetPos, Kept, LayoutInv, TypeOK, ListsLinked, HeldIsMapped, MappedIsHeld, Laid,
       Inserted, Home

-----------------------------------------------------------------------------
LEMMA LayoutStep ==
  ASSUME LayoutAssumption, LayoutInv, [Next]_vars
  PROVE  LayoutInv' /\ (~TakeOutFilled /\ MappedIsHeld => MappedIsHeld')
<1>1. CASE UNCHANGED vars
  BY <1>1 DEF vars, LayoutInv, TypeOK, ListsLinked, HeldIsMapped, MappedIsHeld, Laid,
              Inserted, Home
<1>2. CASE NewBuilder \/ InsertAtEnd \/ InsertAtBeginning
  <2>1. \E a \in {"none", "append", "prepend"} : \E ref : SetPos([at |-> a, ref |-> ref])
    BY <1>2 DEF NewBuilder, InsertAtEnd, InsertAtBeginning, NoPos, At
  <2> QED BY <2>1, PositionKeeps DEF Kept
<1>3. ASSUME NEW b \in Block, AppendTo(b) \/ PrependTo(b) PROVE Kept
  <2>1. \E a \in {"append", "prepend"} : SetPos([at |-> a, ref |-> b])
    BY <1>3 DEF AppendTo, PrependTo, At
  <2> QED BY <2>1, PositionKeeps
<1>4. ASSUME NEW i \in Inst, InsertAfterInst(i) \/ InsertBeforeInst(i) PROVE Kept
  <2>1. \E a \in {"after", "before"} : SetPos([at |-> a, ref |-> i])
    BY <1>4 DEF InsertAfterInst, InsertBeforeInst, At
  <2> QED BY <2>1, PositionKeeps
<1>5. ASSUME NEW b \in Block,
             \/ AddBlock(b) \/ AppendBlock(b) \/ PrependBlock(b)
             \/ \E c \in Block : InsertBlockAfter(b, c) \/ InsertBlockBefore(b, c)
      PROVE  Kept
  BY <1>5, BlockEntersKeeps
<1>6. ASSUME NEW b \in Block, RemoveBlock(b)
      PROVE  LayoutInv' /\ (~TakeOutFilled /\ MappedIsHeld => MappedIsHeld')
  BY <1>6, RemoveBlockKeeps
<1>7. ASSUME NEW b \in Block, DeleteBlock(b) PROVE Kept
  BY <1>7, DeleteBlockKeeps
<1>8. ASSUME NEW b \in Block, NEW c \in Block, SwapBlocks(b, c) PROVE Kept
  BY <1>8, SwapKeeps
<1>9. ASSUME NEW i \in Inst, BuildInst(i) PROVE Kept
  BY <1>9, BuildKeeps
<1>10. ASSUME NEW i \in Inst, DeleteInst(i) \/ RemoveInst(i) PROVE Kept
  BY <1>10, RemoveInstKeeps
<1>11. ASSUME NEW i \in Inst, NEW p,
              \/ AppendInst(i, p) \/ PrependInst(i, p)
              \/ InsertInstAfter(i, p) \/ InsertInstBefore(i, p)
       PROVE  Kept
  BY <1>11, MoveKeeps
<1> QED BY <1>1, <1>2, <1>3, <1>4, <1>5, <1>6, <1>7, <1>8, <1>9, <1>10, <1>11 DEF Next, Kept

LEMMA LayoutInit == ASSUME Init PROVE LayoutInv /\ MappedIsHeld
<1>1. Laid = {} /\ Inserted = {} /\ DOMAIN code = {}
  BY EmptyIsList DEF Init, Laid, Inserted
<1>2. TypeOK
  BY <1>1 DEF Init, TypeOK, NoPos
<1>3. ListsLinked
  BY <1>1, EmptyIsList DEF Init, ListsLinked
<1>4. HeldIsMapped /\ MappedIsHeld
  BY <1>1 DEF HeldIsMapped, MappedIsHeld
<1> QED BY <1>2, <1>3, <1>4 DEF LayoutInv

THEOREM LayoutInvariant == Spec => []LayoutInv
<1>1. Init => LayoutInv
  BY LayoutInit
<1>2. LayoutInv /\ [Next]_vars => LayoutInv'
  BY LayoutStep, LayoutAssumption
<1> QED BY <1>1, <1>2, PTL DEF Spec

(* The sets, the map and the position of a unit have their types: what is  *)
(* laid out and what is mapped exists.                                     *)
THEOREM LayoutTypeCorrect == Spec => []TypeOK
<1>1. LayoutInv => TypeOK
  BY DEF LayoutInv
<1> QED BY <1>1, LayoutInvariant, PTL

(* Insertions, removals and exchanges, of neighbours too, leave every list *)
(* of a unit a list: no node is lost, doubled or in a cycle, and both      *)
(* directions agree.                                                       *)
THEOREM ListsStayLinked == Spec => []ListsLinked
<1>1. LayoutInv => ListsLinked
  BY DEF LayoutInv
<1> QED BY <1>1, LayoutInvariant, PTL

(* As long as remove_block is called for empty blocks only, inst_block     *)
(* names the block that holds an instruction, and no block for the others. *)
THEOREM InstBlockStaysRight ==
  ASSUME ~TakeOutFilled
  PROVE  Spec => []InstBlockRight
<1>1. Init => LayoutInv /\ MappedIsHeld
  BY LayoutInit
<1>2. (LayoutInv /\ MappedIsHeld) /\ [Next]_vars => (LayoutInv /\ MappedIsHeld)'
  BY LayoutStep, LayoutAssumption
<1>3. LayoutInv /\ MappedIsHeld => InstBlockRight
  BY DEF LayoutInv, HeldIsMapped, MappedIsHeld, InstBlockRight
<1> QED BY <1>1, <1>2, <1>3, PTL DEF Spec

-----------------------------------------------------------------------------
(* In the text tx, which has instructions by block, y is the j-th of c.    *)
Stands(tx, y, c, j) == c \in DOMAIN tx /\ j \in 1..Len(tx[c]) /\ tx[c][j] = y

(* Every instruction is at one place.                                      *)
Legible(tx) ==
  /\ \A b \in DOMAIN tx : b \in Block /\ tx[b] \in Seq(Inst)
  /\ \A y, b, c, j, k : Stands(tx, y, b, j) /\ Stands(tx, y, c, k) => b = c /\ j = k

(* The gap g stands for the position p.                                    *)
AtEnd(p, tx, g)   == p.at = "append" /\ p.ref \in DOMAIN tx /\ g = <<p.ref, Len(tx[p.ref])>>
AtStart(p, tx, g) == p.at = "prepend" /\ p.ref \in DOMAIN tx /\ g = <<p.ref, 0>>
Behind(p, tx, g)  == p.at = "after" /\ \E b, k : Stands(tx, p.ref, b, k) /\ g = <<b, k>>
Ahead(p, tx, g)   == p.at = "before" /\ \E b, k : Stands(tx, p.ref, b, k) /\ g = <<b, k - 1>>

Anchored(p, tx) ==
  \/ p.at \in {"append", "prepend"} /\ p.ref \in DOMAIN tx
  \/ p.at \in {"after", "before"} /\ \E b, k : Stands(tx, p.ref, b, k)

GapIn(p, tx, g) ==
  \/ AtEnd(p, tx, g) \/ AtStart(p, tx, g) \/ Behind(p, tx, g) \/ Ahead(p, tx, g)
  \/ g = None /\ ~Anchored(p, tx)

(* A gap is in the text.                                                   *)
LEMMA GapInside ==
  ASSUME NEW tx, Legible(tx), NEW p, NEW g, GapIn(p, tx, g)
  PROVE  g = None \/ \E b \in DOMAIN tx : \E k \in 0..Len(tx[b]) : g = <<b, k>>
<1>1. \A b \in DOMAIN tx : Len(tx[b]) \in Nat
  BY DEF Legible
<1> QED BY <1>1 DEF GapIn, AtEnd, AtStart, Behind, Ahead, Stands

(* The gap by the kind of the position: there is one.                      *)
LEMMA GapByKind ==
  ASSUME NEW tx, Legible(tx), NEW p, NEW g, GapIn(p, tx, g)
  PROVE  /\ p.at = "append" => g = IF p.ref \in DOMAIN tx THEN <<p.ref, Len(tx[p.ref])>> ELSE None
         /\ p.at = "prepend" => g = IF p.ref \in DOMAIN tx THEN <<p.ref, 0>> ELSE None
         /\ p.at = "after" => \A b, k : Stands(tx, p.ref, b, k) => g = <<b, k>>
         /\ p.at = "before" => \A b, k : Stands(tx, p.ref, b, k) => g = <<b, k - 1>>
         /\ p.at \in {"after", "before"} /\ (\A b, k : ~Stands(tx, p.ref, b, k)) => g = None
         /\ p.at \notin {"append", "prepend", "after", "before"} => g = None
<1>1. CASE p.at = "append"
  BY <1>1 DEF GapIn, AtEnd, AtStart, Behind, Ahead, Anchored
<1>2. CASE p.at = "prepend"
  BY <1>2 DEF GapIn, AtEnd, AtStart, Behind, Ahead, Anchored
<1>3. CASE p.at = "after"
  BY <1>3 DEF GapIn, AtEnd, AtStart, Behind, Ahead, Anchored, Legible
<1>4. CASE p.at = "before"
  BY <1>4 DEF GapIn, AtEnd, AtStart, Behind, Ahead, Anchored, Legible
<1>5. CASE p.at \notin {"append", "prepend", "after", "before"}
  BY <1>5 DEF GapIn, AtEnd, AtStart, Behind, Ahead, Anchored
<1> QED BY <1>1, <1>2, <1>3, <1>4, <1>5

(* A gap is not taken for none.                                            *)
LEMMA GapIsSome ==
  ASSUME GapAssumption, NEW tx, Legible(tx)
  PROVE  /\ \A b \in DOMAIN tx : <<b, 0>> # None /\ <<b, Len(tx[b])>> # None
         /\ \A y, b, k : Stands(tx, y, b, k) => <<b, k>> # None /\ <<b, k - 1>> # None
<1>1. \A b \in DOMAIN tx : b \in Block /\ Len(tx[b]) \in Nat
  BY DEF Legible
<1>2. \A y, b, k : Stands(tx, y, b, k) => b \in DOMAIN tx /\ k \in Nat /\ k - 1 \in Nat
  BY <1>1 DEF Stands
<1>3. \A b \in Block : \A k \in Nat : <<b, k>> # None
  BY DEF GapAssumption
<1> QED BY <1>1, <1>2, <1>3

(* The gap next to the j-th instruction of c.                              *)
NextTo(p, c, j) == IF p.at = "after" THEN <<c, j>> ELSE <<c, j - 1>>

LEMMA StandingGap ==
  ASSUME NEW tx, Legible(tx), NEW p, p.at \in {"after", "before"}, NEW g, GapIn(p, tx, g),
         NEW c, NEW j, Stands(tx, p.ref, c, j)
  PROVE  g = NextTo(p, c, j)
BY GapByKind DEF NextTo

LEMMA BehindGap ==
  ASSUME NEW tx, Legible(tx), NEW p, p.at = "after", NEW g, GapIn(p, tx, g),
         NEW c, NEW j, Stands(tx, p.ref, c, j)
  PROVE  g = <<c, j>>
<1>1. g = NextTo(p, c, j)
  BY StandingGap
<1> QED BY <1>1 DEF NextTo

LEMMA AheadGap ==
  ASSUME NEW tx, Legible(tx), NEW p, p.at = "before", NEW g, GapIn(p, tx, g),
         NEW c, NEW j, Stands(tx, p.ref, c, j)
  PROVE  g = <<c, j - 1>>
<1>1. g = NextTo(p, c, j)
  BY StandingGap
<1> QED BY <1>1 DEF NextTo

-----------------------------------------------------------------------------
(* Blocks that appear and go.                                              *)
LEMMA GapEnters ==
  ASSUME NEW tx, Legible(tx), NEW b, b \notin DOMAIN tx, NEW p, NEW g, GapIn(p, tx, g),
         Legible(Put(tx, b, <<>>)), NEW h, GapIn(p, Put(tx, b, <<>>), h)
  PROVE  IF g = None THEN h \in {None, <<b, 0>>} ELSE h = g
<1> DEFINE ty == Put(tx, b, <<>>)
<1>1. DOMAIN ty = DOMAIN tx \cup {b} /\ ty[b] = <<>> /\ \A c \in DOMAIN tx : ty[c] = tx[c]
  BY DEF Put
<1>2. Len(ty[b]) = 0
  BY <1>1
<1>3. GapIn(p, ty, h) /\ Legible(ty)
  OBVIOUS
<1> HIDE DEF ty
<1>4. \A y, c, j : Stands(ty, y, c, j) <=> Stands(tx, y, c, j)
  BY <1>1, <1>2 DEF Stands
<1>5. CASE p.at = "append"
  BY <1>1, <1>2, <1>3, <1>5, GapByKind
<1>6. CASE p.at = "prepend"
  BY <1>1, <1>3, <1>6, GapByKind
<1>7. CASE p.at \in {"after", "before"}
  <2>1. CASE \A c, j : ~Stands(tx, p.ref, c, j)
    <3>1. g = None
      BY <1>7, <2>1, GapByKind
    <3>2. h = None
      BY <1>3, <1>4, <1>7, <2>1, GapByKind
    <3> QED BY <3>1, <3>2
  <2>2. ASSUME NEW c, NEW j, Stands(tx, p.ref, c, j) PROVE g = h
    <3>1. Stands(ty, p.ref, c, j)
      BY <1>4, <2>2
    <3>2. h = NextTo(p, c, j)
      BY <1>3, <1>7, <3>1, StandingGap
    <3>3. g = NextTo(p, c, j)
      BY <1>7, <2>2, StandingGap
    <3> QED BY <3>2, <3>3
  <2> QED BY <2>1, <2>2
<1>8. CASE p.at \notin {"append", "prepend", "after", "before"}
  BY <1>3, <1>8, GapByKind
<1> QED BY <1>5, <1>6, <1>7, <1>8

LEMMA GapLeaves ==
  ASSUME GapAssumption, NEW tx, Legible(tx), NEW b \in DOMAIN tx, NEW p, NEW g, GapIn(p, tx, g),
         Legible(Without(tx, b)), NEW h, GapIn(p, Without(tx, b), h)
  PROVE  h = IF g # None /\ g[1] = b THEN None ELSE g
<1> DEFINE ty == Without(tx, b)
<1>1. DOMAIN ty = DOMAIN tx \ {b} /\ \A c \in DOMAIN ty : ty[c] = tx[c]
  BY DEF Without
<1>2. GapIn(p, ty, h) /\ Legible(ty)
  OBVIOUS
<1> HIDE DEF ty
<1>3. \A y, c, j : Stands(ty, y, c, j) <=> Stands(tx, y, c, j) /\ c # b
  BY <1>1 DEF Stands
<1>4. CASE p.at = "append"
  BY <1>1, <1>2, <1>4, GapByKind, GapIsSome
<1>5. CASE p.at = "prepend"
  BY <1>1, <1>2, <1>5, GapByKind, GapIsSome
<1>6. CASE p.at \in {"after", "before"}
  <2>1. CASE \A c, j : ~Stands(tx, p.ref, c, j)
    BY <1>2, <1>3, <1>6, <2>1, GapByKind
  <2>2. ASSUME NEW c, NEW j, Stands(tx, p.ref, c, j)
        PROVE  h = IF g # None /\ g[1] = b THEN None ELSE g
    <3>0. g = NextTo(p, c, j)
      BY <1>6, <2>2, StandingGap
    <3>1. g # None /\ g[1] = c
      BY <3>0, <2>2, GapIsSome DEF NextTo
    <3>2. CASE c = b
      <4>1. \A d, i : ~Stands(ty, p.ref, d, i)
        BY <1>3, <2>2, <3>2 DEF Legible
      <4> QED BY <1>2, <1>6, <3>1, <3>2, <4>1, GapByKind
    <3>3. CASE c # b
      <4>1. Stands(ty, p.ref, c, j)
        BY <1>3, <2>2, <3>3
      <4>2. h = NextTo(p, c, j)
        BY <1>2, <1>6, <4>1, StandingGap
      <4> QED BY <3>0, <3>1, <3>3, <4>2
    <3> QED BY <3>2, <3>3
  <2> QED BY <2>1, <2>2
<1>7. CASE p.at \notin {"append", "prepend", "after", "before"}
  BY <1>2, <1>7, GapByKind
<1> QED BY <1>4, <1>5, <1>6, <1>7

-----------------------------------------------------------------------------
(* ty is the text tx with the instruction x more, as the k-th of b.        *)
Longer(tx, ty, b, k, x) ==
  /\ b \in DOMAIN tx /\ DOMAIN ty = DOMAIN tx
  /\ k \in 1..(Len(tx[b]) + 1) /\ Len(tx[b]) \in Nat /\ Len(ty[b]) = Len(tx[b]) + 1
  /\ ty[b][k] = x
  /\ \A j \in 1..Len(tx[b]) : ty[b][IF j < k THEN j ELSE j + 1] = tx[b][j]
  /\ \A c \in DOMAIN tx : c # b => ty[c] = tx[c]

LEMMA LongerByInsertion ==
  ASSUME NEW tx, NEW b \in DOMAIN tx, tx[b] \in Seq(Inst), NEW k \in 1..(Len(tx[b]) + 1), NEW x
  PROVE  Longer(tx, [tx EXCEPT ![b] = InsertedAt(tx[b], k, x)], b, k, x)
<1> DEFINE ty == [tx EXCEPT ![b] = InsertedAt(tx[b], k, x)]
<1>1. DOMAIN ty = DOMAIN tx /\ ty[b] = InsertedAt(tx[b], k, x) /\ \A c \in DOMAIN tx : c # b => ty[c] = tx[c]
  OBVIOUS
<1>2. Len(tx[b]) \in Nat
  OBVIOUS
<1> HIDE DEF ty
<1>3. InsertedAt(tx[b], k, x) = [n \in 1..(Len(tx[b]) + 1) |->
        IF n < k THEN tx[b][n] ELSE IF n = k THEN x ELSE tx[b][n - 1]]
  BY DEF InsertedAt
<1>4. Len(InsertedAt(tx[b], k, x)) = Len(tx[b]) + 1
  BY <1>2, <1>3
<1>5. InsertedAt(tx[b], k, x)[k] = x
  BY <1>2, <1>3
<1>6. \A j \in 1..Len(tx[b]) : InsertedAt(tx[b], k, x)[IF j < k THEN j ELSE j + 1] = tx[b][j]
  BY <1>2, <1>3
<1>7. Longer(tx, ty, b, k, x)
  BY <1>1, <1>2, <1>4, <1>5, <1>6 DEF Longer
<1> QED BY <1>7 DEF ty

LEMMA LongerByRemoval ==
  ASSUME NEW ty, NEW b \in DOMAIN ty, ty[b] \in Seq(Inst), NEW k \in 1..Len(ty[b])
  PROVE  Longer([ty EXCEPT ![b] = RemovedAt(ty[b], k)], ty, b, k, ty[b][k])
<1> DEFINE tx == [ty EXCEPT ![b] = RemovedAt(ty[b], k)]
<1>1. DOMAIN tx = DOMAIN ty /\ tx[b] = RemovedAt(ty[b], k) /\ \A c \in DOMAIN ty : c # b => tx[c] = ty[c]
  OBVIOUS
<1>2. Len(ty[b]) \in Nat /\ Len(ty[b]) - 1 \in Nat
  OBVIOUS
<1> HIDE DEF tx
<1>3. RemovedAt(ty[b], k) = [n \in 1..(Len(ty[b]) - 1) |-> IF n < k THEN ty[b][n] ELSE ty[b][n + 1]]
  BY DEF RemovedAt
<1>4. Len(RemovedAt(ty[b], k)) = Len(ty[b]) - 1
  BY <1>2, <1>3
<1>5. \A j \in 1..(Len(ty[b]) - 1) : RemovedAt(ty[b], k)[j] = ty[b][IF j < k THEN j ELSE j + 1]
  BY <1>2, <1>3
<1>6. Longer(tx, ty, b, k, ty[b][k])
  BY <1>1, <1>2, <1>4, <1>5 DEF Longer
<1> QED BY <1>6 DEF tx

(* What stands in the longer text is x, or stood in the shorter one.       *)
Shift(b, k, c, j) == IF c = b /\ j >= k THEN j + 1 ELSE j

LEMMA StandsLonger ==
  ASSUME NEW tx, NEW ty, NEW b, NEW k, NEW x, Longer(tx, ty, b, k, x), Legible(ty)
  PROVE  /\ Stands(ty, x, b, k)
         /\ \A y, c, j : Stands(tx, y, c, j) => Stands(ty, y, c, Shift(b, k, c, j)) /\ y # x
         /\ \A y, c, j : Stands(ty, y, c, j) =>
              \/ y = x /\ c = b /\ j = k
              \/ \E i : Stands(tx, y, c, i) /\ j = Shift(b, k, c, i)
<1>1. Stands(ty, x, b, k)
  BY DEF Longer, Stands
<1>2. ASSUME NEW y, NEW c, NEW j, Stands(tx, y, c, j)
      PROVE  Stands(ty, y, c, Shift(b, k, c, j)) /\ y # x
  <2>1. Stands(ty, y, c, Shift(b, k, c, j))
    BY <1>2 DEF Longer, Stands, Shift
  <2>2. c = b => Shift(b, k, c, j) # k
    BY <1>2 DEF Longer, Stands, Shift
  <2> QED BY <1>1, <2>1, <2>2 DEF Legible
<1>3. ASSUME NEW y, NEW c, NEW j, Stands(ty, y, c, j), ~(c = b /\ j = k)
      PROVE  \E i : Stands(tx, y, c, i) /\ j = Shift(b, k, c, i)
  <2>1. CASE c # b
    BY <1>3, <2>1 DEF Longer, Stands, Shift
  <2>2. CASE c = b /\ j < k
    <3>1. Stands(tx, y, c, j) /\ j = Shift(b, k, c, j)
      BY <1>3, <2>2 DEF Longer, Stands, Shift
    <3> QED BY <3>1
  <2>3. CASE c = b /\ j > k
    <3>1. /\ Len(tx[b]) \in Nat /\ k \in 1..(Len(tx[b]) + 1) /\ j \in 1..(Len(tx[b]) + 1)
          /\ b \in DOMAIN tx /\ ty[b][j] = y
      BY <1>3, <2>3 DEF Longer, Stands
    <3>2. j - 1 \in 1..Len(tx[b]) /\ j - 1 >= k /\ (j - 1) + 1 = j
      BY ONLY <2>3, <3>1
    <3>3. ty[b][(j - 1) + 1] = tx[b][j - 1]
      BY <3>1, <3>2 DEF Longer
    <3>4. Stands(tx, y, c, j - 1) /\ j = Shift(b, k, c, j - 1)
      BY ONLY <2>3, <3>1, <3>2, <3>3 DEF Stands, Shift
    <3> QED BY <3>4
  <2> QED BY <1>3, <2>1, <2>2, <2>3 DEF Longer, Stands
<1> QED BY <1>1, <1>2, <1>3 DEF Stands

(* Where the gap is after an instruction is put in, and before: the reverse *)
(* of it, an instruction is taken out.                                     *)
PutInGaps(b, n, g) ==
  IF g = None THEN {None, <<b, n - 1>>, <<b, n>>}
  ELSE IF g[1] # b \/ g[2] < n - 1 THEN {g}
  ELSE IF g[2] > n - 1 THEN {<<b, g[2] + 1>>}
  ELSE {g, <<b, n>>}

GapClosed(b, n, g) == IF g # None /\ g[1] = b /\ n <= g[2] THEN <<b, g[2] - 1>> ELSE g

RefersTo(p, x) == p.at \in {"after", "before"} /\ p.ref = x

LEMMA GapPutIn ==
  ASSUME GapAssumption, NEW tx, Legible(tx), NEW ty, Legible(ty),
         NEW b, NEW k, NEW x, Longer(tx, ty, b, k, x),
         NEW p, NEW g, GapIn(p, tx, g), NEW h, GapIn(p, ty, h)
  PROVE  h \in PutInGaps(b, k, g)
<1>1. /\ DOMAIN ty = DOMAIN tx /\ k \in Nat
      /\ \A c \in DOMAIN tx : /\ Len(tx[c]) \in Nat /\ <<c, 0>> # None /\ <<c, Len(tx[c])>> # None
                             /\ Len(ty[c]) = IF c = b THEN Len(tx[c]) + 1 ELSE Len(tx[c])
      /\ k \in 1..(Len(tx[b]) + 1)
  BY GapIsSome DEF Longer, Legible
<1>2. CASE p.at = "append"
  <2>1. CASE p.ref \notin DOMAIN tx
    BY <1>1, <1>2, <2>1, GapByKind DEF PutInGaps
  <2>2. CASE p.ref \in DOMAIN tx
    <3>1. g = <<p.ref, Len(tx[p.ref])>> /\ h = <<p.ref, Len(ty[p.ref])>>
      BY <1>1, <1>2, <2>2, GapByKind
    <3> QED BY <1>1, <2>2, <3>1 DEF PutInGaps
  <2> QED BY <2>1, <2>2
<1>3. CASE p.at = "prepend"
  <2>1. CASE p.ref \notin DOMAIN tx
    BY <1>1, <1>3, <2>1, GapByKind DEF PutInGaps
  <2>2. CASE p.ref \in DOMAIN tx
    <3>1. g = <<p.ref, 0>> /\ h = <<p.ref, 0>>
      BY <1>1, <1>3, <2>2, GapByKind
    <3> QED BY <1>1, <2>2, <3>1 DEF PutInGaps
  <2> QED BY <2>1, <2>2
<1>4. CASE p.at \in {"after", "before"}
  <2>1. ASSUME NEW c, NEW j, Stands(tx, p.ref, c, j) PROVE h \in PutInGaps(b, k, g)
    <3>1. g = NextTo(p, c, j)
      BY <1>4, <2>1, StandingGap
    <3>2. Stands(ty, p.ref, c, Shift(b, k, c, j))
      BY <2>1, StandsLonger
    <3>3. h = NextTo(p, c, Shift(b, k, c, j))
      BY <1>4, <3>2, StandingGap
    <3>4. g # None /\ j \in Nat
      BY <1>1, <2>1, <3>1, GapIsSome DEF NextTo, Stands
    <3> QED BY <1>1, <1>4, <3>1, <3>3, <3>4 DEF NextTo, Shift, PutInGaps
  <2>2. CASE \A c, j : ~Stands(tx, p.ref, c, j)
    <3>1. g = None
      BY <1>4, <2>2, GapByKind
    <3>2. CASE p.ref = x
      <4>1. h = NextTo(p, b, k)
        BY <1>4, <3>2, StandsLonger, StandingGap
      <4> QED BY <3>1, <4>1 DEF NextTo, PutInGaps
    <3>3. CASE p.ref # x
      <4>1. \A c, j : ~Stands(ty, p.ref, c, j)
        BY <2>2, <3>3, StandsLonger
      <4>2. h = None
        BY <1>4, <4>1, GapByKind
      <4> QED BY <3>1, <4>2 DEF PutInGaps
    <3> QED BY <3>2, <3>3
  <2> QED BY <2>1, <2>2
<1>5. CASE p.at \notin {"append", "prepend", "after", "before"}
  BY <1>5, GapByKind DEF PutInGaps
<1> QED BY <1>2, <1>3, <1>4, <1>5

LEMMA GapTakenOut ==
  ASSUME GapAssumption, NEW tx, Legible(tx), NEW ty, Legible(ty),
         NEW b, NEW k, NEW x, Longer(tx, ty, b, k, x),
         NEW p, NEW g, GapIn(p, ty, g), NEW h, GapIn(p, tx, h)
  PROVE  IF RefersTo(p, x) THEN g = NextTo(p, b, k) /\ h = None ELSE h = GapClosed(b, k, g)
<1>1. /\ DOMAIN ty = DOMAIN tx /\ k \in Nat
      /\ \A c \in DOMAIN ty : /\ Len(tx[c]) \in Nat /\ <<c, 0>> # None /\ <<c, Len(ty[c])>> # None
                             /\ Len(ty[c]) = IF c = b THEN Len(tx[c]) + 1 ELSE Len(tx[c])
      /\ k \in 1..(Len(tx[b]) + 1)
  BY GapIsSome DEF Longer, Legible
<1>2. CASE p.at = "append"
  <2>0. ~RefersTo(p, x)
    BY <1>2 DEF RefersTo
  <2>1. CASE p.ref \notin DOMAIN tx
    BY <1>1, <1>2, <2>0, <2>1, GapByKind DEF GapClosed
  <2>2. CASE p.ref \in DOMAIN tx
    <3>1. h = <<p.ref, Len(tx[p.ref])>> /\ g = <<p.ref, Len(ty[p.ref])>>
      BY <1>1, <1>2, <2>2, GapByKind
    <3> QED BY <1>1, <2>0, <2>2, <3>1 DEF GapClosed
  <2> QED BY <2>1, <2>2
<1>3. CASE p.at = "prepend"
  <2>0. ~RefersTo(p, x)
    BY <1>3 DEF RefersTo
  <2>1. CASE p.ref \notin DOMAIN tx
    BY <1>1, <1>3, <2>0, <2>1, GapByKind DEF GapClosed
  <2>2. CASE p.ref \in DOMAIN tx
    <3>1. g = <<p.ref, 0>> /\ h = <<p.ref, 0>>
      BY <1>1, <1>3, <2>2, GapByKind
    <3> QED BY <1>1, <2>0, <2>2, <3>1 DEF GapClosed
  <2> QED BY <2>1, <2>2
<1>4. CASE p.at \in {"after", "before"} /\ p.ref # x
  <2>0. ~RefersTo(p, x)
    BY <1>4 DEF RefersTo
  <2>1. ASSUME NEW c, NEW j, Stands(tx, p.ref, c, j) PROVE h = GapClosed(b, k, g)
    <3>1. h = NextTo(p, c, j)
      BY <1>4, <2>1, StandingGap
    <3>2. Stands(ty, p.ref, c, Shift(b, k, c, j))
      BY <2>1, StandsLonger
    <3>3. g = NextTo(p, c, Shift(b, k, c, j))
      BY <1>4, <3>2, StandingGap
    <3>4. g # None /\ j \in Nat
      BY <1>1, <2>1, <3>2, <3>3, GapIsSome DEF NextTo, Stands
    <3> QED BY <1>1, <1>4, <3>1, <3>3, <3>4 DEF NextTo, Shift, GapClosed
  <2>2. ASSUME \A c, j : ~Stands(tx, p.ref, c, j) PROVE h = GapClosed(b, k, g)
    <3>1. h = None
      BY <1>4, <2>2, GapByKind
    <3>2. \A c, j : ~Stands(ty, p.ref, c, j)
      BY <1>4, <2>2, StandsLonger
    <3>3. g = None
      BY <1>4, <3>2, GapByKind
    <3> QED BY <3>1, <3>3 DEF GapClosed
  <2>3. h = GapClosed(b, k, g)
    BY <2>1, <2>2
  <2> QED BY <2>0, <2>3
<1>5. CASE RefersTo(p, x)
  <2>1. g = NextTo(p, b, k)
    BY <1>5, StandsLonger, StandingGap DEF RefersTo
  <2>2. \A c, j : ~Stands(tx, p.ref, c, j)
    BY <1>5, StandsLonger DEF RefersTo
  <2>3. h = None
    BY <1>5, <2>2, GapByKind DEF RefersTo
  <2> QED BY <1>5, <2>1, <2>3
<1>6. CASE p.at \notin {"append", "prepend", "after", "before"}
  BY <1>6, GapByKind DEF GapClosed, RefersTo
<1> QED BY <1>2, <1>3, <1>4, <1>5, <1>6 DEF RefersTo

(* An instruction is deleted, and the position taken to its neighbour.     *)
Neighbour(q, p, tx, b, k) ==
  IF p.at = "after"
  THEN IF k <= Len(tx[b]) THEN q.at = "before" /\ q.ref = tx[b][k] ELSE q.at = "append" /\ q.ref = b
  ELSE IF k > 1 THEN q.at = "after" /\ q.ref = tx[b][k - 1] ELSE q.at = "prepend" /\ q.ref = b

LEMMA GapDeleted ==
  ASSUME GapAssumption, NEW tx, Legible(tx), NEW ty, Legible(ty),
         NEW b, NEW k, NEW x, Longer(tx, ty, b, k, x),
         NEW p, NEW q, IF RefersTo(p, x) THEN Neighbour(q, p, tx, b, k) ELSE q = p,
         NEW g, GapIn(p, ty, g), NEW h, GapIn(q, tx, h)
  PROVE  h = GapClosed(b, k, g)
<1>1. CASE ~RefersTo(p, x)
  BY <1>1, GapTakenOut
<1>2. CASE RefersTo(p, x)
  <2>1. g = NextTo(p, b, k)
    BY <1>2, StandsLonger, StandingGap DEF RefersTo
  <2>2. g # None
    BY <2>1, StandsLonger, GapIsSome DEF NextTo
  <2>3. /\ b \in DOMAIN tx /\ Len(tx[b]) \in Nat /\ k \in 1..(Len(tx[b]) + 1)
        /\ Neighbour(q, p, tx, b, k)
    BY <1>2 DEF Longer
  <2>4. CASE p.at = "after" /\ k <= Len(tx[b])
    <3>1. Stands(tx, q.ref, b, k) /\ q.at = "before"
      BY <2>3, <2>4 DEF Neighbour, Stands
    <3>2. h = <<b, k - 1>>
      BY <3>1, AheadGap
    <3> QED BY <2>1, <2>2, <2>3, <2>4, <3>2 DEF NextTo, GapClosed
  <2>5. CASE p.at = "after" /\ k > Len(tx[b])
    <3>1. q.at = "append" /\ q.ref = b
      BY <2>3, <2>5 DEF Neighbour
    <3>2. h = <<b, Len(tx[b])>> /\ k = Len(tx[b]) + 1
      BY <2>3, <2>5, <3>1, GapByKind
    <3> QED BY <2>1, <2>2, <2>3, <2>5, <3>2 DEF NextTo, GapClosed
  <2>6. CASE p.at = "before" /\ k > 1
    <3>1. Stands(tx, q.ref, b, k - 1) /\ q.at = "after"
      BY <2>3, <2>6 DEF Neighbour, Stands
    <3>2. h = <<b, k - 1>>
      BY <3>1, BehindGap
    <3> QED BY <2>1, <2>2, <2>3, <2>6, <3>2 DEF NextTo, GapClosed
  <2>7. CASE p.at = "before" /\ k = 1
    <3>1. q.at = "prepend" /\ q.ref = b
      BY <2>3, <2>7 DEF Neighbour
    <3>2. h = <<b, 0>>
      BY <2>3, <3>1, GapByKind
    <3> QED BY <2>1, <2>2, <2>3, <2>7, <3>2 DEF NextTo, GapClosed
  <2> QED BY <1>2, <2>3, <2>4, <2>5, <2>6, <2>7 DEF RefersTo
<1> QED BY <1>1, <1>2

(* An instruction is written at the position, which stays in front of the  *)
(* rest of the block.                                                      *)
Writing(p, q, tx, b, k, x) ==
  \/ p.at = "append" /\ p.ref = b /\ k = Len(tx[b]) + 1 /\ q = p
  \/ p.at = "prepend" /\ p.ref = b /\ k = 1 /\ q.at = "after" /\ q.ref = x
  \/ p.at = "after" /\ Stands(tx, p.ref, b, k - 1) /\ q.at = "after" /\ q.ref = x
  \/ p.at = "before" /\ Stands(tx, p.ref, b, k) /\ q = p

LEMMA GapWritten ==
  ASSUME GapAssumption, NEW tx, Legible(tx), NEW ty, Legible(ty),
         NEW b, NEW k, NEW x, Longer(tx, ty, b, k, x),
         NEW p, NEW q, Writing(p, q, tx, b, k, x),
         NEW g, GapIn(p, tx, g), NEW h, GapIn(q, ty, h)
  PROVE  g # None /\ g = <<b, k - 1>> /\ h = <<b, k>>
<1>1. /\ b \in DOMAIN tx /\ DOMAIN ty = DOMAIN tx /\ Len(tx[b]) \in Nat /\ k \in 1..(Len(tx[b]) + 1)
      /\ Len(ty[b]) = Len(tx[b]) + 1 /\ <<b, 0>> # None /\ <<b, Len(tx[b])>> # None
  BY GapIsSome DEF Longer
<1>2. CASE p.at = "append" /\ p.ref = b /\ k = Len(tx[b]) + 1 /\ q = p
  <2>1. g = <<b, Len(tx[b])>> /\ h = <<b, Len(ty[b])>>
    BY <1>1, <1>2, GapByKind
  <2> QED BY <1>1, <1>2, <2>1
<1>3. CASE p.at = "prepend" /\ p.ref = b /\ k = 1 /\ q.at = "after" /\ q.ref = x
  <2>1. g = <<b, 0>>
    BY <1>1, <1>3, GapByKind
  <2>2. q.at = "after" /\ Stands(ty, q.ref, b, k)
    BY <1>3, StandsLonger
  <2>3. h = <<b, k>>
    BY <2>2, BehindGap
  <2> QED BY <1>1, <1>3, <2>1, <2>3
<1>4. CASE p.at = "after" /\ Stands(tx, p.ref, b, k - 1) /\ q.at = "after" /\ q.ref = x
  <2>1. g = <<b, k - 1>>
    BY <1>4, BehindGap
  <2>2. g # None
    BY <1>4, <2>1, GapIsSome
  <2>3. q.at = "after" /\ Stands(ty, q.ref, b, k)
    BY <1>4, StandsLonger
  <2>4. h = <<b, k>>
    BY <2>3, BehindGap
  <2> QED BY <2>1, <2>2, <2>4
<1>5. CASE p.at = "before" /\ Stands(tx, p.ref, b, k) /\ q = p
  <2>1. g = <<b, k - 1>>
    BY <1>5, AheadGap
  <2>2. g # None
    BY <1>5, <2>1, GapIsSome
  <2>3. Shift(b, k, b, k) = k + 1
    BY <1>1 DEF Shift
  <2>4. PICK r : r = k + 1 /\ Stands(ty, p.ref, b, r)
    BY <1>5, <2>3, StandsLonger
  <2>5. p.at = "before" /\ GapIn(p, ty, h)
    BY <1>5
  <2>6. h = <<b, r - 1>>
    BY <2>4, <2>5, AheadGap
  <2> QED BY <1>1, <2>1, <2>2, <2>4, <2>6
<1> QED BY <1>2, <1>3, <1>4, <1>5 DEF Writing

LEMMA OneGap ==
  ASSUME NEW tx, Legible(tx), NEW p, NEW g, GapIn(p, tx, g), NEW h, GapIn(p, tx, h)
  PROVE  g = h
<1>1. CASE p.at \in {"after", "before"}
  <2>1. ASSUME NEW c, NEW j, Stands(tx, p.ref, c, j) PROVE g = h
    <3>1. g = NextTo(p, c, j)
      BY <1>1, <2>1, StandingGap
    <3>2. h = NextTo(p, c, j)
      BY <1>1, <2>1, StandingGap
    <3> QED BY <3>1, <3>2
  <2>2. ASSUME \A c, j : ~Stands(tx, p.ref, c, j) PROVE g = h
    <3>1. g = None
      BY <1>1, <2>2, GapByKind
    <3>2. h = None
      BY <1>1, <2>2, GapByKind
    <3> QED BY <3>1, <3>2
  <2> QED BY <2>1, <2>2
<1>2. CASE p.at \notin {"after", "before"}
  BY <1>2, GapByKind
<1> QED BY <1>1, <1>2

-----------------------------------------------------------------------------
(* The text of the layout: what the iterators walk over.                   *)
LEMMA WalkIs ==
  ASSUME NEW l, IsList(l)
  PROVE  /\ Len(Walk(l)) \in Nat /\ Len(Walk(l)) = Cardinality(Nodes(l))
         /\ Walk(l) \in [1..Len(Walk(l)) -> Nodes(l)] /\ None \notin Nodes(l)
         /\ \A x \in Nodes(l) : \E k \in 1..Len(Walk(l)) : Walk(l)[k] = x
         /\ \A j, k \in 1..Len(Walk(l)) : Walk(l)[j] = Walk(l)[k] => j = k
         /\ \A k \in 1..Len(Walk(l)) :
              /\ l.prev[Walk(l)[k]] = IF k = 1 THEN None ELSE Walk(l)[k - 1]
              /\ l.next[Walk(l)[k]] = IF k = Len(Walk(l)) THEN None ELSE Walk(l)[k + 1]
<1>1. PICK n \in Nat : \E s \in [1..n -> Nodes(l)] : Represents(l, s, n)
  BY OrderOf
<1>2. PICK s \in [1..n -> Nodes(l)] : Represents(l, s, n)
  BY <1>1
<1>3. Walk(l) = s /\ Len(Walk(l)) = n
  BY <1>2, WalkOf
<1>4. Cardinality(Nodes(l)) = n
  BY <1>2, ListOf
<1>5. /\ Nodes(l) = {s[k] : k \in 1..n}
      /\ \A j, k \in 1..n : s[j] = s[k] => j = k
      /\ \A k \in 1..n : /\ s[k] # None
                         /\ l.prev[s[k]] = IF k = 1 THEN None ELSE s[k - 1]
                         /\ l.next[s[k]] = IF k = n THEN None ELSE s[k + 1]
  BY <1>2 DEF Represents, Nodes
<1> QED BY <1>3, <1>4, <1>5

Lines == [b \in Laid |-> Walk(code[b])]

Read ==
  /\ DOMAIN Lines = Laid
  /\ \A b \in Laid : Lines[b] = Walk(code[b])
  /\ \A y, b, j : Stands(Lines, y, b, j) => b \in Laid /\ y \in Nodes(code[b]) /\ Reachable(y) /\ Home(y) = b
  /\ \A b \in Laid : \A y \in Nodes(code[b]) : \E j : Stands(Lines, y, b, j)
  /\ Legible(Lines)
  /\ GapIn(pos, Lines, PosGap)

LEMMA Reading == ASSUME LayoutInv PROVE Read
<1>1. DOMAIN Lines = Laid /\ \A b \in Laid : Lines[b] = Walk(code[b])
  BY DEF Lines
<1>2. ASSUME NEW b \in Laid
      PROVE  /\ b \in Block /\ IsList(code[b])
             /\ \A i \in Nodes(code[b]) : i \in Inst /\ Reachable(i) /\ Home(i) = b
  BY DEF LayoutInv, TypeOK, ListsLinked, HeldIsMapped, Reachable
<1>3. \A y, b, j : Stands(Lines, y, b, j) => b \in Laid /\ y \in Nodes(code[b]) /\ Reachable(y) /\ Home(y) = b
  BY <1>1, <1>2, WalkIs DEF Stands
<1>4. ASSUME NEW b \in Laid, NEW y \in Nodes(code[b]) PROVE \E j : Stands(Lines, y, b, j)
  BY <1>1, <1>2, WalkIs DEF Stands
<1>5. Legible(Lines)
  <2>1. ASSUME NEW b \in Laid PROVE b \in Block /\ Lines[b] \in Seq(Inst)
    <3>1. Lines[b] \in [1..Len(Lines[b]) -> Inst] /\ Len(Lines[b]) \in Nat
      BY <1>1, <1>2, WalkIs
    <3> QED BY <1>2, <3>1
  <2>2. ASSUME NEW y, NEW b, NEW c, NEW j, NEW k, Stands(Lines, y, b, j), Stands(Lines, y, c, k)
        PROVE  b = c /\ j = k
    <3>1. b = c /\ b \in Laid
      BY <1>3, <2>2
    <3>2. IsList(code[b])
      BY <1>2, <3>1
    <3> QED BY <1>1, <2>2, <3>1, <3>2, WalkIs DEF Stands
  <2> QED BY <1>1, <2>1, <2>2 DEF Legible
<1>6. GapIn(pos, Lines, PosGap)
  <2>1. \A i : Reachable(i) <=> \E b, k : Stands(Lines, i, b, k)
    BY <1>3, <1>4 DEF Reachable
  <2>2. ASSUME NEW i, Reachable(i) PROVE Stands(Lines, i, Home(i), Place(i))
    <3>1. Home(i) \in Laid /\ i \in Nodes(code[Home(i)])
      BY <2>2 DEF Reachable
    <3>2. \E n \in 1..Cardinality(Nodes(code[Home(i)])) : Walk(code[Home(i)])[n] = i
      BY <1>2, <3>1, WalkIs
    <3>3. Place(i) \in 1..Cardinality(Nodes(code[Home(i)])) /\ Walk(code[Home(i)])[Place(i)] = i
      BY <3>2 DEF Place
    <3>4. Len(Lines[Home(i)]) = Cardinality(Nodes(code[Home(i)]))
      BY <1>1, <1>2, <3>1, WalkIs
    <3> QED BY <1>1, <3>1, <3>3, <3>4 DEF Stands
  <2>3. CASE pos.at = "append"
    <3>1. pos.ref \in Laid => Len(Lines[pos.ref]) = Cardinality(Nodes(code[pos.ref]))
      BY <1>1, <1>2, WalkIs
    <3> QED BY <1>1, <2>3, <3>1 DEF PosGap, GapIn, AtEnd, Anchored
  <2>4. CASE pos.at = "prepend"
    BY <1>1, <2>4 DEF PosGap, GapIn, AtStart, Anchored
  <2>5. CASE pos.at = "after"
    BY <2>1, <2>2, <2>5 DEF PosGap, GapIn, Behind, Anchored
  <2>6. CASE pos.at = "before"
    BY <2>1, <2>2, <2>6 DEF PosGap, GapIn, Ahead, Anchored
  <2>7. CASE pos.at \notin {"append", "prepend", "after", "before"}
    BY <2>7 DEF PosGap, GapIn, Anchored
  <2> QED BY <2>3, <2>4, <2>5, <2>6, <2>7
<1> QED BY <1>1, <1>3, <1>4, <1>5, <1>6 DEF Read

LEMMA ReadingThen == LayoutInv' => Read'
BY Reading, PTL

(* What the parameters of the abstract specification stand for.            *)
LEMMA EmptyWalk == Walk(EmptyList) = <<>>
<1>1. IsList(EmptyList) /\ Nodes(EmptyList) = {}
  BY EmptyIsList
<1>2. Cardinality(Nodes(EmptyList)) = 0
  BY <1>1, FS_EmptySet
<1>3. Len(Walk(EmptyList)) = 0 /\ Walk(EmptyList) \in [1..0 -> {}]
  BY <1>1, <1>2, WalkIs
<1> QED BY <1>3

LEMMA BlockEntersText ==
  ASSUME Read, Read', NEW b, b \notin Laid, Laid = Nodes(bbs), IsList(bbs),
         Laid' = Laid \cup {b}, code' = Put(code, b, EmptyList), DOMAIN code = Laid,
         \E k \in 1..(Len(Walk(bbs)) + 1) : Walk(bbs)' = InsertedAt(Walk(bbs), k, b),
         UNCHANGED <<insts, pos>>
  PROVE  Text!EnterBlock(b)
<1>1. /\ DOMAIN Lines' = Laid \cup {b} /\ Lines'[b] = <<>>
      /\ \A c \in Laid : Lines'[c] = Lines[c]
  BY EmptyWalk DEF Lines, Put
<1>2. Lines' = Put(Lines, b, <<>>)
  <2>1. Lines' = [c \in Laid \cup {b} |-> Lines'[c]]
    BY <1>1 DEF Lines
  <2> QED BY <1>1, <2>1 DEF Read, Put
<1>3. IF PosGap = None THEN PosGap' \in {None, <<b, 0>>} ELSE PosGap' = PosGap
  <2>1. Legible(Lines) /\ GapIn(pos, Lines, PosGap) /\ b \notin DOMAIN Lines
    BY DEF Read
  <2>2. Legible(Lines') /\ GapIn(pos, Lines', PosGap')
    BY DEF Read
  <2> QED BY <1>2, <2>1, <2>2, GapEnters
<1>4. b \notin Text!Elems(Walk(bbs))
  <2>1. Walk(bbs) \in [1..Len(Walk(bbs)) -> Nodes(bbs)]
    BY WalkIs
  <2>2. \A k \in DOMAIN Walk(bbs) : Walk(bbs)[k] # b
    BY ONLY <2>1, b \notin Laid, Laid = Nodes(bbs)
  <2> QED BY ONLY <2>2 DEF Text!Elems
<1> QED BY <1>2, <1>3, <1>4 DEF Text!EnterBlock, Text!InsertedAt, InsertedAt, Text!Put, Put, Lines

LEMMA BlockLeavesText ==
  ASSUME GapAssumption, Read, Read', NEW b \in Laid, Laid' = Laid \ {b},
         IsList(code[b]), code' = Without(code, b), DOMAIN code = Laid,
         \E k \in 1..Len(Walk(bbs)) : Walk(bbs)[k] = b /\ Walk(bbs)' = RemovedAt(Walk(bbs), k),
         IsList(bbs), insts' \in {insts, insts \ Nodes(code[b])}, UNCHANGED pos
  PROVE  Text!LeaveBlock(b)
<1>1. /\ DOMAIN Lines' = Laid \ {b} /\ \A c \in Laid \ {b} : Lines'[c] = Lines[c]
  BY DEF Lines, Without
<1>2. Lines' = Without(Lines, b)
  <2>1. Lines' = [c \in Laid \ {b} |-> Lines'[c]]
    BY <1>1 DEF Lines
  <2> QED BY <1>1, <2>1 DEF Read, Without
<1>3. PosGap' = IF PosGap # None /\ PosGap[1] = b THEN None ELSE PosGap
  <2>1. Legible(Lines) /\ GapIn(pos, Lines, PosGap) /\ b \in DOMAIN Lines
    BY DEF Read
  <2>2. Legible(Lines') /\ GapIn(pos, Lines', PosGap')
    BY DEF Read
  <2> QED BY <1>2, <2>1, <2>2, GapLeaves
<1>4. Text!Elems(Lines[b]) = Nodes(code[b])
  <2>1. Lines[b] = Walk(code[b])
    BY DEF Read
  <2>2. DOMAIN Lines[b] = 1..Len(Lines[b]) /\ \A k \in 1..Len(Lines[b]) : Lines[b][k] \in Nodes(code[b])
    BY <2>1, WalkIs
  <2>3. \A x \in Nodes(code[b]) : \E k \in 1..Len(Lines[b]) : Lines[b][k] = x
    BY <2>1, WalkIs
  <2> QED BY <2>2, <2>3 DEF Text!Elems
<1>5. DOMAIN Walk(bbs) = 1..Len(Walk(bbs))
  BY WalkIs
<1>6. \E k \in DOMAIN Walk(bbs) : Walk(bbs)[k] = b /\ Walk(bbs)' = Text!RemovedAt(Walk(bbs), k)
  BY <1>5 DEF Text!RemovedAt, RemovedAt
<1> QED BY <1>2, <1>3, <1>4, <1>6 DEF Text!LeaveBlock, Text!Without, Without, Lines

(* The gap stays where the text and the position do.                       *)
LEMMA GapStays ==
  ASSUME Read, Read', Lines' = Lines, pos' = pos
  PROVE  PosGap' = PosGap
<1>1. Legible(Lines) /\ GapIn(pos, Lines, PosGap)
  BY DEF Read
<1>2. GapIn(pos, Lines, PosGap')
  BY DEF Read
<1> QED BY <1>1, <1>2, OneGap

LEMMA BlocksExchangedText ==
  ASSUME Read, Read', NEW b \in Laid, NEW c \in Laid, Laid' = Laid,
         Walk(bbs)' = Exchanged(Walk(bbs), b, c), UNCHANGED <<code, insts, pos>>
  PROVE  Text!ExchangeBlocks(b, c)
<1>1. Lines' = Lines
  BY DEF Lines
<1>2. PosGap' = PosGap
  BY <1>1, GapStays
<1>3. Walk(bbs)' = Text!Exchanged(Walk(bbs), b, c)
  BY DEF Text!Exchanged, Text!Other, Exchanged, Other
<1> QED BY <1>1, <1>2, <1>3 DEF Text!ExchangeBlocks, Lines

LEMMA GapMovesText ==
  ASSUME Read, Read', UNCHANGED <<blocks, insts, bbs, code, inst_map>>
  PROVE  Text!MoveGap
<1>1. Lines' = Lines
  BY DEF Lines, Laid
<1>2. PosGap' = None \/ \E b \in DOMAIN Lines : \E k \in 0..Len(Lines[b]) : PosGap' = <<b, k>>
  <2>1. Legible(Lines') /\ GapIn(pos', Lines', PosGap')
    BY DEF Read
  <2> QED BY <1>1, <2>1, GapInside
<1>3. PosGap' \in Text!Gaps
  BY <1>2 DEF Text!Gaps, Lines
<1>4. Walk(bbs)' = Walk(bbs)
  OBVIOUS
<1> QED BY <1>1, <1>3, <1>4 DEF Text!MoveGap, Lines

-----------------------------------------------------------------------------
(* An instruction more, in the k-th place of b.                            *)
Inserts(b, k, i) ==
  /\ b \in Laid /\ i \notin Inserted /\ k \in 1..(Len(Lines[b]) + 1)
  /\ Lines' = [Lines EXCEPT ![b] = InsertedAt(Lines[b], k, i)]
  /\ Longer(Lines, Lines', b, k, i)
  /\ Walk(bbs)' = Walk(bbs)

LEMMA InsertsText ==
  ASSUME Read, NEW i, NEW b \in Laid, NEW list, Enter(i, b, list), UNCHANGED bbs,
         NEW k \in 1..(Len(Walk(code[b])) + 1), Walk(list) = InsertedAt(Walk(code[b]), k, i),
         DOMAIN code = Laid
  PROVE  Inserts(b, k, i)
<1>1. Laid' = Laid /\ code'[b] = list /\ \A c \in Laid : c # b => code'[c] = code[c]
  BY DEF Enter, Laid
<1>2. Lines' = [c \in Laid |-> Walk(code'[c])]
  BY <1>1 DEF Lines
<1>3. Lines = [c \in Laid |-> Walk(code[c])]
  BY DEF Lines
<1>4. Lines[b] = Walk(code[b]) /\ Lines[b] \in Seq(Inst) /\ b \in DOMAIN Lines
  BY DEF Read, Legible
<1>5. Lines' = [Lines EXCEPT ![b] = InsertedAt(Lines[b], k, i)]
  BY <1>1, <1>2, <1>3, <1>4
<1>6. Longer(Lines, Lines', b, k, i)
  BY <1>4, <1>5, LongerByInsertion
<1> QED BY <1>4, <1>5, <1>6 DEF Inserts, Enter

LEMMA NotWritten ==
  ASSUME Read, NEW i, i \notin Inserted
  PROVE  ~Text!Written(i)
<1>1. \A b \in DOMAIN Lines : DOMAIN Lines[b] = 1..Len(Lines[b])
  BY DEF Read, Legible
<1>2. \A b, k : ~Stands(Lines, i, b, k)
  BY DEF Read, Reachable
<1>3. \A b \in DOMAIN Lines : i \notin Text!Elems(Lines[b])
  BY <1>1, <1>2 DEF Text!Elems, Stands
<1> QED BY <1>3 DEF Text!Written, Lines

LEMMA PutsInText ==
  ASSUME GapAssumption, Read, Read', NEW i \in insts, NEW b, NEW k, Inserts(b, k, i),
         UNCHANGED <<insts, pos>>
  PROVE  Text!PutIn(i, b, k)
<1>1. PosGap' \in PutInGaps(b, k, PosGap)
  <2>1. Legible(Lines) /\ GapIn(pos, Lines, PosGap)
    BY DEF Read
  <2>2. Legible(Lines') /\ GapIn(pos, Lines', PosGap')
    BY DEF Read
  <2>3. Longer(Lines, Lines', b, k, i)
    BY DEF Inserts
  <2> QED BY <2>1, <2>2, <2>3, GapPutIn
<1>2. ~Text!Written(i)
  BY NotWritten DEF Inserts
<1>3. Lines' = [Lines EXCEPT ![b] = Text!InsertedAt(Lines[b], k, i)]
  BY DEF Inserts, InsertedAt, Text!InsertedAt
<1> QED BY <1>1, <1>2, <1>3 DEF Text!PutIn, PutInGaps, Lines, Inserts

LEMMA WritesText ==
  ASSUME GapAssumption, Read, Read', NEW i, i \notin insts, insts' = insts \cup {i},
         NEW b, NEW k, Inserts(b, k, i), Writing(pos, pos', Lines, b, k, i)
  PROVE  Text!WriteInst(i)
<1>1. PosGap # None /\ PosGap = <<b, k - 1>> /\ PosGap' = <<b, k>>
  <2>1. Legible(Lines) /\ GapIn(pos, Lines, PosGap)
    BY DEF Read
  <2>2. Legible(Lines') /\ GapIn(pos', Lines', PosGap')
    BY DEF Read
  <2>3. Longer(Lines, Lines', b, k, i)
    BY DEF Inserts
  <2> QED BY <2>1, <2>2, <2>3, GapWritten
<1>2. Len(Lines[b]) \in Nat /\ k \in Int
  BY DEF Inserts, Read, Legible
<1>3. PosGap[1] = b /\ PosGap[2] + 1 = k /\ PosGap' = <<PosGap[1], PosGap[2] + 1>>
  BY <1>1, <1>2
<1>4. Lines' = [Lines EXCEPT ![b] = Text!InsertedAt(Lines[b], k, i)]
  BY DEF Inserts, InsertedAt, Text!InsertedAt
<1>5. Lines' = [Lines EXCEPT ![PosGap[1]] = Text!InsertedAt(Lines[PosGap[1]], PosGap[2] + 1, i)]
  BY <1>3, <1>4
<1> QED BY <1>1, <1>3, <1>5 DEF Text!WriteInst, Lines, Inserts

-----------------------------------------------------------------------------
(* An instruction less, from the k-th place of b.                          *)
Removes(b, k, i) ==
  /\ b \in Laid /\ b \in DOMAIN Lines /\ k \in 1..Len(Lines[b]) /\ Lines[b][k] = i
  /\ Lines' = [Lines EXCEPT ![b] = RemovedAt(Lines[b], k)]
  /\ Longer(Lines', Lines, b, k, i)
  /\ Walk(bbs)' = Walk(bbs)

LEMMA RemovesText ==
  ASSUME LayoutInv, Read, NEW i, Reachable(i), Leave(i), UNCHANGED bbs
  PROVE  \E k : Removes(Home(i), k, i)
<1> DEFINE b == Home(i)
           m == Unlink(code[b], i)
<1>1. b \in Laid /\ i \in Nodes(code[b]) /\ IsList(code[b]) /\ DOMAIN code = Laid
  BY DEF Reachable, LayoutInv, ListsLinked, TypeOK
<1>2. Laid' = Laid /\ code'[b] = m /\ \A c \in Laid : c # b => code'[c] = code[c]
  BY <1>1 DEF Leave, Laid
<1>3. PICK k \in 1..Len(Walk(code[b])) : Walk(code[b])[k] = i /\ Walk(m) = RemovedAt(Walk(code[b]), k)
  BY <1>1, UnlinkIsList
<1>4. Lines' = [c \in Laid |-> Walk(code'[c])]
  BY <1>2 DEF Lines
<1>5. Lines = [c \in Laid |-> Walk(code[c])]
  BY DEF Lines
<1> HIDE DEF b, m
<1>6. Lines[b] = Walk(code[b]) /\ Lines[b] \in Seq(Inst) /\ b \in DOMAIN Lines
  BY <1>1 DEF Read, Legible
<1>7. Lines' = [Lines EXCEPT ![b] = RemovedAt(Lines[b], k)]
  BY <1>1, <1>2, <1>3, <1>4, <1>5, <1>6
<1>8. Longer(Lines', Lines, b, k, i)
  BY <1>3, <1>6, <1>7, LongerByRemoval
<1>9. Removes(b, k, i)
  BY <1>1, <1>3, <1>6, <1>7, <1>8 DEF Removes
<1> QED BY <1>9 DEF b

LEMMA TakesOutText ==
  ASSUME GapAssumption, Read, Read', NEW i, NEW b, NEW k, Removes(b, k, i), UNCHANGED <<insts, pos>>
  PROVE  Text!TakeOut(b, k)
<1>1. IF RefersTo(pos, i) THEN PosGap = NextTo(pos, b, k) /\ PosGap' = None
      ELSE PosGap' = GapClosed(b, k, PosGap)
  <2>1. Legible(Lines) /\ GapIn(pos, Lines, PosGap)
    BY DEF Read
  <2>2. Legible(Lines') /\ GapIn(pos, Lines', PosGap')
    BY DEF Read
  <2>3. Longer(Lines', Lines, b, k, i)
    BY DEF Removes
  <2> QED BY <2>1, <2>2, <2>3, GapTakenOut
<1>2. Lines' = [Lines EXCEPT ![b] = Text!RemovedAt(Lines[b], k)]
  BY DEF Removes, RemovedAt, Text!RemovedAt
<1>3. CASE RefersTo(pos, i)
  <2>1. PosGap = NextTo(pos, b, k) /\ PosGap' = None
    BY <1>1, <1>3
  <2>2. <<b, k>> # None /\ <<b, k - 1>> # None
    <3>1. Stands(Lines, i, b, k)
      BY DEF Removes, Stands
    <3>2. Legible(Lines)
      BY DEF Read
    <3> QED BY <3>1, <3>2, GapIsSome
  <2>3. PosGap # None /\ PosGap[1] = b /\ PosGap[2] \in {k - 1, k}
    BY <2>1, <2>2 DEF NextTo
  <2> QED BY <1>2, <2>1, <2>3 DEF Text!TakeOut, Lines, Removes
<1>4. CASE ~RefersTo(pos, i)
  <2>1. PosGap' = GapClosed(b, k, PosGap)
    BY <1>1, <1>4
  <2>2. PosGap' = Text!GapWithout(b, k)
    BY <2>1 DEF Text!GapWithout, GapClosed
  <2> QED BY <1>2, <2>2 DEF Text!TakeOut, Lines, Removes
<1> QED BY <1>3, <1>4

LEMMA DeletesText ==
  ASSUME GapAssumption, Read, Read', NEW i, NEW b, NEW k, Removes(b, k, i), insts' = insts \ {i},
         IF RefersTo(pos, i) THEN Neighbour(pos', pos, Lines', b, k) ELSE pos' = pos
  PROVE  Text!DeleteInstText(b, k)
<1>1. PosGap' = GapClosed(b, k, PosGap)
  <2>1. Legible(Lines) /\ GapIn(pos, Lines, PosGap)
    BY DEF Read
  <2>2. Legible(Lines') /\ GapIn(pos', Lines', PosGap')
    BY DEF Read
  <2>3. Longer(Lines', Lines, b, k, i)
    BY DEF Removes
  <2> QED BY <2>1, <2>2, <2>3, GapDeleted
<1>2. Lines' = [Lines EXCEPT ![b] = Text!RemovedAt(Lines[b], k)]
  BY DEF Removes, RemovedAt, Text!RemovedAt
<1>3. PosGap' = Text!GapWithout(b, k)
  BY <1>1 DEF Text!GapWithout, GapClosed
<1> QED BY <1>2, <1>3 DEF Text!DeleteInstText, Lines, Removes

-----------------------------------------------------------------------------
(* Each operation of the builder is a step of the text.                    *)
PosFormed == pos = At(pos.at, pos.ref)

LEMMA Laidout ==
  ASSUME LayoutInv
  PROVE  /\ Read /\ IsList(bbs) /\ Laid = Nodes(bbs) /\ DOMAIN code = Laid
         /\ \A b \in Laid : IsList(code[b]) /\ b \in Block
BY Reading DEF LayoutInv, ListsLinked, TypeOK, Laid

(* A node more in the list of blocks.                                      *)
LEMMA BlockGrows ==
  ASSUME LayoutAssumption, IsList(bbs), NEW b \in Block, b \notin Nodes(bbs), NEW list,
         \/ list = PushBack(bbs, b) \/ list = PushFront(bbs, b)
         \/ \E c \in Nodes(bbs) : list = InsertAfter(bbs, b, c) \/ list = InsertBefore(bbs, b, c)
  PROVE  /\ Nodes(list) = Nodes(bbs) \cup {b}
         /\ \E k \in 1..(Len(Walk(bbs)) + 1) : Walk(list) = InsertedAt(Walk(bbs), k, b)
<1>1. b # None /\ Len(Walk(bbs)) \in Nat
  BY WalkIs DEF LayoutAssumption
<1>2. 1 \in 1..(Len(Walk(bbs)) + 1) /\ Len(Walk(bbs)) + 1 \in 1..(Len(Walk(bbs)) + 1)
      /\ \A j \in 1..Len(Walk(bbs)) : j \in 1..(Len(Walk(bbs)) + 1) /\ j + 1 \in 1..(Len(Walk(bbs)) + 1)
  BY <1>1
<1>3. CASE list = PushBack(bbs, b)
  BY <1>1, <1>2, <1>3, PushBackIsList
<1>4. CASE list = PushFront(bbs, b)
  BY <1>1, <1>2, <1>4, PushFrontIsList
<1>5. ASSUME NEW c \in Nodes(bbs), list = InsertAfter(bbs, b, c)
      PROVE  /\ Nodes(list) = Nodes(bbs) \cup {b}
             /\ \E k \in 1..(Len(Walk(bbs)) + 1) : Walk(list) = InsertedAt(Walk(bbs), k, b)
  BY <1>1, <1>2, <1>5, InsertAfterIsList
<1>6. ASSUME NEW c \in Nodes(bbs), list = InsertBefore(bbs, b, c)
      PROVE  /\ Nodes(list) = Nodes(bbs) \cup {b}
             /\ \E k \in 1..(Len(Walk(bbs)) + 1) : Walk(list) = InsertedAt(Walk(bbs), k, b)
  BY <1>1, <1>2, <1>6, InsertBeforeIsList
<1> QED BY <1>3, <1>4, <1>5, <1>6

LEMMA EnterBlockStep ==
  ASSUME LayoutAssumption, LayoutInv, LayoutInv', NEW b \in Block,
         \/ AddBlock(b) \/ AppendBlock(b) \/ PrependBlock(b)
         \/ \E c \in Block : InsertBlockAfter(b, c) \/ InsertBlockBefore(b, c)
  PROVE  Text!EnterBlock(b)
<1>1. Read /\ Read' /\ IsList(bbs) /\ Laid = Nodes(bbs) /\ Laid' = Nodes(bbs') /\ DOMAIN code = Laid
  BY Laidout, ReadingThen DEF Laid
<1>2. b \notin Laid /\ code' = Put(code, b, EmptyList) /\ UNCHANGED <<insts, pos>>
  BY DEF AddBlock, AppendBlock, PrependBlock, InsertBlockAfter, InsertBlockBefore, PutBack,
         LayoutInv, TypeOK
<1>3. \/ bbs' = PushBack(bbs, b) \/ bbs' = PushFront(bbs, b)
      \/ \E c \in Nodes(bbs) : bbs' = InsertAfter(bbs, b, c) \/ bbs' = InsertBefore(bbs, b, c)
  BY <1>1 DEF AddBlock, AppendBlock, PrependBlock, InsertBlockAfter, InsertBlockBefore, PutBack
<1>4. /\ Nodes(bbs') = Nodes(bbs) \cup {b}
      /\ \E k \in 1..(Len(Walk(bbs)) + 1) : Walk(bbs') = InsertedAt(Walk(bbs), k, b)
  BY <1>1, <1>2, <1>3, BlockGrows
<1>5. /\ Laid' = Laid \cup {b}
      /\ \E k \in 1..(Len(Walk(bbs)) + 1) : Walk(bbs)' = InsertedAt(Walk(bbs), k, b)
  BY <1>1, <1>4
<1> QED BY <1>1, <1>2, <1>5, BlockEntersText

LEMMA LeaveBlockStep ==
  ASSUME GapAssumption, LayoutInv, LayoutInv', NEW b \in Block, RemoveBlock(b) \/ DeleteBlock(b)
  PROVE  Text!LeaveBlock(b)
<1>1. Read /\ Read' /\ IsList(bbs) /\ Laid = Nodes(bbs) /\ Laid' = Nodes(bbs') /\ DOMAIN code = Laid
  BY Laidout, ReadingThen DEF Laid
<1>2. /\ b \in Laid /\ bbs' = Unlink(bbs, b) /\ code' = Without(code, b)
      /\ insts' \in {insts, insts \ Nodes(code[b])} /\ pos' = pos
  BY DEF RemoveBlock, DeleteBlock
<1>3. IsList(code[b])
  BY <1>2, Laidout
<1>4. /\ Laid' = Laid \ {b}
      /\ \E k \in 1..Len(Walk(bbs)) : Walk(bbs)[k] = b /\ Walk(bbs)' = RemovedAt(Walk(bbs), k)
  BY <1>1, <1>2, UnlinkIsList
<1> QED BY <1>1, <1>2, <1>3, <1>4, BlockLeavesText

LEMMA ExchangeBlocksStep ==
  ASSUME LayoutInv, LayoutInv', NEW b, NEW c, SwapBlocks(b, c)
  PROVE  b \in Laid /\ c \in Laid /\ Text!ExchangeBlocks(b, c)
<1>1. Read /\ Read' /\ IsList(bbs) /\ Laid = Nodes(bbs) /\ Laid' = Nodes(bbs')
  BY Laidout, ReadingThen DEF Laid
<1>2. b \in Laid /\ c \in Laid /\ bbs' = SwapNodes(bbs, b, c) /\ UNCHANGED <<code, insts, pos>>
  BY DEF SwapBlocks
<1>3. Laid' = Laid /\ Walk(bbs)' = Exchanged(Walk(bbs), b, c)
  BY <1>1, <1>2, SwapNodesIsList
<1> QED BY <1>1, <1>2, <1>3, BlocksExchangedText

LEMMA MoveGapStep ==
  ASSUME LayoutInv, LayoutInv', NEW p, SetPos(p)
  PROVE  Text!MoveGap
<1>1. Read /\ Read'
  BY Laidout, ReadingThen
<1> QED BY <1>1, GapMovesText DEF SetPos

(* The four ways to insert an instruction.                                 *)
LEMMA InsertsLast ==
  ASSUME LayoutAssumption, LayoutInv, NEW i \in Inst, NEW b, EnterLast(i, b), UNCHANGED bbs
  PROVE  b \in Laid /\ Inserts(b, Len(Lines[b]) + 1, i)
<1>1. b \in Laid /\ i \notin Inserted /\ i # None /\ Enter(i, b, PushBack(code[b], i))
  BY DEF EnterLast, Enter, LayoutAssumption
<1>2. IsList(code[b]) /\ i \notin Nodes(code[b]) /\ DOMAIN code = Laid /\ Read
  BY <1>1, Laidout DEF LayoutInv, HeldIsMapped
<1>3. Lines[b] = Walk(code[b]) /\ Len(Walk(code[b])) \in Nat
  BY <1>1, <1>2, WalkIs DEF Read
<1>4. PICK k : k = Len(Walk(code[b])) + 1 /\ k \in 1..(Len(Walk(code[b])) + 1)
  BY <1>3
<1>5. Walk(PushBack(code[b], i)) = InsertedAt(Walk(code[b]), k, i)
  BY <1>1, <1>2, <1>4, PushBackIsList
<1>6. Inserts(b, k, i)
  BY <1>1, <1>2, <1>4, <1>5, InsertsText
<1> QED BY <1>1, <1>3, <1>4, <1>6

LEMMA InsertsFirst ==
  ASSUME LayoutAssumption, LayoutInv, NEW i \in Inst, NEW b, EnterFirst(i, b), UNCHANGED bbs
  PROVE  b \in Laid /\ Inserts(b, 1, i)
<1>1. b \in Laid /\ i \notin Inserted /\ i # None /\ Enter(i, b, PushFront(code[b], i))
  BY DEF EnterFirst, Enter, LayoutAssumption
<1>2. IsList(code[b]) /\ i \notin Nodes(code[b]) /\ DOMAIN code = Laid /\ Read
  BY <1>1, Laidout DEF LayoutInv, HeldIsMapped
<1>3. 1 \in 1..(Len(Walk(code[b])) + 1)
  BY <1>2, WalkIs
<1>4. Walk(PushFront(code[b], i)) = InsertedAt(Walk(code[b]), 1, i)
  BY <1>1, <1>2, PushFrontIsList
<1> QED BY <1>1, <1>2, <1>3, <1>4, InsertsText

LEMMA InsertsAfter ==
  ASSUME LayoutAssumption, LayoutInv, NEW i \in Inst, NEW j, EnterAfter(i, j), UNCHANGED bbs
  PROVE  \E b \in Laid : \E k : Inserts(b, k, i) /\ Stands(Lines, j, b, k - 1)
<1> DEFINE b == Home(j)
<1>1. /\ b \in Laid /\ j \in Nodes(code[b]) /\ i \notin Inserted /\ i # None
      /\ Enter(i, b, InsertAfter(code[b], i, j))
  BY DEF EnterAfter, Enter, Reachable, LayoutAssumption
<1> HIDE DEF b
<1>2. IsList(code[b]) /\ i \notin Nodes(code[b]) /\ DOMAIN code = Laid /\ Read
  BY <1>1, Laidout DEF LayoutInv, HeldIsMapped
<1>3. Lines[b] = Walk(code[b]) /\ Len(Walk(code[b])) \in Nat /\ b \in DOMAIN Lines
  BY <1>1, <1>2, WalkIs DEF Read
<1>4. PICK n \in 1..Len(Walk(code[b])) : /\ Walk(code[b])[n] = j
        /\ Walk(InsertAfter(code[b], i, j)) = InsertedAt(Walk(code[b]), n + 1, i)
  BY <1>1, <1>2, InsertAfterIsList
<1>5. PICK k : k = n + 1 /\ k \in 1..(Len(Walk(code[b])) + 1) /\ k - 1 = n
  BY <1>3
<1>6. Inserts(b, k, i)
  BY <1>1, <1>2, <1>4, <1>5, InsertsText
<1>7. Stands(Lines, j, b, k - 1)
  BY <1>3, <1>4, <1>5 DEF Stands
<1> QED BY <1>1, <1>6, <1>7

LEMMA InsertsBefore ==
  ASSUME LayoutAssumption, LayoutInv, NEW i \in Inst, NEW j, EnterBefore(i, j), UNCHANGED bbs
  PROVE  \E b \in Laid : \E k : Inserts(b, k, i) /\ Stands(Lines, j, b, k)
<1> DEFINE b == Home(j)
<1>1. /\ b \in Laid /\ j \in Nodes(code[b]) /\ i \notin Inserted /\ i # None
      /\ Enter(i, b, InsertBefore(code[b], i, j))
  BY DEF EnterBefore, Enter, Reachable, LayoutAssumption
<1> HIDE DEF b
<1>2. IsList(code[b]) /\ i \notin Nodes(code[b]) /\ DOMAIN code = Laid /\ Read
  BY <1>1, Laidout DEF LayoutInv, HeldIsMapped
<1>3. Lines[b] = Walk(code[b]) /\ Len(Walk(code[b])) \in Nat /\ b \in DOMAIN Lines
  BY <1>1, <1>2, WalkIs DEF Read
<1>4. PICK k \in 1..Len(Walk(code[b])) : /\ Walk(code[b])[k] = j
        /\ Walk(InsertBefore(code[b], i, j)) = InsertedAt(Walk(code[b]), k, i)
  BY <1>1, <1>2, InsertBeforeIsList
<1>5. k \in 1..(Len(Walk(code[b])) + 1)
  BY <1>3
<1>6. Inserts(b, k, i)
  BY <1>1, <1>2, <1>4, <1>5, InsertsText
<1>7. Stands(Lines, j, b, k)
  BY <1>3, <1>4 DEF Stands
<1> QED BY <1>1, <1>6, <1>7

LEMMA PutInStep ==
  ASSUME LayoutAssumption, GapAssumption, LayoutInv, LayoutInv', NEW i \in Inst, NEW p,
         \/ AppendInst(i, p) \/ PrependInst(i, p)
         \/ InsertInstAfter(i, p) \/ InsertInstBefore(i, p)
  PROVE  \E b \in DOMAIN Lines : \E k \in 1..(Len(Lines[b]) + 1) : Text!PutIn(i, b, k)
<1>1. Read /\ Read'
  BY Laidout, ReadingThen
<1>2. i \in insts /\ UNCHANGED bbs /\ UNCHANGED <<insts, pos>>
  BY DEF AppendInst, PrependInst, InsertInstAfter, InsertInstBefore, Moves
<1>3. EnterLast(i, p) \/ EnterFirst(i, p) \/ EnterAfter(i, p) \/ EnterBefore(i, p)
  BY DEF AppendInst, PrependInst, InsertInstAfter, InsertInstBefore
<1>4. \E b, k : Inserts(b, k, i)
  BY <1>2, <1>3, InsertsLast, InsertsFirst, InsertsAfter, InsertsBefore
<1>5. PICK b, k : Inserts(b, k, i)
  BY <1>4
<1>6. b \in DOMAIN Lines /\ k \in 1..(Len(Lines[b]) + 1)
  BY <1>1, <1>5 DEF Inserts, Read
<1>7. Text!PutIn(i, b, k)
  BY <1>1, <1>2, <1>5, PutsInText
<1> QED BY <1>6, <1>7

LEMMA WriteInstStep ==
  ASSUME LayoutAssumption, GapAssumption, LayoutInv, LayoutInv', NEW i \in Inst, BuildInst(i)
  PROVE  Text!WriteInst(i)
<1>1. Read /\ Read'
  BY Laidout, ReadingThen
<1>2. /\ i \notin insts /\ insts' = insts \cup {i} /\ UNCHANGED bbs
      /\ pos' = IF pos.at \in {"prepend", "after"} THEN At("after", i) ELSE pos
  BY DEF BuildInst
<1>3. \E b, k : Inserts(b, k, i) /\ Writing(pos, pos', Lines, b, k, i)
  <2>1. CASE pos.at = "append" /\ EnterLast(i, pos.ref)
    <3>1. Inserts(pos.ref, Len(Lines[pos.ref]) + 1, i)
      BY <1>2, <2>1, InsertsLast
    <3>2. Writing(pos, pos', Lines, pos.ref, Len(Lines[pos.ref]) + 1, i)
      BY <1>2, <2>1 DEF Writing
    <3> QED BY <3>1, <3>2
  <2>2. CASE pos.at = "prepend" /\ EnterFirst(i, pos.ref)
    <3>1. Inserts(pos.ref, 1, i)
      BY <1>2, <2>2, InsertsFirst
    <3>2. Writing(pos, pos', Lines, pos.ref, 1, i)
      BY <1>2, <2>2 DEF Writing, At
    <3> QED BY <3>1, <3>2
  <2>3. CASE pos.at = "after" /\ EnterAfter(i, pos.ref)
    <3>1. PICK b, k : Inserts(b, k, i) /\ Stands(Lines, pos.ref, b, k - 1)
      BY <1>2, <2>3, InsertsAfter
    <3>2. Writing(pos, pos', Lines, b, k, i)
      BY <1>2, <2>3, <3>1 DEF Writing, At
    <3> QED BY <3>1, <3>2
  <2>4. CASE pos.at = "before" /\ EnterBefore(i, pos.ref)
    <3>1. PICK b, k : Inserts(b, k, i) /\ Stands(Lines, pos.ref, b, k)
      BY <1>2, <2>4, InsertsBefore
    <3>2. Writing(pos, pos', Lines, b, k, i)
      BY <1>2, <2>4, <3>1 DEF Writing
    <3> QED BY <3>1, <3>2
  <2> QED BY <2>1, <2>2, <2>3, <2>4 DEF BuildInst
<1>4. PICK b, k : Inserts(b, k, i) /\ Writing(pos, pos', Lines, b, k, i)
  BY <1>3
<1> QED BY <1>1, <1>2, <1>4, WritesText

LEMMA TakeOutStep ==
  ASSUME GapAssumption, LayoutInv, LayoutInv', NEW i, RemoveInst(i)
  PROVE  \E b \in DOMAIN Lines : \E k \in 1..Len(Lines[b]) : Text!TakeOut(b, k)
<1>1. Read /\ Read'
  BY Laidout, ReadingThen
<1>2. Reachable(i) /\ Leave(i) /\ UNCHANGED bbs /\ UNCHANGED <<insts, pos>>
  BY DEF RemoveInst, Moves
<1>3. PICK k : Removes(Home(i), k, i)
  BY <1>1, <1>2, RemovesText
<1>4. Text!TakeOut(Home(i), k)
  BY <1>1, <1>2, <1>3, TakesOutText
<1> QED BY <1>3, <1>4 DEF Removes

LEMMA DeleteInstStep ==
  ASSUME GapAssumption, LayoutInv, LayoutInv', PosFormed, NEW i, DeleteInst(i)
  PROVE  \E b \in DOMAIN Lines : \E k \in 1..Len(Lines[b]) : Text!DeleteInstText(b, k)
<1> DEFINE b == Home(i)
           l == code[b]
<1>1. Read /\ Read'
  BY Laidout, ReadingThen
<1>2. Reachable(i) /\ Leave(i) /\ UNCHANGED bbs /\ insts' = insts \ {i} /\ pos' = PosWithout(i)
  BY DEF DeleteInst
<1>3. PICK k : Removes(b, k, i)
  BY <1>1, <1>2, RemovesText
<1>4. /\ pos = At("after", i) <=> pos.at = "after" /\ pos.ref = i
      /\ pos = At("before", i) <=> pos.at = "before" /\ pos.ref = i
  BY DEF PosFormed, At
<1>5. /\ IsList(l) /\ Lines[b] = Walk(l) /\ k \in 1..Len(Walk(l)) /\ Walk(l)[k] = i
      /\ Len(Walk(l)) \in Nat /\ b \in DOMAIN Lines
  BY <1>1, <1>3, Laidout, WalkIs DEF Removes, Read
<1>6. Lines'[b] = RemovedAt(Walk(l), k)
  BY <1>3, <1>5 DEF Removes
<1> HIDE DEF b
<1>7. /\ Len(Lines'[b]) = Len(Walk(l)) - 1
      /\ k > 1 => Lines'[b][k - 1] = Walk(l)[k - 1]
      /\ k < Len(Walk(l)) => Lines'[b][k] = Walk(l)[k + 1]
  BY <1>5, <1>6 DEF RemovedAt
<1>8. /\ l.prev[i] = IF k = 1 THEN None ELSE Walk(l)[k - 1]
      /\ l.next[i] = IF k = Len(Walk(l)) THEN None ELSE Walk(l)[k + 1]
      /\ k > 1 => Walk(l)[k - 1] # None
      /\ k < Len(Walk(l)) => Walk(l)[k + 1] # None
  <2> HIDE DEF l
  <2>1. l.prev[i] = IF k = 1 THEN None ELSE Walk(l)[k - 1]
    BY <1>5, WalkIs
  <2>2. l.next[i] = IF k = Len(Walk(l)) THEN None ELSE Walk(l)[k + 1]
    BY <1>5, WalkIs
  <2>3. \A j \in 1..Len(Walk(l)) : Walk(l)[j] # None
    BY <1>5, WalkIs
  <2> QED BY <1>5, <2>1, <2>2, <2>3
<1>9. CASE pos.at = "after" /\ pos.ref = i
  <2>1. pos' = IF l.next[i] # None THEN At("before", l.next[i]) ELSE At("append", b)
    BY <1>2, <1>4, <1>9 DEF PosWithout, b
  <2>2. Neighbour(pos', pos, Lines', b, k)
    <3> HIDE DEF l
    <3> QED BY <1>5, <1>7, <1>8, <1>9, <2>1 DEF Neighbour, At
  <2> QED BY <1>1, <1>2, <1>3, <1>5, <1>9, <2>2, DeletesText DEF RefersTo
<1>10. CASE pos.at = "before" /\ pos.ref = i
  <2>1. pos' = IF l.prev[i] # None THEN At("after", l.prev[i]) ELSE At("prepend", b)
    BY <1>2, <1>4, <1>10 DEF PosWithout, b, At
  <2>2. Neighbour(pos', pos, Lines', b, k)
    <3> HIDE DEF l
    <3> QED BY <1>5, <1>7, <1>8, <1>10, <2>1 DEF Neighbour, At
  <2> QED BY <1>1, <1>2, <1>3, <1>5, <1>10, <2>2, DeletesText DEF RefersTo
<1>11. CASE ~RefersTo(pos, i)
  <2>1. pos' = pos
    BY <1>2, <1>4, <1>11 DEF PosWithout, RefersTo
  <2>2. Text!DeleteInstText(b, k)
    BY <1>1, <1>2, <1>3, <1>11, <2>1, DeletesText
  <2> QED BY <1>5, <2>2
<1> QED BY <1>9, <1>10, <1>11 DEF RefersTo

-----------------------------------------------------------------------------
LEMMA PosStaysFormed == ASSUME PosFormed, [Next]_vars PROVE PosFormed'
<1>1. \/ pos' = pos
      \/ \E a, ref : pos' = At(a, ref)
  BY DEF Next, vars, NewBuilder, InsertAtEnd, InsertAtBeginning, AppendTo, PrependTo,
         InsertAfterInst, InsertBeforeInst, SetPos, NoPos, At, AddBlock, AppendBlock,
         PrependBlock, InsertBlockAfter, InsertBlockBefore, PutBack, RemoveBlock, DeleteBlock,
         SwapBlocks, BuildInst, DeleteInst, RemoveInst, AppendInst, PrependInst, InsertInstAfter,
         InsertInstBefore, Moves, PosWithout
<1> QED BY <1>1 DEF PosFormed, At

LEMMA TextStep ==
  ASSUME LayoutAssumption, GapAssumption, LayoutInv, LayoutInv', PosFormed, [Next]_vars
  PROVE  [Text!TNext]_Text!tvars
<1>1. DOMAIN Lines = Laid /\ Lines = [b \in Laid |-> Walk(code[b])] /\ Laid \subseteq Block
  BY Laidout DEF Lines
<1>2. CASE UNCHANGED vars
  <2>1. Read /\ Read' /\ Lines' = Lines
    BY <1>2, Laidout, ReadingThen DEF vars, Lines, Laid
  <2>2. PosGap' = PosGap
    BY <1>2, <2>1, GapStays DEF vars
  <2>3. insts' = insts /\ Walk(bbs)' = Walk(bbs)
    BY <1>2 DEF vars
  <2> QED BY <2>1, <2>2, <2>3 DEF Text!tvars, Lines
<1>3. ASSUME NEW p, SetPos(p) PROVE Text!TNext
  BY <1>3, MoveGapStep DEF Text!TNext
<1>4. CASE NewBuilder \/ InsertAtEnd \/ InsertAtBeginning
  BY <1>3, <1>4 DEF NewBuilder, InsertAtEnd, InsertAtBeginning
<1>5. ASSUME NEW b \in Block, AppendTo(b) \/ PrependTo(b) PROVE Text!TNext
  BY <1>3, <1>5 DEF AppendTo, PrependTo
<1>6. ASSUME NEW i \in Inst, InsertAfterInst(i) \/ InsertBeforeInst(i) PROVE Text!TNext
  BY <1>3, <1>6 DEF InsertAfterInst, InsertBeforeInst
<1>7. ASSUME NEW b \in Block,
             \/ AddBlock(b) \/ AppendBlock(b) \/ PrependBlock(b)
             \/ \E c \in Block : InsertBlockAfter(b, c) \/ InsertBlockBefore(b, c)
      PROVE  Text!TNext
  BY <1>7, EnterBlockStep DEF Text!TNext
<1>8. ASSUME NEW b \in Block, RemoveBlock(b) \/ DeleteBlock(b) PROVE Text!TNext
  BY <1>8, LeaveBlockStep DEF Text!TNext
<1>9. ASSUME NEW b \in Block, NEW c \in Block, SwapBlocks(b, c) PROVE Text!TNext
  BY <1>1, <1>9, ExchangeBlocksStep DEF Text!TNext
<1>10. ASSUME NEW i \in Inst, BuildInst(i) PROVE Text!TNext
  BY <1>10, WriteInstStep DEF Text!TNext
<1>11. ASSUME NEW i \in Inst, NEW p,
              \/ AppendInst(i, p) \/ PrependInst(i, p)
              \/ InsertInstAfter(i, p) \/ InsertInstBefore(i, p)
       PROVE  Text!TNext
  <2>1. \E b \in DOMAIN Lines : \E k \in 1..(Len(Lines[b]) + 1) : Text!PutIn(i, b, k)
    BY <1>11, PutInStep
  <2> QED BY <1>1, <2>1 DEF Text!TNext
<1>12. ASSUME NEW i \in Inst, RemoveInst(i) PROVE Text!TNext
  <2>1. \E b \in DOMAIN Lines : \E k \in 1..Len(Lines[b]) : Text!TakeOut(b, k)
    BY <1>12, TakeOutStep
  <2>2. \A b \in DOMAIN Lines : DOMAIN Lines[b] = 1..Len(Lines[b])
    BY Laidout DEF Read, Legible
  <2> QED BY <1>1, <2>1, <2>2 DEF Text!TNext
<1>13. ASSUME NEW i \in Inst, DeleteInst(i) PROVE Text!TNext
  <2>1. \E b \in DOMAIN Lines : \E k \in 1..Len(Lines[b]) : Text!DeleteInstText(b, k)
    BY <1>13, DeleteInstStep
  <2>2. \A b \in DOMAIN Lines : DOMAIN Lines[b] = 1..Len(Lines[b])
    BY Laidout DEF Read, Legible
  <2> QED BY <1>1, <2>1, <2>2 DEF Text!TNext
<1> QED BY <1>2, <1>4, <1>5, <1>6, <1>7, <1>8, <1>9, <1>10, <1>11, <1>12, <1>13 DEF Next

LEMMA TextInit == ASSUME Init PROVE Text!TInit /\ PosFormed
<1>1. bbs = EmptyList /\ insts = {} /\ pos = NoPos /\ Laid = {}
  BY EmptyIsList DEF Init, Laid
<1>2. Walk(bbs) = <<>>
  BY <1>1, EmptyWalk
<1>3. PosGap = None
  BY <1>1 DEF PosGap, NoPos
<1>4. [b \in Laid |-> Walk(code[b])] = <<>>
  BY <1>1
<1> QED BY <1>1, <1>2, <1>3, <1>4 DEF Text!TInit, PosFormed, NoPos, At

(* The linked lists of a unit and the position of its builder implement    *)
(* the text with a gap: each operation of UnitBuilder changes what blocks() *)
(* and insts() run over as its name says, and what is built appears in the *)
(* order it is built in, at the place the position stands for, whatever    *)
(* has been deleted around it.                                             *)
THEOREM LayoutIsText == Spec => ImplementsText
<1>1. Init => Text!TInit /\ PosFormed
  BY TextInit
<1>2. PosFormed /\ [Next]_vars => PosFormed'
  BY PosStaysFormed
<1>3. LayoutInv /\ LayoutInv' /\ PosFormed /\ [Next]_vars => [Text!TNext]_Text!tvars
  BY TextStep, LayoutAssumption, GapAssumption
<1> QED BY <1>1, <1>2, <1>3, LayoutInvariant, PTL DEF Spec, ImplementsText, Text!TSpec
=============================================================================
