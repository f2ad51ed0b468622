-------------------------- MODULE UnitAnalysesProofs --------------------------
(***************************************************************************)
(* Theorems about the analyses of a unit, for every number of blocks and   *)
(* every control flow between them. In this order:                         *)
(*   - reachability and its tables (ReachLeast, ReachClosed);              *)
(*   - the depth-first search and its post-order (TreeInv, OrderInv);      *)
(*   - the sweeps (SweepInv): for the blocks that a single head h leads to *)
(*     (Alone(h)), what an immediate dominator found so far is (Fit), and  *)
(*     that the sets of blocks met on the way up solve the equations of    *)
(*     dominance when a sweep changes nothing (Settled). MeetAbove and     *)
(*     NewIdomAbove say what the fingers find, SweepVisit what one visit   *)
(*     of a sweep preserves;                                               *)
(*   - the queries on the finished tree (UpDominates, UpComplete,          *)
(*     ClimbMeets), which give DominatorsAlwaysRight;                      *)
(*   - sets of blocks with one entry (Enclosed), whatever leads to it;     *)
(*   - the temporal regions (RegionsInv), which give RegionsAlwaysRooted,  *)
(*     and those with one head, which are such sets.                       *)
(***************************************************************************)
EXTENDS UnitAnalyses, FiniteSetTheorems, FunctionTheorems, NatFacts, TLAPS

-----------------------------------------------------------------------------
(* What a predecessor table holds.                                         *)
IsTable(t) ==
  /\ t.succ \in [Blocks -> SUBSET Blocks]
  /\ t.pred = [b \in Blocks |-> {a \in Blocks : b \in t.succ[a]}]

-----------------------------------------------------------------------------
(* Reachability. One step adds the successors that are not avoided.        *)
Grow(t, Avoid, A) == A \cup ((UNION {t.succ[a] : a \in A}) \ Avoid)
Closed(t, Avoid, A) == \A a \in A : t.succ[a] \ Avoid \subseteq A

GrowsTo(f, t, S, Avoid) ==
  /\ f \in [0..N -> SUBSET Blocks] /\ f[0] = S \ Avoid
  /\ \A i \in 1..N : f[i] = Grow(t, Avoid, f[i - 1])
  /\ Reach(t, S, Avoid) = f[N]

(* Reach is what N steps of growth lead to.                                *)
LEMMA ReachSteps ==
  ASSUME NEW t, t.succ \in [Blocks -> SUBSET Blocks], NEW S \in SUBSET Blocks, NEW Avoid
  PROVE  \E f : GrowsTo(f, t, S, Avoid)
<1> USE NAssumption
<1> DEFINE P == SUBSET Blocks
           x == S \ Avoid
           G == [i \in Nat |-> [A \in P |-> Grow(t, Avoid, A)]]
<1>1. \A A \in P : Grow(t, Avoid, A) \in P
  BY DEF Grow
<1>2. G \in [Nat -> [P -> P]] /\ x \in P /\ N \in Nat
  BY <1>1
<1>3. \A i \in Nat : \A A \in P : G[i][A] = Grow(t, Avoid, A)
  OBVIOUS
<1> HIDE DEF P, G, x
<1>0. PICK f : Recurs(f, P, x, G, N)
  BY <1>2, Recurrence
<1>4. f \in [0..N -> P] /\ f[0] = x /\ \A i \in 1..N : f[i] = G[i][f[i - 1]]
  BY <1>0 DEF Recurs
<1>5. \A i \in 1..N : f[i] = Grow(t, Avoid, f[i - 1])
  <2>1. ASSUME NEW i \in 1..N PROVE f[i] = Grow(t, Avoid, f[i - 1])
    <3>1. i \in Nat /\ i - 1 \in 0..N /\ f[i - 1] \in P
      BY <1>4
    <3> QED BY <1>3, <1>4, <3>1
  <2> QED BY <2>1
<1> DEFINE R(g) == [i \in 0..N |-> IF i = 0 THEN S \ Avoid
                     ELSE g[i - 1] \cup ((UNION {t.succ[a] : a \in g[i - 1]}) \ Avoid)]
           Solves(g) == g[0] = S \ Avoid /\ \A i \in 1..N : g[i] = Grow(t, Avoid, g[i - 1])
           step[i \in 0..N] ==
             IF i = 0 THEN S \ Avoid
             ELSE step[i - 1] \cup ((UNION {t.succ[a] : a \in step[i - 1]}) \ Avoid)
<1>6. f = R(f)
  BY <1>4, <1>5 DEF Grow, x
<1>7. step = R(step)
  BY <1>6
<1>8. Reach(t, S, Avoid) = step[N]
  BY DEF Reach
<1> HIDE DEF step
<1>9. Solves(step)
  <2>1. step[0] = S \ Avoid
    BY <1>7
  <2>2. ASSUME NEW i \in 1..N PROVE step[i] = Grow(t, Avoid, step[i - 1])
    <3>1. i \in 0..N /\ i # 0
      OBVIOUS
    <3> QED BY <1>7, <3>1 DEF Grow
  <2> QED BY <2>1, <2>2
<1>10. step \in [0..N -> P]
  <2> DEFINE T == {i \in 0..N : step[i] \notin P}
  <2> SUFFICES ASSUME T # {} PROVE FALSE
    BY <1>7
  <2>0. T \in SUBSET Nat
    OBVIOUS
  <2>1. PICK i \in T : \A j \in T : i <= j
    <3> HIDE DEF T
    <3> QED BY <2>0, LeastNumber
  <2>2. i # 0
    BY <1>2, <1>9 DEF x
  <2>3. i \in 1..N /\ i - 1 \in 0..N /\ i - 1 \notin T
    <3>1. i \in 0..N /\ \A j \in T : i <= j
      BY <2>1
    <3> HIDE DEF T
    <3> QED BY <2>2, <3>1
  <2> QED BY <1>1, <1>9, <2>3 DEF P
<1> QED BY <1>8, <1>9, <1>10 DEF P, GrowsTo

(* Reach contains what it starts from, and nothing that a closed set       *)
(* around it leaves out.                                                   *)
LEMMA ReachLeast ==
  ASSUME NEW t, t.succ \in [Blocks -> SUBSET Blocks], NEW S \in SUBSET Blocks, NEW Avoid,
         NEW T, S \ Avoid \subseteq T, Closed(t, Avoid, T)
  PROVE  Reach(t, S, Avoid) \subseteq T
<1> USE NAssumption
<1>0. PICK f : GrowsTo(f, t, S, Avoid)
  BY ReachSteps
<1>1. /\ f \in [0..N -> SUBSET Blocks] /\ f[0] = S \ Avoid
      /\ \A i \in 1..N : f[i] = Grow(t, Avoid, f[i - 1])
      /\ Reach(t, S, Avoid) = f[N]
  BY <1>0 DEF GrowsTo
<1> DEFINE U == {i \in 0..N : ~(f[i] \subseteq T)}
<1> SUFFICES ASSUME U # {} PROVE FALSE
  BY <1>1
<1>2. U \in SUBSET Nat
  OBVIOUS
<1>3. PICK i \in U : \A j \in U : i <= j
  <2> HIDE DEF U
  <2> QED BY <1>2, LeastNumber
<1>4. i \in 0..N /\ ~(f[i] \subseteq T)
  OBVIOUS
<1>5. i # 0
  BY <1>1, <1>4
<1>6. i - 1 \in 0..N /\ i \in 1..N /\ i - 1 \notin U
  <2> HIDE DEF U
  <2> QED BY <1>3, <1>4, <1>5
<1>7. f[i] \subseteq T
  <2>1. f[i - 1] \subseteq T
    BY <1>6
  <2>2. f[i] = Grow(t, Avoid, f[i - 1])
    BY <1>1, <1>6
  <2> QED BY <2>1, <2>2 DEF Grow, Closed
<1> QED BY <1>4, <1>7

(* Growth does not end before N steps unless the set is closed: a set that *)
(* grows N times has more than N blocks.                                   *)
LEMMA ReachClosed ==
  ASSUME NEW t, t.succ \in [Blocks -> SUBSET Blocks], NEW S \in SUBSET Blocks, NEW Avoid
  PROVE  /\ Reach(t, S, Avoid) \in SUBSET Blocks
         /\ S \ Avoid \subseteq Reach(t, S, Avoid)
         /\ Closed(t, Avoid, Reach(t, S, Avoid))
         /\ Reach(t, S, Avoid) \cap Avoid = {}
<1> USE NAssumption
<1>0. PICK f : GrowsTo(f, t, S, Avoid)
  BY ReachSteps
<1>1. /\ f \in [0..N -> SUBSET Blocks] /\ f[0] = S \ Avoid
      /\ \A i \in 1..N : f[i] = Grow(t, Avoid, f[i - 1])
      /\ Reach(t, S, Avoid) = f[N]
  BY <1>0 DEF GrowsTo
<1>2. IsFiniteSet(Blocks) /\ Cardinality(Blocks) = N
  BY FS_Interval DEF Blocks
<1>3. \A i \in 0..N : IsFiniteSet(f[i]) /\ Cardinality(f[i]) \in Nat /\ Cardinality(f[i]) <= N
  <2>1. ASSUME NEW i \in 0..N
        PROVE  IsFiniteSet(f[i]) /\ Cardinality(f[i]) \in Nat /\ Cardinality(f[i]) <= N
    <3>1. f[i] \in SUBSET Blocks
      BY <1>1
    <3> QED BY <1>2, <3>1, FS_Subset, FS_CardinalityType
  <2> QED BY <2>1
<1> DEFINE P(i) == S \ Avoid \subseteq f[i] /\ (Closed(t, Avoid, f[i]) \/ Cardinality(f[i]) > i)
           U == {i \in 0..N : ~P(i)}
<1>4. U = {}
  <2> SUFFICES ASSUME U # {} PROVE FALSE
    OBVIOUS
  <2>1. U \in SUBSET Nat
    OBVIOUS
  <2>2. PICK i \in U : \A j \in U : i <= j
    <3> HIDE DEF U
    <3> QED BY <2>1, LeastNumber
  <2>3. i \in 0..N /\ ~P(i)
    OBVIOUS
  <2>4. P(0)
    <3>1. CASE f[0] = {}
      BY <1>1, <3>1 DEF Closed
    <3>2. CASE f[0] # {}
      <4>1. Cardinality(f[0]) # 0
        BY <1>3, <3>2, FS_EmptySet
      <4>2. Cardinality(f[0]) > 0
        BY <1>3, <4>1
      <4> QED BY <1>1, <4>2
    <3> QED BY <3>1, <3>2
  <2>5. i - 1 \in 0..N /\ i \in 1..N /\ i - 1 \notin U
    <3>1. i # 0
      BY <2>3, <2>4
    <3> HIDE DEF U, P
    <3> QED BY <2>2, <2>3, <3>1
  <2>6. P(i - 1) /\ f[i] = Grow(t, Avoid, f[i - 1])
    BY <1>1, <2>5
  <2>7. CASE Closed(t, Avoid, f[i - 1])
    <3>1. f[i] = f[i - 1]
      BY <2>6, <2>7 DEF Grow, Closed
    <3> QED BY <2>3, <2>6, <2>7, <3>1
  <2>8. CASE ~Closed(t, Avoid, f[i - 1])
    <3>1. f[i - 1] \in SUBSET f[i] /\ f[i - 1] # f[i]
      BY <2>6, <2>8 DEF Grow, Closed
    <3>2. Cardinality(f[i - 1]) > i - 1
      BY <2>6, <2>8
    <3>3. Cardinality(f[i - 1]) <= Cardinality(f[i]) /\ Cardinality(f[i - 1]) # Cardinality(f[i])
      BY <1>3, <2>3, <3>1, FS_Subset
    <3>4. Cardinality(f[i]) > i
      BY <1>3, <2>3, <2>5, <3>2, <3>3
    <3> QED BY <2>3, <2>6, <3>1, <3>4
  <2> QED BY <2>7, <2>8
<1>5. P(N)
  BY <1>4
<1>6. Closed(t, Avoid, f[N]) /\ S \ Avoid \subseteq f[N]
  BY <1>3, <1>5
<1>7. Reach(t, S, Avoid) \subseteq Blocks \ Avoid
  <2>1. S \ Avoid \subseteq Blocks \ Avoid
    OBVIOUS
  <2>2. Closed(t, Avoid, Blocks \ Avoid)
    BY DEF Closed
  <2> QED BY <2>1, <2>2, ReachLeast
<1> QED BY <1>1, <1>6, <1>7

(* Avoiding less reaches more.                                             *)
LEMMA ReachMonotone ==
  ASSUME NEW t, t.succ \in [Blocks -> SUBSET Blocks], NEW S \in SUBSET Blocks,
         NEW A, NEW B, B \subseteq A
  PROVE  Reach(t, S, A) \subseteq Reach(t, S, B)
<1> DEFINE R == Reach(t, S, B)
<1>1. S \ B \subseteq R /\ Closed(t, B, R)
  BY ReachClosed
<1> HIDE DEF R
<1>2. S \ A \subseteq R /\ Closed(t, A, R)
  BY <1>1 DEF Closed
<1>3. Reach(t, S, A) \subseteq R
  BY <1>2, ReachLeast
<1> QED BY <1>3 DEF R

-----------------------------------------------------------------------------
(* Sequences: what they list.                                              *)
Joined(r, s, t, S) == r \in Seq(S) /\ Range(r) = Range(s) \cup Range(t)

LEMMA RangeConcat ==
  ASSUME NEW S, NEW s \in Seq(S), NEW t \in Seq(S)
  PROVE  Joined(s \o t, s, t, S)
<1>1. /\ s \o t \in Seq(S) /\ Len(s \o t) = Len(s) + Len(t)
      /\ \A n \in 1..Len(s) : (s \o t)[n] = s[n]
      /\ \A n \in 1..Len(t) : (s \o t)[Len(s) + n] = t[n]
      /\ Len(s) \in Nat /\ Len(t) \in Nat
      /\ DOMAIN s = 1..Len(s) /\ DOMAIN t = 1..Len(t) /\ DOMAIN (s \o t) = 1..(Len(s) + Len(t))
  OBVIOUS
<1> DEFINE u == s \o t
<1> HIDE DEF u
<1>2. \A n \in DOMAIN u : (n \in DOMAIN s /\ u[n] = s[n]) \/ \E m \in DOMAIN t : u[n] = t[m]
  <2>1. ASSUME NEW n \in DOMAIN u, n \notin DOMAIN s PROVE \E m \in DOMAIN t : u[n] = t[m]
    <3>1. n - Len(s) \in 1..Len(t) /\ n = Len(s) + (n - Len(s))
      BY <1>1, <2>1 DEF u
    <3> QED BY <1>1, <3>1 DEF u
  <2> QED BY <1>1, <2>1 DEF u
<1>3. \A n \in DOMAIN s : n \in DOMAIN u /\ u[n] = s[n]
  BY <1>1 DEF u
<1>4. \A m \in DOMAIN t : Len(s) + m \in DOMAIN u /\ u[Len(s) + m] = t[m]
  BY <1>1 DEF u
<1>5. Range(u) = Range(s) \cup Range(t)
  BY <1>2, <1>3, <1>4 DEF Range
<1> QED BY <1>1, <1>5 DEF u, Joined

LEMMA RangeLast ==
  ASSUME NEW S, NEW s \in Seq(S), s # <<>>
  PROVE  /\ Last(s) \in S /\ Front(s) \in Seq(S)
         /\ Range(s) = Range(Front(s)) \cup {Last(s)}
<1>1. /\ Len(s) \in Nat /\ Len(s) >= 1 /\ DOMAIN s = 1..Len(s)
      /\ \A n \in 1..Len(s) : s[n] \in S
  OBVIOUS
<1>2. /\ Front(s) \in Seq(S) /\ DOMAIN Front(s) = 1..(Len(s) - 1)
      /\ \A n \in 1..(Len(s) - 1) : Front(s)[n] = s[n]
  BY <1>1 DEF Front
<1>3. Last(s) = s[Len(s)]
  BY DEF Last
<1> QED BY <1>1, <1>2, <1>3 DEF Range

LEMMA RangeHead ==
  ASSUME NEW S, NEW s \in Seq(S), s # <<>>
  PROVE  /\ Head(s) \in S /\ Tail(s) \in Seq(S)
         /\ Range(s) = {Head(s)} \cup Range(Tail(s))
<1>1. /\ Len(s) \in Nat /\ Len(s) >= 1 /\ DOMAIN s = 1..Len(s)
      /\ \A n \in 1..Len(s) : s[n] \in S
  OBVIOUS
<1>2. /\ Tail(s) \in Seq(S) /\ DOMAIN Tail(s) = 1..(Len(s) - 1)
      /\ \A n \in 1..(Len(s) - 1) : Tail(s)[n] = s[n + 1]
      /\ Head(s) = s[1]
  BY <1>1
<1>3. \A n \in DOMAIN s : n = 1 \/ (n - 1 \in DOMAIN Tail(s) /\ s[n] = Tail(s)[n - 1])
  BY <1>1, <1>2
<1>4. \A n \in DOMAIN Tail(s) : n + 1 \in DOMAIN s /\ Tail(s)[n] = s[n + 1]
  BY <1>1, <1>2
<1> QED BY <1>1, <1>2, <1>3, <1>4 DEF Range

(* An order of a finite set lists every element of it: a sequence as long  *)
(* as the set is large that repeats nothing.                               *)
LEMMA OrderLists ==
  ASSUME NEW S, IsFiniteSet(S), NEW s \in SetToSeqs(S)
  PROVE  /\ s \in Seq(S) /\ Range(s) = S /\ Len(s) = Cardinality(S)
         /\ \A i, j \in DOMAIN s : i # j => s[i] # s[j]
<1> DEFINE k == Cardinality(S)
<1>1. k \in Nat
  BY FS_CardinalityType
<1>2. s \in [1..k -> S] /\ \A i, j \in 1..k : i # j => s[i] # s[j]
  BY DEF SetToSeqs
<1> HIDE DEF k
<1>3. s \in Seq(S) /\ Len(s) = k /\ DOMAIN s = 1..k
  BY <1>1, <1>2
<1>4. Range(s) \in SUBSET S
  BY <1>2, <1>3 DEF Range
<1>5. Cardinality(Range(s)) = k
  <2>1. s \in Bijection(1..k, Range(s))
    BY <1>2, <1>3, Fun_IsBij DEF Range
  <2>2. ExistsBijection(1..k, Range(s))
    BY <2>1 DEF ExistsBijection
  <2>3. IsFiniteSet(1..k) /\ Cardinality(1..k) = k
    BY <1>1, FS_Interval
  <2> QED BY <2>2, <2>3, FS_Bijection
<1>6. Range(s) = S
  BY <1>4, <1>5, FS_Subset DEF k
<1> QED BY <1>2, <1>3, <1>6 DEF k

-----------------------------------------------------------------------------
(* The tables the trees are built from.                                    *)
LEMMA TablesTyped ==
  ASSUME NEW u \in [Blocks -> Terminators]
  PROVE  IsTable(PredTbl(u)) /\ IsTable(TemporalPredTbl(u))
<1>1. \A b \in Blocks : Range(u[b].to) \in SUBSET Blocks
  <2>1. ASSUME NEW b \in Blocks PROVE Range(u[b].to) \in SUBSET Blocks
    <3>1. u[b].to \in Seq(Blocks)
      BY DEF Terminators
    <3>2. \A n \in DOMAIN u[b].to : u[b].to[n] \in Blocks
      BY <3>1
    <3> QED BY <3>2 DEF Range
  <2> QED BY <2>1
<1>2. ASSUME NEW f \in [Blocks -> SUBSET Blocks] PROVE IsTable(Table(f))
  BY DEF Table, IsTable
<1> QED BY <1>1, <1>2 DEF PredTbl, TemporalPredTbl

LEMMA BlocksFinite ==
  /\ IsFiniteSet(Blocks) /\ Cardinality(Blocks) = N /\ Entry \in Blocks
  /\ \A S \in SUBSET Blocks : IsFiniteSet(S)
<1>1. IsFiniteSet(Blocks) /\ Cardinality(Blocks) = N /\ Entry \in Blocks
  BY NAssumption, FS_Interval DEF Blocks, Entry
<1> QED BY <1>1, FS_Subset

LEMMA RangeOrder ==
  ASSUME NEW S \in SUBSET Blocks, NEW s \in SetToSeqs(S)
  PROVE  s \in Seq(Blocks) /\ Range(s) = S
<1>1. s \in Seq(S) /\ Range(s) = S
  BY BlocksFinite, OrderLists
<1> QED BY <1>1

-----------------------------------------------------------------------------
(* The depth-first search (domtree.rs:155-185). A block that has been seen *)
(* is finished or waits on the stack, everything seen or waiting is led to *)
(* by a head, and the successors of a block that was opened are seen or    *)
(* waiting. When the stack is empty the finished blocks are therefore      *)
(* exactly the blocks that a head leads to.                                *)
SearchTyped ==
  /\ IsTable(tbl)
  /\ stack \in Seq(Blocks) /\ order \in Seq(Blocks)
  /\ discovered \in SUBSET Blocks /\ finished \in SUBSET Blocks
  /\ pc \in {"order", "sweep", "done", "panicked"}
  /\ idx \in 0..Len(order)

SearchInv ==
  /\ finished \subseteq discovered
  /\ discovered \subseteq finished \cup Range(stack)
  /\ discovered \cup Range(stack) \subseteq Reach(tbl, Heads(tbl), {})
  /\ Heads(tbl) \subseteq discovered \cup Range(stack)
  /\ \A b \in discovered : tbl.succ[b] \subseteq discovered \cup Range(stack)
  /\ pc # "order" => stack = <<>>

TreeInv == SearchTyped /\ SearchInv

LEMMA HeadsReach ==
  ASSUME NEW t, IsTable(t)
  PROVE  /\ Heads(t) \in SUBSET Blocks
         /\ Reach(t, Heads(t), {}) \in SUBSET Blocks
         /\ Heads(t) \subseteq Reach(t, Heads(t), {})
         /\ \A b \in Reach(t, Heads(t), {}) : t.succ[b] \subseteq Reach(t, Heads(t), {})
<1>1. Heads(t) \in SUBSET Blocks
  BY BlocksFinite DEF Heads
<1>2. t.succ \in [Blocks -> SUBSET Blocks]
  BY DEF IsTable
<1>3. /\ Reach(t, Heads(t), {}) \in SUBSET Blocks /\ Heads(t) \ {} \subseteq Reach(t, Heads(t), {})
      /\ Closed(t, {}, Reach(t, Heads(t), {}))
  BY <1>1, <1>2, ReachClosed
<1> QED BY <1>1, <1>3 DEF Closed

(* With nothing left on the stack the search has found what the heads lead *)
(* to.                                                                     *)
LEMMA SearchEnds ==
  ASSUME SearchTyped, SearchInv, stack = <<>>
  PROVE  finished = Reach(tbl, Heads(tbl), {})
<1>1. Range(stack) = {}
  BY DEF Range
<1>2. finished = discovered /\ finished \subseteq Reach(tbl, Heads(tbl), {})
  BY <1>1 DEF SearchInv
<1>3. Heads(tbl) \subseteq finished /\ Closed(tbl, {}, finished)
  BY <1>1, <1>2 DEF SearchInv, Closed
<1>4. Reach(tbl, Heads(tbl), {}) \subseteq finished
  <2>1. Heads(tbl) \in SUBSET Blocks /\ tbl.succ \in [Blocks -> SUBSET Blocks]
    BY HeadsReach DEF SearchTyped, IsTable
  <2>2. Heads(tbl) \ {} \subseteq finished
    BY <1>3
  <2> QED BY <1>3, <2>1, <2>2, ReachLeast
<1> QED BY <1>2, <1>4

LEMMA TreeBegins == Init => TreeInv
<1> SUFFICES ASSUME NEW u \in Units, NEW table \in {PredTbl(u), TemporalPredTbl(u)}, DomInit(table)
             PROVE  TreeInv
  BY DEF Init
<1>1. IsTable(table)
  BY UnitsAssumption, TablesTyped
<1>2. PICK dead \in Orders({b \in Blocks : table.pred[b] = {}}) : stack = <<Entry>> \o dead
  BY DEF DomInit
<1>3. dead \in Seq(Blocks) /\ Range(dead) = {b \in Blocks : table.pred[b] = {}}
  BY <1>2, RangeOrder DEF Orders
<1>4. <<Entry>> \in Seq(Blocks) /\ Range(<<Entry>>) = {Entry}
  BY BlocksFinite DEF Range
<1>5. stack \in Seq(Blocks) /\ Range(stack) = Heads(table)
  <2>1. Joined(<<Entry>> \o dead, <<Entry>>, dead, Blocks)
    BY ONLY <1>3, <1>4, RangeConcat
  <2> QED BY <1>2, <1>3, <1>4, <2>1 DEF Heads, Joined
<1>6. tbl = table /\ discovered = {} /\ finished = {} /\ order = <<>> /\ idx = 0 /\ pc = "order"
  BY DEF DomInit
<1>7. SearchTyped
  BY <1>1, <1>5, <1>6 DEF SearchTyped
<1>8. SearchInv
  BY <1>1, <1>5, <1>6, HeadsReach DEF SearchInv
<1> QED BY <1>6, <1>7, <1>8 DEF TreeInv

(* Opening the block on top of the stack: it is led to, so its successors  *)
(* are.                                                                    *)
LEMMA TreeDiscover == TreeInv /\ Discover => TreeInv'
<1> SUFFICES ASSUME TreeInv, Discover PROVE TreeInv'
  OBVIOUS
<1> DEFINE b == Last(stack)
<1>1. b \in Blocks /\ b \in Range(stack)
  <2>1. stack \in Seq(Blocks) /\ stack # <<>>
    BY DEF TreeInv, SearchTyped, Discover
  <2>2. Last(stack) \in Blocks /\ Range(stack) = Range(Front(stack)) \cup {Last(stack)}
    BY ONLY <2>1, RangeLast
  <2> QED BY ONLY <2>2
<1>2. tbl.succ[b] \in SUBSET Blocks
  BY <1>1 DEF TreeInv, SearchTyped, IsTable
<1>3. PICK succs \in Orders(tbl.succ[b] \ discovered') : stack' = stack \o succs
  BY DEF Discover
<1>4. succs \in Seq(Blocks) /\ Range(succs) = tbl.succ[b] \ discovered'
  BY <1>2, <1>3, RangeOrder DEF Orders
<1>5. stack' \in Seq(Blocks) /\ Range(stack') = Range(stack) \cup (tbl.succ[b] \ discovered')
  <2>1. stack \in Seq(Blocks) /\ succs \in Seq(Blocks)
    BY <1>4 DEF TreeInv, SearchTyped
  <2>2. Joined(stack \o succs, stack, succs, Blocks)
    BY ONLY <2>1, RangeConcat
  <2> QED BY ONLY <1>3, <1>4, <2>2 DEF Joined
<1>6. /\ discovered' = discovered \cup {b} /\ pc = "order"
      /\ UNCHANGED <<tbl, finished, order, idx, pc>>
  BY DEF Discover
<1> HIDE DEF b
<1>7. tbl.succ[b] \subseteq Reach(tbl, Heads(tbl), {})
  BY <1>1, HeadsReach DEF TreeInv, SearchTyped, SearchInv
<1>8. SearchTyped'
  BY <1>1, <1>5, <1>6 DEF TreeInv, SearchTyped, IsTable
<1>9. SearchInv'
  BY <1>1, <1>5, <1>6, <1>7 DEF TreeInv, SearchInv, Heads
<1> QED BY <1>6, <1>8, <1>9 DEF TreeInv

LEMMA TreeFinish == TreeInv /\ Finish => TreeInv'
<1> SUFFICES ASSUME TreeInv, Finish PROVE TreeInv'
  OBVIOUS
<1> DEFINE b == Last(stack)
<1>1. b \in Blocks /\ Front(stack) \in Seq(Blocks) /\ Range(stack) = Range(Front(stack)) \cup {b}
  BY RangeLast DEF TreeInv, SearchTyped, Finish
<1>2. /\ b \in discovered /\ stack' = Front(stack) /\ finished' = finished \cup {b}
      /\ order' = IF b \in finished THEN order ELSE Append(order, b)
      /\ pc = "order" /\ UNCHANGED <<tbl, discovered, idx, pc>>
  BY DEF Finish
<1> HIDE DEF b
<1>3. order' \in Seq(Blocks) /\ idx \in 0..Len(order')
  BY <1>1, <1>2 DEF TreeInv, SearchTyped
<1>4. SearchTyped'
  BY <1>1, <1>2, <1>3 DEF TreeInv, SearchTyped, IsTable
<1>5. SearchInv'
  BY <1>1, <1>2 DEF TreeInv, SearchInv, Heads
<1> QED BY <1>2, <1>4, <1>5 DEF TreeInv

(* The sweeps leave the search as it is.                                   *)
LEMMA TreeSweeps ==
  ASSUME TreeInv, MarkRoots \/ Visit \/ Again \/ Converged
  PROVE  TreeInv'
<1>1. stack = <<>> /\ UNCHANGED <<tbl, stack, discovered, finished, order>>
  BY DEF TreeInv, SearchInv, MarkRoots, Visit, Again, Converged
<1>2. idx' \in 0..Len(order) /\ pc' \in {"order", "sweep", "done", "panicked"}
  BY DEF TreeInv, SearchTyped, MarkRoots, Visit, Again, Converged
<1> QED BY <1>1, <1>2 DEF TreeInv, SearchTyped, SearchInv, IsTable, Heads

LEMMA TreeSteps == TreeInv /\ [Next]_vars => TreeInv'
<1> SUFFICES ASSUME TreeInv, [Next]_vars PROVE TreeInv'
  OBVIOUS
<1>1. CASE DomNext
  BY <1>1, TreeDiscover, TreeFinish, TreeSweeps DEF DomNext
<1>2. CASE UNCHANGED domVars
  BY <1>2 DEF domVars, TreeInv, SearchTyped, SearchInv
<1> QED BY <1>1, <1>2 DEF Next, Regions, Tree, vars

-----------------------------------------------------------------------------
(* The post-order (domtree.rs:155-185). A block on the stack that is no    *)
(* head was pushed by a predecessor that is still open, below it; so a     *)
(* block is finished before one of its predecessors is.                    *)
OpenAt(j) ==
  /\ stack[j] \in discovered \ finished
  /\ \A m \in DOMAIN stack : m > j => stack[m] # stack[j]

Pushed(i) ==
  \/ stack[i] \in Roots
  \/ \E j \in DOMAIN stack : j < i /\ OpenAt(j) /\ stack[j] \in tbl.pred[stack[i]]

Preceded(i) ==
  \/ order[i] \in Roots
  \/ \E p \in tbl.pred[order[i]] :
       \/ p \in discovered \ finished
       \/ \E j \in Places : j > i /\ order[j] = p

OrderInv ==
  /\ Range(order) = finished
  /\ \A i, j \in Places : i # j => order[i] # order[j]
  /\ \A i \in DOMAIN stack : Pushed(i)
  /\ \A i \in Places : Preceded(i)

-----------------------------------------------------------------------------
(* The sweeps.                                                             *)
Sweeping == pc \in {"sweep", "done"}
Known(i) == doms[i] # Undef

SweepTyped ==
  /\ doms \in [Places -> Places \cup {Undef}] /\ changed \in BOOLEAN
  /\ \A i \in Places : Known(i) => Known(doms[i])
  /\ \A i \in Places : i > idx => Known(i)
  /\ \A i \in Places : order[i] \in Roots => doms[i] = i

Alone(h) == {b \in Blocks : {k \in Roots : b \in Reach(tbl, {k}, {})} = {h}}
Later(y) == {order[c] : c \in {e \in Places : e > y}}
Below(y) == Reach(tbl, {order[y]}, Later(y))
Fit(h, i) ==
  /\ order[doms[i]] \in Alone(h) /\ doms[i] > i /\ order[i] \in Below(doms[i])
  /\ \A d \in Blocks \ {order[i]} : OnEveryPath(tbl, h, d, order[i]) =>
       \E e \in Places : order[e] = d /\ e >= doms[i]
Above(q) == {y \in Places : \A S \in SUBSET Places :
               q \in S /\ (\A i \in S : Known(i) => doms[i] \in S) => y \in S}
Settled(h, i) ==
  \A p \in Places : order[p] \in tbl.pred[order[i]] /\ Known(p) => doms[i] \in Above(p)

SweepInv ==
  Sweeping =>
    /\ SweepTyped
    /\ \A h \in Roots : \A i \in Places : order[i] \in Alone(h) \ {h} =>
         /\ Known(i) => Fit(h, i)
         /\ ~changed /\ i > idx => Settled(h, i)
    /\ pc = "done" =>
         /\ finished = Blocks /\ idx = 0 /\ ~changed
         /\ tree = [b \in Blocks |-> order[doms[Place(b)]]] /\ dominated = UpFrom(tree)

LEMMA OrderBegins == Init => OrderInv
<1> SUFFICES ASSUME NEW u \in Units, NEW table \in {PredTbl(u), TemporalPredTbl(u)}, DomInit(table)
             PROVE  OrderInv
  BY DEF Init
<1>1. IsTable(table)
  BY UnitsAssumption, TablesTyped
<1>2. PICK dead \in Orders({b \in Blocks : table.pred[b] = {}}) : stack = <<Entry>> \o dead
  BY DEF DomInit
<1>3. dead \in Seq(Blocks) /\ Range(dead) = {b \in Blocks : table.pred[b] = {}}
  BY <1>2, RangeOrder DEF Orders
<1>4. <<Entry>> \in Seq(Blocks) /\ Range(<<Entry>>) = {Entry}
  BY BlocksFinite DEF Range
<1>5. Range(stack) = Heads(table)
  <2>1. Joined(<<Entry>> \o dead, <<Entry>>, dead, Blocks)
    BY ONLY <1>3, <1>4, RangeConcat
  <2> QED BY <1>2, <1>3, <1>4, <2>1 DEF Heads, Joined
<1>6. tbl = table /\ finished = {} /\ order = <<>>
  BY DEF DomInit
<1>7. ASSUME NEW i \in DOMAIN stack PROVE Pushed(i)
  <2>1. stack[i] \in Range(stack)
    BY DEF Range
  <2>2. stack[i] \in Roots
    BY <1>5, <1>6, <2>1 DEF Roots
  <2> QED BY <2>2 DEF Pushed
<1>8. Places = {} /\ Range(order) = {}
  BY <1>6 DEF Places, Range
<1> QED BY <1>6, <1>7, <1>8 DEF OrderInv

(* A discovered block puts successors on the stack that are not open.      *)
LEMMA OrderDiscover == TreeInv /\ OrderInv /\ Discover => OrderInv'
<1> SUFFICES ASSUME TreeInv, OrderInv, Discover PROVE OrderInv'
  OBVIOUS
<1>0. PICK b, n : b = Last(stack) /\ n = Len(stack)
  OBVIOUS
<1>1. /\ stack \in Seq(Blocks) /\ stack # <<>> /\ b \notin discovered
      /\ discovered' = discovered \cup {b} /\ finished \subseteq discovered
      /\ UNCHANGED <<tbl, finished, order>>
  BY <1>0 DEF TreeInv, SearchTyped, SearchInv, Discover
<1>2. n \in Nat /\ n > 0 /\ DOMAIN stack = 1..n /\ b = stack[n] /\ b \in Blocks
  BY <1>0, <1>1 DEF Last
<1>3. PICK succs \in Orders(tbl.succ[b] \ discovered') : stack' = stack \o succs
  BY <1>0, <1>1 DEF Discover
<1>4. tbl.succ[b] \in SUBSET Blocks /\ tbl.pred = [c \in Blocks |-> {a \in Blocks : c \in tbl.succ[a]}]
  BY <1>2 DEF TreeInv, SearchTyped, IsTable
<1>5. succs \in Seq(Blocks) /\ Range(succs) = tbl.succ[b] \ discovered'
  BY <1>3, <1>4, RangeOrder DEF Orders
<1>6. /\ Len(succs) \in Nat /\ DOMAIN stack' = 1..(n + Len(succs))
      /\ \A i \in 1..n : stack'[i] = stack[i]
      /\ \A i \in (n + 1)..(n + Len(succs)) : stack'[i] \in tbl.succ[b] \ discovered'
  <2>1. /\ Len(succs) \in Nat /\ DOMAIN succs = 1..Len(succs)
        /\ \A i \in DOMAIN succs : succs[i] \in tbl.succ[b] \ discovered'
    BY <1>5 DEF Range
  <2>2. \A i \in (n + 1)..(n + Len(succs)) : stack'[i] = succs[i - n] /\ i - n \in 1..Len(succs)
    BY <1>0, <1>1, <1>2, <1>3, <1>5, <2>1
  <2>3. DOMAIN stack' = 1..(n + Len(succs)) /\ \A i \in 1..n : stack'[i] = stack[i]
    BY <1>0, <1>1, <1>2, <1>3, <1>5, <2>1
  <2> QED BY <2>1, <2>2, <2>3
<1>7. OpenAt(n)'
  <2>1. stack'[n] = b /\ b \in discovered' \ finished'
    BY <1>1, <1>2, <1>6
  <2>2. ASSUME NEW m \in DOMAIN stack', m > n PROVE stack'[m] # stack'[n]
    <3>1. m \in (n + 1)..(n + Len(succs))
      BY <1>2, <1>6, <2>2
    <3> QED BY <1>1, <1>6, <2>1, <3>1
  <2> QED BY <2>1, <2>2 DEF OpenAt
<1>8. ASSUME NEW j \in 1..n, OpenAt(j) PROVE OpenAt(j)'
  <2>1. stack'[j] = stack[j] /\ stack[j] \in discovered \ finished
    BY <1>6, <1>8 DEF OpenAt
  <2>2. ASSUME NEW m \in DOMAIN stack', m > j PROVE stack'[m] # stack'[j]
    <3>1. CASE m \in 1..n
      BY <1>2, <1>6, <1>8, <2>1, <2>2, <3>1 DEF OpenAt
    <3>2. CASE m \in (n + 1)..(n + Len(succs))
      BY <1>1, <1>6, <2>1, <3>2
    <3> QED BY <1>2, <1>6, <3>1, <3>2
  <2> QED BY <1>1, <2>1, <2>2 DEF OpenAt
<1>9. \A i \in DOMAIN stack' : Pushed(i)'
  <2>1. ASSUME NEW i \in 1..n PROVE Pushed(i)'
    <3>1. Pushed(i)
      BY <1>2 DEF OrderInv
    <3> QED BY <1>1, <1>2, <1>6, <1>8, <3>1 DEF Pushed, Roots
  <2>2. ASSUME NEW i \in (n + 1)..(n + Len(succs)) PROVE Pushed(i)'
    <3>1. stack'[i] \in tbl.succ[b] /\ stack'[i] \in Blocks
      BY <1>4, <1>6
    <3>2. b \in tbl.pred[stack'[i]]
      BY <1>2, <1>4, <3>1
    <3>3. n \in DOMAIN stack' /\ n < i /\ stack'[n] = b
      BY <1>2, <1>6
    <3> QED BY <1>1, <1>7, <3>2, <3>3 DEF Pushed
  <2> QED BY <1>2, <1>6, <2>1, <2>2
<1>10. \A i \in Places : Preceded(i)'
  <2> SUFFICES ASSUME NEW i \in Places PROVE Preceded(i)'
    OBVIOUS
  <2>1. Preceded(i)
    BY DEF OrderInv
  <2> QED BY <1>1, <2>1 DEF Preceded, Roots, Places
<1>11. Places' = Places
  BY <1>1 DEF Places
<1> QED BY <1>1, <1>9, <1>10, <1>11 DEF OrderInv

(* A block that is finished leaves an open predecessor behind it, unless   *)
(* it is a head.                                                           *)
LEMMA OrderFinish == TreeInv /\ OrderInv /\ Finish => OrderInv'
<1> SUFFICES ASSUME TreeInv, OrderInv, Finish PROVE OrderInv'
  OBVIOUS
<1>0. PICK b, n, k : b = Last(stack) /\ n = Len(stack) /\ k = Len(order) + 1
  OBVIOUS
<1>1. /\ stack \in Seq(Blocks) /\ stack # <<>> /\ b \in discovered
      /\ stack' = Front(stack) /\ finished' = finished \cup {b}
      /\ order' = IF b \in finished THEN order ELSE Append(order, b)
      /\ order \in Seq(Blocks) /\ finished \subseteq discovered
      /\ UNCHANGED <<tbl, discovered>>
  BY <1>0 DEF TreeInv, SearchTyped, SearchInv, Finish
<1>2. n \in Nat /\ n > 0 /\ DOMAIN stack = 1..n /\ b = stack[n] /\ b \in Blocks
  BY <1>0, <1>1 DEF Last
<1>3. DOMAIN stack' = 1..(n - 1) /\ \A i \in 1..(n - 1) : stack'[i] = stack[i]
  BY <1>0, <1>1, <1>2 DEF Front
<1>4. ASSUME NEW j \in 1..(n - 1), OpenAt(j) PROVE OpenAt(j)' /\ stack[j] # b
  <2>1. stack[j] # b
    BY <1>2, <1>4 DEF OpenAt
  <2> QED BY <1>1, <1>2, <1>3, <1>4, <2>1 DEF OpenAt
<1>5. \A i \in DOMAIN stack' : Pushed(i)'
  <2> SUFFICES ASSUME NEW i \in 1..(n - 1) PROVE Pushed(i)'
    BY <1>3
  <2>1. Pushed(i)
    BY <1>2 DEF OrderInv
  <2>2. CASE stack[i] \in Roots
    BY <1>1, <1>3, <2>2 DEF Pushed, Roots
  <2>3. CASE \E j \in DOMAIN stack : j < i /\ OpenAt(j) /\ stack[j] \in tbl.pred[stack[i]]
    <3>1. PICK j \in DOMAIN stack : j < i /\ OpenAt(j) /\ stack[j] \in tbl.pred[stack[i]]
      BY <2>3
    <3>2. j \in 1..(n - 1)
      BY <1>2, <3>1
    <3> QED BY <1>1, <1>3, <1>4, <3>1, <3>2 DEF Pushed
  <2> QED BY <2>1, <2>2, <2>3 DEF Pushed
<1>6. /\ Places \subseteq Places' /\ \A i \in Places : order'[i] = order[i] /\ i \in Nat
      /\ b \notin finished =>
           /\ Places' = Places \cup {k} /\ order'[k] = b
           /\ \A i \in Places : i < k
      /\ b \in finished => Places' = Places
  BY <1>0, <1>1, <1>2 DEF Places
<1>7. Range(order') = finished'
  <2>1. CASE b \in finished
    BY <1>1, <2>1 DEF OrderInv
  <2>2. CASE b \notin finished
    <3>1. Range(order) = {order[i] : i \in Places} /\ Range(order') = {order'[i] : i \in Places'}
      BY DEF Range, Places
    <3>2. Range(order) = finished
      BY DEF OrderInv
    <3>3. Range(order') = Range(order) \cup {b}
      BY <1>6, <2>2, <3>1
    <3> QED BY <1>1, <3>2, <3>3
  <2> QED BY <2>1, <2>2
<1>8. \A i \in Places : order[i] \in finished
  BY DEF OrderInv, Range, Places
<1>9. \A i, j \in Places' : i # j => order'[i] # order'[j]
  BY <1>6, <1>8 DEF OrderInv
<1>10. ASSUME NEW i \in Places PROVE Preceded(i)'
  <2>1. Preceded(i)
    BY DEF OrderInv
  <2>2. CASE order[i] \in Roots
    BY <1>1, <1>6, <2>2 DEF Preceded, Roots
  <2>3. ASSUME NEW p \in tbl.pred[order[i]], p \in discovered \ finished PROVE Preceded(i)'
    <3>1. CASE p = b
      <4>1. k \in Places' /\ k > i /\ order'[k] = p
        BY <1>1, <1>6, <2>3, <3>1
      <4> QED BY <1>1, <1>6, <2>3, <4>1 DEF Preceded
    <3>2. CASE p # b
      BY <1>1, <1>6, <2>3, <3>2 DEF Preceded
    <3> QED BY <3>1, <3>2
  <2>4. ASSUME NEW j \in Places, j > i, order[j] \in tbl.pred[order[i]] PROVE Preceded(i)'
    BY <1>1, <1>6, <2>4 DEF Preceded
  <2> QED BY <2>1, <2>2, <2>3, <2>4 DEF Preceded
<1>11. ASSUME b \notin finished PROVE Preceded(k)'
  <2>1. Pushed(n)
    BY <1>2 DEF OrderInv
  <2>2. CASE b \in Roots
    BY <1>1, <1>6, <1>11, <2>2 DEF Preceded, Roots
  <2>3. CASE \E j \in DOMAIN stack : j < n /\ OpenAt(j) /\ stack[j] \in tbl.pred[stack[n]]
    <3>1. PICK j \in DOMAIN stack : j < n /\ OpenAt(j) /\ stack[j] \in tbl.pred[stack[n]]
      BY <2>3
    <3>2. j \in 1..(n - 1)
      BY <1>2, <3>1
    <3>3. stack[j] \in tbl.pred[b] /\ stack[j] \in discovered \ finished /\ stack[j] # b
      BY <1>2, <1>4, <3>1, <3>2 DEF OpenAt
    <3> QED BY <1>1, <1>6, <1>11, <3>3 DEF Preceded
  <2> QED BY <1>2, <2>1, <2>2, <2>3 DEF Pushed
<1>12. \A i \in Places' : Preceded(i)'
  BY <1>6, <1>10, <1>11
<1> QED BY <1>5, <1>7, <1>9, <1>12 DEF OrderInv

LEMMA OrderSteps == TreeInv /\ OrderInv /\ [Next]_vars => OrderInv'
<1> SUFFICES ASSUME TreeInv, OrderInv, [Next]_vars PROVE OrderInv'
  OBVIOUS
<1>1. CASE MarkRoots \/ Visit \/ Again \/ Converged \/ UNCHANGED domVars
  <2>1. UNCHANGED <<tbl, stack, discovered, finished, order>>
    BY <1>1 DEF MarkRoots, Visit, Again, Converged, domVars
  <2> QED BY <2>1 DEF OrderInv, Pushed, Preceded, OpenAt, Places, Roots
<1> QED BY <1>1, OrderDiscover, OrderFinish DEF Next, Regions, Tree, vars, DomNext

-----------------------------------------------------------------------------
(* More about reachability: going on from a block that is reached.         *)
LEMMA ReachThrough ==
  ASSUME NEW t, t.succ \in [Blocks -> SUBSET Blocks], NEW S \in SUBSET Blocks, NEW A,
         NEW x \in Reach(t, S, A)
  PROVE  Reach(t, {x}, A) \subseteq Reach(t, S, A)
<1> DEFINE R == Reach(t, S, A)
<1>1. R \in SUBSET Blocks /\ Closed(t, A, R)
  BY ReachClosed
<1> HIDE DEF R
<1>2. {x} \in SUBSET Blocks /\ {x} \ A \subseteq R
  BY <1>1 DEF R
<1>3. Reach(t, {x}, A) \subseteq R
  BY <1>1, <1>2, ReachLeast
<1> QED BY <1>3 DEF R

LEMMA ReachStep ==
  ASSUME NEW t, t.succ \in [Blocks -> SUBSET Blocks], NEW S \in SUBSET Blocks, NEW A,
         NEW x \in Reach(t, S, A), NEW y \in t.succ[x], y \notin A
  PROVE  y \in Reach(t, S, A)
<1>1. Closed(t, A, Reach(t, S, A))
  BY ReachClosed
<1> QED BY <1>1 DEF Closed

(* The places list the finished blocks, each of them once.                 *)
LEMMA PlaceFacts ==
  ASSUME TreeInv, OrderInv
  PROVE  /\ Len(order) \in Nat /\ Places = 1..Len(order)
         /\ \A i \in Places : order[i] \in Blocks /\ order[i] \in finished /\ Place(order[i]) = i
         /\ \A b \in finished : Place(b) \in Places /\ order[Place(b)] = b
<1>1. Len(order) \in Nat /\ Places = 1..Len(order) /\ \A i \in Places : order[i] \in Blocks
  BY DEF TreeInv, SearchTyped, Places
<1>2. \A i \in Places : order[i] \in finished
  BY DEF OrderInv, Range, Places
<1>3. \A b \in finished : \E i \in Places : order[i] = b
  BY DEF OrderInv, Range, Places
<1>4. \A b \in finished : Place(b) \in Places /\ order[Place(b)] = b
  BY <1>3 DEF Place
<1>5. \A i \in Places : Place(order[i]) = i
  BY <1>2, <1>4 DEF OrderInv
<1> QED BY <1>1, <1>2, <1>4, <1>5

(* Every finished block is led to by a head of its own.                    *)
LEMMA LedToByOne ==
  ASSUME TreeInv, pc # "order"
  PROVE  \A b \in finished : \E k \in Roots : b \in Reach(tbl, {k}, {})
<1> DEFINE T == {b \in Blocks : \E k \in Roots : b \in Reach(tbl, {k}, {})}
<1>1. /\ tbl.succ \in [Blocks -> SUBSET Blocks] /\ Roots \in SUBSET Blocks
      /\ finished = Reach(tbl, Roots, {})
  BY HeadsReach, SearchEnds DEF TreeInv, SearchTyped, SearchInv, IsTable, Roots
<1>2. Roots \ {} \subseteq T
  <2>1. ASSUME NEW k \in Roots PROVE k \in Reach(tbl, {k}, {})
    <3>1. {k} \in SUBSET Blocks
      BY <1>1
    <3>2. {k} \ {} \subseteq Reach(tbl, {k}, {})
      BY <1>1, <3>1, ReachClosed
    <3> QED BY <3>2
  <2> QED BY <1>1, <2>1
<1>3. Closed(tbl, {}, T)
  <2>1. ASSUME NEW a \in T, NEW c \in tbl.succ[a] PROVE c \in T
    <3>1. PICK k \in Roots : a \in Reach(tbl, {k}, {})
      OBVIOUS
    <3>2. {k} \in SUBSET Blocks
      BY <1>1
    <3>3. c \in Reach(tbl, {k}, {})
      BY <1>1, <2>1, <3>1, <3>2, ReachStep
    <3>4. c \in Blocks
      BY <1>1, <2>1
    <3> QED BY <3>3, <3>4
  <2> HIDE DEF T
  <2> QED BY <2>1 DEF Closed
<1>4. Reach(tbl, Roots, {}) \subseteq T
  <2> HIDE DEF T
  <2> QED BY <1>1, <1>2, <1>3, ReachLeast
<1> QED BY <1>1, <1>4

(* What a single head leads to: its predecessors, too, are led to by that  *)
(* head and by no other.                                                   *)
LEMMA AloneFacts ==
  ASSUME TreeInv, pc # "order", NEW h \in Roots
  PROVE  /\ Alone(h) \subseteq finished
         /\ \A b \in Alone(h) : b \in Reach(tbl, {h}, {}) /\ h \in Alone(h)
         /\ \A k \in Roots : k \in Alone(h) => k = h
         /\ \A b \in Alone(h) : \A a \in tbl.pred[b] : a \in finished => a \in Alone(h)
<1>1. /\ tbl.succ \in [Blocks -> SUBSET Blocks] /\ Roots \in SUBSET Blocks
      /\ finished = Reach(tbl, Roots, {}) /\ finished \in SUBSET Blocks
      /\ tbl.pred = [b \in Blocks |-> {a \in Blocks : b \in tbl.succ[a]}]
  BY HeadsReach, SearchEnds DEF TreeInv, SearchTyped, SearchInv, IsTable, Roots
<1>2. ASSUME NEW k \in Roots PROVE {k} \in SUBSET Blocks /\ k \in Reach(tbl, {k}, {})
  <2>1. {k} \in SUBSET Blocks
    BY <1>1
  <2>2. {k} \ {} \subseteq Reach(tbl, {k}, {})
    BY <1>1, <2>1, ReachClosed
  <2> QED BY <2>1, <2>2
<1>3. ASSUME NEW b \in Alone(h)
      PROVE  b \in Blocks /\ b \in Reach(tbl, {h}, {}) /\ \A k \in Roots : b \in Reach(tbl, {k}, {}) => k = h
  BY DEF Alone
<1>4. ASSUME NEW b \in Blocks, b \in Reach(tbl, {h}, {}),
             \A k \in Roots : b \in Reach(tbl, {k}, {}) => k = h
      PROVE  b \in Alone(h)
  BY <1>4 DEF Alone
<1>5. ASSUME NEW b \in Alone(h) PROVE b \in finished /\ h \in Alone(h)
  <2>1. b \in finished
    <3>1. h \in Reach(tbl, Roots, {})
      <4>1. Roots \ {} \subseteq Reach(tbl, Roots, {})
        BY <1>1, ReachClosed
      <4> QED BY <4>1
    <3>2. Reach(tbl, {h}, {}) \subseteq Reach(tbl, Roots, {})
      BY <1>1, <3>1, ReachThrough
    <3> QED BY <1>1, <1>3, <3>2
  <2>2. ASSUME NEW k \in Roots, h \in Reach(tbl, {k}, {}) PROVE k = h
    <3>1. Reach(tbl, {h}, {}) \subseteq Reach(tbl, {k}, {})
      BY <1>1, <1>2, <2>2, ReachThrough
    <3> QED BY <1>3, <3>1
  <2> QED BY <1>1, <1>2, <1>4, <2>1, <2>2
<1>6. ASSUME NEW k \in Roots, k \in Alone(h) PROVE k = h
  BY <1>2, <1>3, <1>6
<1>7. ASSUME NEW b \in Alone(h), NEW a \in tbl.pred[b], a \in finished PROVE a \in Alone(h)
  <2>1. b \in Blocks /\ a \in Blocks /\ b \in tbl.succ[a]
    BY <1>1, <1>3, <1>7
  <2>2. ASSUME NEW k \in Roots, a \in Reach(tbl, {k}, {}) PROVE k = h
    <3>1. b \in Reach(tbl, {k}, {})
      BY <1>1, <1>2, <2>1, <2>2, ReachStep
    <3> QED BY <1>3, <3>1
  <2>3. PICK k \in Roots : a \in Reach(tbl, {k}, {})
    BY <1>7, LedToByOne
  <2>4. k = h
    BY <2>2, <2>3
  <2> QED BY <1>4, <2>1, <2>2, <2>3, <2>4
<1> QED BY <1>3, <1>5, <1>6, <1>7

-----------------------------------------------------------------------------
(* The places that a single head leads to, with the dominators known of    *)
(* them so far.                                                            *)
Ranked(h) == {j \in Places : Known(j) /\ order[j] \in Alone(h)}
Over(h, j) == {d \in Blocks : OnEveryPath(tbl, h, d, order[j])}

Fitted(h) ==
  /\ TreeInv /\ OrderInv /\ SweepTyped /\ pc # "order" /\ h \in Roots
  /\ \A i \in Places : order[i] \in Alone(h) \ {h} /\ Known(i) => Fit(h, i)

(* A finger on them climbs, passes no block that dominates where it comes  *)
(* from, and halts at the head, which is above all others.                 *)
Climbable(h) ==
  /\ \A j \in Ranked(h) : j \in Places /\ doms[j] \in Ranked(h)
  /\ \A j \in Ranked(h) : order[j] # h => doms[j] > j
  /\ \A j \in Ranked(h) : order[j] = h => doms[j] = j /\ \A k \in Ranked(h) : k <= j
  /\ \A j \in Ranked(h) : \A d \in Over(h, j) : d # order[j] => d \in Over(h, doms[j])
  /\ \A j \in Ranked(h) : \A d \in Over(h, j) : \E e \in Places : e >= j /\ order[e] = d

LEMMA FittedClimbs == ASSUME NEW h, Fitted(h) PROVE Climbable(h)
<1>1. TreeInv /\ OrderInv /\ SweepTyped /\ pc # "order" /\ h \in Roots
  BY DEF Fitted
<1>2. /\ Len(order) \in Nat /\ Places = 1..Len(order)
      /\ \A i \in Places : order[i] \in Blocks /\ order[i] \in finished /\ Place(order[i]) = i
      /\ \A b \in finished : Place(b) \in Places /\ order[Place(b)] = b
  BY ONLY <1>1, PlaceFacts
<1>3. tbl.succ \in [Blocks -> SUBSET Blocks] /\ Roots \in SUBSET Blocks
  BY <1>1, HeadsReach DEF TreeInv, SearchTyped, IsTable, Roots
<1>4. ASSUME NEW j \in Ranked(h) PROVE j \in Places /\ Known(j) /\ doms[j] \in Places
  <2>1. j \in Places /\ Known(j)
    BY DEF Ranked
  <2>2. doms[j] \in Places
    BY <1>1, <2>1 DEF SweepTyped, Known
  <2> QED BY <2>1, <2>2
<1>5. ASSUME NEW j \in Ranked(h), order[j] # h PROVE Fit(h, j) /\ doms[j] \in Ranked(h) /\ doms[j] > j
  <2>1. Fit(h, j)
    BY <1>5 DEF Fitted, Ranked
  <2>2. order[doms[j]] \in Alone(h) /\ doms[j] > j
    BY <2>1 DEF Fit
  <2>3. Known(doms[j])
    BY <1>1, <1>4 DEF SweepTyped
  <2> QED BY <1>4, <2>1, <2>2, <2>3 DEF Ranked
<1>6. ASSUME NEW j \in Ranked(h), order[j] = h PROVE doms[j] = j
  BY <1>1, <1>4, <1>6 DEF SweepTyped
<1>7. ASSUME NEW j \in Ranked(h), NEW d \in Over(h, j) PROVE \E e \in Places : e >= j /\ order[e] = d
  <2>1. CASE d = order[j]
    BY <1>2, <1>4, <2>1
  <2>2. CASE d # order[j] /\ order[j] # h
    <3>1. d \in Blocks \ {order[j]} /\ OnEveryPath(tbl, h, d, order[j])
      BY <2>2 DEF Over
    <3>2. PICK e \in Places : order[e] = d /\ e >= doms[j]
      BY <1>5, <2>2, <3>1 DEF Fit
    <3>3. e \in Nat /\ j \in Nat /\ doms[j] \in Nat /\ doms[j] > j
      BY <1>2, <1>4, <1>5, <2>2
    <3> QED BY <3>2, <3>3
  <2>3. CASE d # order[j] /\ order[j] = h
    <3>1. d \in Blocks /\ h \notin Reach(tbl, {h}, {d})
      BY <2>3 DEF Over, OnEveryPath
    <3>2. {h} \in SUBSET Blocks
      BY <1>1, <1>3
    <3>3. {h} \ {d} \subseteq Reach(tbl, {h}, {d})
      BY <1>3, <3>2, ReachClosed
    <3> QED BY <2>3, <3>1, <3>3
  <2> QED BY <2>1, <2>2, <2>3
<1>8. ASSUME NEW j \in Ranked(h), order[j] = h, NEW k \in Ranked(h) PROVE k <= j
  <2>1. h \in Over(h, k)
    <3>1. {h} \in SUBSET Blocks /\ h \in Blocks
      BY <1>1, <1>3
    <3>2. Reach(tbl, {h}, {h}) \subseteq {}
      <4>1. {h} \ {h} \subseteq {} /\ Closed(tbl, {h}, {})
        BY DEF Closed
      <4> QED BY <1>3, <3>1, <4>1, ReachLeast
    <3> QED BY <3>1, <3>2 DEF Over, OnEveryPath
  <2>2. PICK e \in Places : e >= k /\ order[e] = h
    BY <1>7, <2>1
  <2>3. e = j
    BY <1>2, <1>4, <1>8, <2>2
  <2> QED BY <1>2, <1>4, <2>2, <2>3
<1>9. ASSUME NEW j \in Ranked(h), NEW d \in Over(h, j), d # order[j] PROVE d \in Over(h, doms[j])
  <2>1. CASE order[j] = h
    BY <1>6, <2>1
  <2>2. CASE order[j] # h
    <3> DEFINE q == doms[j]
    <3>1. q \in Places /\ q \in Nat /\ order[q] \in Blocks
      BY <1>2, <1>4
    <3>2. d \in Blocks /\ order[j] \notin Reach(tbl, {h}, {d})
      BY DEF Over, OnEveryPath
    <3>3. order[j] \in Reach(tbl, {order[q]}, Later(q))
      BY <1>5, <2>2 DEF Fit, Below
    <3>4. PICK e \in Places : order[e] = d /\ e >= q
      <4>1. d \in Blocks \ {order[j]} /\ OnEveryPath(tbl, h, d, order[j])
        BY <1>9 DEF Over
      <4> QED BY <1>5, <2>2, <4>1 DEF Fit
    <3> HIDE DEF q
    <3> SUFFICES ASSUME d \notin Over(h, q) PROVE FALSE
      BY DEF q
    <3>5. order[q] \in Reach(tbl, {h}, {d})
      BY <3>2 DEF Over, OnEveryPath
    <3>6. {h} \in SUBSET Blocks /\ {order[q]} \in SUBSET Blocks
      BY <1>1, <1>3, <3>1
    <3>7. order[q] # d
      <4>1. Reach(tbl, {h}, {d}) \cap {d} = {}
        BY <1>3, <3>6, ReachClosed
      <4> QED BY <3>5, <4>1
    <3>8. e > q /\ d \in Later(q)
      <4>1. e # q /\ e \in Nat
        BY <1>2, <3>4, <3>7
      <4> QED BY <3>1, <3>4, <4>1 DEF Later
    <3>9. Reach(tbl, {order[q]}, Later(q)) \subseteq Reach(tbl, {order[q]}, {d})
      BY <1>3, <3>6, <3>8, ReachMonotone
    <3>10. Reach(tbl, {order[q]}, {d}) \subseteq Reach(tbl, {h}, {d})
      BY <1>3, <3>5, <3>6, ReachThrough
    <3> QED BY <3>2, <3>3, <3>9, <3>10
  <2> QED BY <2>1, <2>2
<1>10. ASSUME NEW j \in Ranked(h) PROVE doms[j] \in Ranked(h)
  BY <1>5, <1>6
<1> QED BY <1>4, <1>5, <1>6, <1>7, <1>8, <1>9, <1>10 DEF Climbable

(* What a finger can climb to.                                             *)
LEMMA AboveLeast ==
  ASSUME NEW p, NEW S \in SUBSET Places, p \in S, \A i \in S : Known(i) => doms[i] \in S
  PROVE  Above(p) \subseteq S
BY DEF Above

LEMMA AboveFacts ==
  ASSUME NEW h, Fitted(h), NEW p \in Ranked(h)
  PROVE  /\ p \in Above(p) /\ \A y \in Above(p) : doms[y] \in Above(p)
         /\ \A y \in Above(p) : y \in Ranked(h) /\ y >= p /\ order[p] \in Below(y)
<1>1. TreeInv /\ OrderInv /\ h \in Roots /\ pc # "order"
  BY DEF Fitted
<1>2. /\ Len(order) \in Nat /\ Places = 1..Len(order)
      /\ \A i \in Places : order[i] \in Blocks /\ order[i] \in finished /\ Place(order[i]) = i
      /\ \A b \in finished : Place(b) \in Places /\ order[Place(b)] = b
  BY ONLY <1>1, PlaceFacts
<1>3. Climbable(h)
  BY FittedClimbs
<1>4. \A j \in Ranked(h) : j \in Places /\ Known(j) /\ doms[j] \in Ranked(h) /\ doms[j] >= j
  <2>1. ASSUME NEW j \in Ranked(h)
        PROVE  j \in Places /\ Known(j) /\ doms[j] \in Ranked(h) /\ doms[j] >= j
    <3>1. j \in Places /\ Known(j) /\ doms[j] \in Ranked(h) /\ doms[j] \in Places
      BY <1>3 DEF Climbable, Ranked
    <3>2. doms[j] > j \/ doms[j] = j
      BY <1>3 DEF Climbable
    <3> QED BY <1>2, <3>1, <3>2
  <2> QED BY <2>1
<1>5. tbl.succ \in [Blocks -> SUBSET Blocks]
  BY <1>1 DEF TreeInv, SearchTyped, IsTable
<1> DEFINE S == {y \in Ranked(h) : y >= p /\ order[p] \in Below(y)}
<1>6. p \in S
  <2>1. p \in Places /\ p >= p /\ order[p] \in Blocks
    BY <1>2, <1>4
  <2>2. order[p] \notin Later(p)
    BY <1>2, <2>1 DEF Later
  <2>3. {order[p]} \in SUBSET Blocks /\ {order[p]} \ Later(p) = {order[p]}
    BY <2>1, <2>2
  <2>4. {order[p]} \ Later(p) \subseteq Reach(tbl, {order[p]}, Later(p))
    BY <1>5, <2>3, ReachClosed
  <2> QED BY <2>1, <2>3, <2>4 DEF Below
<1>7. ASSUME NEW y \in S PROVE doms[y] \in S
  <2> DEFINE q == doms[y]
  <2>1. /\ y \in Ranked(h) /\ y \in Places /\ y >= p /\ order[p] \in Below(y)
        /\ q \in Ranked(h) /\ q \in Places /\ q >= y /\ p \in Places
    BY <1>4
  <2>2. q >= p
    BY <1>2, <2>1
  <2>3. order[p] \in Below(q)
    <3>1. CASE order[y] = h
      BY <1>3, <2>1, <3>1 DEF Climbable
    <3>2. CASE order[y] # h
      <4>1. Fit(h, y)
        BY <1>4, <2>1, <3>2 DEF Fitted, Ranked
      <4>2. order[y] \in Reach(tbl, {order[q]}, Later(q))
        BY <4>1 DEF Fit, Below
      <4> HIDE DEF q
      <4>3. Later(q) \subseteq Later(y)
        BY <1>2, <2>1 DEF Later
      <4>4. {order[q]} \in SUBSET Blocks /\ {order[y]} \in SUBSET Blocks
        BY <1>2, <2>1
      <4>5. Reach(tbl, {order[y]}, Later(y)) \subseteq Reach(tbl, {order[y]}, Later(q))
        BY <1>5, <4>3, <4>4, ReachMonotone
      <4>6. Reach(tbl, {order[y]}, Later(q)) \subseteq Reach(tbl, {order[q]}, Later(q))
        BY <1>5, <4>2, <4>4, ReachThrough
      <4> QED BY <2>1, <4>5, <4>6 DEF Below
    <3> QED BY <3>1, <3>2
  <2> QED BY <2>1, <2>2, <2>3
<1>8. S \in SUBSET Places
  BY <1>4
<1>9. Above(p) \subseteq S
  <2> HIDE DEF S
  <2> QED BY <1>6, <1>7, <1>8, AboveLeast
<1>10. p \in Places /\ p \in Above(p)
  <2>1. p \in Places
    BY <1>4
  <2> QED BY <2>1 DEF Above
<1>11. ASSUME NEW y \in Above(p) PROVE doms[y] \in Above(p)
  <2>1. y \in Ranked(h)
    BY <1>9
  <2>2. Known(y) /\ doms[y] \in Places
    BY <1>4, <2>1
  <2> QED BY <2>2 DEF Above
<1> QED BY <1>9, <1>10, <1>11

LEMMA AboveThrough ==
  ASSUME NEW h, Fitted(h), NEW p \in Ranked(h), NEW y \in Above(p)
  PROVE  Above(y) \subseteq Above(p)
<1>1. \A i \in Above(p) : doms[i] \in Above(p)
  BY AboveFacts
<1>2. Above(p) \in SUBSET Places
  BY DEF Above
<1> QED BY <1>1, <1>2, AboveLeast

-----------------------------------------------------------------------------
(* The fingers (domtree.rs:80-96): what the recursion in Meet defines.     *)
KnownPlaces == {i \in Places : Known(i)}
FingersGo(f, i1, i2) ==
  /\ f \in [0..(2 * Len(order)) -> KnownPlaces \X KnownPlaces]
  /\ f[0] = <<i1, i2>>
  /\ \A m \in 1..(2 * Len(order)) : f[m] = Climbed[f[m - 1]]
  /\ LET last == f[2 * Len(order)]
     IN Meet(i1, i2) = IF last[2] < last[1] THEN i1 ELSE last[1]

LEMMA ClimbedKnown ==
  ASSUME TreeInv, OrderInv, SweepTyped
  PROVE  \A f \in KnownPlaces \X KnownPlaces :
           /\ Climbed[f] \in KnownPlaces \X KnownPlaces
           /\ Halted(f) => Climbed[f] = f
           /\ ~Halted(f) /\ f[1] < f[2] => Climbed[f] = <<doms[f[1]], f[2]>>
           /\ ~Halted(f) /\ ~(f[1] < f[2]) => Climbed[f] = <<f[1], doms[f[2]]>>
<1>1. \A i \in KnownPlaces : i \in Places /\ doms[i] \in KnownPlaces
  BY DEF KnownPlaces, SweepTyped, Known
<1> SUFFICES ASSUME NEW f \in KnownPlaces \X KnownPlaces
             PROVE  /\ Climbed[f] \in KnownPlaces \X KnownPlaces
                    /\ Halted(f) => Climbed[f] = f
                    /\ ~Halted(f) /\ f[1] < f[2] => Climbed[f] = <<doms[f[1]], f[2]>>
                    /\ ~Halted(f) /\ ~(f[1] < f[2]) => Climbed[f] = <<f[1], doms[f[2]]>>
  OBVIOUS
<1>2. f \in Places \X Places /\ f[1] \in KnownPlaces /\ f[2] \in KnownPlaces
  BY <1>1
<1>3. Climbed[f] = IF Halted(f) THEN f
                   ELSE IF f[1] < f[2] THEN <<doms[f[1]], f[2]>> ELSE <<f[1], doms[f[2]]>>
  BY <1>2 DEF Climbed
<1> QED BY <1>1, <1>2, <1>3

LEMMA MeetSteps ==
  ASSUME TreeInv, OrderInv, SweepTyped, NEW i1 \in KnownPlaces, NEW i2 \in KnownPlaces
  PROVE  \E f : FingersGo(f, i1, i2)
<1>1. PICK S, last, x, climb :
        S = KnownPlaces \X KnownPlaces /\ last = 2 * Len(order) /\ x = <<i1, i2>> /\ climb = Climbed
  OBVIOUS
<1>2. last \in Nat /\ x \in S /\ \A f \in S : climb[f] \in S
  BY <1>1, ClimbedKnown DEF TreeInv, SearchTyped
<1>4. PICK f : Iterates(f, S, x, climb, last)
  BY <1>2, Iteration
<1>5. f \in [0..last -> S] /\ f[0] = x /\ \A i \in 1..last : f[i] = climb[f[i - 1]]
  BY <1>4 DEF Iterates
<1> DEFINE R(g) == [n \in 0..last |-> IF n = 0 THEN x ELSE climb[g[n - 1]]]
           fingers[n \in 0..(2 * Len(order))] ==
             IF n = 0 THEN <<i1, i2>> ELSE Climbed[fingers[n - 1]]
<1>6. f = R(f)
  <2>1. ASSUME NEW i \in 0..last PROVE f[i] = R(f)[i]
    <3>1. CASE i = 0
      BY <1>5, <3>1
    <3>2. CASE i # 0
      <4>1. i \in 1..last
        BY <1>2, <3>2
      <4> QED BY <1>5, <3>2, <4>1
    <3> QED BY <3>1, <3>2
  <2> QED BY <1>5, <2>1
<1>7. fingers = R(fingers)
  <2> DEFINE Q(g) == [n \in 0..(2 * Len(order)) |-> IF n = 0 THEN <<i1, i2>> ELSE Climbed[g[n - 1]]]
  <2>1. \A g : Q(g) = R(g)
    BY <1>1
  <2>2. f = Q(f)
    BY <1>6, <2>1
  <2>3. fingers = Q(fingers)
    <3> HIDE DEF R
    <3> QED BY <2>2
  <2> HIDE DEF fingers, R, Q
  <2> QED BY <2>1, <2>3
<1>8. LET end == fingers[last]
      IN Meet(i1, i2) = IF end[2] < end[1] THEN i1 ELSE end[1]
  BY <1>1 DEF Meet
<1> HIDE DEF fingers
<1>9. PICK g : g = fingers
  OBVIOUS
<1>10. g = R(g)
  BY <1>7, <1>9
<1>11. g[0] = x /\ \A i \in 1..last : g[i] = climb[g[i - 1]]
  BY <1>2, <1>10
<1>12. \A i \in 0..last : g[i] \in S
  <2> DEFINE T == {i \in 0..last : g[i] \in S}
  <2>1. 0 \in T
    BY <1>2, <1>11
  <2>2. \A i \in 1..last : i - 1 \in T => i \in T
    BY <1>2, <1>11
  <2>3. 0..last \subseteq T
    <3> HIDE DEF T
    <3> QED BY <1>2, <2>1, <2>2, CountUp
  <2> QED BY <2>3
<1>13. g \in [0..last -> S]
  BY <1>10, <1>12
<1>14. FingersGo(g, i1, i2)
  BY <1>1, <1>8, <1>9, <1>11, <1>13 DEF FingersGo
<1> QED BY <1>14

LEMMA MeetKnown ==
  ASSUME TreeInv, OrderInv, SweepTyped, NEW i1 \in KnownPlaces, NEW i2 \in KnownPlaces
  PROVE  Meet(i1, i2) \in KnownPlaces
<1>1. PICK f : FingersGo(f, i1, i2)
  BY MeetSteps
<1> DEFINE last == f[2 * Len(order)]
<1>2. last \in KnownPlaces \X KnownPlaces
  <2>1. 2 * Len(order) \in 0..(2 * Len(order))
    BY DEF TreeInv, SearchTyped
  <2> QED BY <1>1, <2>1 DEF FingersGo
<1>3. Meet(i1, i2) = IF last[2] < last[1] THEN i1 ELSE last[1]
  BY <1>1 DEF FingersGo
<1> HIDE DEF last
<1> QED BY <1>2, <1>3

(* Where the two fingers may be: above the places they come from, and below *)
(* every block that dominates both. The lower finger climbs, and only at   *)
(* the place where they meet does one stop.                                *)
FingersAt(h, i1, i2, g) ==
  /\ g \in KnownPlaces \X KnownPlaces
  /\ g[1] \in Above(i1) /\ g[2] \in Above(i2)
  /\ \A d \in Over(h, i1) \cap Over(h, i2) : d \in Over(h, g[1]) /\ d \in Over(h, g[2])

LEMMA FingerStep ==
  ASSUME NEW h, Fitted(h), NEW i1 \in Ranked(h), NEW i2 \in Ranked(h), NEW g, FingersAt(h, i1, i2, g)
  PROVE  /\ FingersAt(h, i1, i2, Climbed[g]) /\ g[1] \in Nat /\ g[2] \in Nat
         /\ Climbed[g][1] \in Nat /\ Climbed[g][2] \in Nat
         /\ g[1] = g[2] => Climbed[g] = g
         /\ g[1] # g[2] => Climbed[g][1] + Climbed[g][2] > g[1] + g[2]
<1>1. TreeInv /\ OrderInv /\ SweepTyped
  BY DEF Fitted
<1>2. /\ Len(order) \in Nat /\ Places = 1..Len(order)
      /\ \A i \in Places : order[i] \in Blocks /\ order[i] \in finished /\ Place(order[i]) = i
  BY ONLY <1>1, PlaceFacts
<1>3. Climbable(h)
  BY FittedClimbs
<1>4. /\ Climbed[g] \in KnownPlaces \X KnownPlaces
      /\ Halted(g) => Climbed[g] = g
      /\ ~Halted(g) /\ g[1] < g[2] => Climbed[g] = <<doms[g[1]], g[2]>>
      /\ ~Halted(g) /\ ~(g[1] < g[2]) => Climbed[g] = <<g[1], doms[g[2]]>>
  BY <1>1, ClimbedKnown DEF FingersAt
<1>5. /\ g[1] \in Above(i1) /\ doms[g[1]] \in Above(i1) /\ g[1] \in Ranked(h)
      /\ g[2] \in Above(i2) /\ doms[g[2]] \in Above(i2) /\ g[2] \in Ranked(h)
  BY AboveFacts DEF FingersAt
<1>6. /\ g[1] \in Nat /\ g[2] \in Nat /\ doms[g[1]] \in Nat /\ doms[g[2]] \in Nat
      /\ g[1] \in Places /\ g[2] \in Places
  <2>1. \A j \in Ranked(h) : j \in Places /\ doms[j] \in Ranked(h)
    BY ONLY <1>3 DEF Climbable
  <2>2. g[1] \in Ranked(h) /\ g[2] \in Ranked(h)
    BY ONLY <1>5
  <2>3. Places \subseteq Nat
    BY ONLY <1>2
  <2> QED BY ONLY <2>1, <2>2, <2>3
(* The lower of two places is not the head, nor a dominator of the other.  *)
<1>7. ASSUME NEW x \in Ranked(h), NEW y \in Ranked(h), x < y
      PROVE  doms[x] > x /\ \A d \in Over(h, x) : d \in Over(h, y) => d \in Over(h, doms[x])
  <2>1. x \in Places /\ y \in Places /\ x \in Nat /\ y \in Nat
    BY <1>2, <1>3 DEF Climbable
  <2>2. order[x] # h
    <3>1. order[x] = h => y <= x
      BY <1>3 DEF Climbable
    <3> QED BY <1>7, <2>1, <3>1
  <2>3. doms[x] > x
    BY <1>3, <2>2 DEF Climbable
  <2>4. ASSUME NEW d \in Over(h, x), d \in Over(h, y) PROVE d # order[x]
    <3>1. PICK e \in Places : e >= y /\ order[e] = d
      BY <1>3, <2>4 DEF Climbable
    <3>2. e # x
      BY <1>2, <1>7, <2>1, <3>1
    <3> QED BY <1>2, <2>1, <3>1, <3>2
  <2>5. ASSUME NEW d \in Over(h, x), d \in Over(h, y) PROVE d \in Over(h, doms[x])
    BY <1>3, <2>4, <2>5 DEF Climbable
  <2> QED BY <2>3, <2>5
<1>8. CASE g[1] = g[2]
  <2>1. Climbed[g] = g
    BY <1>4, <1>8 DEF Halted
  <2> QED BY <1>6, <1>8, <2>1
<1>9. CASE g[1] < g[2]
  <2>1. doms[g[1]] > g[1] /\ \A d \in Over(h, g[1]) : d \in Over(h, g[2]) => d \in Over(h, doms[g[1]])
    BY <1>5, <1>7, <1>9
  <2>2. ~Halted(g)
    BY <1>6, <1>9, <2>1 DEF Halted
  <2>3. Climbed[g] = <<doms[g[1]], g[2]>>
    BY <1>4, <1>9, <2>2
  <2>4. Climbed[g][1] = doms[g[1]] /\ Climbed[g][2] = g[2]
    BY <2>3
  <2>5. FingersAt(h, i1, i2, Climbed[g])
    BY <1>4, <1>5, <2>1, <2>4 DEF FingersAt
  <2> QED BY <1>6, <1>9, <2>1, <2>4, <2>5
<1>10. CASE g[2] < g[1]
  <2>1. doms[g[2]] > g[2] /\ \A d \in Over(h, g[2]) : d \in Over(h, g[1]) => d \in Over(h, doms[g[2]])
    BY <1>5, <1>7, <1>10
  <2>2. ~Halted(g) /\ ~(g[1] < g[2])
    BY <1>6, <1>10, <2>1 DEF Halted
  <2>3. Climbed[g] = <<g[1], doms[g[2]]>>
    BY <1>4, <2>2
  <2>4. Climbed[g][1] = g[1] /\ Climbed[g][2] = doms[g[2]]
    BY <2>3
  <2>5. FingersAt(h, i1, i2, Climbed[g])
    BY <1>4, <1>5, <2>1, <2>4 DEF FingersAt
  <2> QED BY <1>6, <1>10, <2>1, <2>4, <2>5
<1> QED BY <1>6, <1>8, <1>9, <1>10

LEMMA MeetAbove ==
  ASSUME NEW h, Fitted(h), NEW i1 \in Ranked(h), NEW i2 \in Ranked(h)
  PROVE  /\ Meet(i1, i2) \in Above(i1) /\ Meet(i1, i2) \in Above(i2)
         /\ \A d \in Over(h, i1) \cap Over(h, i2) : d \in Over(h, Meet(i1, i2))
<1>1. TreeInv /\ OrderInv /\ SweepTyped
  BY DEF Fitted
<1>2. i1 \in KnownPlaces /\ i2 \in KnownPlaces
  BY DEF Ranked, KnownPlaces
<1>3. PICK f : FingersGo(f, i1, i2)
  BY <1>1, <1>2, MeetSteps
<1>4. PICK n : n = Len(order)
  OBVIOUS
<1>5. n \in Nat /\ Places = 1..n
  BY <1>1, <1>4, PlaceFacts
<1>6. /\ f[0] = <<i1, i2>> /\ \A m \in 1..(2 * n) : f[m] = Climbed[f[m - 1]]
      /\ Meet(i1, i2) = IF f[2 * n][2] < f[2 * n][1] THEN i1 ELSE f[2 * n][1]
  BY <1>3, <1>4 DEF FingersGo
<1> DEFINE Far(m) == f[m][1] = f[m][2] \/ f[m][1] + f[m][2] >= m + 2
           T == {m \in 0..(2 * n) : FingersAt(h, i1, i2, f[m]) /\ Far(m)}
<1>7. 0 \in T
  <2>1. i1 \in Above(i1) /\ i2 \in Above(i2)
    BY AboveFacts
  <2>2. FingersAt(h, i1, i2, f[0])
    BY <1>2, <1>6, <2>1 DEF FingersAt
  <2>3. i1 \in 1..n /\ i2 \in 1..n /\ f[0][1] = i1 /\ f[0][2] = i2
    BY <1>2, <1>5, <1>6 DEF KnownPlaces
  <2>4. Far(0)
    BY <1>5, <2>3
  <2> QED BY <1>5, <2>2, <2>4
<1>8. ASSUME NEW m \in 1..(2 * n), m - 1 \in T PROVE m \in T
  <2> DEFINE g == f[m - 1]
  <2>1. FingersAt(h, i1, i2, g) /\ Far(m - 1) /\ f[m] = Climbed[g] /\ m \in 0..(2 * n)
    BY <1>5, <1>6, <1>8
  <2>2. /\ FingersAt(h, i1, i2, Climbed[g]) /\ g[1] \in Nat /\ g[2] \in Nat
        /\ Climbed[g][1] \in Nat /\ Climbed[g][2] \in Nat
        /\ g[1] = g[2] => Climbed[g] = g
        /\ g[1] # g[2] => Climbed[g][1] + Climbed[g][2] > g[1] + g[2]
    <3> HIDE DEF g
    <3> QED BY <2>1, FingerStep
  <2>3. g[1] = g[2] \/ g[1] + g[2] >= (m - 1) + 2
    BY <2>1
  <2>4. Far(m)
    <3> HIDE DEF g
    <3> QED BY <1>5, <2>1, <2>2, <2>3
  <2> QED BY <2>1, <2>2, <2>4
<1>9. 2 * n \in T
  <2>1. 2 * n \in Nat /\ 2 * n \in 0..(2 * n)
    BY <1>5
  <2>2. 0..(2 * n) \subseteq T
    <3> HIDE DEF T
    <3> QED BY <1>7, <1>8, <2>1, CountUp
  <2> QED BY <2>1, <2>2
<1> DEFINE g == f[2 * n]
<1>10. FingersAt(h, i1, i2, g) /\ (g[1] = g[2] \/ g[1] + g[2] >= 2 * n + 2)
  BY <1>9
<1>11. Meet(i1, i2) = IF g[2] < g[1] THEN i1 ELSE g[1]
  BY <1>6
<1> HIDE DEF g, T
<1>12. g[1] \in 1..n /\ g[2] \in 1..n
  BY <1>5, <1>10 DEF FingersAt, KnownPlaces
<1>13. g[1] = g[2]
  BY <1>5, <1>10, <1>12
<1>14. Meet(i1, i2) = g[1]
  BY <1>11, <1>12, <1>13
<1> QED BY <1>10, <1>13, <1>14 DEF FingersAt

-----------------------------------------------------------------------------
(* The fold over the predecessors (domtree.rs:74-96): what the recursion in *)
(* NewIdom defines.                                                        *)
FoldGoes(f, preds) ==
  /\ f[0] = Undef
  /\ \A m \in 1..Len(preds) : f[m] = Merged[<<f[m - 1], Place(preds[m])>>]
  /\ NewIdom(preds) = f[Len(preds)]
  /\ f \in [0..Len(preds) -> KnownPlaces \cup {Undef}]

LEMMA MergedKnown ==
  ASSUME TreeInv, OrderInv, SweepTyped, NEW a \in KnownPlaces \cup {Undef}, NEW p \in Places
  PROVE  /\ Merged[<<a, p>>] \in KnownPlaces \cup {Undef}
         /\ ~Known(p) => Merged[<<a, p>>] = a
         /\ Known(p) /\ a = Undef => Merged[<<a, p>>] = p
         /\ Known(p) /\ a # Undef => Merged[<<a, p>>] = Meet(a, p)
<1>1. <<a, p>> \in (Places \cup {Undef}) \X Places
  BY DEF KnownPlaces
<1>2. Merged[<<a, p>>] = IF doms[p] = Undef THEN a ELSE IF a = Undef THEN p ELSE Meet(a, p)
  BY <1>1 DEF Merged
<1>3. Known(p) => p \in KnownPlaces
  BY DEF KnownPlaces
<1>4. Known(p) /\ a # Undef => Meet(a, p) \in KnownPlaces
  BY <1>3, MeetKnown
<1> QED BY <1>2, <1>3, <1>4 DEF Known

LEMMA FoldSteps ==
  ASSUME TreeInv, OrderInv, SweepTyped, NEW preds \in Seq(finished)
  PROVE  \E f : FoldGoes(f, preds)
<1>1. PICK S, k, merge, at :
        /\ S = KnownPlaces \cup {Undef} /\ k = Len(preds) /\ merge = Merged
        /\ at = [m \in 1..Len(preds) |-> Place(preds[m])]
  OBVIOUS
<1>2. k \in Nat /\ Undef \in S
  BY <1>1
<1>3. \A m \in 1..k : at[m] = Place(preds[m]) /\ at[m] \in Places
  <2>1. \A m \in 1..k : preds[m] \in finished
    BY <1>1
  <2> QED BY <1>1, <2>1, PlaceFacts
<1>4. \A m \in 1..k : \A a \in S : merge[<<a, at[m]>>] \in S
  BY <1>1, <1>3, MergedKnown
<1> DEFINE G == [m \in Nat |-> [a \in S |-> IF m \in 1..k THEN merge[<<a, at[m]>>] ELSE a]]
<1>5. G \in [Nat -> [S -> S]] /\ \A m \in 1..k : \A a \in S : G[m][a] = merge[<<a, at[m]>>]
  BY <1>2, <1>4
<1> HIDE DEF G
<1>6. PICK f : Recurs(f, S, Undef, G, k)
  BY <1>2, <1>5, Recurrence
<1>7. f \in [0..k -> S] /\ f[0] = Undef /\ \A m \in 1..k : f[m] = merge[<<f[m - 1], at[m]>>]
  <2>1. f \in [0..k -> S] /\ f[0] = Undef /\ \A m \in 1..k : f[m] = G[m][f[m - 1]]
    BY <1>6 DEF Recurs
  <2>2. ASSUME NEW m \in 1..k PROVE f[m] = merge[<<f[m - 1], at[m]>>]
    <3>1. m - 1 \in 0..k /\ f[m - 1] \in S
      BY <1>2, <2>1
    <3> QED BY <1>5, <2>1, <3>1
  <2> QED BY <2>1, <2>2
<1> DEFINE R(g) == [m \in 0..k |-> IF m = 0 THEN Undef ELSE merge[<<g[m - 1], at[m]>>]]
           from[n \in 0..Len(preds)] ==
             IF n = 0 THEN Undef ELSE Merged[<<from[n - 1], Place(preds[n])>>]
<1>8. f = R(f)
  <2>1. ASSUME NEW m \in 0..k PROVE f[m] = R(f)[m]
    <3>1. CASE m = 0
      BY <1>7, <3>1
    <3>2. CASE m # 0
      <4>1. m \in 1..k
        BY <1>2, <3>2
      <4> QED BY <1>7, <3>2, <4>1
    <3> QED BY <3>1, <3>2
  <2> QED BY <1>7, <2>1
<1>9. from = R(from)
  <2> DEFINE Q(g) == [n \in 0..Len(preds) |-> IF n = 0 THEN Undef ELSE Merged[<<g[n - 1], Place(preds[n])>>]]
  <2>1. ASSUME NEW g PROVE Q(g) = R(g)
    <3>1. ASSUME NEW m \in 0..k PROVE Q(g)[m] = R(g)[m]
      <4>1. CASE m = 0
        BY <1>1, <4>1
      <4>2. CASE m # 0
        <5>1. m \in 1..k
          BY <1>2, <4>2
        <5> QED BY <1>1, <1>3, <4>2, <5>1
      <4> QED BY <4>1, <4>2
    <3> QED BY <1>1, <3>1
  <2>2. f = Q(f)
    BY <1>8, <2>1
  <2>3. from = Q(from)
    <3> HIDE DEF R
    <3> QED BY <2>2
  <2> HIDE DEF from, R, Q
  <2> QED BY <2>1, <2>3
<1>10. NewIdom(preds) = from[k]
  BY <1>1 DEF NewIdom
<1> HIDE DEF from
<1>11. PICK g : g = from
  OBVIOUS
<1>12. g = R(g)
  BY <1>9, <1>11
<1>13. g[0] = Undef /\ \A m \in 1..k : g[m] = merge[<<g[m - 1], at[m]>>]
  BY <1>2, <1>12
<1>14. \A m \in 0..k : g[m] \in S
  <2> DEFINE T == {m \in 0..k : g[m] \in S}
  <2>1. 0 \in T
    BY <1>2, <1>13
  <2>2. ASSUME NEW m \in 1..k, m - 1 \in T PROVE m \in T
    <3>1. g[m - 1] \in S /\ m \in 0..k
      BY <1>2, <2>2
    <3>2. g[m] = merge[<<g[m - 1], at[m]>>]
      BY <1>13
    <3>3. g[m] \in S
      BY <1>4, <3>1, <3>2
    <3> QED BY <3>1, <3>3
  <2>3. 0..k \subseteq T
    <3> HIDE DEF T
    <3> QED BY <1>2, <2>1, <2>2, CountUp
  <2> QED BY <2>3
<1>15. g \in [0..k -> S]
  BY <1>12, <1>14
<1>16. FoldGoes(g, preds)
  BY <1>1, <1>3, <1>10, <1>11, <1>13, <1>15 DEF FoldGoes
<1> QED BY <1>16

(* With a known predecessor there is an immediate dominator.               *)
LEMMA NewIdomKnown ==
  ASSUME TreeInv, OrderInv, SweepTyped, NEW preds \in Seq(finished),
         NEW j \in 1..Len(preds), Known(Place(preds[j]))
  PROVE  NewIdom(preds) \in KnownPlaces
<1>1. PICK f : FoldGoes(f, preds)
  BY FoldSteps
<1>2. PICK k : k = Len(preds)
  OBVIOUS
<1>3. /\ k \in Nat /\ j \in 1..k /\ NewIdom(preds) = f[k] /\ f \in [0..k -> KnownPlaces \cup {Undef}]
      /\ \A m \in 1..k : f[m] = Merged[<<f[m - 1], Place(preds[m])>>]
  BY <1>1, <1>2 DEF FoldGoes
<1> DEFINE T == {m \in 0..k : m >= j => f[m] \in KnownPlaces}
<1>4. 0 \in T
  BY <1>3
<1>5. ASSUME NEW m \in 1..k, m - 1 \in T PROVE m \in T
  <2> DEFINE p == Place(preds[m])
             a == f[m - 1]
  <2>1. preds[m] \in finished /\ p \in Places
    <3>1. preds[m] \in finished
      BY <1>2
    <3> QED BY <3>1, PlaceFacts
  <2>2. m - 1 \in 0..k /\ a \in KnownPlaces \cup {Undef} /\ f[m] = Merged[<<a, p>>] /\ m \in 0..k
    BY <1>3
  <2>3. p \in Places /\ Undef \notin KnownPlaces
    <3>1. Places = 1..Len(order) /\ Len(order) \in Nat
      BY PlaceFacts
    <3> QED BY <2>1, <3>1 DEF KnownPlaces, Undef
  <2>4. m = j => Known(p)
    OBVIOUS
  <2>5. m > j => a \in KnownPlaces
    BY <1>3, <1>5, <2>2
  <2> HIDE DEF p, a, T
  <2>6. Known(p) => p \in KnownPlaces
    BY <2>1 DEF KnownPlaces
  <2>7. /\ ~Known(p) => Merged[<<a, p>>] = a
        /\ Known(p) /\ a = Undef => Merged[<<a, p>>] = p
        /\ Known(p) /\ a # Undef => Merged[<<a, p>>] = Meet(a, p)
    BY <2>2, <2>3, MergedKnown
  <2>8. Known(p) /\ a # Undef => Meet(a, p) \in KnownPlaces
    BY <2>2, <2>6, MeetKnown
  <2>9. m >= j => f[m] \in KnownPlaces
    BY <1>3, <2>2, <2>3, <2>4, <2>5, <2>6, <2>7, <2>8
  <2> QED BY <2>2, <2>9 DEF T
<1>6. 0..k \subseteq T
  <2> HIDE DEF T
  <2> QED BY <1>3, <1>4, <1>5, CountUp
<1>7. k \in T /\ k >= j
  BY <1>3, <1>6
<1> QED BY <1>3, <1>7

(* Where a single head leads to the block, the fold climbs to a place above *)
(* every known predecessor, and below every dominator.                     *)
LEMMA NewIdomAbove ==
  ASSUME NEW h, Fitted(h), NEW i \in Places, order[i] \in Alone(h), order[i] # h,
         NEW preds \in Seq(finished), Range(preds) = tbl.pred[order[i]],
         NEW j \in 1..Len(preds), Known(Place(preds[j]))
  PROVE  /\ NewIdom(preds) \in Ranked(h)
         /\ \A p \in Places : order[p] \in tbl.pred[order[i]] /\ Known(p) =>
              p \in Ranked(h) /\ NewIdom(preds) \in Above(p)
         /\ \A d \in Over(h, i) : d # order[i] => d \in Over(h, NewIdom(preds))
<1>1. TreeInv /\ OrderInv /\ SweepTyped /\ h \in Roots /\ pc # "order"
  BY DEF Fitted
<1>2. /\ Len(order) \in Nat /\ Places = 1..Len(order)
      /\ \A p \in Places : order[p] \in Blocks /\ order[p] \in finished /\ Place(order[p]) = p
      /\ \A b \in finished : Place(b) \in Places /\ order[Place(b)] = b
  BY ONLY <1>1, PlaceFacts
<1>3. PICK f : FoldGoes(f, preds)
  BY <1>1, FoldSteps
<1>4. PICK k : k = Len(preds)
  OBVIOUS
<1>5. /\ k \in Nat /\ j \in 1..k /\ NewIdom(preds) = f[k] /\ f[0] = Undef
      /\ \A m \in 1..k : f[m] = Merged[<<f[m - 1], Place(preds[m])>>]
  BY <1>3, <1>4 DEF FoldGoes
<1>6. /\ tbl.succ \in [Blocks -> SUBSET Blocks] /\ Roots \in SUBSET Blocks
      /\ tbl.pred = [b \in Blocks |-> {a \in Blocks : b \in tbl.succ[a]}]
  BY <1>1, HeadsReach DEF TreeInv, SearchTyped, IsTable, Roots
(* A known predecessor has the same head, and the same dominators above.   *)
<1>7. ASSUME NEW p \in Places, order[p] \in tbl.pred[order[i]], Known(p)
      PROVE  p \in Ranked(h) /\ \A d \in Over(h, i) : d # order[i] => d \in Over(h, p)
  <2>1. order[p] \in Alone(h)
    BY <1>1, <1>2, <1>7, AloneFacts
  <2>2. order[i] \in Blocks /\ order[p] \in Blocks /\ order[i] \in tbl.succ[order[p]]
    BY <1>2, <1>6, <1>7
  <2>3. ASSUME NEW d \in Over(h, i), d # order[i], order[p] \in Reach(tbl, {h}, {d}) PROVE FALSE
    <3>1. {h} \in SUBSET Blocks /\ order[i] \notin {d}
      BY <1>1, <1>6, <2>3
    <3>2. order[i] \in Reach(tbl, {h}, {d})
      BY <1>6, <2>2, <2>3, <3>1, ReachStep
    <3> QED BY <3>2 DEF Over, OnEveryPath
  <2> QED BY <1>7, <2>1, <2>3 DEF Ranked, Over, OnEveryPath
<1>8. \A m \in 1..k : preds[m] \in finished /\ preds[m] \in tbl.pred[order[i]]
  <2>1. \A m \in 1..k : m \in DOMAIN preds /\ preds[m] \in finished
    BY <1>4
  <2> QED BY <2>1 DEF Range
<1>9. \A p \in Places : order[p] \in tbl.pred[order[i]] => \E m \in 1..k : p = Place(preds[m])
  <2>1. ASSUME NEW p \in Places, order[p] \in tbl.pred[order[i]]
        PROVE  \E m \in 1..k : p = Place(preds[m])
    <3>1. PICK m \in DOMAIN preds : order[p] = preds[m]
      BY <2>1 DEF Range
    <3>2. m \in 1..k
      BY <1>4
    <3> QED BY <1>2, <3>1, <3>2
  <2> QED BY <2>1
(* What the first m predecessors have been folded to.                      *)
<1> DEFINE Fits(q, m) ==
             /\ q \in Ranked(h)
             /\ \A l \in 1..m : Known(Place(preds[l])) => q \in Above(Place(preds[l]))
             /\ \A d \in Over(h, i) : d # order[i] => d \in Over(h, q)
           None(m) == f[m] = Undef /\ \A l \in 1..m : ~Known(Place(preds[l]))
           T == {m \in 0..k : None(m) \/ Fits(f[m], m)}
<1>10. 0 \in T
  BY <1>5
<1>11. ASSUME NEW m \in 1..k, m - 1 \in T PROVE m \in T
  <2> DEFINE p == Place(preds[m])
             a == f[m - 1]
  <2>1. /\ p \in Places /\ order[p] = preds[m] /\ order[p] \in tbl.pred[order[i]]
        /\ f[m] = Merged[<<a, p>>] /\ m \in 0..k
        /\ \A l \in 1..m : l = m \/ l \in 1..(m - 1)
    <3>1. /\ f[m] = Merged[<<a, p>>] /\ m \in 0..k
          /\ \A l \in 1..m : l = m \/ l \in 1..(m - 1)
      BY <1>5
    <3>2. preds[m] \in finished /\ preds[m] \in tbl.pred[order[i]]
      BY <1>8
    <3>3. p \in Places /\ order[p] = preds[m]
      BY <1>2, <3>2
    <3> QED BY <3>1, <3>2, <3>3
  <2>2. None(m - 1) \/ Fits(a, m - 1)
    BY <1>11
  <2>3. a \in KnownPlaces \cup {Undef} /\ (Fits(a, m - 1) => a # Undef)
    <3>1. Undef \notin Places
      BY <1>2 DEF Undef
    <3> QED BY <2>2, <3>1 DEF Ranked, KnownPlaces
  <2> HIDE DEF p, a
  <2>4. /\ ~Known(p) => f[m] = a
        /\ Known(p) /\ a = Undef => f[m] = p
        /\ Known(p) /\ a # Undef => f[m] = Meet(a, p)
    BY <1>1, <2>1, <2>3, MergedKnown
  <2>5. CASE ~Known(p)
    <3>1. f[m] = a
      BY <2>4, <2>5
    <3>2. None(m - 1) => None(m)
      BY <2>1, <2>5, <3>1 DEF p, a
    <3>3. Fits(a, m - 1) => Fits(f[m], m)
      BY <2>1, <2>5, <3>1 DEF p
    <3> QED BY <2>1, <2>2, <3>2, <3>3
  <2>6. CASE Known(p) /\ a = Undef
    <3>1. f[m] = p /\ None(m - 1)
      BY <2>2, <2>3, <2>4, <2>6
    <3>2. p \in Ranked(h) /\ p \in Above(p) /\ \A d \in Over(h, i) : d # order[i] => d \in Over(h, p)
      BY <1>7, <2>1, <2>6, AboveFacts
    <3>3. Fits(f[m], m)
      BY <2>1, <3>1, <3>2 DEF p
    <3> QED BY <2>1, <3>3
  <2>7. CASE Known(p) /\ a # Undef
    <3>1. Fits(a, m - 1)
      BY <2>2, <2>7 DEF a
    <3>2. p \in Ranked(h) /\ \A d \in Over(h, i) : d # order[i] => d \in Over(h, p)
      BY <1>7, <2>1, <2>7
    <3> DEFINE q == Meet(a, p)
    <3>3. /\ q \in Above(a) /\ q \in Above(p)
          /\ \A d \in Over(h, a) \cap Over(h, p) : d \in Over(h, q)
      BY <3>1, <3>2, MeetAbove
    <3>4. f[m] = q
      BY <2>4, <2>7
    <3> HIDE DEF q
    <3>5. q \in Ranked(h)
      BY <3>2, <3>3, AboveFacts
    <3>6. ASSUME NEW l \in 1..m, Known(Place(preds[l])) PROVE q \in Above(Place(preds[l]))
      <4>1. CASE l = m
        BY <3>3, <4>1 DEF p
      <4>2. CASE l \in 1..(m - 1)
        <5>1. a \in Above(Place(preds[l]))
          BY <3>1, <3>6, <4>2
        <5>2. Place(preds[l]) \in Ranked(h)
          <6>1. l \in 1..k
            BY <1>5, <3>6, <2>1
          <6>2. Place(preds[l]) \in Places /\ order[Place(preds[l])] \in tbl.pred[order[i]]
            BY <1>2, <1>8, <6>1
          <6> QED BY <1>7, <3>6, <6>2
        <5>3. Above(a) \subseteq Above(Place(preds[l]))
          BY <5>1, <5>2, AboveThrough
        <5> QED BY <3>3, <5>3
      <4> QED BY <2>1, <4>1, <4>2
    <3>7. \A d \in Over(h, i) : d # order[i] => d \in Over(h, q)
      BY <3>1, <3>2, <3>3
    <3>8. Fits(f[m], m)
      BY <3>4, <3>5, <3>6, <3>7
    <3> QED BY <2>1, <3>8
  <2> QED BY <2>5, <2>6, <2>7
<1>12. k \in T
  <2>1. 0..k \subseteq T
    <3> HIDE DEF T
    <3> QED BY <1>5, <1>10, <1>11, CountUp
  <2> QED BY <1>5, <2>1
<1>13. Fits(f[k], k)
  BY <1>5, <1>12
<1> DEFINE q == NewIdom(preds)
<1>14. Fits(q, k)
  BY <1>5, <1>13
<1> HIDE DEF q
<1>15. \A p \in Places : order[p] \in tbl.pred[order[i]] /\ Known(p) => p \in Ranked(h) /\ q \in Above(p)
  BY <1>7, <1>9, <1>14
<1> QED BY <1>14, <1>15 DEF q

-----------------------------------------------------------------------------
(* The sweeps keep their invariant. First what an invariant part depends   *)
(* on.                                                                     *)
LEMMA SameSearch ==
  ASSUME UNCHANGED <<tbl, order>>
  PROVE  Roots' = Roots /\ Places' = Places /\ \A h : Alone(h)' = Alone(h)
BY DEF Roots, Places, Alone

LEMMA SameFit ==
  ASSUME UNCHANGED <<tbl, order>>, NEW h, NEW i, doms'[i] = doms[i], Fit(h, i)
  PROVE  Fit(h, i)'
BY DEF Fit, Below, Later, Alone, Roots, Places

LEMMA SameSettled ==
  ASSUME UNCHANGED <<tbl, order, doms>>, NEW h, NEW i, Settled(h, i)
  PROVE  Settled(h, i)'
BY DEF Settled, Above, Known, Places

(* A head is led to by itself.                                             *)
LEMMA HeadAlone ==
  ASSUME TreeInv, NEW h \in Roots, NEW k \in Roots, k \in Alone(h)
  PROVE  k = h
<1>1. tbl.succ \in [Blocks -> SUBSET Blocks] /\ Roots \in SUBSET Blocks
  BY HeadsReach DEF TreeInv, SearchTyped, IsTable, Roots
<1>2. {k} \in SUBSET Blocks
  BY <1>1
<1>3. {k} \ {} \subseteq Reach(tbl, {k}, {})
  BY <1>1, <1>2, ReachClosed
<1> QED BY <1>3 DEF Alone

(* The predecessor that the order puts first has been visited before: there *)
(* is always an immediate dominator to begin with.                         *)
LEMMA PredKnown ==
  ASSUME TreeInv, OrderInv, SweepTyped, pc # "order", idx \in Places,
         order[idx] \notin Roots, tbl.pred[order[idx]] \subseteq finished
  PROVE  \E j \in Places : j > idx /\ order[j] \in tbl.pred[order[idx]] /\ Known(j)
<1>1. Preceded(idx)
  BY DEF OrderInv
<1>2. PICK p \in tbl.pred[order[idx]] : \/ p \in discovered \ finished
                                        \/ \E j \in Places : j > idx /\ order[j] = p
  BY <1>1 DEF Preceded
<1>3. PICK j \in Places : j > idx /\ order[j] = p
  BY <1>2
<1>4. Known(j)
  BY <1>3 DEF SweepTyped
<1> QED BY <1>2, <1>3, <1>4

LEMMA PredsListed ==
  ASSUME TreeInv, OrderInv, SweepTyped, idx \in Places, ~NoIdom(order[idx]),
         NEW preds \in Orders(tbl.pred[order[idx]])
  PROVE  /\ preds \in Seq(finished) /\ Range(preds) = tbl.pred[order[idx]]
         /\ \E j \in 1..Len(preds) : Known(Place(preds[j]))
         /\ NewIdom(preds) \in KnownPlaces
<1>1. tbl.pred[order[idx]] \in SUBSET Blocks /\ tbl.pred[order[idx]] \subseteq finished
  <2>1. order[idx] \in Blocks
    BY PlaceFacts
  <2> QED BY <2>1 DEF TreeInv, SearchTyped, IsTable, NoIdom
<1>2. preds \in Seq(Blocks) /\ Range(preds) = tbl.pred[order[idx]]
  BY <1>1, RangeOrder DEF Orders
<1>3. preds \in Seq(finished)
  <2>1. \A m \in 1..Len(preds) : preds[m] \in finished
    <3>1. \A m \in DOMAIN preds : preds[m] \in Range(preds)
      BY DEF Range
    <3>2. DOMAIN preds = 1..Len(preds)
      BY <1>2
    <3> QED BY <1>1, <1>2, <3>1, <3>2
  <2> QED BY <1>2, <2>1
<1>4. PICK p \in tbl.pred[order[idx]] : Known(Place(p))
  BY DEF NoIdom, Known
<1>5. PICK j \in 1..Len(preds) : preds[j] = p
  <2>1. DOMAIN preds = 1..Len(preds)
    BY <1>2
  <2> QED BY <1>2, <1>4, <2>1 DEF Range
<1>6. Known(Place(preds[j]))
  BY <1>4, <1>5
<1>7. NewIdom(preds) \in KnownPlaces
  BY <1>3, <1>6, NewIdomKnown
<1> QED BY <1>2, <1>3, <1>6, <1>7

LEMMA VisitFits ==
  ASSUME NEW h, Fitted(h), idx \in Places, order[idx] \in Alone(h), order[idx] # h,
         ~NoIdom(order[idx]), NEW preds \in Orders(tbl.pred[order[idx]])
  PROVE  /\ order[NewIdom(preds)] \in Alone(h) /\ NewIdom(preds) > idx
         /\ order[idx] \in Below(NewIdom(preds))
         /\ \A d \in Blocks \ {order[idx]} : OnEveryPath(tbl, h, d, order[idx]) =>
              \E e \in Places : order[e] = d /\ e >= NewIdom(preds)
         /\ \A p \in Places : order[p] \in tbl.pred[order[idx]] /\ Known(p) =>
              NewIdom(preds) \in Above(p)
<1>1. TreeInv /\ OrderInv /\ SweepTyped /\ pc # "order" /\ h \in Roots
  BY DEF Fitted
<1>2. /\ Len(order) \in Nat /\ Places = 1..Len(order)
      /\ \A p \in Places : order[p] \in Blocks /\ order[p] \in finished /\ Place(order[p]) = p
      /\ \A b \in finished : Place(b) \in Places /\ order[Place(b)] = b
  BY ONLY <1>1, PlaceFacts
<1>3. /\ preds \in Seq(finished) /\ Range(preds) = tbl.pred[order[idx]]
      /\ \E j \in 1..Len(preds) : Known(Place(preds[j]))
  BY <1>1, PredsListed
<1> DEFINE q == NewIdom(preds)
<1>4. /\ q \in Ranked(h)
      /\ \A p \in Places : order[p] \in tbl.pred[order[idx]] /\ Known(p) =>
           p \in Ranked(h) /\ q \in Above(p)
      /\ \A d \in Over(h, idx) : d # order[idx] => d \in Over(h, q)
  BY <1>3, NewIdomAbove
<1> HIDE DEF q
<1>5. PICK j \in Places : j > idx /\ order[j] \in tbl.pred[order[idx]] /\ Known(j)
  <2>1. order[idx] \notin Roots
    BY <1>1, HeadAlone
  <2>2. tbl.pred[order[idx]] \subseteq finished
    BY DEF NoIdom
  <2> QED BY <1>1, <2>1, <2>2, PredKnown
<1>6. j \in Ranked(h) /\ q \in Above(j)
  BY <1>4, <1>5
<1>7. q \in Places /\ q >= j /\ order[j] \in Below(q)
  BY <1>4, <1>6, AboveFacts DEF Ranked
<1>8. q > idx
  BY <1>2, <1>5, <1>7
<1>9. order[idx] \in Below(q)
  <2>1. order[idx] \notin Later(q)
    BY <1>2, <1>7, <1>8 DEF Later
  <2>2. /\ tbl.succ \in [Blocks -> SUBSET Blocks]
        /\ tbl.pred = [b \in Blocks |-> {a \in Blocks : b \in tbl.succ[a]}]
    BY <1>1 DEF TreeInv, SearchTyped, IsTable
  <2>3. order[idx] \in tbl.succ[order[j]] /\ {order[q]} \in SUBSET Blocks
    BY <1>2, <1>5, <1>7, <2>2
  <2> QED BY <1>7, <2>1, <2>2, <2>3, ReachStep DEF Below
<1>10. ASSUME NEW d \in Blocks \ {order[idx]}, OnEveryPath(tbl, h, d, order[idx])
       PROVE  \E e \in Places : order[e] = d /\ e >= q
  <2>1. d \in Over(h, q)
    BY <1>4, <1>10 DEF Over
  <2> QED BY <1>4, <2>1, FittedClimbs DEF Climbable
<1>11. order[q] \in Alone(h)
  BY <1>4 DEF Ranked
<1> QED BY <1>4, <1>8, <1>9, <1>10, <1>11 DEF q

(* What a visit that computes an immediate dominator does.                 *)
VisitsWith(preds) ==
  /\ pc = "sweep" /\ idx \in Places /\ doms[idx] # idx /\ ~NoIdom(order[idx])
  /\ preds \in Orders(tbl.pred[order[idx]])
  /\ doms' = [doms EXCEPT ![idx] = NewIdom(preds)]
  /\ changed' = (changed \/ doms'[idx] # doms[idx])
  /\ idx' = idx - 1 /\ pc' = pc /\ UNCHANGED <<tbl, order>>

LEMMA SweepFitted ==
  ASSUME TreeInv, OrderInv, SweepInv, Sweeping
  PROVE  /\ SweepTyped /\ pc # "order" /\ \A h \in Roots : Fitted(h)
         /\ \A i \in Places : Known(i) => i > 0
BY PlaceFacts DEF SweepInv, Fitted, Sweeping

LEMMA SweepVisit ==
  ASSUME TreeInv, OrderInv, SweepInv, NEW preds, VisitsWith(preds)
  PROVE  SweepInv'
<1>1. /\ pc = "sweep" /\ idx \in Places /\ doms[idx] # idx /\ ~NoIdom(order[idx])
      /\ preds \in Orders(tbl.pred[order[idx]])
      /\ doms' = [doms EXCEPT ![idx] = NewIdom(preds)]
      /\ changed' = (changed \/ doms'[idx] # doms[idx])
      /\ idx' = idx - 1 /\ pc' = pc /\ UNCHANGED <<tbl, order>>
  BY DEF VisitsWith
<1>2. SweepTyped /\ pc # "order" /\ \A h \in Roots : Fitted(h)
  BY <1>1, SweepFitted DEF Sweeping
<1>3. Len(order) \in Nat /\ Places = 1..Len(order)
  BY PlaceFacts
<1>4. PICK q : q = NewIdom(preds)
  OBVIOUS
<1>5. q \in Places /\ Known(q)
  <2>1. q \in KnownPlaces
    BY <1>1, <1>2, <1>4, PredsListed
  <2> QED BY <2>1 DEF KnownPlaces
<1>6. /\ doms \in [Places -> Places \cup {Undef}] /\ changed \in BOOLEAN
      /\ \A i \in Places : doms[i] # Undef => doms[doms[i]] # Undef
      /\ \A i \in Places : i > idx => doms[i] # Undef
      /\ \A i \in Places : order[i] \in Roots => doms[i] = i
  BY <1>2 DEF SweepTyped, Known
<1>7. doms'[idx] = q /\ \A i \in Places \ {idx} : doms'[i] = doms[i]
  BY <1>1, <1>4, <1>6
<1>8. Roots' = Roots /\ Places' = Places /\ \A h : Alone(h)' = Alone(h)
  BY <1>1, SameSearch
<1>9. q # Undef /\ doms[q] # Undef
  BY <1>3, <1>5 DEF Undef, Known
<1>10. SweepTyped'
  <2>1. doms' \in [Places -> Places \cup {Undef}] /\ changed' \in BOOLEAN
    BY <1>1, <1>4, <1>5, <1>6
  <2>2. ASSUME NEW i \in Places, doms'[i] # Undef PROVE doms'[doms'[i]] # Undef
    <3>1. doms'[i] \in Places /\ (i # idx => doms[i] # Undef /\ doms[doms[i]] # Undef)
      BY <1>6, <1>7, <2>1, <2>2
    <3> QED BY <1>7, <1>9, <3>1
  <2>3. ASSUME NEW i \in Places, i > idx' PROVE doms'[i] # Undef
    <3>1. i = idx \/ i > idx
      BY <1>1, <1>3, <2>3
    <3> QED BY <1>6, <1>7, <1>9, <3>1
  <2>4. ASSUME NEW i \in Places, order[i] \in Roots PROVE doms'[i] = i
    <3>1. i # idx
      BY <1>1, <1>6, <2>4
    <3> QED BY <1>6, <1>7, <2>4, <3>1
  <2> QED BY <1>1, <1>8, <2>1, <2>2, <2>3, <2>4 DEF SweepTyped, Known
<1>11. ASSUME NEW h \in Roots, NEW i \in Places, order[i] \in Alone(h) \ {h}
       PROVE  /\ Known(i)' => Fit(h, i)'
              /\ ~changed' /\ i > idx' => Settled(h, i)'
  <2>1. Fitted(h) /\ SweepInv
    BY <1>2
  <2>2. CASE i # idx
    <3>1. doms'[i] = doms[i]
      BY <1>7, <2>2
    <3>2. Known(i)' => Fit(h, i)
      BY <1>1, <1>11, <3>1 DEF SweepInv, Sweeping, Known
    <3>3. Known(i)' => Fit(h, i)'
      BY <1>1, <3>1, <3>2, SameFit
    <3>4. ASSUME ~changed', i > idx' PROVE Settled(h, i)'
      <4>1. doms' = doms /\ ~changed
        BY <1>1, <1>4, <1>6, <1>7, <3>4
      <4>2. i > idx
        BY <1>1, <1>3, <2>2, <3>4
      <4>3. Settled(h, i)
        BY <1>1, <1>11, <4>1, <4>2 DEF SweepInv, Sweeping
      <4> QED BY <1>1, <4>1, <4>3, SameSettled
    <3> QED BY <3>3, <3>4
  <2>3. CASE i = idx
    <3>1. /\ order[q] \in Alone(h) /\ q > i /\ order[i] \in Below(q)
          /\ \A d \in Blocks \ {order[i]} : OnEveryPath(tbl, h, d, order[i]) =>
               \E e \in Places : order[e] = d /\ e >= q
          /\ \A p \in Places : order[p] \in tbl.pred[order[i]] /\ Known(p) => q \in Above(p)
      BY <1>1, <1>4, <1>11, <2>1, <2>3, VisitFits
    <3>2. Fit(h, i)'
      <4>1. doms'[i] = q /\ Below(q)' = Below(q)
        BY <1>1, <1>7, <1>8, <2>3 DEF Below, Later
      <4> QED BY <1>1, <1>8, <3>1, <4>1 DEF Fit
    <3>3. ASSUME ~changed' PROVE Settled(h, i)'
      <4>1. doms' = doms /\ doms[i] = q
        BY <1>1, <1>4, <1>6, <1>7, <2>3, <3>3
      <4>2. Settled(h, i)
        BY <3>1, <4>1 DEF Settled
      <4> QED BY <1>1, <4>1, <4>2, SameSettled
    <3> QED BY <3>2, <3>3
  <2> QED BY <2>2, <2>3
<1>12. pc' # "done"
  BY <1>1
<1> QED BY <1>1, <1>8, <1>10, <1>11, <1>12 DEF SweepInv

(* What the other steps of the sweeps do.                                  *)
KeepsDoms ==
  /\ UNCHANGED <<tbl, order, doms>>
  /\ changed' = changed \/ (changed' = FALSE /\ idx' = Len(order))
  /\ idx' = idx \/ idx' = Len(order) \/ (idx' = idx - 1 /\ idx \in Places /\ doms[idx] = idx)
  /\ pc' = "done" =>
       /\ finished' = Blocks /\ idx' = 0 /\ ~changed'
       /\ tree' = [b \in Blocks |-> order[doms[Place(b)]]] /\ dominated' = UpFrom(tree')

LEMMA SweepKept ==
  ASSUME TreeInv, OrderInv, SweepInv, Sweeping, KeepsDoms
  PROVE  SweepInv'
<1>0. /\ UNCHANGED <<tbl, order, doms>>
      /\ changed' = changed \/ (changed' = FALSE /\ idx' = Len(order))
      /\ idx' = idx \/ idx' = Len(order) \/ (idx' = idx - 1 /\ idx \in Places /\ doms[idx] = idx)
      /\ pc' = "done" =>
           /\ finished' = Blocks /\ idx' = 0 /\ ~changed'
           /\ tree' = [b \in Blocks |-> order[doms[Place(b)]]] /\ dominated' = UpFrom(tree')
  BY DEF KeepsDoms
<1> USE <1>0
<1>1. SweepTyped /\ pc # "order" /\ \A h \in Roots : Fitted(h)
  BY SweepFitted
<1>2. Len(order) \in Nat /\ Places = 1..Len(order) /\ idx \in 0..Len(order)
  BY PlaceFacts DEF TreeInv, SearchTyped
<1>3. Roots' = Roots /\ Places' = Places /\ \A h : Alone(h)' = Alone(h)
  BY SameSearch
<1>4. \A i \in Places : i > idx' => i > idx \/ (i = idx /\ doms[idx] = idx)
  BY <1>2
<1>5. SweepTyped'
  <2>1. ASSUME NEW i \in Places, i > idx' PROVE Known(i)
    <3>1. CASE i > idx
      BY <1>1, <3>1 DEF SweepTyped
    <3>2. CASE i = idx /\ doms[idx] = idx
      BY <1>2, <3>2 DEF Known, Undef
    <3> QED BY <1>4, <2>1, <3>1, <3>2
  <2>2. changed' \in BOOLEAN
    BY <1>1 DEF SweepTyped
  <2> QED BY <1>1, <1>3, <2>1, <2>2 DEF SweepTyped, Known
<1>6. ASSUME NEW h \in Roots, NEW i \in Places, order[i] \in Alone(h) \ {h}
      PROVE  /\ Known(i)' => Fit(h, i)'
             /\ ~changed' /\ i > idx' => Settled(h, i)'
  <2>1. Known(i) => Fit(h, i)
    BY <1>6 DEF SweepInv
  <2>2. Known(i)' => Fit(h, i)'
    BY <2>1, SameFit DEF Known
  <2>3. ASSUME ~changed', i > idx' PROVE Settled(h, i)'
    <3>1. ~changed
      BY <1>2, <2>3
    <3>2. ~(i = idx /\ doms[idx] = idx)
      <4>1. SUFFICES ASSUME doms[i] = i PROVE FALSE
        OBVIOUS
      <4>2. Known(i)
        BY <1>2, <4>1 DEF Known, Undef
      <4>3. doms[i] > i
        BY <2>1, <4>2 DEF Fit
      <4> QED BY <1>2, <4>1, <4>3
    <3>3. Settled(h, i)
      BY <1>4, <1>6, <2>3, <3>1, <3>2 DEF SweepInv
    <3> QED BY <3>3, SameSettled
  <2> QED BY <2>2, <2>3
<1> QED BY <1>3, <1>5, <1>6 DEF SweepInv, Place

LEMMA SweepSteps ==
  ASSUME TreeInv, OrderInv, SweepInv, TreeInv', OrderInv', [Next]_vars
  PROVE  SweepInv'
<1>1. CASE Discover \/ Finish
  <2>1. pc' = "order"
    BY <1>1 DEF Discover, Finish
  <2> QED BY <2>1 DEF SweepInv, Sweeping
<1>2. CASE MarkRoots
  <2>1. /\ doms' = [i \in Places |-> IF order[i] \in Roots THEN i ELSE Undef]
        /\ idx' = Len(order) /\ changed' = FALSE /\ pc' = "sweep" /\ UNCHANGED <<tbl, order>>
    BY <1>2 DEF MarkRoots, Places
  <2>2. Roots' = Roots /\ Places' = Places /\ \A h : Alone(h)' = Alone(h)
    BY <2>1, SameSearch
  <2>3. Len(order) \in Nat /\ Places = 1..Len(order)
    BY PlaceFacts
  <2>4. \A i \in Places : doms'[i] # Undef => order[i] \in Roots /\ doms'[i] = i
    BY <2>1
  <2>5. SweepTyped'
    <3>1. doms' \in [Places -> Places \cup {Undef}] /\ changed' \in BOOLEAN
      BY <2>1
    <3>2. \A i \in Places : doms'[i] # Undef => doms'[doms'[i]] # Undef
      BY <2>4
    <3>3. \A i \in Places : ~(i > idx')
      BY <2>1, <2>3
    <3>4. \A i \in Places : order[i] \in Roots => doms'[i] = i
      BY <2>1
    <3> QED BY <2>1, <2>2, <3>1, <3>2, <3>3, <3>4 DEF SweepTyped, Known
  <2>6. ASSUME NEW h \in Roots, NEW i \in Places, order[i] \in Alone(h) \ {h}
        PROVE  ~Known(i)' /\ ~(i > idx')
    <3>1. order[i] \notin Roots
      BY <2>6, HeadAlone
    <3>2. ~(i > idx')
      BY <2>1, <2>3
    <3> QED BY <2>4, <3>1, <3>2 DEF Known
  <2> QED BY <2>1, <2>2, <2>5, <2>6 DEF SweepInv
<1>3. CASE Visit
  <2>1. pc = "sweep" /\ Sweeping /\ UNCHANGED <<tbl, order, tree, dominated, finished>>
    BY <1>3 DEF Visit, Sweeping
  <2>2. idx \in Places
    BY <1>3, PlaceFacts DEF Visit, TreeInv, SearchTyped
  <2>3. CASE doms[idx] = idx /\ idx' = idx - 1 /\ UNCHANGED <<hash, doms, changed, pc>>
    <3>1. KeepsDoms
      <4>1. UNCHANGED <<tbl, order, doms>> /\ changed' = changed /\ pc' = "sweep"
        BY <2>1, <2>3
      <4>2. pc' # "done"
        BY <4>1
      <4> QED BY ONLY <2>2, <2>3, <4>1, <4>2 DEF KeepsDoms
    <3> QED BY <2>1, <3>1, SweepKept
  <2>4. CASE pc' = "panicked"
    BY <2>4 DEF SweepInv, Sweeping
  <2>5. CASE /\ doms[idx] # idx /\ ~NoIdom(order[idx])
             /\ \E preds \in Orders(tbl.pred[order[idx]]) :
                  /\ hash[order[idx]] \in {<<>>, preds}
                  /\ hash' = [hash EXCEPT ![order[idx]] = preds]
                  /\ doms' = [doms EXCEPT ![idx] = NewIdom(preds)]
                  /\ changed' = (changed \/ doms'[idx] # doms[idx])
             /\ idx' = idx - 1 /\ UNCHANGED pc
    <3>1. PICK preds : VisitsWith(preds)
      BY <2>1, <2>2, <2>5 DEF VisitsWith
    <3> QED BY <3>1, SweepVisit
  <2> QED BY <1>3, <2>3, <2>4, <2>5 DEF Visit
<1>4. CASE Again
  <2>1. Sweeping /\ UNCHANGED <<tbl, order, doms>> /\ pc' # "done" /\ idx' = Len(order) /\ changed' = FALSE
    BY <1>4 DEF Again, Sweeping
  <2>2. KeepsDoms
    BY ONLY <2>1 DEF KeepsDoms
  <2> QED BY <2>1, <2>2, SweepKept
<1>5. CASE Converged
  <2>1. /\ Sweeping /\ UNCHANGED <<tbl, order, doms, idx, changed, finished>> /\ idx = 0 /\ ~changed
        /\ \/ pc' = "panicked"
           \/ /\ finished = Blocks /\ tree' = [b \in Blocks |-> order[doms[Place(b)]]]
              /\ dominated' = UpFrom(tree')
    BY <1>5 DEF Converged, Sweeping
  <2>2. CASE pc' = "panicked"
    BY <2>2 DEF SweepInv, Sweeping
  <2>3. CASE pc' # "panicked"
    <3>1. KeepsDoms
      <4>1. UNCHANGED <<tbl, order, doms>> /\ changed' = changed /\ idx' = idx
        BY <2>1
      <4>2. /\ finished' = Blocks /\ idx' = 0 /\ ~changed'
            /\ tree' = [b \in Blocks |-> order[doms[Place(b)]]] /\ dominated' = UpFrom(tree')
        BY <2>1, <2>3
      <4> QED BY ONLY <4>1, <4>2 DEF KeepsDoms
    <3> QED BY <2>1, <3>1, SweepKept
  <2> QED BY <2>2, <2>3
<1>6. CASE UNCHANGED domVars
  <2>1. /\ UNCHANGED <<tbl, order, doms, idx, changed, finished, tree, dominated, pc>>
    BY <1>6 DEF domVars
  <2>2. CASE Sweeping
    <3>1. pc' = "done" => /\ finished' = Blocks /\ idx' = 0 /\ ~changed'
                          /\ tree' = [b \in Blocks |-> order[doms[Place(b)]]]
                          /\ dominated' = UpFrom(tree')
      BY <2>1, <2>2 DEF SweepInv
    <3>2. KeepsDoms
      <4>1. UNCHANGED <<tbl, order, doms>> /\ changed' = changed /\ idx' = idx
        BY <2>1
      <4> QED BY ONLY <3>1, <4>1 DEF KeepsDoms
    <3> QED BY <2>2, <3>2, SweepKept
  <2>3. CASE ~Sweeping
    BY <2>1, <2>3 DEF SweepInv, Sweeping
  <2> QED BY <2>2, <2>3
<1> QED BY <1>1, <1>2, <1>3, <1>4, <1>5, <1>6 DEF Next, Regions, Tree, vars, DomNext

(* The construction fails at a predecessor that the search did not reach,  *)
(* or at a block it did not reach; never for want of a predecessor that    *)
(* has a dominator.                                                        *)
LEMMA PanicSteps ==
  ASSUME TreeInv, OrderInv, SweepInv, PanicsOnOrphans, [Next]_vars
  PROVE  PanicsOnOrphans'
<1>1. pc # "order" => finished = Reach(tbl, Heads(tbl), {}) /\ finished \in SUBSET Blocks
  BY SearchEnds DEF TreeInv, SearchTyped, SearchInv
<1>2. CASE Visit
  <2>1. pc = "sweep" /\ idx \in Places /\ UNCHANGED tbl /\ Sweeping
    BY <1>2, PlaceFacts DEF Visit, TreeInv, SearchTyped, Sweeping
  <2>2. CASE pc' = pc
    BY <2>1, <2>2 DEF PanicsOnOrphans
  <2>3. CASE pc' # pc
    <3>1. pc' = "panicked" /\ NoIdom(order[idx]) /\ doms[idx] # idx
      BY <1>2, <2>3 DEF Visit
    <3>2. order[idx] \in Blocks /\ tbl.pred[order[idx]] \in SUBSET Blocks
      <4>1. order[idx] \in Blocks
        BY <2>1, PlaceFacts
      <4> QED BY <4>1 DEF TreeInv, SearchTyped, IsTable
    <3>3. SweepTyped /\ pc # "order"
      BY <2>1, SweepFitted
    <3>4. ~(tbl.pred[order[idx]] \subseteq finished)
      <4> SUFFICES ASSUME tbl.pred[order[idx]] \subseteq finished PROVE FALSE
        OBVIOUS
      <4>1. order[idx] \notin Roots
        BY <2>1, <3>1, <3>3 DEF SweepTyped
      <4>2. PICK j \in Places : order[j] \in tbl.pred[order[idx]] /\ Known(j)
        BY <2>1, <3>3, <4>1, PredKnown
      <4>3. Place(order[j]) = j
        BY PlaceFacts
      <4> QED BY <3>1, <4>2, <4>3 DEF NoIdom, Known
    <3> QED BY <1>1, <2>1, <3>1, <3>2, <3>4 DEF PanicsOnOrphans, Orphans
  <2> QED BY <2>2, <2>3
<1>3. CASE Converged
  <2>1. pc # "order" /\ UNCHANGED tbl /\ pc' = IF finished # Blocks THEN "panicked" ELSE "done"
    BY <1>3 DEF Converged
  <2> QED BY <1>1, <2>1 DEF PanicsOnOrphans, Orphans
<1>4. CASE Discover \/ Finish \/ MarkRoots \/ Again
  <2>1. pc' \in {"order", "sweep"}
    BY <1>4 DEF Discover, Finish, MarkRoots, Again
  <2> QED BY <2>1 DEF PanicsOnOrphans
<1>5. CASE UNCHANGED domVars
  BY <1>5 DEF domVars, PanicsOnOrphans
<1> QED BY <1>2, <1>3, <1>4, <1>5 DEF Next, Regions, Tree, vars, DomNext

DomInv == TreeInv /\ OrderInv /\ SweepInv /\ PanicsOnOrphans

LEMMA DomBegins == Init => DomInv
<1>1. Init => pc = "order"
  BY DEF Init, DomInit
<1>2. pc = "order" => SweepInv /\ PanicsOnOrphans
  BY DEF SweepInv, Sweeping, PanicsOnOrphans
<1> QED BY <1>1, <1>2, TreeBegins, OrderBegins DEF DomInv

LEMMA DomSteps == DomInv /\ [Next]_vars => DomInv'
BY TreeSteps, OrderSteps, SweepSteps, PanicSteps DEF DomInv

LEMMA DomAlways == Spec => []DomInv
BY DomBegins, DomSteps, PTL DEF Spec

(* The construction of a dominator tree panics on the units with a cycle   *)
(* of blocks that no head leads to, and on no other.                       *)
THEOREM TreesPanicOnOrphans == Spec => []PanicsOnOrphans
<1>1. DomInv => PanicsOnOrphans
  BY DEF DomInv
<1> QED BY <1>1, DomAlways, PTL

-----------------------------------------------------------------------------
(* The answer (domtree.rs:107-128, 217-228). Climbing from a block visits   *)
(* the least set around it that the immediate dominators do not leave: that *)
(* set satisfies the recursions of both queries.                           *)
Chain(idom, b) ==
  {y \in Blocks : \A S \in SUBSET Blocks : b \in S /\ (\A c \in S : idom[c] \in S) => y \in S}
UpSolves(up, idom) ==
  \A b \in Blocks : up[b] = {b} \cup IF idom[b] = b THEN {} ELSE up[idom[b]]
ClimbSolves(climb, p) ==
  /\ \A b \in Blocks : climb[b] <=> (b = p \/ (tree[b] # b /\ climb[tree[b]]))
  /\ \A b \in Blocks : BlockDominatesBlock(p, b) <=> climb[b]

LEMMA ChainStep ==
  ASSUME NEW idom \in [Blocks -> Blocks], NEW b \in Blocks
  PROVE  /\ Chain(idom, b) = {b} \cup Chain(idom, idom[b])
         /\ idom[b] = b => Chain(idom, b) = {b}
<1>1. \A c \in Blocks : c \in Chain(idom, c) /\ \A y \in Chain(idom, c) : idom[y] \in Chain(idom, c)
  BY DEF Chain
<1>2. Chain(idom, b) \subseteq {b} \cup Chain(idom, idom[b])
  <2> DEFINE S == {b} \cup Chain(idom, idom[b])
  <2>1. S \in SUBSET Blocks /\ b \in S
    BY DEF Chain
  <2>2. \A c \in S : idom[c] \in S
    BY <1>1
  <2> HIDE DEF S
  <2>3. Chain(idom, b) \subseteq S
    BY <2>1, <2>2 DEF Chain
  <2> QED BY <2>3 DEF S
<1>3. {b} \cup Chain(idom, idom[b]) \subseteq Chain(idom, b)
  BY DEF Chain
<1>4. ASSUME idom[b] = b PROVE Chain(idom, b) \subseteq {b}
  <2>1. {b} \in SUBSET Blocks /\ \A c \in {b} : idom[c] \in {b}
    BY <1>4
  <2> QED BY <2>1 DEF Chain
<1> QED BY <1>1, <1>2, <1>3, <1>4

LEMMA UpFromSolves ==
  ASSUME NEW idom \in [Blocks -> Blocks]
  PROVE  UpSolves(UpFrom(idom), idom)
<1> DEFINE R(g) == [b \in Blocks |-> {b} \cup IF idom[b] = b THEN {} ELSE g[idom[b]]]
           f == [b \in Blocks |-> Chain(idom, b)]
           up[b \in Blocks] == {b} \cup IF idom[b] = b THEN {} ELSE up[idom[b]]
<1>1. f = R(f)
  <2>1. ASSUME NEW b \in Blocks PROVE f[b] = R(f)[b]
    <3>1. f[b] = Chain(idom, b) /\ f[idom[b]] = Chain(idom, idom[b])
      OBVIOUS
    <3>2. /\ Chain(idom, b) = {b} \cup Chain(idom, idom[b])
          /\ idom[b] = b => Chain(idom, b) = {b}
      BY ChainStep
    <3> QED BY <3>1, <3>2
  <2> HIDE DEF up
  <2> QED BY <2>1
<1>2. up = R(up)
  <2> HIDE DEF f
  <2> QED BY <1>1
<1>3. UpFrom(idom) = up
  BY DEF UpFrom
<1> HIDE DEF up
<1> QED BY <1>2, <1>3 DEF UpSolves

LEMMA BlockClimbs ==
  ASSUME tree \in [Blocks -> Blocks], NEW p \in Blocks
  PROVE  \E climb : ClimbSolves(climb, p)
<1> DEFINE R(g) == [b \in Blocks |-> \/ b = p
                                     \/ tree[b] # b /\ g[tree[b]]]
           f == [b \in Blocks |-> IF p \in Chain(tree, b) THEN TRUE ELSE FALSE]
           climb[b \in Blocks] == \/ b = p
                                  \/ tree[b] # b /\ climb[tree[b]]
<1>1. f = R(f)
  <2>1. ASSUME NEW b \in Blocks PROVE f[b] = R(f)[b]
    <3>1. /\ f[b] <=> p \in Chain(tree, b)
          /\ f[tree[b]] <=> p \in Chain(tree, tree[b])
      OBVIOUS
    <3>2. /\ Chain(tree, b) = {b} \cup Chain(tree, tree[b])
          /\ tree[b] = b => Chain(tree, b) = {b}
      BY ChainStep
    <3>3. p \in Chain(tree, b) <=> (b = p \/ (tree[b] # b /\ p \in Chain(tree, tree[b])))
      BY <3>2
    <3>4. R(f)[b] = (b = p \/ (tree[b] # b /\ f[tree[b]]))
      BY Zenon
    <3>5. f[b] <=> (b = p \/ (tree[b] # b /\ f[tree[b]]))
      BY ONLY <3>1, <3>3, Zenon
    <3>6. f[b] = TRUE \/ f[b] = FALSE
      OBVIOUS
    <3> HIDE DEF R, f
    <3> QED BY <3>4, <3>5, <3>6
  <2> HIDE DEF climb
  <2> QED BY <2>1
<1>2. climb = R(climb)
  <2> HIDE DEF f
  <2> QED BY <1>1
<1>3. \A b \in Blocks : BlockDominatesBlock(p, b) = climb[b]
  BY DEF BlockDominatesBlock
<1> HIDE DEF climb
<1>4. \A b \in Blocks : climb[b] = (b = p \/ (tree[b] # b /\ climb[tree[b]]))
  BY <1>2
<1>5. ClimbSolves(climb, p)
  BY <1>3, <1>4 DEF ClimbSolves
<1> QED BY <1>5

(* The tree when the sweeps have ended: from every block that a single head *)
(* leads to, it climbs to that head.                                       *)
LEMMA DoneFacts ==
  ASSUME DomInv, pc = "done", NEW h \in Roots
  PROVE  /\ Fitted(h) /\ finished = Blocks /\ tree \in [Blocks -> Blocks]
         /\ \A i \in Places : Known(i)
         /\ \A b \in Blocks : Place(b) \in Places /\ order[Place(b)] = b
         /\ \A b \in Alone(h) : b \in Blocks /\ Place(b) \in Ranked(h) /\ h \in Alone(h)
         /\ tree[h] = h
         /\ \A b \in Alone(h) : b # h =>
              /\ tree[b] \in Alone(h) /\ tree[b] # b
              /\ Place(tree[b]) = doms[Place(b)] /\ Place(tree[b]) > Place(b)
              /\ Settled(h, Place(b))
<1>1. TreeInv /\ OrderInv /\ SweepInv /\ Sweeping
  BY DEF DomInv, Sweeping
<1>2. SweepTyped /\ pc # "order" /\ Fitted(h)
  BY <1>1, SweepFitted
<1>3. finished = Blocks /\ idx = 0 /\ ~changed /\ tree = [b \in Blocks |-> order[doms[Place(b)]]]
  BY <1>1 DEF SweepInv
<1>4. /\ Len(order) \in Nat /\ Places = 1..Len(order)
      /\ \A i \in Places : order[i] \in Blocks /\ order[i] \in finished /\ Place(order[i]) = i
      /\ \A b \in finished : Place(b) \in Places /\ order[Place(b)] = b
  BY <1>1, PlaceFacts
<1>5. \A i \in Places : Known(i) /\ doms[i] \in Places
  <2>1. \A i \in Places : i > idx
    BY <1>3, <1>4
  <2>2. \A i \in Places : Known(i)
    BY <1>2, <2>1 DEF SweepTyped
  <2> QED BY <1>2, <2>2 DEF SweepTyped, Known
<1>6. tree \in [Blocks -> Blocks]
  BY <1>3, <1>4, <1>5
<1>7. ASSUME NEW b \in Alone(h)
      PROVE  b \in Blocks /\ Place(b) \in Ranked(h) /\ h \in Alone(h)
  <2>1. b \in Blocks /\ h \in Alone(h)
    BY <1>1, <1>2, AloneFacts DEF Alone
  <2> QED BY <1>3, <1>4, <1>5, <2>1 DEF Ranked
<1>8. tree[h] = h
  <2>1. h \in Blocks
    BY <1>1, HeadsReach DEF TreeInv, SearchTyped, Roots
  <2>2. Place(h) \in Places /\ order[Place(h)] = h
    BY <1>3, <1>4, <2>1
  <2>3. doms[Place(h)] = Place(h)
    BY <1>2, <2>2 DEF SweepTyped
  <2> QED BY <1>3, <2>1, <2>2, <2>3
<1>9. ASSUME NEW b \in Alone(h), b # h
      PROVE  /\ tree[b] \in Alone(h) /\ tree[b] # b
             /\ Place(tree[b]) = doms[Place(b)] /\ Place(tree[b]) > Place(b)
             /\ Settled(h, Place(b))
  <2> DEFINE i == Place(b)
  <2>1. b \in Blocks /\ i \in Places /\ order[i] = b /\ i \in Ranked(h)
    BY <1>3, <1>4, <1>7
  <2>2. Fit(h, i)
    BY <1>2, <1>5, <1>9, <2>1 DEF Fitted
  <2>3. order[doms[i]] \in Alone(h) /\ doms[i] > i
    BY <2>2 DEF Fit
  <2>4. tree[b] = order[doms[i]] /\ Place(tree[b]) = doms[i]
    BY <1>3, <1>4, <1>5, <2>1
  <2>5. Settled(h, i)
    <3>1. i > idx
      BY <1>3, <1>4, <2>1
    <3>2. order[i] \in Alone(h) \ {h} /\ ~changed
      BY <1>3, <1>9, <2>1
    <3> HIDE DEF i
    <3> QED BY <1>1, <2>1, <3>1, <3>2 DEF SweepInv
  <2>6. tree[b] # b
    BY <1>4, <1>5, <2>1, <2>3, <2>4
  <2> QED BY <2>3, <2>4, <2>5, <2>6
<1> QED BY <1>2, <1>3, <1>4, <1>5, <1>6, <1>7, <1>8, <1>9

(* What holds of the head, and of a block if of its immediate dominator,   *)
(* holds of all blocks that this head alone leads to.                      *)
LEMMA AloneInduction ==
  ASSUME DomInv, pc = "done", NEW h \in Roots, NEW T, h \in T,
         \A b \in Alone(h) : b # h /\ tree[b] \in T => b \in T
  PROVE  Alone(h) \subseteq T
<1>1. TreeInv /\ OrderInv
  BY DEF DomInv
<1>2. PICK n : n = Len(order)
  OBVIOUS
<1>3. n \in Nat /\ Places = 1..n /\ \A i \in Places : Place(order[i]) = i
  BY <1>1, <1>2, PlaceFacts
<1> DEFINE V == {i \in Places : order[i] \in Alone(h) => order[i] \in T}
<1>4. ASSUME NEW i \in 1..n, \A j \in 1..n : j > i => j \in V PROVE i \in V
  <2> SUFFICES ASSUME order[i] \in Alone(h), order[i] # h PROVE order[i] \in T
    BY <1>3
  <2>1. tree[order[i]] \in Alone(h) /\ Place(tree[order[i]]) > Place(order[i])
    BY DoneFacts
  <2> DEFINE j == Place(tree[order[i]])
  <2>2. j \in Places /\ order[j] = tree[order[i]]
    BY <2>1, DoneFacts
  <2>3. j \in 1..n /\ j > i
    BY <1>3, <2>1, <2>2
  <2>4. j \in V
    BY <1>4, <2>3
  <2>5. tree[order[i]] \in T
    BY <2>1, <2>2, <2>4
  <2> QED BY <2>5
<1>5. 1..n \subseteq V
  <2> HIDE DEF V
  <2> QED BY <1>3, <1>4, CountDown
<1>6. ASSUME NEW b \in Alone(h) PROVE b \in T
  <2>1. Place(b) \in Places /\ order[Place(b)] = b
    BY DoneFacts
  <2>2. Place(b) \in V
    BY <1>3, <1>5, <2>1
  <2> QED BY <2>1, <2>2
<1> QED BY <1>6

(* A finger that climbs leaves dominators behind, it finds no others.      *)
LEMMA UpAbove ==
  ASSUME DomInv, pc = "done", NEW h \in Roots, NEW p \in Ranked(h), NEW q \in Above(p),
         NEW up, UpSolves(up, tree)
  PROVE  up[order[q]] \subseteq up[order[p]]
<1>1. /\ Fitted(h) /\ tree \in [Blocks -> Blocks]
      /\ \A b \in Alone(h) : b # h => tree[b] # b /\ Place(tree[b]) = doms[Place(b)]
      /\ \A b \in Blocks : Place(b) \in Places /\ order[Place(b)] = b
  BY DoneFacts
<1>2. Climbable(h) /\ TreeInv /\ OrderInv
  BY <1>1, FittedClimbs DEF Fitted
<1>3. \A i \in Places : order[i] \in Blocks /\ Place(order[i]) = i
  BY <1>2, PlaceFacts
<1> DEFINE S == {x \in Ranked(h) : up[order[x]] \subseteq up[order[p]]}
<1>4. p \in S /\ S \in SUBSET Places
  BY DEF Ranked
<1>5. ASSUME NEW x \in S PROVE doms[x] \in S
  <2>1. x \in Ranked(h) /\ x \in Places /\ order[x] \in Alone(h) /\ doms[x] \in Ranked(h)
    BY <1>2 DEF Climbable, Ranked
  <2>2. CASE order[x] = h
    BY <1>2, <2>1, <2>2 DEF Climbable
  <2>3. CASE order[x] # h
    <3>1. tree[order[x]] # order[x] /\ Place(tree[order[x]]) = doms[x]
      BY <1>1, <1>3, <2>1, <2>3
    <3>2. order[x] \in Blocks /\ tree[order[x]] \in Blocks
      BY <1>1, <1>3, <2>1
    <3>3. order[doms[x]] = tree[order[x]]
      BY <1>1, <3>1, <3>2
    <3>4. up[order[x]] = {order[x]} \cup up[tree[order[x]]]
      BY <3>1, <3>2 DEF UpSolves
    <3> QED BY <2>1, <3>3, <3>4
  <2> QED BY <2>2, <2>3
<1>6. Above(p) \subseteq S
  <2> HIDE DEF S
  <2> QED BY <1>4, <1>5, AboveLeast
<1> QED BY <1>6

(* Nothing but dominators is met on the way up: the blocks that y is not   *)
(* above hold everything that is reached without y.                        *)
LEMMA UpDominates ==
  ASSUME DomInv, pc = "done", NEW h \in Roots, NEW up, UpSolves(up, tree),
         NEW b \in Alone(h), NEW y \in up[b]
  PROVE  OnEveryPath(tbl, h, y, b)
<1>1. /\ Fitted(h) /\ finished = Blocks /\ tree \in [Blocks -> Blocks]
      /\ \A c \in Blocks : Place(c) \in Places /\ order[Place(c)] = c
      /\ \A c \in Alone(h) : c \in Blocks /\ Place(c) \in Ranked(h) /\ h \in Alone(h)
      /\ tree[h] = h /\ \A i \in Places : Known(i)
      /\ \A c \in Alone(h) : c # h => /\ tree[c] \in Alone(h) /\ tree[c] # c
                                      /\ Place(tree[c]) = doms[Place(c)] /\ Settled(h, Place(c))
  BY DoneFacts
<1>2. TreeInv /\ pc # "order" /\ OrderInv
  BY <1>1 DEF Fitted
<1>3. /\ tbl.succ \in [Blocks -> SUBSET Blocks] /\ h \in Blocks
      /\ tbl.pred = [c \in Blocks |-> {a \in Blocks : c \in tbl.succ[a]}]
  BY <1>1, <1>2 DEF TreeInv, SearchTyped, IsTable
<1> DEFINE A == {c \in Blocks : c \in Alone(h) => y \notin up[c]}
<1>4. {h} \ {y} \subseteq A
  <2>1. up[h] = {h}
    BY <1>1, <1>3 DEF UpSolves
  <2> QED BY <1>3, <2>1
<1>5. ASSUME NEW a \in A, NEW c \in tbl.succ[a], c # y PROVE c \in A
  <2>1. a \in Blocks /\ c \in Blocks /\ a \in tbl.pred[c]
    BY <1>3
  <2> SUFFICES ASSUME c \in Alone(h) PROVE y \notin up[c]
    BY <2>1
  <2>2. a \in Alone(h)
    BY <1>1, <1>2, <2>1, AloneFacts
  <2>3. y \notin up[a]
    BY <2>2
  <2>4. CASE c = h
    <3>1. up[h] = {h}
      BY <1>1, <1>3 DEF UpSolves
    <3> QED BY <1>5, <2>4, <3>1
  <2>5. CASE c # h
    <3>1. up[c] = {c} \cup up[tree[c]]
      BY <1>1, <2>1, <2>5 DEF UpSolves
    <3>2. doms[Place(c)] \in Above(Place(a))
      <4>1. order[Place(a)] \in tbl.pred[order[Place(c)]] /\ Place(a) \in Places /\ Known(Place(a))
        BY <1>1, <2>1
      <4> QED BY <1>1, <2>5, <4>1 DEF Settled
    <3>3. order[doms[Place(c)]] = tree[c] /\ order[Place(a)] = a /\ Place(a) \in Ranked(h)
      <4>1. tree[c] \in Blocks
        BY <1>1, <2>1
      <4> QED BY <1>1, <2>1, <2>2, <2>5, <4>1
    <3>4. up[order[doms[Place(c)]]] \subseteq up[order[Place(a)]]
      BY <3>2, <3>3, UpAbove
    <3> QED BY <1>5, <2>3, <3>1, <3>3, <3>4
  <2> QED BY <2>4, <2>5
<1>6. Reach(tbl, {h}, {y}) \subseteq A
  <2>1. {h} \in SUBSET Blocks
    BY <1>3
  <2>2. Closed(tbl, {y}, A)
    <3> HIDE DEF A
    <3> QED BY <1>5 DEF Closed
  <2> HIDE DEF A
  <2> QED BY <1>3, <1>4, <2>1, <2>2, ReachLeast
<1> QED BY <1>6 DEF OnEveryPath

(* Every dominator is met on the way up.                                   *)
LEMMA UpComplete ==
  ASSUME DomInv, pc = "done", NEW h \in Roots, NEW up, UpSolves(up, tree)
  PROVE  \A b \in Alone(h) : up[b] \subseteq Blocks /\ Over(h, Place(b)) \subseteq up[b]
<1>1. /\ Fitted(h) /\ tree \in [Blocks -> Blocks]
      /\ \A c \in Blocks : Place(c) \in Places /\ order[Place(c)] = c
      /\ \A c \in Alone(h) : c \in Blocks /\ Place(c) \in Ranked(h) /\ h \in Alone(h)
      /\ tree[h] = h
      /\ \A c \in Alone(h) : c # h => /\ tree[c] \in Alone(h) /\ tree[c] # c
                                      /\ Place(tree[c]) = doms[Place(c)]
  BY DoneFacts
<1>2. Climbable(h)
  BY <1>1, FittedClimbs
<1>3. h \in Blocks
  BY HeadsReach DEF DomInv, TreeInv, SearchTyped, Roots
<1>4. TreeInv /\ OrderInv
  BY DEF DomInv
<1>5. \A i \in Places : order[i] \in Blocks /\ Place(order[i]) = i
  BY <1>4, PlaceFacts
<1> DEFINE T == {c \in Blocks : c \in Alone(h) => up[c] \subseteq Blocks /\ Over(h, Place(c)) \subseteq up[c]}
<1>6. h \in T
  <2>1. up[h] = {h}
    BY <1>1, <1>3 DEF UpSolves
  <2>2. ASSUME h \in Alone(h), NEW d \in Over(h, Place(h)) PROVE d = h
    <3>1. Place(h) \in Ranked(h) /\ order[Place(h)] = h /\ Place(h) \in Places
      BY <1>1, <2>2
    <3>2. PICK e \in Places : e >= Place(h) /\ order[e] = d
      BY <1>2, <2>2, <3>1 DEF Climbable
    <3> SUFFICES ASSUME d # h PROVE FALSE
      OBVIOUS
    <3>3. {h} \in SUBSET Blocks /\ tbl.succ \in [Blocks -> SUBSET Blocks]
      BY <1>3, <1>4 DEF TreeInv, SearchTyped, IsTable
    <3>4. {h} \ {d} \subseteq Reach(tbl, {h}, {d})
      BY <3>3, ReachClosed
    <3> QED BY <2>2, <3>1, <3>4 DEF Over, OnEveryPath
  <2> QED BY <1>3, <2>1, <2>2
<1>7. ASSUME NEW b \in Alone(h), b # h, tree[b] \in T PROVE b \in T
  <2> DEFINE c == tree[b]
  <2>1. /\ b \in Blocks /\ c \in Alone(h) /\ c # b /\ Place(c) = doms[Place(b)]
        /\ Place(b) \in Ranked(h) /\ order[Place(b)] = b
    BY <1>1, <1>7
  <2>2. up[c] \subseteq Blocks /\ Over(h, Place(c)) \subseteq up[c]
    BY <1>7, <2>1
  <2>3. up[b] = {b} \cup up[c]
    BY <2>1 DEF UpSolves
  <2>4. ASSUME NEW d \in Over(h, Place(b)), d # b PROVE d \in Over(h, Place(c))
    BY <1>2, <2>1, <2>4 DEF Climbable
  <2> HIDE DEF c
  <2> QED BY <2>1, <2>2, <2>3, <2>4
<1>8. Alone(h) \subseteq T
  <2> HIDE DEF T
  <2> QED BY <1>6, <1>7, AloneInduction
<1> QED BY <1>8

(* The climb of block_dominates_block meets the same blocks.               *)
LEMMA ClimbMeets ==
  ASSUME DomInv, pc = "done", NEW h \in Roots, NEW up, UpSolves(up, tree), NEW p \in Blocks
  PROVE  \A b \in Alone(h) : BlockDominatesBlock(p, b) <=> p \in up[b]
<1>1. /\ tree \in [Blocks -> Blocks] /\ tree[h] = h
      /\ \A c \in Alone(h) : c \in Blocks
      /\ \A c \in Alone(h) : c # h => tree[c] \in Alone(h) /\ tree[c] # c
  BY DoneFacts
<1>2. h \in Blocks
  BY HeadsReach DEF DomInv, TreeInv, SearchTyped, Roots
<1>3. PICK climb : ClimbSolves(climb, p)
  BY <1>1, BlockClimbs
<1> DEFINE T == {c \in Blocks : c \in Alone(h) => (climb[c] <=> p \in up[c])}
<1>4. h \in T
  <2>1. up[h] = {h} /\ (climb[h] <=> h = p)
    BY <1>1, <1>2, <1>3 DEF UpSolves, ClimbSolves
  <2> QED BY <1>2, <2>1
<1>5. ASSUME NEW b \in Alone(h), b # h, tree[b] \in T PROVE b \in T
  <2>1. b \in Blocks /\ tree[b] \in Alone(h) /\ tree[b] # b
    BY <1>1, <1>5
  <2>2. up[b] = {b} \cup up[tree[b]]
    BY <2>1 DEF UpSolves
  <2>3. climb[b] <=> (b = p \/ climb[tree[b]])
    BY <1>3, <2>1 DEF ClimbSolves
  <2>4. climb[tree[b]] <=> p \in up[tree[b]]
    BY <1>5, <2>1
  <2>5. climb[b] <=> p \in up[b]
    BY <2>2, <2>3, <2>4
  <2> QED BY <2>1, <2>5
<1>6. Alone(h) \subseteq T
  <2> HIDE DEF T
  <2> QED BY <1>4, <1>5, AloneInduction
<1>7. \A b \in Blocks : BlockDominatesBlock(p, b) <=> climb[b]
  BY <1>3 DEF ClimbSolves
<1> QED BY <1>1, <1>6, <1>7

LEMMA DoneRight == DomInv => DominatorsRight
<1> SUFFICES ASSUME DomInv, pc = "done", NEW b \in Blocks,
                    Cardinality({k \in Roots : b \in Reach(tbl, {k}, {})}) = 1
             PROVE  /\ dominated[b] = {d \in Blocks : \A k \in {k \in Roots : b \in Reach(tbl, {k}, {})} :
                                                        OnEveryPath(tbl, k, d, b)}
                    /\ \A p \in Blocks : Dominates(p, b) <=> BlockDominatesBlock(p, b)
  BY DEF DominatorsRight
<1>1. Roots \in SUBSET Blocks /\ IsFiniteSet(Roots)
  <2>1. Roots \in SUBSET Blocks
    BY HeadsReach DEF DomInv, TreeInv, SearchTyped, Roots
  <2> QED BY <2>1, BlocksFinite
<1> DEFINE above == {k \in Roots : b \in Reach(tbl, {k}, {})}
<1>2. PICK h : above = {h}
  <2>1. IsFiniteSet(above)
    BY <1>1, FS_Subset
  <2>2. Cardinality(above) = 1
    OBVIOUS
  <2> HIDE DEF above
  <2> QED BY <2>1, <2>2, FS_Singleton
<1>3. h \in Roots /\ b \in Alone(h)
  BY <1>2 DEF Alone
<1>4. dominated = UpFrom(tree) /\ tree \in [Blocks -> Blocks] /\ order[Place(b)] = b
  BY <1>3, DoneFacts DEF DomInv, SweepInv, Sweeping
<1>5. UpSolves(dominated, tree)
  BY <1>4, UpFromSolves
<1>6. dominated[b] \subseteq Blocks /\ Over(h, Place(b)) \subseteq dominated[b]
  BY <1>3, <1>5, UpComplete
<1>7. \A d \in dominated[b] : OnEveryPath(tbl, h, d, b)
  BY <1>3, <1>5, UpDominates
<1>8. \A d \in Blocks : OnEveryPath(tbl, h, d, b) => d \in dominated[b]
  BY <1>4, <1>6 DEF Over
<1>9. \A p \in Blocks : Dominates(p, b) <=> BlockDominatesBlock(p, b)
  <2>1. \A p \in Blocks : BlockDominatesBlock(p, b) <=> p \in dominated[b]
    BY <1>3, <1>5, ClimbMeets
  <2> QED BY <2>1 DEF Dominates
<1> HIDE DEF above
<1>10. dominated[b] = {d \in Blocks : \A k \in above : OnEveryPath(tbl, k, d, b)}
  BY <1>2, <1>6, <1>7, <1>8
<1> QED BY <1>9, <1>10 DEF above

(* The dominators of a block that a single head leads to are exactly those *)
(* on every path from that head, whatever order the hash sets are iterated *)
(* in, and both ways to ask say so.                                        *)
THEOREM DominatorsAlwaysRight == Spec => []DominatorsRight
BY DoneRight, DomAlways, PTL

-----------------------------------------------------------------------------
(* Sets of blocks that are entered at one block only, whatever leads there: *)
(* their immediate dominators stay inside and lie above, so a climb from   *)
(* any of them comes by the entry.                                         *)
Enclosed(U, h) ==
  /\ U \in SUBSET Blocks /\ h \in U
  /\ \A c \in U \ {h} : c \notin Roots /\ tbl.pred[c] \subseteq U
KnownIn(U) == {j \in Places : Known(j) /\ order[j] \in U}
Inward(U, h) ==
  \A j \in KnownIn(U) : order[j] # h => doms[j] \in KnownIn(U) /\ doms[j] > j
EnclosedInv == Sweeping => \A U \in SUBSET Blocks : \A h \in U : Enclosed(U, h) => Inward(U, h)

(* The entry is finished last.                                             *)
LEMMA EntryLast ==
  ASSUME TreeInv, OrderInv, pc # "order", NEW U, NEW h, Enclosed(U, h)
  PROVE  \A j \in Places : order[j] \in U => \E k \in Places : order[k] = h /\ j <= k
<1>1. PICK n : n = Len(order)
  OBVIOUS
<1>2. n \in Nat /\ Places = 1..n /\ \A i \in Places : order[i] \in finished
  BY <1>1, PlaceFacts
<1>3. discovered \ finished = {}
  BY DEF TreeInv, SearchInv, Range
<1> DEFINE T == {j \in Places : order[j] \in U => \E k \in Places : order[k] = h /\ j <= k}
<1>4. ASSUME NEW i \in 1..n, \A j \in 1..n : j > i => j \in T PROVE i \in T
  <2> SUFFICES ASSUME order[i] \in U, order[i] # h
               PROVE  \E k \in Places : order[k] = h /\ i <= k
    BY <1>2
  <2>1. order[i] \notin Roots /\ tbl.pred[order[i]] \subseteq U
    BY DEF Enclosed
  <2>2. PICK p \in tbl.pred[order[i]] : \E j \in Places : j > i /\ order[j] = p
    BY <1>2, <1>3, <2>1 DEF OrderInv, Preceded
  <2>3. PICK j \in Places : j > i /\ order[j] = p
    BY <2>2
  <2>4. PICK k \in Places : order[k] = h /\ j <= k
    BY <1>2, <1>4, <2>1, <2>3
  <2> QED BY <1>2, <2>3, <2>4
<1>5. 1..n \subseteq T
  <2> HIDE DEF T
  <2> QED BY <1>2, <1>4, CountDown
<1> QED BY <1>2, <1>5

(* Two fingers that begin inside meet inside, above where they begin.      *)
LEMMA MeetInside ==
  ASSUME TreeInv, OrderInv, SweepTyped, pc # "order", NEW U, NEW h, Enclosed(U, h), Inward(U, h),
         NEW i1 \in KnownIn(U), NEW i2 \in KnownIn(U)
  PROVE  Meet(i1, i2) \in KnownIn(U) /\ Meet(i1, i2) >= i1 /\ Meet(i1, i2) >= i2
<1>1. i1 \in KnownPlaces /\ i2 \in KnownPlaces
  BY DEF KnownIn, KnownPlaces
<1>2. PICK f : FingersGo(f, i1, i2)
  BY <1>1, MeetSteps
<1>3. PICK n : n = Len(order)
  OBVIOUS
<1>4. /\ n \in Nat /\ Places = 1..n
      /\ \A i \in Places : Place(order[i]) = i
  BY <1>3, PlaceFacts
<1>5. /\ f[0] = <<i1, i2>> /\ \A m \in 1..(2 * n) : f[m] = Climbed[f[m - 1]]
      /\ Meet(i1, i2) = IF f[2 * n][2] < f[2 * n][1] THEN i1 ELSE f[2 * n][1]
  BY <1>2, <1>3 DEF FingersGo
<1> DEFINE In(g) == g \in KnownIn(U) \X KnownIn(U) /\ g[1] >= i1 /\ g[2] >= i2
           Far(g, m) == g[1] = g[2] \/ g[1] + g[2] >= m + 2
           T == {m \in 0..(2 * n) : In(f[m]) /\ Far(f[m], m)}
<1>6. \A j \in KnownIn(U) : j \in 1..n /\ j \in KnownPlaces
  BY <1>4 DEF KnownIn, KnownPlaces
(* The lower of two places inside is not the entry.                        *)
<1>7. ASSUME NEW x \in KnownIn(U), NEW y \in KnownIn(U), x < y
      PROVE  doms[x] \in KnownIn(U) /\ doms[x] > x
  <2>1. order[x] # h
    <3>1. PICK k \in Places : order[k] = h /\ y <= k
      BY EntryLast DEF KnownIn
    <3>2. x # k
      BY <1>4, <1>6, <1>7, <3>1
    <3> QED BY <1>4, <1>6, <3>1, <3>2
  <2> QED BY <2>1 DEF Inward
<1>8. ASSUME NEW g, NEW m \in Nat, In(g), Far(g, m) PROVE In(Climbed[g]) /\ Far(Climbed[g], m + 1)
  <2>1. /\ g \in KnownPlaces \X KnownPlaces /\ g[1] \in KnownIn(U) /\ g[2] \in KnownIn(U)
        /\ g[1] \in 1..n /\ g[2] \in 1..n /\ i1 \in 1..n /\ i2 \in 1..n /\ g = <<g[1], g[2]>>
    BY <1>6, <1>8
  <2>2. /\ Halted(g) => Climbed[g] = g
        /\ ~Halted(g) /\ g[1] < g[2] => Climbed[g] = <<doms[g[1]], g[2]>>
        /\ ~Halted(g) /\ ~(g[1] < g[2]) => Climbed[g] = <<g[1], doms[g[2]]>>
    BY <2>1, ClimbedKnown
  <2>3. CASE g[1] = g[2]
    <3>1. Climbed[g] = g
      BY <2>2, <2>3 DEF Halted
    <3> QED BY <1>8, <2>3, <3>1
  <2>4. CASE g[1] < g[2]
    <3>1. doms[g[1]] \in KnownIn(U) /\ doms[g[1]] > g[1] /\ doms[g[1]] \in 1..n
      BY <1>6, <1>7, <2>1, <2>4
    <3>2. ~Halted(g)
      BY <2>1, <2>4, <3>1 DEF Halted
    <3>3. Climbed[g] = <<doms[g[1]], g[2]>>
      BY <2>2, <2>4, <3>2
    <3>4. Climbed[g][1] = doms[g[1]] /\ Climbed[g][2] = g[2]
      BY <3>3
    <3>5. In(Climbed[g])
      BY <1>4, <1>8, <2>1, <3>1, <3>3, <3>4
    <3>6. g[1] + g[2] >= m + 2
      BY <1>8, <2>1, <2>4
    <3>7. Climbed[g][1] + Climbed[g][2] >= (m + 1) + 2
      BY <1>4, <2>1, <3>1, <3>4, <3>6
    <3> QED BY <3>5, <3>7
  <2>5. CASE g[2] < g[1]
    <3>1. doms[g[2]] \in KnownIn(U) /\ doms[g[2]] > g[2] /\ doms[g[2]] \in 1..n
      BY <1>6, <1>7, <2>1, <2>5
    <3>2. ~Halted(g) /\ ~(g[1] < g[2])
      BY <2>1, <2>5, <3>1 DEF Halted
    <3>3. Climbed[g] = <<g[1], doms[g[2]]>>
      BY <2>2, <3>2
    <3>4. Climbed[g][1] = g[1] /\ Climbed[g][2] = doms[g[2]]
      BY <3>3
    <3>5. In(Climbed[g])
      BY <1>4, <1>8, <2>1, <3>1, <3>3, <3>4
    <3>6. g[1] + g[2] >= m + 2
      BY <1>8, <2>1, <2>5
    <3>7. Climbed[g][1] + Climbed[g][2] >= (m + 1) + 2
      BY <1>4, <2>1, <3>1, <3>4, <3>6
    <3> QED BY <3>5, <3>7
  <2> QED BY <1>4, <2>1, <2>3, <2>4, <2>5
<1>9. 0 \in T
  <2>1. i1 \in 1..n /\ i2 \in 1..n /\ f[0][1] = i1 /\ f[0][2] = i2
    BY <1>5, <1>6
  <2>2. f[0] \in KnownIn(U) \X KnownIn(U)
    BY <1>5
  <2>3. In(f[0]) /\ Far(f[0], 0)
    BY <1>4, <2>1, <2>2
  <2>4. 0 \in 0..(2 * n)
    BY <1>4
  <2> HIDE DEF In, Far
  <2> QED BY <2>3, <2>4
<1>10. ASSUME NEW m \in 1..(2 * n), m - 1 \in T PROVE m \in T
  <2>1. m - 1 \in Nat /\ m \in 0..(2 * n) /\ (m - 1) + 1 = m /\ f[m] = Climbed[f[m - 1]]
    BY <1>4, <1>5
  <2>2. In(f[m - 1]) /\ Far(f[m - 1], m - 1)
    BY <1>10
  <2> HIDE DEF In, Far
  <2>3. In(Climbed[f[m - 1]]) /\ Far(Climbed[f[m - 1]], (m - 1) + 1)
    BY <1>8, <2>1, <2>2
  <2> QED BY <2>1, <2>3
<1>11. 2 * n \in T
  <2>1. 2 * n \in Nat /\ 2 * n \in 0..(2 * n)
    BY <1>4
  <2>2. 0..(2 * n) \subseteq T
    <3> HIDE DEF T
    <3> QED BY <1>9, <1>10, <2>1, CountUp
  <2> QED BY <2>1, <2>2
<1>12. PICK g : g = f[2 * n]
  OBVIOUS
<1>13. In(g) /\ (g[1] = g[2] \/ g[1] + g[2] >= 2 * n + 2) /\ g[1] \in KnownIn(U) /\ g[2] \in KnownIn(U)
  BY <1>11, <1>12
<1>14. g[1] \in 1..n /\ g[2] \in 1..n
  BY <1>6, <1>13
<1>15. g[1] = g[2]
  BY <1>4, <1>13, <1>14
<1>16. Meet(i1, i2) = g[1]
  BY <1>5, <1>12, <1>14, <1>15
<1> QED BY <1>13, <1>15, <1>16

LEMMA NewIdomInside ==
  ASSUME TreeInv, OrderInv, SweepTyped, pc # "order", NEW U, NEW h, Enclosed(U, h), Inward(U, h),
         NEW preds \in Seq(finished), Range(preds) \subseteq U,
         NEW j \in 1..Len(preds), Known(Place(preds[j]))
  PROVE  NewIdom(preds) \in KnownIn(U) /\ NewIdom(preds) >= Place(preds[j])
<1>1. PICK f : FoldGoes(f, preds)
  BY FoldSteps
<1>2. PICK k : k = Len(preds)
  OBVIOUS
<1>3. /\ k \in Nat /\ j \in 1..k /\ NewIdom(preds) = f[k] /\ f[0] = Undef
      /\ \A m \in 1..k : f[m] = Merged[<<f[m - 1], Place(preds[m])>>]
  BY <1>1, <1>2 DEF FoldGoes
<1>4. /\ Len(order) \in Nat /\ Places = 1..Len(order)
      /\ \A b \in finished : Place(b) \in Places /\ order[Place(b)] = b
  BY PlaceFacts
<1>5. \A m \in 1..k : preds[m] \in finished /\ preds[m] \in U
  <2>1. \A m \in 1..k : m \in DOMAIN preds /\ preds[m] \in finished
    BY <1>2
  <2> QED BY <2>1 DEF Range
<1> DEFINE T == {m \in 0..k : /\ f[m] \in KnownIn(U) \cup {Undef}
                              /\ m >= j => f[m] \in KnownIn(U) /\ f[m] >= Place(preds[j])}
<1>6. 0 \in T
  BY <1>3
<1>7. ASSUME NEW m \in 1..k, m - 1 \in T PROVE m \in T
  <2> DEFINE p == Place(preds[m])
             a == f[m - 1]
             pj == Place(preds[j])
  <2>1. p \in Places /\ (Known(p) => p \in KnownIn(U)) /\ pj \in Places /\ f[m] = Merged[<<a, p>>]
    BY <1>3, <1>4, <1>5 DEF KnownIn
  <2>2. /\ a \in KnownIn(U) \cup {Undef} /\ m \in 0..k /\ m \in Nat
        /\ m - 1 >= j => a \in KnownIn(U) /\ a >= pj
    BY <1>7
  <2>3. /\ m = j => Known(p) /\ p = pj
        /\ m >= j => m = j \/ m - 1 >= j
    BY <1>3
  <2> HIDE DEF p, a, pj
  <2>4. KnownIn(U) \subseteq KnownPlaces /\ Undef \notin KnownIn(U) /\ KnownIn(U) \subseteq 1..Len(order)
    BY <1>4 DEF KnownIn, KnownPlaces, Undef
  <2>5. /\ ~Known(p) => f[m] = a
        /\ Known(p) /\ a = Undef => f[m] = p
        /\ Known(p) /\ a # Undef => f[m] = Meet(a, p)
    BY <2>1, <2>2, <2>4, MergedKnown
  <2>6. Known(p) /\ a # Undef => Meet(a, p) \in KnownIn(U) /\ Meet(a, p) >= a /\ Meet(a, p) >= p
    BY <2>1, <2>2, MeetInside
  <2>7. f[m] \in KnownIn(U) \cup {Undef}
    BY <2>1, <2>2, <2>5, <2>6
  <2>8. ASSUME m >= j PROVE f[m] \in KnownIn(U) /\ f[m] >= pj
    <3>1. CASE m = j
      <4>1. f[m] \in KnownIn(U) /\ f[m] >= p
        BY <1>4, <2>1, <2>2, <2>3, <2>5, <2>6, <3>1
      <4> QED BY <2>3, <3>1, <4>1
    <3>2. CASE m - 1 >= j
      <4>1. a \in KnownIn(U) /\ a >= pj /\ a # Undef
        BY <2>2, <2>4, <3>2
      <4>2. CASE ~Known(p)
        BY <2>5, <4>1, <4>2
      <4>3. CASE Known(p)
        <5>1. f[m] \in KnownIn(U) /\ f[m] >= a
          BY <2>5, <2>6, <4>1, <4>3
        <5> QED BY <1>4, <2>1, <2>4, <4>1, <5>1
      <4> QED BY <4>2, <4>3
    <3> QED BY <2>3, <2>8, <3>1, <3>2
  <2> QED BY <2>2, <2>7, <2>8 DEF pj
<1>8. 0..k \subseteq T
  <2> HIDE DEF T
  <2> QED BY <1>3, <1>6, <1>7, CountUp
<1>9. k \in T /\ k >= j
  BY <1>3, <1>8
<1> QED BY <1>3, <1>9

LEMMA SameEnclosed ==
  ASSUME UNCHANGED <<tbl, order>>, NEW U, NEW h, Enclosed(U, h)'
  PROVE  Enclosed(U, h)
BY DEF Enclosed, Roots

LEMMA SameInward ==
  ASSUME UNCHANGED <<tbl, order, doms>>, NEW U, NEW h, Inward(U, h)
  PROVE  Inward(U, h)'
BY DEF Inward, KnownIn, Known, Places

LEMMA EnclosedVisit ==
  ASSUME TreeInv, OrderInv, SweepTyped, EnclosedInv, NEW preds, VisitsWith(preds)
  PROVE  EnclosedInv'
<1>1. /\ pc = "sweep" /\ idx \in Places /\ doms[idx] # idx /\ ~NoIdom(order[idx])
      /\ preds \in Orders(tbl.pred[order[idx]])
      /\ doms' = [doms EXCEPT ![idx] = NewIdom(preds)]
      /\ UNCHANGED <<tbl, order>>
  BY DEF VisitsWith
<1> SUFFICES ASSUME NEW U \in SUBSET Blocks, NEW h \in U, Enclosed(U, h)'
             PROVE  Inward(U, h)'
  BY DEF EnclosedInv
<1>2. Enclosed(U, h)
  BY <1>1, SameEnclosed
<1>3. Inward(U, h) /\ pc # "order"
  BY <1>1, <1>2 DEF EnclosedInv, Sweeping
<1>4. /\ Len(order) \in Nat /\ Places = 1..Len(order) /\ Places' = Places
      /\ \A i \in Places : Place(order[i]) = i
      /\ \A b \in finished : Place(b) \in Places /\ order[Place(b)] = b
  BY <1>1, PlaceFacts, SameSearch
<1>5. PICK q : q = NewIdom(preds)
  OBVIOUS
<1>6. /\ preds \in Seq(finished) /\ Range(preds) = tbl.pred[order[idx]] /\ q \in KnownPlaces
  BY <1>1, <1>5, PredsListed
<1>7. doms'[idx] = q /\ \A i \in Places \ {idx} : doms'[i] = doms[i]
  BY <1>1, <1>5 DEF SweepTyped
<1>8. q # Undef
  BY <1>4, <1>6 DEF KnownPlaces, Undef
<1>9. KnownIn(U)' = {i \in Places : doms'[i] # Undef /\ order[i] \in U}
  BY <1>1, <1>4 DEF KnownIn, Known
<1>10. KnownIn(U) \subseteq KnownIn(U)'
  BY <1>7, <1>8, <1>9 DEF KnownIn, Known
<1>11. ASSUME NEW i \in KnownIn(U)', order[i] # h PROVE doms'[i] \in KnownIn(U)' /\ doms'[i] > i
  <2>1. CASE i # idx
    <3>1. i \in KnownIn(U) /\ doms'[i] = doms[i]
      BY <1>7, <1>9, <2>1 DEF KnownIn, Known
    <3> QED BY <1>3, <1>10, <1>11, <3>1 DEF Inward
  <2>2. CASE i = idx
    <3>1. order[idx] \notin Roots /\ tbl.pred[order[idx]] \subseteq U
      BY <1>2, <1>9, <1>11, <2>2 DEF Enclosed
    <3>2. tbl.pred[order[idx]] \subseteq finished
      BY <1>1 DEF NoIdom
    <3>3. PICK k \in Places : k > idx /\ order[k] \in tbl.pred[order[idx]] /\ Known(k)
      BY <1>1, <1>3, <3>1, <3>2, PredKnown
    <3>4. PICK j \in 1..Len(preds) : preds[j] = order[k]
      <4>1. DOMAIN preds = 1..Len(preds)
        BY <1>6
      <4> QED BY <1>6, <3>3, <4>1 DEF Range
    <3>5. Place(preds[j]) = k /\ Known(Place(preds[j]))
      BY <1>4, <3>3, <3>4
    <3>6. q \in KnownIn(U) /\ q >= k
      BY <1>2, <1>3, <1>5, <1>6, <3>1, <3>5, NewIdomInside
    <3>7. q > idx
      BY <1>1, <1>4, <3>3, <3>6 DEF KnownIn
    <3> QED BY <1>7, <1>10, <2>2, <3>6, <3>7
  <2> QED BY <2>1, <2>2
<1>12. order' = order
  BY <1>1
<1> HIDE DEF KnownIn
<1> QED BY <1>11, <1>12 DEF Inward

LEMMA EnclosedSteps ==
  ASSUME DomInv, EnclosedInv, [Next]_vars
  PROVE  EnclosedInv'
<1>1. TreeInv /\ OrderInv /\ SweepInv
  BY DEF DomInv
<1>2. CASE pc' \notin {"sweep", "done"}
  BY <1>2 DEF EnclosedInv, Sweeping
<1>3. CASE MarkRoots
  <2>1. /\ doms' = [i \in Places |-> IF order[i] \in Roots THEN i ELSE Undef]
        /\ UNCHANGED <<tbl, order>>
    BY <1>3 DEF MarkRoots, Places
  <2>2. Roots' = Roots /\ Places' = Places
    BY <2>1, SameSearch
  <2> SUFFICES ASSUME NEW U \in SUBSET Blocks, NEW h \in U, Enclosed(U, h)' PROVE Inward(U, h)'
    BY DEF EnclosedInv
  <2>3. Enclosed(U, h)
    BY <2>1, SameEnclosed
  <2>4. KnownIn(U)' = {i \in Places : doms'[i] # Undef /\ order[i] \in U}
    BY <2>1, <2>2 DEF KnownIn, Known
  <2>5. \A i \in KnownIn(U)' : order[i] = h
    BY <2>1, <2>3, <2>4 DEF Enclosed
  <2>6. order' = order
    BY <2>1
  <2> QED BY <2>5, <2>6 DEF Inward
<1>4. ASSUME Sweeping, UNCHANGED <<tbl, order, doms>> PROVE EnclosedInv'
  <2> SUFFICES ASSUME NEW U \in SUBSET Blocks, NEW h \in U, Enclosed(U, h)' PROVE Inward(U, h)'
    BY DEF EnclosedInv
  <2>1. Enclosed(U, h)
    BY <1>4, SameEnclosed
  <2>2. Inward(U, h)
    BY <1>4, <2>1 DEF EnclosedInv
  <2> QED BY <1>4, <2>2, SameInward
<1>5. CASE Visit
  <2>1. pc = "sweep" /\ Sweeping /\ UNCHANGED <<tbl, order>>
    BY <1>5 DEF Visit, Sweeping
  <2>2. idx \in Places
    BY <1>1, <1>5, PlaceFacts DEF Visit, TreeInv, SearchTyped
  <2>3. CASE UNCHANGED doms
    BY <1>4, <2>1, <2>3
  <2>4. CASE /\ doms[idx] # idx /\ ~NoIdom(order[idx])
             /\ \E preds \in Orders(tbl.pred[order[idx]]) :
                  /\ hash[order[idx]] \in {<<>>, preds}
                  /\ hash' = [hash EXCEPT ![order[idx]] = preds]
                  /\ doms' = [doms EXCEPT ![idx] = NewIdom(preds)]
                  /\ changed' = (changed \/ doms'[idx] # doms[idx])
             /\ idx' = idx - 1 /\ UNCHANGED pc
    <3>1. PICK preds : VisitsWith(preds)
      BY <2>1, <2>2, <2>4 DEF VisitsWith
    <3>2. SweepTyped
      BY <1>1, <2>1, SweepFitted
    <3> QED BY <1>1, <3>1, <3>2, EnclosedVisit
  <2> QED BY <1>5, <2>3, <2>4 DEF Visit
<1>6. CASE Again \/ Converged
  <2>1. Sweeping /\ UNCHANGED <<tbl, order, doms>>
    BY <1>6 DEF Again, Converged, Sweeping
  <2> QED BY <1>4, <2>1
<1>7. CASE UNCHANGED domVars
  <2>1. UNCHANGED <<tbl, order, doms, pc>>
    BY <1>7 DEF domVars
  <2>2. CASE Sweeping
    BY <1>4, <2>1, <2>2
  <2>3. CASE ~Sweeping
    BY <2>1, <2>3 DEF EnclosedInv, Sweeping
  <2> QED BY <2>2, <2>3
<1>8. CASE Discover \/ Finish
  <2>1. pc' = "order"
    BY <1>8 DEF Discover, Finish
  <2> QED BY <2>1, <1>2
<1> QED BY <1>3, <1>5, <1>6, <1>7, <1>8 DEF Next, Regions, Tree, vars, DomNext

-----------------------------------------------------------------------------
(* The spread of the regions (trg.rs:43-79), while it goes on: every block *)
(* that was seen is led to by the root of its region through blocks of     *)
(* that region alone. Blocks that are still to be seen count as elsewhere. *)
Elsewhere(r) == Blocks \ {c \in seen : region[c] = r}

RegionsTyped ==
  /\ unit \in [Blocks -> Terminators]
  /\ todo \in Seq(Blocks) /\ seen \in SUBSET Blocks /\ Range(todo) \subseteq seen
  /\ DOMAIN region = seen /\ HeadBlocks \subseteq seen

Rooted(b) ==
  \E root \in HeadBlocks :
    /\ region[root] = region[b]
    /\ b \in Reach(TemporalPredTbl(unit), {root}, Elsewhere(region[b]))

RegionsInv == RegionsTyped /\ \A b \in seen : Rooted(b)

LEMMA RootsAreBlocks ==
  ASSUME NEW u \in [Blocks -> Terminators]
  PROVE  Range(RootList(u)) \in SUBSET Blocks
<1> DEFINE s == [b \in 1..N |-> IF IsTemporal(u[b]) /\ u[b].to # <<>> THEN u[b].to[1] ELSE Entry]
<1>1. \A b \in 1..N : s[b] \in Blocks
  <2>1. ASSUME NEW b \in 1..N, u[b].to # <<>> PROVE u[b].to[1] \in Blocks
    <3>1. u[b].to \in Seq(Blocks)
      BY DEF Terminators, Blocks
    <3> QED BY <2>1, <3>1
  <2> QED BY <2>1, BlocksFinite
<1>2. s \in Seq(Blocks)
  BY <1>1, NAssumption
<1>3. <<Entry>> \in Seq(Blocks)
  BY BlocksFinite
<1> HIDE DEF s
<1>4. <<Entry>> \o s \in Seq(Blocks)
  BY <1>2, <1>3
<1>5. \A n \in DOMAIN (<<Entry>> \o s) : (<<Entry>> \o s)[n] \in Blocks
  BY <1>4
<1> QED BY <1>5 DEF RootList, Range, s

LEMMA RegionsBegin == Init => RegionsInv
<1> SUFFICES ASSUME NEW u \in Units, TrgInit(u) PROVE RegionsInv
  BY DEF Init
<1>1. u \in [Blocks -> Terminators] /\ unit = u
  BY UnitsAssumption DEF TrgInit
<1>2. PICK roots \in SetToSeqs(Range(RootList(u))) :
        todo = roots /\ seen = Range(roots) /\ DOMAIN region = Range(roots)
  BY DEF TrgInit
<1>3. roots \in Seq(Blocks) /\ Range(roots) = HeadBlocks /\ HeadBlocks \in SUBSET Blocks
  BY <1>1, <1>2, RootsAreBlocks, RangeOrder DEF HeadBlocks
<1>4. RegionsTyped
  BY <1>1, <1>2, <1>3 DEF RegionsTyped
<1>5. ASSUME NEW b \in seen PROVE Rooted(b)
  <2>1. b \in HeadBlocks /\ b \in Blocks
    BY <1>2, <1>3
  <2>2. b \in {b} \ Elsewhere(region[b])
    BY DEF Elsewhere
  <2>3. TemporalPredTbl(unit).succ \in [Blocks -> SUBSET Blocks]
    BY <1>1, TablesTyped DEF IsTable
  <2>4. b \in Reach(TemporalPredTbl(unit), {b}, Elsewhere(region[b]))
    BY <2>1, <2>2, <2>3, ReachClosed
  <2> QED BY <2>1, <2>4 DEF Rooted
<1> QED BY <1>4, <1>5 DEF RegionsInv

(* A fresh target of a block is led to by the root that leads to the       *)
(* block, and a region that grows loses no way.                            *)
LEMMA RegionsSpread == RegionsInv /\ Spread => RegionsInv'
<1> SUFFICES ASSUME RegionsInv, Spread PROVE RegionsInv'
  OBVIOUS
<1> DEFINE bb == Head(todo)
           to == IF IsTemporal(unit[bb]) THEN <<>> ELSE unit[bb].to
           pt == TemporalPredTbl(unit)
           StillElsewhere(r) == Blocks \ {c \in seen' : region'[c] = r}
<1>1. /\ unit \in [Blocks -> Terminators] /\ seen \in SUBSET Blocks
      /\ DOMAIN region = seen /\ HeadBlocks \subseteq seen
      /\ todo \in Seq(Blocks) /\ Range(todo) \subseteq seen
  BY DEF RegionsInv, RegionsTyped
<1>2. todo # <<>> /\ unit' = unit
  BY DEF Spread
<1>3. /\ bb \in seen /\ bb \in Blocks /\ Tail(todo) \in Seq(Blocks)
      /\ Range(Tail(todo)) \subseteq seen
  <2>1. todo \in Seq(Blocks) /\ todo # <<>>
    BY <1>1, <1>2
  <2>2. /\ bb \in Blocks /\ Tail(todo) \in Seq(Blocks)
        /\ Range(todo) = {bb} \cup Range(Tail(todo))
    BY <2>1, RangeHead
  <2> QED BY <1>1, <2>2
<1>4. pt.succ \in [Blocks -> SUBSET Blocks]
  BY <1>1, TablesTyped DEF IsTable
<1>5. Range(to) = pt.succ[bb]
  <2>1. pt.succ[bb] = IF IsTemporal(unit[bb]) THEN {} ELSE Range(unit[bb].to)
    BY <1>3 DEF TemporalPredTbl, Table
  <2>2. Range(<<>>) = {}
    BY DEF Range
  <2> QED BY <2>1, <2>2
<1>6. PICK fresh \in SetToSeqs(Range(to) \ seen) :
        /\ todo' = Tail(todo) \o fresh
        /\ seen' = seen \cup Range(fresh)
        /\ region' = [b \in seen' |-> IF b \in seen THEN region[b] ELSE region[bb]]
  BY DEF Spread
<1> HIDE DEF bb, to, pt
<1>7. Range(to) \ seen \in SUBSET Blocks
  BY <1>3, <1>4, <1>5
<1>8. fresh \in Seq(Blocks) /\ Range(fresh) = pt.succ[bb] \ seen
  BY <1>5, <1>6, <1>7, RangeOrder
<1>9. todo' \in Seq(Blocks) /\ Range(todo') = Range(Tail(todo)) \cup Range(fresh)
  <2>1. Tail(todo) \in Seq(Blocks) /\ fresh \in Seq(Blocks)
    BY <1>3, <1>8
  <2>2. Joined(Tail(todo) \o fresh, Tail(todo), fresh, Blocks)
    BY ONLY <2>1, RangeConcat
  <2> QED BY ONLY <1>6, <2>2 DEF Joined
<1>10. HeadBlocks' = HeadBlocks /\ pt' = pt
  BY <1>2 DEF HeadBlocks, pt
<1>11. seen' = seen \cup (pt.succ[bb] \ seen) /\ seen' \in SUBSET Blocks
  BY <1>3, <1>4, <1>6, <1>8, <1>1
<1>12. RegionsTyped'
  BY <1>1, <1>2, <1>3, <1>6, <1>8, <1>9, <1>10, <1>11 DEF RegionsTyped
<1>13. \A c \in seen : region'[c] = region[c]
  BY <1>6, <1>11
<1>14. \A r : StillElsewhere(r) \subseteq Elsewhere(r)
  BY <1>11, <1>13 DEF Elsewhere
<1>15. ASSUME NEW b \in seen
       PROVE  \E root \in HeadBlocks :
                /\ region'[root] = region'[b]
                /\ b \in Reach(pt, {root}, StillElsewhere(region[b]))
  <2>1. PICK root \in HeadBlocks :
          region[root] = region[b] /\ b \in Reach(pt, {root}, Elsewhere(region[b]))
    BY DEF RegionsInv, Rooted, pt
  <2>2. Reach(pt, {root}, Elsewhere(region[b])) \subseteq Reach(pt, {root}, StillElsewhere(region[b]))
    BY <1>1, <1>4, <1>14, ReachMonotone
  <2> QED BY <1>1, <1>13, <2>1, <2>2
<1>16. ASSUME NEW b \in seen' PROVE Rooted(b)'
  <2>1. CASE b \in seen
    BY <1>10, <1>13, <1>15, <2>1 DEF Rooted, pt, Elsewhere
  <2>2. CASE b \notin seen
    <3>1. b \in pt.succ[bb] /\ region'[b] = region[bb] /\ b \in Blocks
      BY <1>6, <1>11, <2>2
    <3>2. PICK root \in HeadBlocks :
            region'[root] = region'[bb] /\ bb \in Reach(pt, {root}, StillElsewhere(region[bb]))
      BY <1>3, <1>15
    <3>3. b \notin StillElsewhere(region[bb])
      BY <1>11, <3>1
    <3>4. Closed(pt, StillElsewhere(region[bb]), Reach(pt, {root}, StillElsewhere(region[bb])))
      <4>1. {root} \in SUBSET Blocks
        BY <1>1
      <4>2. \A A : Closed(pt, A, Reach(pt, {root}, A))
        BY ONLY <1>4, <4>1, ReachClosed
      <4> QED BY <4>2
    <3>5. b \in Reach(pt, {root}, StillElsewhere(region[bb]))
      BY <3>1, <3>2, <3>3, <3>4 DEF Closed
    <3> QED BY <1>3, <1>10, <1>13, <3>1, <3>2, <3>5 DEF Rooted, pt, Elsewhere
  <2> QED BY <2>1, <2>2
<1> QED BY <1>12, <1>16 DEF RegionsInv

LEMMA RegionsSteps == RegionsInv /\ [Next]_vars => RegionsInv'
<1> SUFFICES ASSUME RegionsInv, [Next]_vars PROVE RegionsInv'
  OBVIOUS
<1>1. CASE Spread
  BY <1>1, RegionsSpread
<1>2. CASE UNCHANGED <<unit, todo, seen, region>>
  <2>1. unit' = unit /\ todo' = todo /\ seen' = seen /\ region' = region
    BY <1>2
  <2>2. RegionsTyped' /\ \A b \in seen : Rooted(b)
    BY <2>1 DEF RegionsInv, RegionsTyped, HeadBlocks
  <2>3. ASSUME NEW b \in seen PROVE Rooted(b)'
    BY <2>1, <2>2 DEF Rooted, HeadBlocks, Elsewhere
  <2> QED BY <2>1, <2>2, <2>3 DEF RegionsInv
<1> QED BY <1>1, <1>2 DEF Next, Regions, Tree, TrgNext, Describe, vars, trgVars

(* Every block of a region is led to by its root without leaving the       *)
(* region and without a wait in between (trg.rs:55-79), whatever the       *)
(* control flow: branches into the middle of a region, waits in one arm    *)
(* only, blocks that several roots lead to.                                *)
THEOREM RegionsAlwaysRooted == Spec => []RegionsRooted
<1>1. RegionsInv => RegionsRooted
  <2> SUFFICES ASSUME RegionsInv, NEW b \in seen
               PROVE  \E root \in HeadBlocks :
                        /\ region[root] = region[b]
                        /\ b \in Reach(TemporalPredTbl(unit), {root},
                                       {c \in seen : region[c] # region[b]})
    BY DEF RegionsInv, RegionsTyped, RegionsRooted
  <2>1. PICK root \in HeadBlocks :
          /\ region[root] = region[b]
          /\ b \in Reach(TemporalPredTbl(unit), {root}, Elsewhere(region[b]))
    BY DEF RegionsInv, Rooted
  <2>2. TemporalPredTbl(unit).succ \in [Blocks -> SUBSET Blocks] /\ {root} \in SUBSET Blocks
    BY TablesTyped DEF RegionsInv, RegionsTyped, IsTable
  <2>3. {c \in seen : region[c] # region[b]} \subseteq Elsewhere(region[b])
    BY DEF RegionsInv, RegionsTyped, Elsewhere
  <2> QED BY <2>1, <2>2, <2>3, ReachMonotone
<1> QED BY <1>1, RegionsBegin, RegionsSteps, PTL DEF Spec

-----------------------------------------------------------------------------
(* Regions with one head. The head dominates all that it encloses.         *)
LEMMA EnclosedDominates ==
  ASSUME DomInv, EnclosedInv, pc = "done", NEW U, NEW h, Enclosed(U, h)
  PROVE  \A b \in U : Dominates(h, b)
<1>1. /\ TreeInv /\ OrderInv
      /\ tree = [b \in Blocks |-> order[doms[Place(b)]]] /\ dominated = UpFrom(tree)
      /\ Inward(U, h)
  BY DEF DomInv, SweepInv, EnclosedInv, Sweeping, Enclosed
<1>2. Entry \in Roots
  BY DEF Roots, Heads
<1>3. /\ tree \in [Blocks -> Blocks]
      /\ \A i \in Places : Known(i)
      /\ \A b \in Blocks : Place(b) \in Places /\ order[Place(b)] = b
  BY <1>2, DoneFacts
<1>4. UpSolves(dominated, tree)
  BY <1>1, <1>3, UpFromSolves
<1>5. PICK n : n = Len(order)
  OBVIOUS
<1>6. n \in Nat /\ Places = 1..n /\ \A i \in Places : order[i] \in Blocks /\ Place(order[i]) = i
  BY <1>1, <1>5, PlaceFacts
<1> DEFINE T == {i \in Places : order[i] \in U => h \in dominated[order[i]]}
<1>7. ASSUME NEW i \in 1..n, \A j \in 1..n : j > i => j \in T PROVE i \in T
  <2> SUFFICES ASSUME order[i] \in U PROVE h \in dominated[order[i]]
    BY <1>6
  <2>1. i \in Places /\ order[i] \in Blocks /\ Place(order[i]) = i
    BY <1>6
  <2>2. CASE order[i] = h
    BY <1>4, <2>1, <2>2 DEF UpSolves
  <2>3. CASE order[i] # h
    <3>1. i \in KnownIn(U)
      BY <1>3, <2>1 DEF KnownIn
    <3>2. doms[i] \in KnownIn(U) /\ doms[i] > i
      BY <1>1, <2>3, <3>1 DEF Inward
    <3>3. doms[i] \in Places /\ order[doms[i]] \in U
      BY <3>2 DEF KnownIn
    <3>4. doms[i] \in T
      BY <1>6, <1>7, <3>2, <3>3
    <3>5. h \in dominated[order[doms[i]]]
      BY <3>3, <3>4
    <3>6. tree[order[i]] = order[doms[i]] /\ Place(order[doms[i]]) = doms[i]
      BY <1>1, <1>6, <2>1, <3>3
    <3>7. tree[order[i]] # order[i]
      BY <1>6, <2>1, <3>2, <3>3, <3>6
    <3> QED BY <1>4, <2>1, <3>5, <3>6, <3>7 DEF UpSolves
  <2> QED BY <2>2, <2>3
<1>8. 1..n \subseteq T
  <2> HIDE DEF T
  <2> QED BY <1>6, <1>7, CountDown
<1>9. U \subseteq Blocks
  BY DEF Enclosed
<1>10. ASSUME NEW b \in U PROVE h \in dominated[b]
  <2>1. Place(b) \in Places /\ order[Place(b)] = b
    BY <1>3, <1>9
  <2>2. Place(b) \in T
    BY <1>6, <1>8, <2>1
  <2> QED BY <2>1, <2>2
<1> QED BY <1>10 DEF Dominates

(* What Describe has recorded stays the description of the regions.        *)
DescribedInv ==
  phase = "done" => ~LostBlock /\ \A r \in DOMAIN regions : regions[r] = RegionData(r)

LEMMA DescribedSteps == DescribedInv /\ [Next]_vars => DescribedInv'
<1> SUFFICES ASSUME DescribedInv, [Next]_vars, phase' = "done"
             PROVE  ~LostBlock' /\ \A r \in DOMAIN regions' : regions'[r] = RegionData(r)'
  BY DEF DescribedInv
<1>1. UNCHANGED <<unit, seen, region, tailBlocks>>
  BY DEF Next, Regions, TrgNext, Spread, Describe, Tree, vars, trgVars
<1>2. (LostBlock' <=> LostBlock) /\ \A r : RegionData(r)' = RegionData(r)
  BY <1>1 DEF LostBlock, RegionData, HeadBlocks
<1>3. CASE Describe
  BY <1>2, <1>3 DEF Describe
<1>4. CASE UNCHANGED <<phase, regions>>
  BY <1>2, <1>4 DEF DescribedInv
<1> QED BY <1>3, <1>4 DEF Next, Regions, TrgNext, Spread, Tree, vars, trgVars

(* What is reached from elsewhere has a predecessor.                       *)
LEMMA ReachedHasPred ==
  ASSUME NEW t, IsTable(t), NEW s \in Blocks, NEW A, NEW b \in Reach(t, {s}, A), b # s
  PROVE  t.pred[b] # {}
<1>1. t.succ \in [Blocks -> SUBSET Blocks] /\ {s} \in SUBSET Blocks
  BY DEF IsTable
<1> DEFINE T == {c \in Blocks : c = s \/ t.pred[c] # {}}
<1>2. {s} \ A \subseteq T
  OBVIOUS
<1>3. Closed(t, A, T)
  <2> SUFFICES ASSUME NEW a \in T, NEW c \in t.succ[a] PROVE c \in T
    BY DEF Closed
  <2>1. c \in Blocks /\ a \in t.pred[c]
    BY DEF IsTable
  <2> QED BY <2>1
<1> HIDE DEF T
<1>4. Reach(t, {s}, A) \subseteq T
  BY <1>1, <1>2, <1>3, ReachLeast
<1> QED BY <1>4 DEF T

(* A region with one head is entered at its head only.                     *)
LEMMA OneHeadEncloses ==
  ASSUME RegionsInv, DescribedInv, phase = "done", Temporal,
         NEW r \in DOMAIN regions, NEW h, regions[r].headBlocks = {h}
  PROVE  Enclosed(regions[r].blocks, h)
<1> DEFINE U == {b \in seen : region[b] = r}
           pt == PredTbl(unit)
<1>1. /\ seen \in SUBSET Blocks /\ HeadBlocks \subseteq seen
      /\ unit \in [Blocks -> Terminators] /\ ~LostBlock
      /\ regions[r] = RegionData(r)
  BY DEF RegionsInv, RegionsTyped, DescribedInv
<1>2. /\ regions[r].blocks = U
      /\ {h} = {b \in U : b \in HeadBlocks \/ {a \in pt.pred[b] : region[a] # r} # {}}
  BY <1>1 DEF RegionData
<1>3. /\ IsTable(pt) /\ IsTable(tbl) /\ tbl = TemporalPredTbl(unit)
      /\ \A b \in Blocks : tbl.succ[b] \subseteq pt.succ[b]
  <2>1. IsTable(pt) /\ IsTable(tbl) /\ tbl = TemporalPredTbl(unit)
    BY <1>1, TablesTyped DEF Temporal
  <2> QED BY <2>1 DEF PredTbl, TemporalPredTbl, Table
<1>4. Entry \in HeadBlocks
  <2> DEFINE s == [b \in 1..N |-> IF IsTemporal(unit[b]) /\ unit[b].to # <<>> THEN unit[b].to[1] ELSE Entry]
  <2>1. 1 \in DOMAIN (<<Entry>> \o s) /\ (<<Entry>> \o s)[1] = Entry
    <3>1. s \in Seq({s[b] : b \in 1..N}) /\ Len(s) \in Nat
      BY NAssumption
    <3> HIDE DEF s
    <3>2. Len(<<Entry>>) = 1 /\ Len(<<Entry>> \o s) = 1 + Len(s)
      BY <3>1
    <3> QED BY <3>1, <3>2
  <2> QED BY <2>1 DEF HeadBlocks, RootList, Range
<1>5. h \in U /\ U \in SUBSET Blocks
  BY <1>1, <1>2
<1>6. ASSUME NEW c \in U, c # h PROVE c \notin Roots /\ tbl.pred[c] \subseteq U
  <2>1. c \in seen /\ c \in Blocks /\ region[c] = r
    BY <1>5
  <2>2. c \notin HeadBlocks /\ \A a \in pt.pred[c] : region[a] = r
    BY <1>2, <1>6
  <2>3. pt.pred[c] \subseteq seen
    BY <1>1, <2>1 DEF LostBlock
  <2>4. tbl.pred[c] \subseteq pt.pred[c]
    BY <1>3, <2>1 DEF IsTable
  <2>5. PICK root \in HeadBlocks :
          region[root] = r /\ c \in Reach(TemporalPredTbl(unit), {root}, Elsewhere(r))
    BY <2>1 DEF RegionsInv, Rooted
  <2>6. root \in Blocks /\ root # c /\ c \in Reach(tbl, {root}, Elsewhere(r))
    BY <1>1, <1>3, <2>2, <2>5
  <2>7. tbl.pred[c] # {}
    BY <1>3, <2>6, ReachedHasPred
  <2> QED BY <1>4, <2>2, <2>3, <2>4, <2>7 DEF Roots, Heads
<1> HIDE DEF U
<1> QED BY <1>2, <1>5, <1>6 DEF Enclosed

LEMMA DescribedDominates ==
  ASSUME DomInv, EnclosedInv, RegionsInv, DescribedInv
  PROVE  SingleHeadDominates
<1> SUFFICES ASSUME phase = "done", pc = "done", Temporal, NEW r \in DOMAIN regions,
                    Cardinality(regions[r].headBlocks) = 1, NEW h \in regions[r].headBlocks
             PROVE  \A b \in regions[r].blocks : Dominates(h, b)
  BY DEF SingleHeadDominates
<1>1. seen \in SUBSET Blocks /\ regions[r] = RegionData(r)
  BY DEF RegionsInv, RegionsTyped, DescribedInv
<1>2. regions[r].headBlocks \in SUBSET Blocks
  BY <1>1 DEF RegionData
<1>3. IsFiniteSet(regions[r].headBlocks)
  BY <1>2, BlocksFinite
<1>4. PICK x : regions[r].headBlocks = {x}
  BY <1>3, FS_Singleton
<1>5. regions[r].headBlocks = {h}
  BY <1>4
<1> QED BY <1>5, OneHeadEncloses, EnclosedDominates

(* The only head of a temporal region dominates every block of it, so a    *)
(* probe that temporal code motion hoists into the head (tcm.rs:39-71)     *)
(* comes before all that it is hoisted from.                               *)
THEOREM SingleHeadsAlwaysDominate == Spec => []SingleHeadDominates
<1>1. Init => EnclosedInv /\ DescribedInv
  <2>1. Init => pc = "order" /\ phase = "spread"
    BY DEF Init, DomInit, TrgInit
  <2> QED BY <2>1 DEF EnclosedInv, DescribedInv, Sweeping
<1> QED BY <1>1, DomBegins, DomSteps, EnclosedSteps, RegionsBegin, RegionsSteps,
           DescribedSteps, DescribedDominates, PTL DEF Spec
=============================================================================
