----------------------------- MODULE LinkedList -----------------------------
(***************************************************************************)
(* The doubly linked lists of a unit's layout: the one of its blocks       *)
(* (src/ir/unit.rs) and, in each block, the one of its instructions        *)
(* (src/ir/layout.rs), which run the same algorithms. A list is a table    *)
(* of nodes, here two partial functions, and the ends of the list.         *)
(***************************************************************************)
EXTENDS Integers, Sequences, FiniteSets

CONSTANT None   \* the Option without a value

EmptyList == [prev |-> <<>>, next |-> <<>>, first |-> None, last |-> None]

Nodes(l) == DOMAIN l.next

(* SecondaryTable::add and remove.                                         *)
Put(f, x, y)  == [z \in DOMAIN f \cup {x} |-> IF z = x THEN y ELSE f[z]]
Without(f, x) == [z \in DOMAIN f \ {x} |-> f[z]]
(* An assignment to a field of the node x, if there is one.                *)
Link(f, x, y) == [z \in DOMAIN f |-> IF z = x THEN y ELSE f[z]]

PushBack(l, x) ==
  [prev  |-> Put(l.prev, x, l.last),
   next  |-> Link(Put(l.next, x, None), l.last, x),
   first |-> IF l.first = None THEN x ELSE l.first,
   last  |-> x]

PushFront(l, x) ==
  [prev  |-> Link(Put(l.prev, x, None), l.first, x),
   next  |-> Put(l.next, x, l.first),
   first |-> x,
   last  |-> IF l.last = None THEN x ELSE l.last]

InsertAfter(l, x, y) ==
  [prev  |-> Link(Put(l.prev, x, y), l.next[y], x),
   next  |-> Link(Put(l.next, x, l.next[y]), y, x),
   first |-> l.first,
   last  |-> IF l.last = y THEN x ELSE l.last]

InsertBeforeKeepsFirst(l, x, y) ==   \* mutant: the first node is not updated
  [prev  |-> Link(Put(l.prev, x, l.prev[y]), y, x),
   next  |-> Link(Put(l.next, x, y), l.prev[y], x),
   first |-> l.first,
   last  |-> l.last]
InsertBefore(l, x, y) ==
  [prev  |-> Link(Put(l.prev, x, l.prev[y]), y, x),
   next  |-> Link(Put(l.next, x, y), l.prev[y], x),
   first |-> IF l.first = y THEN x ELSE l.first,
   last  |-> l.last]

Unlink(l, x) ==
  [prev  |-> Link(Without(l.prev, x), l.next[x], l.prev[x]),
   next  |-> Link(Without(l.next, x), l.prev[x], l.next[x]),
   first |-> IF l.first = x THEN l.next[x] ELSE l.first,
   last  |-> IF l.last = x THEN l.prev[x] ELSE l.last]

(* swap_blocks: the links of two neighbours to each other are turned into  *)
(* links to themselves first, so that the exchange puts them right.        *)
Other(z, x, y)    == IF z = x THEN y ELSE IF z = y THEN x ELSE z
Turned(link, x, y) == IF link = y THEN x ELSE link
SwapNodesNaive(l, x, y) ==   \* mutant: neighbours are not treated apart
  [prev  |-> Link(Link(Link(Link(l.prev, x, l.prev[y]), y, l.prev[x]), l.next[x], y), l.next[y], x),
   next  |-> Link(Link(Link(Link(l.next, x, l.next[y]), y, l.next[x]), l.prev[x], y), l.prev[y], x),
   first |-> Other(l.first, x, y),
   last  |-> Other(l.last, x, y)]
SwapNodes(l, x, y) ==
  LET xn == Turned(l.next[x], x, y)   xp == Turned(l.prev[x], x, y)
      yn == Turned(l.next[y], y, x)   yp == Turned(l.prev[y], y, x)
  IN IF x = y THEN l
     ELSE [prev  |-> Link(Link(Link(Link(l.prev, x, yp), y, xp), xn, y), yn, x),
           next  |-> Link(Link(Link(Link(l.next, x, yn), y, xn), xp, y), yp, x),
           first |-> Other(l.first, x, y),
           last  |-> Other(l.last, x, y)]

(* What the iterators blocks() and insts() run over: from the first node   *)
(* along the links.                                                        *)
Walk(l) ==
  LET at[k \in 1..Cardinality(Nodes(l))] ==
        IF k = 1 THEN l.first
        ELSE IF at[k - 1] \in Nodes(l) THEN l.next[at[k - 1]] ELSE None
  IN at

-----------------------------------------------------------------------------
(* The list l has the nodes s[1], ..., s[n], each once, in this order      *)
(* along either kind of links.                                             *)
Represents(l, s, n) ==
  /\ DOMAIN l.next = {s[k] : k \in 1..n} /\ DOMAIN l.prev = DOMAIN l.next
  /\ \A j, k \in 1..n : s[j] = s[k] => j = k
  /\ \A k \in 1..n : /\ s[k] # None
                     /\ l.prev[s[k]] = IF k = 1 THEN None ELSE s[k - 1]
                     /\ l.next[s[k]] = IF k = n THEN None ELSE s[k + 1]
  /\ l.first = IF n = 0 THEN None ELSE s[1]
  /\ l.last = IF n = 0 THEN None ELSE s[n]

(* The nodes of l can be put in a sequence, which the iterators then walk. *)
IsList(l) ==
  \E n \in 0..Cardinality(Nodes(l)) : \E s \in [1..n -> Nodes(l)] : Represents(l, s, n)

(* Sequences with an element more, an element less, or two exchanged.      *)
InsertedAt(s, k, x) ==
  [n \in 1..(Len(s) + 1) |-> IF n < k THEN s[n] ELSE IF n = k THEN x ELSE s[n - 1]]
RemovedAt(s, k) ==
  [n \in 1..(Len(s) - 1) |-> IF n < k THEN s[n] ELSE s[n + 1]]
Exchanged(s, x, y) == [n \in 1..Len(s) |-> Other(s[n], x, y)]
=============================================================================
