------------------------------- MODULE DomTree -------------------------------
(* The dominator tree of a unit (src/analysis/domtree.rs): a depth-first    *)
(* search that numbers the blocks in post-order, and sweeps over the blocks *)
(* in reverse post-order that intersect the dominators of the predecessors  *)
(* until nothing changes. Blocks are named by their place in the order; the *)
(* sets of predecessors and successors are iterated in an order that the    *)
(* hash seed chooses and that stays the same for one set.                   *)
EXTENDS ControlFlow

VARIABLES
  tbl,          \* the predecessor table the tree is built from
  stack,        \* blocks to visit, the next one last
  discovered, finished,
  order,        \* post_order
  hash,         \* the iteration order of each predecessor set, once used
  doms,         \* place in the order -> place of the immediate dominator
  idx,          \* the place the sweep visits next, 0 behind the last
  changed,
  tree,         \* doms: block -> immediate dominator
  dominated,    \* block -> the blocks that dominate it
  pc            \* "order", "sweep", "done" or "panicked"

domVars == <<tbl, stack, discovered, finished, order, hash, doms, idx, changed,
             tree, dominated, pc>>

Undef == 0
Places == DOMAIN order
Place(b) == CHOOSE i \in Places : order[i] = b
Roots == Heads(tbl)

\* The orders in which a set may be iterated.
Orders(S) == SetToSeqs(S)

DomInitEntryOnly(table) ==   \* mutant: dead heads are not searched from
  /\ tbl = table /\ stack = <<Entry>>
  /\ discovered = {} /\ finished = {} /\ order = <<>>
  /\ hash = [b \in Blocks |-> <<>>] /\ doms = <<>> /\ idx = 0 /\ changed = FALSE
  /\ tree = <<>> /\ dominated = <<>> /\ pc = "order"
\* What new() starts from: the entry and, in layout order, the blocks without
\* predecessors. `table` is the table it is given.
DomInit(table) ==
  /\ tbl = table
  /\ \E dead \in Orders({b \in Blocks : table.pred[b] = {}}) :
       /\ \A i, j \in DOMAIN dead : i < j => dead[i] < dead[j]
       /\ stack = <<Entry>> \o dead
  /\ discovered = {} /\ finished = {} /\ order = <<>>
  /\ hash = [b \in Blocks |-> <<>>] /\ doms = <<>> /\ idx = 0 /\ changed = FALSE
  /\ tree = <<>> /\ dominated = <<>> /\ pc = "order"

-----------------------------------------------------------------------------
(* compute_blocks_post_order: the block on top of the stack is opened the   *)
(* first time it is seen and closed the second time.                        *)

Discover ==
  /\ pc = "order" /\ stack # <<>> /\ Last(stack) \notin discovered
  /\ discovered' = discovered \cup {Last(stack)}
  /\ \E succs \in Orders(tbl.succ[Last(stack)] \ discovered') : stack' = stack \o succs
  /\ UNCHANGED <<tbl, finished, order, hash, doms, idx, changed, tree, dominated, pc>>

Finish ==
  /\ pc = "order" /\ stack # <<>> /\ Last(stack) \in discovered
  /\ stack' = Front(stack)
  /\ finished' = finished \cup {Last(stack)}
  /\ order' = IF Last(stack) \in finished THEN order ELSE Append(order, Last(stack))
  /\ UNCHANGED <<tbl, discovered, hash, doms, idx, changed, tree, dominated, pc>>

\* Mark the roots and begin the first sweep.
MarkRoots ==
  /\ pc = "order" /\ stack = <<>>
  /\ doms' = [i \in DOMAIN order |-> IF order[i] \in Roots THEN i ELSE Undef]
  /\ idx' = Len(order) /\ changed' = FALSE /\ pc' = "sweep"
  /\ UNCHANGED <<tbl, stack, discovered, finished, order, hash, tree, dominated>>

-----------------------------------------------------------------------------
(* The closure that intersects two predecessors: both fingers climb until   *)
(* they meet. A finger that is at the root of its tree gives up, with the   *)
(* root if it is the first one, and with the first predecessor if not.      *)
(* Where no immediate dominator lies below its block, there are no more     *)
(* steps to climb than two times the places.                                *)

Halted(f) ==
  \/ f[1] = f[2]
  \/ f[1] < f[2] /\ doms[f[1]] = f[1]
  \/ f[2] < f[1] /\ doms[f[2]] = f[2]
Climbed ==
  [f \in Places \X Places |->
     IF Halted(f) THEN f
     ELSE IF f[1] < f[2] THEN <<doms[f[1]], f[2]>> ELSE <<f[1], doms[f[2]]>>]
Meet(i1, i2) ==
  LET fingers[n \in 0..(2 * Len(order))] ==
         IF n = 0 THEN <<i1, i2>> ELSE Climbed[fingers[n - 1]]
      f == fingers[2 * Len(order)]
  IN IF f[2] < f[1] THEN i1 ELSE f[1]

NewIdomFirst(preds) ==   \* mutant: the other predecessors are not intersected
  Head(SelectSeq([i \in DOMAIN preds |-> Place(preds[i])], LAMBDA p : doms[p] # Undef))
\* The first predecessor that has a dominator, intersected with each of the
\* others that have one.
Merged ==
  [f \in (Places \cup {Undef}) \X Places |->
     IF doms[f[2]] = Undef THEN f[1]
     ELSE IF f[1] = Undef THEN f[2] ELSE Meet(f[1], f[2])]
NewIdom(preds) ==
  LET from[n \in 0..Len(preds)] ==
         IF n = 0 THEN Undef ELSE Merged[<<from[n - 1], Place(preds[n])>>]
  IN from[Len(preds)]

\* A predecessor that the search never reached has no place in the order: the
\* index into doms is out of bounds. Where no predecessor has a dominator yet,
\* there is none to begin with: the unwrap fails.
NoIdom(b) ==
  ~(tbl.pred[b] \subseteq finished /\ \E p \in tbl.pred[b] : doms[Place(p)] # Undef)

Visit ==
  /\ pc = "sweep" /\ idx > 0
  /\ \/ /\ doms[idx] = idx                              \* a root
        /\ idx' = idx - 1
        /\ UNCHANGED <<hash, doms, changed, pc>>
     \/ /\ doms[idx] # idx /\ NoIdom(order[idx])
        /\ pc' = "panicked"
        /\ UNCHANGED <<hash, doms, idx, changed>>
     \/ /\ doms[idx] # idx /\ ~NoIdom(order[idx])
        /\ \E preds \in Orders(tbl.pred[order[idx]]) :
             /\ hash[order[idx]] \in {<<>>, preds}
             /\ hash' = [hash EXCEPT ![order[idx]] = preds]
             /\ doms' = [doms EXCEPT ![idx] = NewIdom(preds)]
             /\ changed' = (changed \/ doms'[idx] # doms[idx])
        /\ idx' = idx - 1
        /\ UNCHANGED pc
  /\ UNCHANGED <<tbl, stack, discovered, finished, order, tree, dominated>>

AgainChanged ==   \* mutant: changed is not reset
  /\ pc = "sweep" /\ idx = 0 /\ changed
  /\ idx' = Len(order)
  /\ UNCHANGED <<tbl, stack, discovered, finished, order, hash, doms, changed, tree, dominated, pc>>
Again ==
  /\ pc = "sweep" /\ idx = 0 /\ changed
  /\ idx' = Len(order) /\ changed' = FALSE
  /\ UNCHANGED <<tbl, stack, discovered, finished, order, hash, doms, tree, dominated, pc>>

\* The set of dominators of each block, by climbing to its root.
UpFrom(idom) ==
  LET up[b \in Blocks] == {b} \cup IF idom[b] = b THEN {} ELSE up[idom[b]]
  IN up

\* The immediate dominators by block, and from them the dominators. A block
\* outside the order has no place to begin at.
Converged ==
  /\ pc = "sweep" /\ idx = 0 /\ ~changed
  /\ IF finished # Blocks
     THEN pc' = "panicked" /\ UNCHANGED <<tree, dominated>>
     ELSE /\ tree' = [b \in Blocks |-> order[doms[Place(b)]]]
          /\ dominated' = UpFrom(tree') /\ pc' = "done"
  /\ UNCHANGED <<tbl, stack, discovered, finished, order, hash, doms, idx, changed>>

DomNext == Discover \/ Finish \/ MarkRoots \/ Visit \/ Again \/ Converged

-----------------------------------------------------------------------------
(* Queries.                                                                 *)

Dominates(parent, child) == parent \in dominated[child]

\* block_dominates_block climbs from the child to the parent or to the root.
BlockDominatesBlock(parent, child) ==
  LET climb[b \in Blocks] ==
        \/ b = parent
        \/ tree[b] # b /\ climb[tree[b]]
  IN climb[child]
=============================================================================
