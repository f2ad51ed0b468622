------------------------------- MODULE Program -------------------------------
(* Units as the passes of llhd-opt see and rewrite them. A program has      *)
(*   kind    "process" or "entity",                                         *)
(*   inst    value or instruction -> [op, args, to], with the arguments and *)
(*           the blocks of the instruction,                                 *)
(*   body    block -> its instructions in order,                            *)
(*   order   the blocks in order, the entry first.                          *)
(* Signals are the unit's inputs and outputs. All values are bits, all      *)
(* drives have one delay. An instruction in no body is detached: it is out  *)
(* of the layout and still a user of its arguments. A deleted one is Gone.  *)
EXTENDS Naturals, Sequences, FiniteSets, SequencesExt

Ins(op, args, to) == [op |-> op, args |-> args, to |-> to]
Gone == Ins("gone", <<>>, <<>>)
Invalid == 0                                        \* Value::invalid, Block::invalid

Ports == {"in", "out"}
Consts == {"zero", "one"}
Terminators == {"br", "br_cond", "wait", "wait_time", "halt"}
Temporal == {"wait", "wait_time", "halt"}           \* Opcode::is_temporal
Drives == {"drv", "drv_cond"}
Binary == {"and", "or", "xor"}
BitOp(op, x, y) ==
  CASE op = "and" -> x * y
    [] op = "or" -> IF x + y > 0 THEN 1 ELSE 0
    [] op = "xor" -> (x + y) % 2
NoResult == Terminators \cup Drives \cup {"st", "reg", "gone"}   \* all others have_result

BlocksOf(p) == Range(p.order)
EntryOf(p) == Head(p.order)
TermOf(p, b) == Last(p.body[b])
InstsOf(p, b) == Range(p.body[b])
Laid(p) == UNION {InstsOf(p, b) : b \in BlocksOf(p)}
BlockOf(p, i) == CHOOSE b \in BlocksOf(p) : i \in InstsOf(p, b)
Op(p, v) == p.inst[v].op
IsInst(p, v) == v \in DOMAIN p.inst /\ Op(p, v) \notin Ports      \* get_value_inst
IsConst(p, v) == v \in DOMAIN p.inst /\ Op(p, v) \in Consts       \* get_const_int
UsersOf(p, v) == {i \in DOMAIN p.inst : v \in Range(p.inst[i].args)}
AllInsts(p) == FlattenSeq([k \in DOMAIN p.order |-> p.body[p.order[k]]])

-----------------------------------------------------------------------------
(* UnitBuilder (src/ir/unit.rs).                                            *)

\* The operator on every element; the empty sequence makes TLC evaluate the function.
Each(s, F(_)) == [k \in DOMAIN s |-> F(s[k])] \o <<>>
Swapped(s, x, y) == Each(s, LAMBDA e : IF e = x THEN y ELSE e)

\* replace_use, replace_block_use, replace_block_within_inst.
ReplaceUse(p, v, w) ==
  [p EXCEPT !.inst = Each(@, LAMBDA i : Ins(i.op, Swapped(i.args, v, w), i.to))]
ReplaceBlockIn(p, b, c, insts) ==
  LET now(i) == IF i \in insts THEN [p.inst[i] EXCEPT !.to = Swapped(@, b, c)] ELSE p.inst[i]
  IN [p EXCEPT !.inst = Each([i \in DOMAIN @ |-> i], now)]
ReplaceBlockUse(p, b, c) == ReplaceBlockIn(p, b, c, DOMAIN p.inst)

\* remove_inst, which detaches, and delete_inst.
Detach(p, i) == [p EXCEPT !.body = Each(@, LAMBDA s : SelectSeq(s, LAMBDA j : j # i))]
Delete(p, i) == [Detach(p, i) EXCEPT !.inst[i] = Gone]
\* Where delete_inst does not trip over an assertion.
Deletable(p, i) == Op(p, i) # "gone" /\ UsersOf(p, i) = {}

\* build_inst and the insert methods: instruction i at place k of block b.
PlaceAt(p, i, b, k) == [p EXCEPT !.body[b] = InsertAt(@, k, i)]
PlaceIn(p, i) == CHOOSE k \in DOMAIN p.body[BlockOf(p, i)] : p.body[BlockOf(p, i)][k] = i
Build(p, ins, b, k) == PlaceAt([p EXCEPT !.inst = Append(@, ins)], Len(p.inst) + 1, b, k)
BuildBefore(p, ins, i) == Build(p, ins, BlockOf(p, i), PlaceIn(p, i))
BuildAfter(p, ins, i) == Build(p, ins, BlockOf(p, i), PlaceIn(p, i) + 1)
Built(p) == Len(p.inst)                             \* the instruction built last
MoveBefore(p, i, at) ==                             \* remove_inst, insert_inst_before
  LET q == Detach(p, i) IN PlaceAt(q, i, BlockOf(q, at), PlaceIn(q, at))
MoveToEnd(p, i, b) == MoveBefore(p, i, TermOf(p, b))

\* block(): a new block at the end of the layout.
NewBlock(p) == Len(p.body) + 1
AddBlock(p) == [p EXCEPT !.body = Append(@, <<>>), !.order = Append(@, NewBlock(p))]

\* delete_block: its ways leave the phis, other uses become invalid, and so do the
\* uses of its values.
DeleteBlock(p, b) ==
  LET gone == InstsOf(p, b)
      keep(i) == SelectSeq([k \in DOMAIN i.to |-> k], LAMBDA k : i.to[k] # b)
      without(i) == IF i.op = "phi"
                    THEN Ins(i.op, Each(keep(i), LAMBDA k : i.args[k]), Each(keep(i), LAMBDA k : i.to[k]))
                    ELSE [i EXCEPT !.to = Swapped(@, b, Invalid)]
      cut(i) == [i EXCEPT !.args = Each(@, LAMBDA v : IF v \in gone THEN Invalid ELSE v)]
      now(i) == IF i \in gone THEN Gone ELSE cut(without(p.inst[i]))
  IN [p EXCEPT !.inst = Each([i \in DOMAIN @ |-> i], now),
               !.body[b] = <<>>,
               !.order = SelectSeq(@, LAMBDA c : c # b)]

SwapBlocks(p, b, c) ==
  [p EXCEPT !.order = Each(@, LAMBDA d : IF d = b THEN c ELSE IF d = c THEN b ELSE d)]

\* prune_if_unused, which goes on with the arguments.
RECURSIVE Prune(_, _)
Prune(p, i) ==
  IF Op(p, i) \notin NoResult /\ UsersOf(p, i) = {}
  THEN FoldLeft(Prune, Delete(p, i), SelectSeq(p.inst[i].args, LAMBDA v : IsInst(p, v)))
  ELSE p

\* Ids are as good as any others: ports first, then in the order of the layout.
Compact(p) ==
  LET live == SelectSeq([i \in DOMAIN p.inst |-> i], LAMBDA i : Op(p, i) # "gone")
      ports == SelectSeq(live, LAMBDA i : Op(p, i) \in Ports)
      loose == SelectSeq(live, LAMBDA i : Op(p, i) \notin Ports /\ i \notin Laid(p))
      ids == ports \o AllInsts(p) \o loose
      now(S, x) == IF x \in Range(S) THEN CHOOSE k \in DOMAIN S : S[k] = x ELSE Invalid
      moved(s, S) == Each(s, LAMBDA x : now(S, x))
      renamed(i) == Ins(p.inst[i].op, moved(p.inst[i].args, ids), moved(p.inst[i].to, p.order))
  IN [kind |-> p.kind,
      inst |-> Each(ids, renamed),
      body |-> Each(p.order, LAMBDA b : moved(p.body[b], ids)),
      order |-> [k \in DOMAIN p.order |-> k]]

-----------------------------------------------------------------------------
(* Analyses, as ControlFlow, DomTree and TemporalRegions model them step by *)
(* step; here as functions, for layouts that change. Hash sets are iterated *)
(* up or down the ids.                                                      *)

Succs(p, b) == Range(p.inst[TermOf(p, b)].to)
InTime(p, b) == Op(p, TermOf(p, b)) \notin Temporal
Tbl(p, crossing) ==
  LET succ == [b \in BlocksOf(p) |-> IF crossing \/ InTime(p, b) THEN Succs(p, b) ELSE {}]
  IN [succ |-> succ, pred |-> [b \in BlocksOf(p) |-> {a \in BlocksOf(p) : b \in succ[a]}]]
PredTbl(p) == Tbl(p, TRUE)
TemporalPredTbl(p) == Tbl(p, FALSE)

Hashed(S, up) == SetToSortSeq(S, LAMBDA a, b : IF up THEN a < b ELSE b < a)

\* compute_blocks_post_order
RECURSIVE PostOrder(_, _, _, _, _)
PostOrder(tbl, up, stack, seen, done) ==
  IF stack = <<>> THEN done
  ELSE LET b == Last(stack) IN
       IF b \notin seen
       THEN LET new == SelectSeq(Hashed(tbl.succ[b], up), LAMBDA c : c \notin seen \cup {b})
            IN PostOrder(tbl, up, stack \o new, seen \cup {b}, done)
       ELSE PostOrder(tbl, up, Front(stack), seen,
                      IF Contains(done, b) THEN done ELSE Append(done, b))

\* The intersection of two predecessors by their places in the order.
RECURSIVE Climb(_, _, _, _)
Climb(doms, first, i, j) ==
  IF i = j THEN i
  ELSE IF i < j THEN IF i = doms[i] THEN i ELSE Climb(doms, first, doms[i], j)
  ELSE IF j = doms[j] THEN first ELSE Climb(doms, first, i, doms[j])

RECURSIVE Sweeps(_, _, _, _)
Sweeps(tbl, up, order, doms) ==
  LET place(b) == CHOOSE k \in DOMAIN order : order[k] = b
      visit(d, k) ==
        IF d[k] = k THEN d
        ELSE LET ps == Hashed(tbl.pred[order[k]], up)
                 known == SelectSeq([n \in DOMAIN ps |-> place(ps[n])], LAMBDA n : d[n] # 0)
             IN [d EXCEPT ![k] = FoldLeft(LAMBDA a, n : Climb(d, a, a, n), Head(known), Tail(known))]
      swept == FoldLeft(visit, doms, Reverse([k \in DOMAIN order |-> k]))
  IN IF swept = doms THEN doms ELSE Sweeps(tbl, up, order, swept)

\* The tree by blocks; `doms` goes by places in the post-order `order`.
ByBlock(p, order, doms) ==
  LET place == [b \in BlocksOf(p) |-> CHOOSE k \in DOMAIN order : order[k] = b]
      idom == [b \in BlocksOf(p) |-> order[doms[place[b]]]]
      above[b \in BlocksOf(p)] == {b} \cup IF idom[b] = b THEN {} ELSE above[idom[b]]
  IN [order |-> order, place |-> place, idom |-> idom, above |-> above]

\* DominatorTree::new, for layouts without orphans.
DomTree(p, tbl, up) ==
  LET roots == {EntryOf(p)} \cup {b \in BlocksOf(p) : tbl.pred[b] = {}}
      stack == <<EntryOf(p)>> \o SelectSeq(p.order, LAMBDA b : tbl.pred[b] = {})
      order == PostOrder(tbl, up, stack, {}, <<>>)
  IN ByBlock(p, order,
             Sweeps(tbl, up, order, [k \in DOMAIN order |-> IF order[k] \in roots THEN k ELSE 0]))
Dominates(dt, a, b) == a \in dt.above[b]
\* value_dominates_block
ValueDominates(dt, p, v, b) == IsInst(p, v) => v \in Laid(p) /\ Dominates(dt, BlockOf(p, v), b)

\* TemporalRegionGraph::new: the region of every block, named by its root.
RECURSIVE Spread(_, _, _)
Spread(p, todo, region) ==
  IF todo = <<>> THEN region
  ELSE LET b == Head(todo)
           new == IF InTime(p, b)
                  THEN SelectSeq(p.inst[TermOf(p, b)].to, LAMBDA c : c \notin DOMAIN region)
                  ELSE <<>>
       IN Spread(p, Tail(todo) \o new,
                 [c \in DOMAIN region \cup Range(new) |->
                    IF c \in DOMAIN region THEN region[c] ELSE region[b]])
\* What a region is entered and left by.
Bounded(p, roots, of, pred) ==
  LET abroad(b, S) == {c \in S : of[c] # of[b]}
  IN [of |-> of,
      heads |-> {b \in DOMAIN of : b \in roots \/ abroad(b, pred[b]) # {}},
      tails |-> {b \in DOMAIN of : ~InTime(p, b) \/ abroad(b, Succs(p, b)) # {}},
      leaves |-> {TermOf(p, b) : b \in {c \in DOMAIN of : abroad(c, Succs(p, c)) # {}}}]
Regions(p) ==
  LET targets == FlattenSeq([k \in DOMAIN p.order |->
                   IF InTime(p, p.order[k]) THEN <<>> ELSE p.inst[TermOf(p, p.order[k])].to])
      add(s, b) == IF Contains(s, b) THEN s ELSE Append(s, b)
      roots == FoldLeft(add, <<EntryOf(p)>>, targets)
  IN Bounded(p, Range(roots), Spread(p, roots, [b \in Range(roots) |-> b]), PredTbl(p).pred)
=============================================================================
