------------------------------ MODULE CodeMotion ------------------------------
(* Code motion that keeps the number of blocks: early code motion           *)
(* (src/pass/ecm.rs), the elimination of common subexpressions              *)
(* (src/pass/gcse.rs), and what simplifies single instructions              *)
(* (src/pass/insim.rs, src/pass/cf.rs). `up` orders the hash tables.        *)
EXTENDS Program

-----------------------------------------------------------------------------
(* Early code motion.                                                       *)

Unmoved == {"ld", "st", "prb", "drv", "phi"} \cup Terminators

\* The order in which the blocks are worked on: a pending one at a time.
RECURSIVE WorkOrder(_, _, _, _)
WorkOrder(p, pending, done, up) ==
  IF pending = {} THEN done
  ELSE LET b == Head(Hashed(pending, up))
           now == Append(done, b)
       IN WorkOrder(p, (pending \ {b}) \cup (Succs(p, b) \ Range(now)), now, up)

\* move_instruction: in front of the terminator of the first block that all the
\* arguments dominate, which is the lowest of the blocks that define them.
MoveEarly(p, dt, i) ==
  LET defs == {BlockOf(p, v) : v \in {w \in Range(p.inst[i].args) : IsInst(p, w)}}
      best == IF defs = {} THEN EntryOf(p)
              ELSE CHOOSE b \in defs : \A a \in defs : Dominates(dt, a, b)
  IN IF best = BlockOf(p, i) THEN p ELSE MoveToEnd(p, i, best)

Ecm(p, up) ==
  LET dt == DomTree(p, PredTbl(p), up)
      work(q, b) == FoldLeft(LAMBDA r, i : MoveEarly(r, dt, i), q,
                             SelectSeq(q.body[b], LAMBDA i : Op(q, i) \notin Unmoved))
  IN [p |-> FoldLeft(work, p, WorkOrder(p, {EntryOf(p)}, <<>>, up)), ok |-> TRUE]

-----------------------------------------------------------------------------
(* Common subexpressions. The table remembers instructions as they were     *)
(* when they were recorded, as <<instruction, value>>.                      *)

Unmerged == {"ld", "var"} \cup NoResult

\* Where a value comes to be, and another one is used in its place.
Instead(p, table, v, w) ==                          \* w takes the place of v
  [p |-> Prune(ReplaceUse(p, v, w), v), table |-> table]

\* mutant: merged where neither dominates, without hoisting
MergeInPlace(p, table, dt, i, cv) ==
  IF Dominates(dt, BlockOf(p, cv), BlockOf(p, i)) THEN Instead(p, table, i, cv)
  ELSE Instead(p, (table \ {e \in table : e[2] = cv}) \cup {<<p.inst[i], i>>}, cv, i)
\* One instruction against one candidate of the same region.
MergeWith(p, table, dt, i, cv) ==
  LET at == BlockOf(p, i)
      there == BlockOf(p, cv)
      common == dt.above[at] \cap dt.above[there]
      latest == CHOOSE b \in common : \A a \in common : Dominates(dt, a, b)
      taken == (table \ {e \in table : e[2] = cv}) \cup {<<p.inst[i], i>>}
  IN CASE Dominates(dt, there, at) -> Instead(p, table, i, cv)
       [] ~Dominates(dt, there, at) /\ Dominates(dt, at, there) -> Instead(p, taken, cv, i)
       [] OTHER -> Instead(MoveToEnd(p, i, latest), taken, cv, i)

Examine(acc, i, an, up) ==
  LET p == acc.p
      dt == IF Op(p, i) = "prb" THEN an.temporal ELSE an.plain
      region(v) == an.regions.of[BlockOf(p, v)]
      \* The first candidate that is not skipped; one without a common dominator is.
      usable(cv) == /\ region(cv) = region(i)
                    /\ dt.above[BlockOf(p, i)] \cap dt.above[BlockOf(p, cv)] # {}
      found == SelectSeq(Hashed({e[2] : e \in {f \in acc.table : f[1] = p.inst[i]}}, up), usable)
  IN IF Op(p, i) \in Unmerged THEN acc
     ELSE IF found = <<>> THEN [acc EXCEPT !.table = @ \cup {<<p.inst[i], i>>}]
     ELSE MergeWith(p, acc.table, dt, i, Head(found))

Gcse(p, up) ==
  LET an == [plain |-> DomTree(p, PredTbl(p), up),
             temporal |-> DomTree(p, TemporalPredTbl(p), up), regions |-> Regions(p)]
      done == FoldLeft(LAMBDA acc, i : Examine(acc, i, an, up), [p |-> p, table |-> {}], AllInsts(p))
  IN [p |-> done.p, ok |-> TRUE]

-----------------------------------------------------------------------------
(* Instruction simplification: conditions that are constant, operations on  *)
(* equal arguments.                                                         *)

Simplify(p, i) ==
  LET ins == p.inst[i]
      same == ins.args[1] = ins.args[2]
      plain == BuildAfter(p, Ins("drv", SubSeq(ins.args, 1, 2), <<>>), i)
      zero == BuildAfter(p, Ins("zero", <<>>, <<>>), i)
  IN CASE ins.op = "drv_cond" /\ IsConst(p, ins.args[3]) ->
            Delete(IF Op(p, ins.args[3]) = "one" THEN plain ELSE p, i)
       [] ins.op \in {"and", "or", "mux"} /\ same -> ReplaceUse(p, i, ins.args[1])
       [] ins.op = "xor" /\ same -> ReplaceUse(zero, i, Built(zero))
       [] OTHER -> p

InSim(p, up) == [p |-> FoldLeft(Simplify, p, AllInsts(p)), ok |-> TRUE]

-----------------------------------------------------------------------------
(* Constant folding (src/pass/cf.rs, all of which ConstFold models), on     *)
(* bits. What is replaced stays where it is.                                *)

FoldBit(p, i) ==
  LET ins == p.inst[i]
      bit(v) == IF Op(p, v) = "one" THEN 1 ELSE 0
      const(n) == Ins(IF n = 1 THEN "one" ELSE "zero", <<>>, <<>>)
      new(c) == LET r == BuildBefore(p, c, i) IN ReplaceUse(r, i, Built(r))
      old(v) == ReplaceUse(p, i, v)
      known == {k \in DOMAIN ins.args : IsConst(p, ins.args[k])}
      kon == CHOOSE k \in known : TRUE              \* of two arguments, with one known
      k == bit(ins.args[kon])
      var == ins.args[3 - kon]
      one == ins.op \in Binary /\ Cardinality(known) = 1
      both == ins.op \in Binary /\ Cardinality(known) = 2
  IN CASE ins.op = "mux" /\ 3 \in known -> old(ins.args[bit(ins.args[3]) + 1])  \* the element of the array
       [] ins.op = "not" /\ known # {} -> new(const(1 - bit(ins.args[1])))
       [] both -> new(const(BitOp(ins.op, bit(ins.args[1]), bit(ins.args[2]))))
       [] one /\ ins.op = "and" -> IF k = 1 THEN old(var) ELSE new(const(0))
       [] one /\ ins.op = "or" -> IF k = 0 THEN old(var) ELSE new(const(1))
       [] one /\ ins.op = "xor" -> IF k = 0 THEN old(var) ELSE new(Ins("not", <<var>>, <<>>))
       [] OTHER -> p

Cf(p, up) == [p |-> FoldLeft(FoldBit, p, AllInsts(p)), ok |-> TRUE]
=============================================================================
