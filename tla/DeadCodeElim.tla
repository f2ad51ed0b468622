---------------------------- MODULE DeadCodeElim -----------------------------
(* Dead code elimination (src/pass/dce.rs): trivial branches and blocks are *)
(* jumped over, unused instructions and unreachable blocks are deleted, and *)
(* blocks in sequence are joined. `up` orders the hash tables.              *)
EXTENDS Program

-----------------------------------------------------------------------------
(* What is trivial: `bb` and `br` say where a block and a branch lead, or   *)
(* Nowhere. An entry in `br` also stops the recursion.                      *)

Nothing == 0
Found(t, target) == [t |-> t, target |-> target]

RECURSIVE CheckBranch(_, _, _), CheckBlock(_, _, _)
\* check_branch_trivial
CheckBranch(p, t, i) ==
  LET to == p.inst[i].to
      t0 == [t EXCEPT !.br = (i :> Nothing) @@ @]
      l == CheckBlock(p, t0, to[1])
      r == CheckBlock(p, l.t, to[2])
      through == [t |-> IF Op(p, i) = "br" THEN l.t ELSE r.t,
                  target |-> IF Op(p, i) = "br" THEN l.target
                             ELSE CASE Op(p, p.inst[i].args[1]) = "zero" -> l.target
                                    [] Op(p, p.inst[i].args[1]) = "one" -> r.target
                                    [] OTHER -> IF l.target = r.target THEN l.target ELSE Nothing]
  IN IF i \in DOMAIN t.br THEN Found(t, t.br[i])
     ELSE IF Op(p, i) \notin {"br", "br_cond"} THEN Found(t0, Nothing)
     ELSE Found([through.t EXCEPT !.br[i] = through.target], through.target)

\* check_block_retargetable
CheckBlock(p, t, b) ==
  LET leads == CheckBranch(p, t, TermOf(p, b))
      entry(u, target) == Found([u EXCEPT !.bb = (b :> target) @@ @], target)
  IN IF \E i \in InstsOf(p, b) : Op(p, i) = "phi" THEN entry(t, Nothing)
     ELSE IF Len(p.body[b]) > 1 THEN entry(t, b)
     ELSE entry(leads.t, IF leads.target = Nothing THEN b ELSE leads.target)

Trivial(p) ==
  LET branch(t, b) == CheckBranch(p, t, TermOf(p, b)).t
      t == FoldLeft(branch, [bb |-> <<>>, br |-> <<>>], p.order)
  IN CheckBlock(p, t, EntryOf(p)).t

-----------------------------------------------------------------------------
ShortenBranches(p, trivial, up) ==
  LET set(q, i) == IF trivial.br[i] = Nothing THEN q
                   ELSE [q EXCEPT !.inst[i] = Ins("br", <<>>, <<trivial.br[i]>>)]
  IN FoldLeft(set, p, Hashed(DOMAIN trivial.br, up))

SkipBlocks(p, trivial, up) ==
  LET entry == EntryOf(p)
      skip(q, b) ==
        LET to == trivial.bb[b]
            r == ReplaceBlockUse(q, b, to)
        IN IF to \in {Nothing, b} THEN q ELSE IF b = entry THEN SwapBlocks(r, b, to) ELSE r
  IN FoldLeft(skip, p, Hashed(DOMAIN trivial.bb, up))

\* prune_blocks
PruneBlocks(p, up) ==
  LET more(S) == S \cup UNION {Succs(p, b) : b \in S}
      reached[n \in 0..Len(p.order)] == IF n = 0 THEN {EntryOf(p)} ELSE more(reached[n - 1])
  IN FoldLeft(DeleteBlock, p, Hashed(BlocksOf(p) \ reached[Len(p.order)], up))

\* The blocks with a sole predecessor of which they are the sole successor, each
\* with the block that this one has become.
Mergeable(p, entry) ==
  LET pt == TemporalPredTbl(p)
      \* entry: the one of the beginning, which may have been swapped.
      sole(b) == /\ b # entry /\ Cardinality(pt.pred[b]) = 1
                 /\ \A a \in pt.pred[b] : pt.succ[a] = {b}
      add(m, b) ==
        LET a == CHOOSE c \in pt.pred[b] : TRUE
            into == IF a \in DOMAIN m.into THEN m.into[a] ELSE a
        IN [list |-> Append(m.list, <<b, into>>), into |-> (b :> into) @@ m.into]
  IN FoldLeft(add, [list |-> <<>>, into |-> <<>>], SelectSeq(p.order, sole)).list

\* A block moves in front of the terminator of the other; its phis are detached.
Joined(p, b, into) ==
  LET term == TermOf(p, into)
      move(q, i) == IF Op(q, i) = "phi" THEN ReplaceUse(Detach(q, i), i, q.inst[i].args[1])
                    ELSE MoveBefore(q, i, term)
      moved == FoldLeft(move, p, p.body[b])
  IN DeleteBlock(ReplaceBlockUse(Detach(moved, term), b, into), b)
\* "Phi node must be trivially removable"
Removable(p, b, into) ==
  \A i \in InstsOf(p, b) : Op(p, i) = "phi" => p.inst[i].to = <<into>>

JoinBlocks(p, entry) ==
  LET join(acc, m) == IF acc.ok /\ Removable(acc.p, m[1], m[2])
                      THEN [acc EXCEPT !.p = Joined(acc.p, m[1], m[2])]
                      ELSE [acc EXCEPT !.ok = FALSE]
  IN FoldLeft(join, [p |-> p, ok |-> TRUE], Mergeable(p, entry))

\* run_on_cfg: the program, and whether the assertion held.
Dce(p, up) ==
  LET trivial == Trivial(p)
      insts == SelectSeq(AllInsts(p), LAMBDA i : Op(p, i) \notin Terminators)
      shorter == SkipBlocks(ShortenBranches(p, trivial, up), trivial, up)
  IN JoinBlocks(PruneBlocks(FoldLeft(Prune, shorter, insts), up), EntryOf(p))
=============================================================================
