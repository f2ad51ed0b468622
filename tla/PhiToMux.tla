------------------------------- MODULE PhiToMux -------------------------------
(* Control flow simplification (src/pass/cfs.rs): a phi becomes a           *)
(* multiplexer over the branch conditions that lead to its ways from the    *)
(* immediate dominator of its block. `up` orders the hash tables.           *)
EXTENDS Program

\* A condition is a value and what it has to be; a route is a sequence of conditions.

\* justify_edge: the routes from `target` over the edge from `from` to `to`.
RECURSIVE Routes(_, _, _, _, _, _)
Routes(p, preds, from, to, target, seen) ==
  LET t == p.inst[TermOf(p, from)]
      cond == IF t.op = "br_cond" THEN <<<<t.args[1], IF t.to[1] = to THEN 0 ELSE 1>>>> ELSE <<>>
      before == SelectSeq(preds[from], LAMBDA b : b \notin seen \cup {to})
      via(b) == Each(Routes(p, preds, b, from, target, seen \cup {to}), LAMBDA r : r \o cond)
  IN IF from = target THEN <<cond>> ELSE FlattenSeq(Each(before, via))

\* prepare_phi: each value of the phi with each of the routes to it.
Ways(p, preds, i, dominator) ==
  LET way(k) == Each(Routes(p, preds, p.inst[i].to[k], BlockOf(p, i), dominator, {}),
                     LAMBDA r : <<p.inst[i].args[k], r>>)
  IN FlattenSeq(Each([k \in DOMAIN p.inst[i].to |-> k], way))

\* How often a condition on v occurs, and how evenly: the first counts more.
Factor(ways, v) ==
  LET conds == FlattenSeq(Each(ways, LAMBDA w : w[2]))
      times(x) == Cardinality({k \in DOMAIN conds : conds[k] = <<v, x>>})
      skew == IF times(0) < times(1) THEN times(1) - times(0) ELSE times(0) - times(1)
  IN <<times(0) + times(1), skew>>
Better(f, g) == f[1] > g[1] \/ (f[1] = g[1] /\ f[2] < g[2])

\* The ways with disc = x, without that condition.
Side(ways, disc, x) ==
  Each(SelectSeq(ways, LAMBDA w : Contains(w[2], <<disc, x>>)),
       LAMBDA w : <<w[1], SelectSeq(w[2], LAMBDA c : c # <<disc, x>>)>>)
Chosen(low, high, disc, i) ==
  IF ~(low.ok /\ high.ok) THEN [high EXCEPT !.ok = FALSE]
  ELSE [p |-> BuildBefore(high.p, Ins("mux", <<low.value, high.value, disc>>, <<>>), i),
        value |-> Built(high.p) + 1, ok |-> TRUE]

\* build_discriminator, in front of instruction i.
RECURSIVE Discriminate(_, _, _, _)
Discriminate(p, i, ways, up) ==
  LET values == {c[1] : c \in UNION {Range(w[2]) : w \in Range(ways)}}
      best == {v \in values : \A w \in values : ~Better(Factor(ways, w), Factor(ways, v))}
      by(disc) == LET low == Discriminate(p, i, Side(ways, disc, 0), up)
                  IN Chosen(low, Discriminate(low.p, i, Side(ways, disc, 1), up), disc, i)
  IN IF Len(ways) = 1 THEN [p |-> p, value |-> ways[1][1], ok |-> TRUE]
     \* "some discriminator must be present"
     ELSE IF values = {} THEN [p |-> p, value |-> Invalid, ok |-> FALSE]
     ELSE by(Head(Hashed(best, up)))

\* A phi with its ways: what they give becomes the multiplexer d.
Implement(acc, phi, d) ==
  LET values == {w[1] : w \in Range(phi.ways)}
  IN IF ~acc.ok \/ ~d.ok THEN [acc EXCEPT !.ok = FALSE]
     ELSE [acc EXCEPT !.p = [d.p EXCEPT !.inst[phi.inst].args =
                               Each(@, LAMBDA v : IF v \in values THEN d.value ELSE v)]]

PhisOf(p) == SelectSeq(AllInsts(p), LAMBDA i : Op(p, i) = "phi")
\* The phis that are worked on, each with its ways.
Prepared(p, idom, pred, up) ==
  LET preds == [b \in BlocksOf(p) |-> Hashed(pred[b], up)]
      phis == SelectSeq(PhisOf(p), LAMBDA i : idom[BlockOf(p, i)] # BlockOf(p, i))
  IN Each(phis, LAMBDA i : [inst |-> i, ways |-> Ways(p, preds, i, idom[BlockOf(p, i)])])

\* maybe_elide_phi
Elide(p, e) == Prune(ReplaceUse(p, e.inst, e.with), e.inst)
ElidePhis(p) ==
  LET same == SelectSeq(PhisOf(p), LAMBDA i : Cardinality(Range(p.inst[i].args)) = 1)
  IN FoldLeft(Elide, p, Each(same, LAMBDA i : [inst |-> i, with |-> p.inst[i].args[1]]))

Cfs(p, up) ==
  LET implement(acc, phi) == Implement(acc, phi, Discriminate(acc.p, phi.inst, phi.ways, up))
      built == FoldLeft(implement, [p |-> p, ok |-> TRUE],
                        Prepared(p, DomTree(p, PredTbl(p), up).idom, PredTbl(p).pred, up))
  IN [built EXCEPT !.p = ElidePhis(@)]
=============================================================================
