----------------------------- MODULE TemporalMotion ----------------------------
(* Temporal code motion (src/pass/tcm.rs): probes move to the head of their *)
(* temporal region, equal waits become one, and drives move to the tails of *)
(* the region under the condition that led to them. Process lowering        *)
(* (src/pass/proclower.rs), which can follow. `up` orders the hash tables.  *)
EXTENDS Program

RegionIds(r) == Range(r.of)
Blocks(r, t) == {b \in DOMAIN r.of : r.of[b] = t}
HeadsOf(r, t) == Blocks(r, t) \cap r.heads
TailsOf(r, t) == Blocks(r, t) \cap r.tails
\* Regions are numbered as their roots are found; here they go by their roots.
InOrder(S) == SetToSortSeq(S, LAMBDA a, b : a < b)

-----------------------------------------------------------------------------
(* Probes. The user of a probe has to be in a block.                        *)

Hoistable(p, dt, head, i) ==
  /\ Op(p, i) = "prb"
  /\ Dominates(dt, head, BlockOf(p, i))
  /\ \A u \in UsersOf(p, i) : Dominates(dt, head, BlockOf(p, u))
PlacedUsers(p, r) ==
  \A t \in RegionIds(r) : Cardinality(HeadsOf(r, t)) = 1 =>
    \A i \in UNION {InstsOf(p, b) : b \in Blocks(r, t)} :
      Op(p, i) = "prb" => UsersOf(p, i) \subseteq Laid(p)

HoistProbes(p, r, up) ==
  LET dt == DomTree(p, TemporalPredTbl(p), up)
      to(q, i, head) == IF BlockOf(q, i) = head THEN q ELSE PlaceAt(Detach(q, i), i, head, 1)
      region(q, t) ==
        LET head == CHOOSE b \in HeadsOf(r, t) : TRUE
            here == UNION {InstsOf(q, b) : b \in Blocks(r, t)}
        IN IF Cardinality(HeadsOf(r, t)) # 1 THEN q
           ELSE FoldLeft(LAMBDA s, i : to(s, i, head), q,
                         InOrder({i \in here : Hoistable(q, dt, head, i)}))
  IN FoldLeft(region, p, InOrder(RegionIds(r)))

-----------------------------------------------------------------------------
(* Equal terminators that leave a region move into a block of their own.    *)

Fuse(p, same) ==
  LET u == NewBlock(p)
      branch(q, i) == BuildAfter(q, Ins("br", <<>>, <<u>>), i)
      branched == FoldLeft(branch, AddBlock(p), same)
      moved == PlaceAt(Detach(branched, same[1]), same[1], u, 1)
  IN FoldLeft(Delete, moved, Tail(same))

FuseWaits(p, r, up) ==
  LET region(q, t) ==
        LET leaves == {i \in r.leaves : r.of[BlockOf(p, i)] = t}
            groups == {{j \in leaves : q.inst[j] = q.inst[i]} : i \in leaves}
            lists == {Hashed(g, up) : g \in {h \in groups : Cardinality(h) > 1}}
        IN FoldLeft(Fuse, q, SetToSortSeq(lists, LAMBDA a, b : (a[1] < b[1]) = up))
  IN FoldLeft(region, p, InOrder(RegionIds(r)))

\* add_aux_blocks: the ways from one region into a head of another become one.
AddAuxBlocks(p, up) ==
  LET pred == PredTbl(p).pred
      r == Regions(p)
      aux(q, b, from) ==
        LET n == NewBlock(q)
            terms == {TermOf(q, a) : a \in {c \in pred[b] : r.of[c] = from}}
            built == Build(AddBlock(q), Ins("br", <<>>, <<b>>), n, 1)
        IN IF Cardinality(terms) < 2 THEN q ELSE ReplaceBlockIn(built, b, n, terms)
      into(q, b) == FoldLeft(LAMBDA s, t : aux(s, b, t), q,
                             Hashed({r.of[a] : a \in pred[b]} \ {r.of[b]}, up))
  IN FoldLeft(into, p, SelectSeq(p.order, LAMBDA b : b \in r.heads))

-----------------------------------------------------------------------------
(* Drives.                                                                  *)

\* The branches between a block and the common dominator with another one, the lowest
\* first, as <<condition, way>>; a way is 0, 1, or Straight.
Straight == 2
\* mutant: one branch up, whatever is above it
NearestBranch(p, dt, src, dst) ==
  LET term == p.inst[TermOf(p, dt.idom[src])]
  IN IF src = dst \/ term.op # "br_cond" \/ dt.place[src] > dt.place[dst] THEN <<>>
     ELSE <<<<term.args[1], IF term.to[1] = src THEN 0 ELSE 1>>>>
RECURSIVE BranchesTo(_, _, _, _)
BranchesTo(p, dt, src, dst) ==
  LET parent == dt.idom[src]
      term == p.inst[TermOf(p, parent)]
      way == CASE term.to[1] = src -> 0 [] term.to[2] = src -> 1 [] OTHER -> Straight
      here == IF term.op = "br_cond" THEN <<<<term.args[1], way>>>> ELSE <<>>
  IN IF src = dst THEN <<>>
     ELSE IF dt.place[src] < dt.place[dst] THEN here \o BranchesTo(p, dt, parent, dst)
     ELSE BranchesTo(p, dt, src, dt.idom[dst])

HasCommon(dt, a, b) == dt.above[a] \cap dt.above[b] # {}

\* push_drive: can the drive move into this tail?
CanPush(p, dt, drive, dst) ==
  LET src == BlockOf(p, drive) IN
  /\ \A k \in DOMAIN p.inst[drive].args : ValueDominates(dt, p, p.inst[drive].args[k], dst)
  /\ HasCommon(dt, src, dst)
  /\ \A c \in Range(BranchesTo(p, dt, src, dst)) : ValueDominates(dt, p, c[1], dst)

\* The drive at the head of a tail block, under the conjunction of the conditions.
PushInto(p, dt, drive, dst) ==
  LET d == p.inst[drive]
      conds == SelectSeq(Reverse(BranchesTo(p, dt, BlockOf(p, drive), dst)),
                         LAMBDA c : c[2] # Straight)
      put(acc, ins) == [p |-> Build(acc.p, ins, dst, acc.k), k |-> acc.k + 1, v |-> Built(acc.p) + 1]
      conj(acc, v) == put(acc, Ins("and", <<acc.v, v>>, <<>>))
      both(acc, c) ==
        IF c[2] = 1 THEN conj(acc, c[1])
        ELSE LET n == put(acc, Ins("not", <<c[1]>>, <<>>))
             IN put(n, Ins("and", <<acc.v, n.v>>, <<>>))
      one == put([p |-> p, k |-> 1, v |-> 0], Ins("one", <<>>, <<>>))
      ways == FoldLeft(both, one, conds)
      cond == IF d.op = "drv_cond" THEN conj(ways, d.args[3]) ELSE ways
  IN put(cond, Ins("drv_cond", <<d.args[1], d.args[2], cond.v>>, <<>>)).p

PushDrive(acc, dt, r, drive) ==
  LET p == acc.p
      src == BlockOf(p, drive)
      tails == TailsOf(r, r.of[src])
  IN IF acc.stuck \/ src \in tails \/ tails = {} THEN acc
     ELSE IF \E dst \in tails : ~CanPush(p, dt, drive, dst) THEN [acc EXCEPT !.stuck = TRUE]
     ELSE [acc EXCEPT !.p = Delete(FoldLeft(LAMBDA q, dst : PushInto(q, dt, drive, dst), p,
                                            InOrder(tails)), drive)]

\* Each signal's drives, the last one first, up to one that cannot move.
PushDrives(p, up) ==
  LET dt == DomTree(p, PredTbl(p), up)
      r == Regions(p)
      all == SelectSeq(FlattenSeq([k \in DOMAIN dt.order |-> p.body[Reverse(dt.order)[k]]]),
                       LAMBDA i : Op(p, i) \in Drives)
      signals == {p.inst[i].args[1] : i \in Range(all)}
      push(q, s) == FoldLeft(LAMBDA acc, i : PushDrive(acc, dt, r, i), [p |-> q, stuck |-> FALSE],
                             Reverse(SelectSeq(all, LAMBDA i : p.inst[i].args[1] = s))).p
  IN FoldLeft(push, p, Hashed(signals, up))

\* coalesce_drives: runs of drives on one signal become one drive of a chosen value.
DriveCond(p, i) ==                                  \* <<program, condition>>
  IF Op(p, i) = "drv_cond" THEN <<p, p.inst[i].args[3]>>
  ELSE LET q == BuildBefore(p, Ins("one", <<>>, <<>>), i) IN <<q, Built(q)>>
CoalesceRun(p, run) ==
  LET first == DriveCond(p, run[1])
      start == [p |-> first[1], cond |-> first[2], value |-> p.inst[run[1]].args[2]]
      add(acc, i) ==
        LET c == DriveCond(acc.p, i)
            v == c[1].inst[i].args[2]
            either == BuildBefore(c[1], Ins("or", <<acc.cond, c[2]>>, <<>>), i)
            q == IF acc.cond = c[2] THEN c[1] ELSE either
            chosen == BuildBefore(q, Ins("mux", <<acc.value, v, c[2]>>, <<>>), i)
        IN [p |-> IF acc.value = v THEN q ELSE chosen,
            cond |-> IF acc.cond = c[2] THEN acc.cond ELSE Built(either),
            value |-> IF acc.value = v THEN v ELSE Built(chosen)]
      all == FoldLeft(add, start, Tail(run))
      drive == Ins("drv_cond", <<p.inst[run[1]].args[1], all.value, all.cond>>, <<>>)
  IN FoldLeft(Delete, BuildBefore(all.p, drive, Last(run)), run)

\* The drives of a block, split where the signal changes.
Runs(p, b) ==
  LET target(i) == p.inst[i].args[1]
      add(s, i) == IF s # <<>> /\ target(Last(Last(s))) = target(i)
                   THEN Front(s) \o <<Append(Last(s), i)>> ELSE Append(s, <<i>>)
  IN FoldLeft(add, <<>>, SelectSeq(p.body[b], LAMBDA i : Op(p, i) \in Drives))
Coalesce(p) ==
  LET block(q, b) == FoldLeft(CoalesceRun, q, SelectSeq(Runs(q, b), LAMBDA s : Len(s) > 1))
  IN FoldLeft(block, p, p.order)

Tcm(p, up) ==
  LET r == Regions(p)
      q == HoistProbes(p, r, up)
  IN IF ~PlacedUsers(p, r) THEN [p |-> p, ok |-> FALSE]
     ELSE [p |-> Coalesce(PushDrives(AddAuxBlocks(FuseWaits(q, Regions(q), up), up), up)), ok |-> TRUE]

-----------------------------------------------------------------------------
(* Process lowering: a process of one block becomes an entity.              *)

NotInEntity == {"phi", "br", "br_cond", "wait", "wait_time"}
Suitable(p) ==                                      \* is_suitable
  LET t == TermOf(p, EntryOf(p)) IN
  /\ Len(p.order) = 1
  /\ Op(p, t) \in Temporal
  /\ \A i \in Laid(p) \ {t} : Op(p, i) \notin NotInEntity
  /\ Op(p, t) # "halt" =>
       {v \in DOMAIN p.inst : Op(p, v) = "in" /\ UsersOf(p, v) # {}} \subseteq Range(p.inst[t].args)

ProcLower(p, up) ==
  LET q == Delete(p, TermOf(p, EntryOf(p)))
      end == Build(q, Ins("halt", <<>>, <<>>), EntryOf(q), Len(q.body[EntryOf(q)]) + 1)
  IN [p |-> IF p.kind = "process" /\ Suitable(p) THEN [end EXCEPT !.kind = "entity"] ELSE p,
      ok |-> TRUE]
=============================================================================
