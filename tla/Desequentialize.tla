---------------------------- MODULE Desequentialize ----------------------------
(* Desequentialization (src/pass/deseq.rs): a process that probes its       *)
(* inputs, waits, and drives under a condition on the inputs before and     *)
(* after the wait becomes an entity with a register. Every trigger of a     *)
(* register is an instruction of its own here: "rise", "fall" or "high" of  *)
(* a value and a trigger, maybe with a gate.                                *)
EXTENDS Program

-----------------------------------------------------------------------------
(* Conditions in disjunctive normal form: sets of sets of <<term, inv>>. A  *)
(* term is <<signal, region>>, or <<value, NotSignal>> for what is neither  *)
(* a probe nor made of probes.                                              *)

NotSignal == 0
Never == {}
Always == {{}}
Single(term, inv) == {{<<term, inv>>}}
Possible(c) == \A t \in c : <<t[1], ~t[2]>> \notin c
DnfOr(x, y) == x \cup y
DnfAnd(x, y) == {c \in {l \cup r : l \in x, r \in y} : Possible(c)}

\* canonicalize
RECURSIVE Canonical(_, _, _, _)
Canonical(p, r, v, inv) ==
  LET arg(n, neg) == Canonical(p, r, p.inst[v].args[n], neg)
  IN CASE IsConst(p, v) -> IF (Op(p, v) = "one") # inv THEN Always ELSE Never
       [] Op(p, v) = "not" -> arg(1, ~inv)
       [] Op(p, v) = "and" /\ ~inv -> DnfAnd(arg(1, FALSE), arg(2, FALSE))
       [] Op(p, v) = "or" /\ inv -> DnfAnd(arg(1, TRUE), arg(2, TRUE))
       [] Op(p, v) = "and" /\ inv -> DnfOr(arg(1, TRUE), arg(2, TRUE))
       [] Op(p, v) = "or" /\ ~inv -> DnfOr(arg(1, FALSE), arg(2, FALSE))
       [] Op(p, v) = "xor" -> DnfOr(DnfAnd(arg(1, FALSE), arg(2, ~inv)),
                                    DnfAnd(arg(1, TRUE), arg(2, inv)))
       [] Op(p, v) = "prb" -> Single(<<p.inst[v].args[1], r.of[BlockOf(p, v)]>>, inv)
       [] OTHER -> Single(<<v, NotSignal>>, inv)

-----------------------------------------------------------------------------
(* Triggers. `t` holds the two regions, before and after the wait.          *)

\* The signals with an edge, as <<signal, rising>>, and with a level, as <<signal, high>>.
EdgesIn(c, t) == {<<x[1][1], x[2]>> : x \in {y \in c : y[1][2] = t.before}}
LevelsIn(c, t) == {<<x[1][1], ~x[2]>> :
                     x \in {y \in c : y[1][2] = t.after /\ <<<<y[1][1], t.before>>, ~y[2]>> \notin c}}
\* detect_term_triggers
Detectable(c, t) ==
  /\ \A x \in c : x[1][2] \in {t.before, t.after}
  /\ \A e \in EdgesIn(c, t) : <<<<e[1], t.after>>, ~e[2]>> \in c
  /\ Cardinality(EdgesIn(c, t)) <= 1

-----------------------------------------------------------------------------
(* Migration into the entity e; acc also has the value that was migrated    *)
(* last, the values migrated so far and whether all could be.               *)

Level(high) == IF high THEN "one" ELSE "zero"
Add(e, ins) == BuildBefore(e, ins, TermOf(e, EntryOf(e)))
Appended(acc, ins) ==
  LET n == Add(acc.e, ins)
  IN [acc EXCEPT !.e = n, !.value = Built(acc.e) + 1, !.migrated = @ \cup {Built(acc.e) + 1}]
\* migrate_inst_data: an instruction that has been migrated is used again.
Cached(acc, ins) ==
  LET there == {v \in acc.migrated : acc.e.inst[v] = ins}
  IN IF there # {} THEN [acc EXCEPT !.value = CHOOSE v \in there : TRUE] ELSE Appended(acc, ins)

\* migrate_value, where ties are the <<signal, region>> whose value is known.
RECURSIVE MigrateValue(_, _, _, _, _, _)
MigrateValue(acc, p, r, t, v, ties) ==
  LET ins == p.inst[v]
      tr == r.of[BlockOf(p, v)]
      arg(x, w) == LET m == MigrateValue(x.acc, p, r, t, w, ties)
                   IN [acc |-> m, args |-> Append(x.args, m.value)]
      whole(all) == IF all.acc.ok THEN Cached(all.acc, [ins EXCEPT !.args = all.args])
                    ELSE [acc EXCEPT !.ok = FALSE]
      lost == [acc EXCEPT !.ok = FALSE]
  IN IF ~acc.ok \/ ins.op \in Ports THEN [acc EXCEPT !.value = v]
     ELSE IF v \notin Laid(p) THEN lost
     ELSE IF ins.op = "prb" /\ <<ins.args[1], tr>> \in DOMAIN ties
          THEN Cached(acc, Ins(Level(ties[<<ins.args[1], tr>>]), <<>>, <<>>))
     ELSE IF ins.op = "prb" /\ tr # t.after THEN lost
     ELSE whole(FoldLeft(arg, [acc |-> acc, args |-> <<>>], ins.args))

\* The levels as one condition on the signals.
Condition(e, levels) ==
  LET with(q, ins) == [e |-> Add(q, ins), value |-> Built(q) + 1]
      high(q, l) == IF l[2] THEN q ELSE with(q.e, Ins("not", <<q.value>>, <<>>))
      and(acc, q) == IF acc.value = Invalid THEN q
                     ELSE with(q.e, Ins("and", <<acc.value, q.value>>, <<>>))
      term(acc, l) == and(acc, high(with(acc.e, Ins("prb", <<l[1]>>, <<>>)), l))
  IN FoldLeft(term, [e |-> e, value |-> Invalid],
              SetToSortSeq(levels, LAMBDA l, m : l[1] < m[1]))

\* What is known of the probes when the trigger fires.
Ties(edges, levels, t) ==
  LET edge == CHOOSE e \in edges : TRUE
      known == [x \in {<<l[1], t.after>> : l \in levels} |-> <<x[1], TRUE>> \in levels]
  IN IF edges = {} THEN known
     ELSE (<<edge[1], t.before>> :> ~edge[2]) @@ (<<edge[1], t.after>> :> edge[2]) @@ known

\* The trigger that stores data.value when `gate`, one value or none, holds.
RegTrigger(data, edges, gate) ==
  LET edge == CHOOSE e \in edges : TRUE
      rise == Ins(IF edge[2] THEN "rise" ELSE "fall", <<data.value, Built(data.e) + 1>> \o gate, <<>>)
  IN IF edges = {} THEN Add(data.e, Ins("high", <<data.value>> \o gate, <<>>))
     ELSE Add(Add(data.e, Ins("prb", <<edge[1]>>, <<>>)), rise)
Triggered(acc, e) == [acc EXCEPT !.e = e, !.triggers = Append(@, Built(e))]

\* One trigger of a drive, for the conjunction c of its condition.
MigrateTrigger(acc, p, r, t, drive, c) ==
  LET edges == EdgesIn(c, t)
      levels == LevelsIn(c, t)
      value(cond) == MigrateValue([acc EXCEPT !.e = cond.e], p, r, t, p.inst[drive].args[2],
                                  Ties(edges, levels, t))
      store(data, cond) ==
        IF ~data.ok THEN [acc EXCEPT !.ok = FALSE]
        ELSE Triggered(data, RegTrigger(data, edges, IF levels = {} THEN <<>> ELSE <<cond.value>>))
      under(cond) == store(value(cond), cond)
  IN IF ~acc.ok \/ c = {} THEN [acc EXCEPT !.ok = FALSE] ELSE under(Condition(acc.e, levels))

\* The register, once all its triggers are there.
WithRegister(all, target) ==
  IF ~all.ok THEN all
  ELSE [all EXCEPT !.e = Add(@, Ins("reg", <<target>> \o all.triggers, <<>>))]
MigrateDrive(acc, p, r, t, drive) ==
  LET dnf == Canonical(p, r, p.inst[drive].args[3], FALSE)
      all(terms) == FoldLeft(LAMBDA a, c : MigrateTrigger(a, p, r, t, drive, c),
                             [acc EXCEPT !.triggers = <<>>], terms)
  IN IF Op(p, drive) = "drv" \/ \E c \in dnf : ~Detectable(c, t) THEN [acc EXCEPT !.ok = FALSE]
     ELSE WithRegister(all(SetToSeq(dnf)), p.inst[drive].args[1])

-----------------------------------------------------------------------------
\* Two regions of one block each; the first leaves with a wait.
Clocked(p, r) ==
  /\ p.kind = "process"
  /\ Cardinality(Range(r.of)) = 2
  /\ Len(p.order) = 2
  /\ TermOf(p, EntryOf(p)) \in r.leaves
  /\ Op(p, TermOf(p, EntryOf(p))) \in {"wait", "wait_time"}

EmptyEntity(p) ==
  LET ports == SelectSeq(p.inst, LAMBDA i : i.op \in Ports)
  IN [kind |-> "entity", inst |-> Append(ports, Ins("halt", <<>>, <<>>)),
      body |-> <<<<Len(ports) + 1>>>>, order |-> <<1>>]

\* deseq_process; the unit stays as it is unless all its drives migrate.
Migrated(p, r) ==
  LET before == r.of[EntryOf(p)]
      t == [before |-> before, after |-> CHOOSE x \in Range(r.of) : x # before]
  IN FoldLeft(LAMBDA acc, i : MigrateDrive(acc, p, r, t, i),
              [e |-> EmptyEntity(p), value |-> Invalid, ok |-> TRUE, migrated |-> {}, triggers |-> <<>>],
              SelectSeq(AllInsts(p), LAMBDA i : Op(p, i) \in Drives))
Deseq(p, up) ==
  LET lowered(all) == IF all.ok THEN all.e ELSE p
      clocked(r) == IF Clocked(p, r) THEN lowered(Migrated(p, r)) ELSE p
  IN [p |-> clocked(Regions(p)), ok |-> TRUE]
=============================================================================
