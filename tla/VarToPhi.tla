------------------------------- MODULE VarToPhi -------------------------------
(* Promotion of variables to phis (src/pass/vtpp.rs): every load becomes    *)
(* the value last stored, in its block or on the ways into it; stores and   *)
(* variables are deleted. `up` orders the hash tables.                      *)
EXTENDS Program

Unknown == -1                                       \* no value on this way

\* A block's last stores, by variable; and the load `i` of a block as what the stores
\* before it say, or Unknown.
Stores(p, insts) ==
  LET note(t, i) ==
        CASE Op(p, i) = "var" -> (i :> p.inst[i].args[1]) @@ t
          [] Op(p, i) = "st" -> (p.inst[i].args[1] :> p.inst[i].args[2]) @@ t
          [] OTHER -> t
  IN FoldLeft(note, <<>>, insts)
Stored(t, var) == IF var \in DOMAIN t THEN t[var] ELSE Unknown
LoadedHere(p, i) ==
  LET b == BlockOf(p, i)
  IN Stored(Stores(p, SubSeq(p.body[b], 1, PlaceIn(p, i) - 1)), p.inst[i].args[1])

\* materialize_value: the value of a variable at the beginning of a block, which may
\* build phis. A block on the stack gives no value.
RECURSIVE Materialize(_, _, _, _, _, _)
Materialize(p, env, var, b, stack, up) ==
  LET way(acc, a) ==
        LET known == Stored(env.outs[a], var)
            m == IF known # Unknown THEN [p |-> acc.p, value |-> known]
                 ELSE Materialize(acc.p, env, var, a, stack \cup {b}, up)
        IN [p |-> m.p, ways |-> IF m.value = Unknown THEN acc.ways
                                ELSE Append(acc.ways, <<a, m.value>>)]
      all == FoldLeft(way, [p |-> p, ways |-> <<>>], Hashed(env.pred[b], up))
      values == [k \in DOMAIN all.ways |-> all.ways[k][2]]
      phi == Ins("phi", values, [k \in DOMAIN all.ways |-> all.ways[k][1]])
  IN IF b \in stack \/ values = <<>> THEN [p |-> IF b \in stack THEN p ELSE all.p, value |-> Unknown]
     ELSE IF Cardinality(Range(values)) = 1 THEN [p |-> all.p, value |-> values[1]]
     ELSE LET q == Build(all.p, phi, b, 1) IN [p |-> q, value |-> Built(q)]

\* A load becomes the value of the variable.
PromoteLoad(acc, env, ld, up) ==
  LET var == acc.p.inst[ld].args[1]
      m == IF env.here[ld] # Unknown THEN [p |-> acc.p, value |-> env.here[ld]]
           ELSE Materialize(acc.p, env, env.var[ld], BlockOf(env.p, ld), {}, up)
  IN IF ~acc.ok \/ m.value = Unknown THEN [acc EXCEPT !.ok = FALSE]
     ELSE [acc EXCEPT !.p = Prune(ReplaceUse(m.p, ld, m.value), ld)]

\* A store or a variable is deleted; delete_inst wants it unused.
StripInst(acc, i) == IF acc.ok /\ Deletable(acc.p, i) THEN [acc EXCEPT !.p = Delete(acc.p, i)]
                     ELSE [acc EXCEPT !.ok = FALSE]

\* mutant: variables go before the stores into them
VtppVarsFirst(p, up) ==
  LET all(op) == {i \in Laid(p) : Op(p, i) = op}
      env == [p |-> p, pred |-> PredTbl(p).pred,
              outs |-> [b \in BlocksOf(p) |-> Stores(p, p.body[b])],
              here |-> [i \in all("ld") |-> LoadedHere(p, i)],
              var |-> [i \in all("ld") |-> p.inst[i].args[1]]]
      loads == FoldLeft(LAMBDA acc, ld : PromoteLoad(acc, env, ld, up),
                        [p |-> p, ok |-> TRUE], Hashed(all("ld"), up))
  IN FoldLeft(StripInst, loads, Hashed(all("var"), up) \o Hashed(all("st"), up))
\* run_on_cfg: the program, and whether it went without a panic.
Vtpp(p, up) ==
  LET all(op) == {i \in Laid(p) : Op(p, i) = op}
      env == [p |-> p, pred |-> PredTbl(p).pred,
              outs |-> [b \in BlocksOf(p) |-> Stores(p, p.body[b])],
              here |-> [i \in all("ld") |-> LoadedHere(p, i)],
              var |-> [i \in all("ld") |-> p.inst[i].args[1]]]
      loads == FoldLeft(LAMBDA acc, ld : PromoteLoad(acc, env, ld, up),
                        [p |-> p, ok |-> TRUE], Hashed(all("ld"), up))
  IN FoldLeft(StripInst, loads, Hashed(all("st"), up) \o Hashed(all("var"), up))
=============================================================================
