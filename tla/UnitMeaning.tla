----------------------------- MODULE UnitMeaning -----------------------------
(* What a straight-line unit means, after doc/LANGUAGE.md: its values, the  *)
(* places its signals and variables point to, and the memory it leaves. The *)
(* value of a signal or pointer has the shape of what it points to, with    *)
(* the place of a bit where that has the bit.                               *)
EXTENDS ConstFold

IsRef(T) == IsSignal(T) \/ IsPointer(T)

\* The component of a type or value that the path q leads to.
PartOfTy(T, q) == FoldLeft(LAMBDA X, i : FieldTy(X, i - 1), T, q)
PartOf(x, q) == FoldLeft(LAMBDA y, i : y[i], x, q)

\* The places of a signal or variable.
Places(T, at) ==
  LET places[q \in Seq(Nat)] ==
        LET X == PartOfTy(T, q) IN
        [i \in 1..TyLen(X) |-> IF IsInt(X) THEN at \o q \o <<i>> ELSE places[Append(q, i)]]
  IN places[<<>>]
\* The bits or places of a value in order.
Leaves(T, x) ==
  LET leaves[q \in Seq(Nat)] ==
        LET y == PartOf(x, q) IN
        IF IsInt(PartOfTy(T, q)) THEN y
        ELSE FlattenSeq([i \in DOMAIN y |-> leaves[Append(q, i)]])
  IN leaves[<<>>]
\* What the places x hold.
Read(T, x, mem) ==
  LET read[q \in Seq(Nat)] ==
        LET y == PartOf(x, q) IN
        [i \in DOMAIN y |-> IF IsInt(PartOfTy(T, q)) THEN mem[y[i]] ELSE read[Append(q, i)]]
  IN read[<<>>]
\* The places x come to hold y.
Write(T, x, y, mem) ==
  LET to == Leaves(T, x)
      from == Leaves(T, y)
  IN [p \in DOMAIN mem \cup Range(to) |->
        IF p \in Range(to) THEN from[CHOOSE i \in DOMAIN to : to[i] = p] ELSE mem[p]]

-----------------------------------------------------------------------------
(* A shift selects a window of the base and the hidden part side by side.   *)
RefShift(op, base, hidden, k) ==
  LET amount == IF k < Len(hidden) THEN k ELSE Len(hidden)
  IN IF op = "shl" THEN ExtractSlice(hidden \o base, Len(hidden) - amount, Len(base))
     ELSE ExtractSlice(base \o hidden, amount, Len(base))

\* The result of instruction i with arguments x of types t.
RefValue(i, x, t, mem) ==
  CASE i.op = "const" -> i.imms
    [] i.op = "array_uniform" -> [j \in 1..i.imms[1] |-> x[1]]
    [] i.op \in {"array", "struct"} -> x
    [] i.op \in UnaryOps -> RefUnary(i.op, x[1])
    [] i.op \in BinaryOps -> RefBinary(i.op, x[1], x[2])
    [] i.op \in CompareOps -> RefCompare(i.op, x[1], x[2])
    [] i.op \in ShiftOps -> RefShift(i.op, x[1], x[2], Num(x[3]))
    [] i.op = "mux" -> x[1][Num(x[2]) + 1]
    [] i.op = "insf" -> [x[1] EXCEPT ![i.imms[1] + 1] = x[2]]
    [] i.op = "inss" -> InsertSlice(x[1], i.imms[1], i.imms[2], x[2])
    [] i.op = "extf" -> x[1][i.imms[1] + 1]
    [] i.op = "exts" -> ExtractSlice(x[1], i.imms[1], i.imms[2])
    [] i.op \in {"prb", "ld"} -> Read(i.ty, x[1], mem)

\* Results that the reference leaves open: of operators of other types than its own
\* (every type has an equality), of a division by zero, of a shift by more than the
\* hidden part has, of a selector or index out of range.
Open(i, x, t) ==
  CASE i.op \in UnaryOps \cup BinaryOps \cup (CompareOps \ {"eq", "neq"}) ->
         \/ \E j \in DOMAIN t : ~IsInt(t[j])
         \/ i.op \in Divisions /\ IsZero(x[2])
    [] i.op \in ShiftOps -> ~IsInt(t[3]) \/ Num(x[3]) > Len(x[2])
    [] i.op = "mux" -> ~IsInt(t[2]) \/ Num(x[2]) >= Len(x[1])
    [] i.op \in {"insf", "extf"} -> i.imms[1] >= TyLen(Inner(t[1]))
    [] OTHER -> FALSE

\* A signal or pointer as an operand that is stored, collected or compared.
OfReferences(i, t) ==
  \E j \in DOMAIN t :
    /\ IsRef(t[j])
    /\ i.op \notin ShiftOps \cup {"extf", "exts", "prb", "ld"}
    /\ i.op \in {"drv", "st"} => j = 2
OfAggregates(i, t) == i.op \in {"eq", "neq"} /\ ~IsInt(t[1]) /\ ~IsRef(t[1])
\* Within the reference's maximum (doc/LANGUAGE.md:710), but past the base.
WideShift(i, x) == i.op \in ShiftOps /\ Num(x[3]) > Len(x[1])
\* Signed arithmetic on a negative operand.
SignedNegative(i, x) ==
  i.op \in SignedOps \cup SignedCompares /\ (Negative(x[1]) \/ Negative(x[2]))

\* What is special about an instruction that the verifier accepts.
Specials(i, x, t) ==
  IF Open(i, x, t) THEN {"open"}
  ELSE IF OfReferences(i, t) THEN {"references"}
  ELSE {s \in {"aggregates", "wide", "negative"} :
          CASE s = "aggregates" -> OfAggregates(i, t)
            [] s = "wide" -> WideShift(i, x)
            [] s = "negative" -> SignedNegative(i, x)}

-----------------------------------------------------------------------------
(* The unit as a whole: `val` maps the arguments and instructions so far to *)
(* values, `mem` is what the places hold, `special` what was special so far. *)
(* The meaning ends at an open result, and at one of references: those the  *)
(* reference allows, but places hold bits here.                             *)

\* `inputs` maps the arguments, signals to what they hold.
Start(u, inputs) ==
  LET args == DOMAIN inputs
      sigs == {v \in args : IsRef(u.inst[v].ty)}
      place(v) == Places(u.inst[v].ty.of, <<v>>)
      set(mem, v) == Write(u.inst[v].ty.of, place(v), inputs[v], mem)
  IN [val |-> [v \in args |-> IF v \in sigs THEN place(v) ELSE inputs[v]],
      mem |-> FoldLeft(set, <<>>, SetToSeq(sigs)),
      special |-> {}]

Defined(st) == st.special \cap {"open", "references"} = {}

Meant(u, st, v) ==
  LET i == u.inst[v]
      t == ArgTys(u, i.args)
      x == [j \in DOMAIN i.args |-> st.val[i.args[j]]]
      next == [st EXCEPT !.special = @ \cup Specials(i, x, t)]
      new(y, mem) == [next EXCEPT !.val = [w \in DOMAIN @ \cup {v} |-> IF w = v THEN y ELSE @[w]],
                                  !.mem = mem]
  IN IF ~Defined(st) THEN st
     ELSE IF ~Defined(next) THEN next
     ELSE CASE i.op = "var" -> LET to == Places(t[1], <<v>>)
                               IN new(to, Write(t[1], to, x[1], st.mem))
            [] i.op = "st" -> new(<<>>, Write(t[2], x[1], x[2], st.mem))
            [] i.op = "drv" -> new([to |-> x[1], value |-> x[2], ty |-> t[2]], st.mem)
            [] OTHER -> new(RefValue(i, x, t, st.mem), st.mem)

Meaning(u, inputs) ==
  FoldLeft(LAMBDA st, v : Meant(u, st, v), Start(u, inputs), u.order)

\* Every instruction is laid out after those whose results it uses.
DefsBeforeUses(u) ==
  \A p \in DOMAIN u.order :
    \A a \in Range(u.inst[u.order[p]].args) :
      u.inst[a].op = "arg" \/ \E q \in 1..(p - 1) : u.order[q] = a

\* What the verifier says of the whole unit.
UnitVerified(u) ==
  DefsBeforeUses(u) /\ \A v \in Range(u.order) :
    LET i == u.inst[v] IN Verified(i.op, ArgTys(u, i.args), i.imms, i.ty)
=============================================================================
