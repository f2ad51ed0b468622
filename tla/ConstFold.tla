------------------------------ MODULE ConstFold ------------------------------
(* Constant folding (src/pass/cf.rs) of a straight-line unit. A unit is     *)
(* [inst, order]: `inst` maps a value to the argument or instruction that   *)
(* defines it, `order` lists the instructions as they are laid out.         *)
EXTENDS InstTypes, SequencesExt

Inst(op, args, imms, ty) == [op |-> op, args |-> args, imms |-> imms, ty |-> ty]
ConstInst(b) == Inst("const", <<>>, b, IntTy(Len(b)))

ArgTys(u, args) == [i \in DOMAIN args |-> u.inst[args[i]].ty]

\* get_const_int
IsConst(u, v) == u.inst[v].op = "const"
Imm(u, v) == u.inst[v].imms

InsertAfter(u, at, inst) ==   \* mutant: behind the instruction
  LET p == CHOOSE i \in DOMAIN u.order : u.order[i] = at
      v == Len(u.inst) + 1
  IN [u |-> [inst |-> Append(u.inst, inst), order |-> InsertAt(u.order, p + 1, v)], r |-> v]
\* unit.ins(), with the insertion point before `at`: the unit and the new value.
Insert(u, at, inst) ==
  LET p == CHOOSE i \in DOMAIN u.order : u.order[i] = at
      v == Len(u.inst) + 1
  IN [u |-> [inst |-> Append(u.inst, inst), order |-> InsertAt(u.order, p, v)], r |-> v]
InsertOp(u, at, op, args, imms) ==
  Insert(u, at, Inst(op, args, imms, InstTy(op, ArgTys(u, args), imms)))
InsertConst(u, at, b) == Insert(u, at, ConstInst(b))
\* const_zero for integers and for arrays of integers.
InsertZero(u, at, T) ==
  IF IsInt(T) THEN InsertConst(u, at, FromInt(T.w, 0))
  ELSE LET e == InsertConst(u, at, FromInt(T.of.w, 0))
       IN InsertOp(e.u, at, "array_uniform", <<e.r>>, <<T.w>>)

\* No replacement; an existing value as the replacement.
Nothing(u) == [u |-> u, r |-> 0]
Existing(u, v) == [u |-> u, r |-> v]
OrElse(f, v) == IF f.r = 0 THEN [f EXCEPT !.r = v] ELSE f

-----------------------------------------------------------------------------
\* fold_unary_int
FoldUnary(u, v) ==
  LET i == u.inst[v] IN
  IF i.op \in UnaryOps /\ IsInt(i.ty) /\ IsConst(u, i.args[1])
  THEN InsertConst(u, v, UnaryOp(i.op, Imm(u, i.args[1])))
  ELSE Nothing(u)

\* The operations between a constant c and a variable x in any order, and those
\* with the constant on the right.
Symmetric(u, v, op, c, x) ==
  LET w == Len(c) IN
  CASE op \in {"and", "smul", "umul"} /\ IsZero(c) -> InsertConst(u, v, FromInt(w, 0))
    [] op \in {"or", "xor", "add", "sub"} /\ IsZero(c) -> Existing(u, x)
    [] op \in {"smul", "umul"} /\ IsOne(c) -> Existing(u, x)
    [] op = "or" /\ IsAllOnes(c) -> InsertConst(u, v, AllOnes(w))
    [] op = "and" /\ IsAllOnes(c) -> Existing(u, x)
    [] op = "xor" /\ IsAllOnes(c) -> InsertOp(u, v, "not", <<x>>, <<>>)
    [] OTHER -> Nothing(u)
Asymmetric(u, v, op, c, x) ==
  CASE op \in {"sdiv", "udiv"} /\ IsOne(c) -> Existing(u, x)
    [] op \in {"smod", "umod", "srem", "urem"} /\ IsOne(c) -> InsertConst(u, v, FromInt(Len(c), 0))
    [] OTHER -> Nothing(u)

FoldBinaryBoth(u, v) ==   \* mutant: a division by one folds from either side
  LET i == u.inst[v]
      a == i.args[1]
      b == i.args[2]
      known == IF IsConst(u, a) THEN Imm(u, a) ELSE Imm(u, b)
      other == IF IsConst(u, a) THEN b ELSE a
      sym == Symmetric(u, v, i.op, known, other)
  IN IF ~IsInt(i.ty) THEN Nothing(u)
     ELSE IF IsConst(u, a) /\ IsConst(u, b)
     THEN InsertConst(u, v, IF i.op \in CompareOps THEN CompareOp(i.op, Imm(u, a), Imm(u, b))
                            ELSE BinaryOp(i.op, Imm(u, a), Imm(u, b)))
     ELSE IF ~(IsConst(u, a) \/ IsConst(u, b)) THEN Nothing(u)
     ELSE IF sym.r # 0 THEN sym
     ELSE Asymmetric(u, v, i.op, known, other)
\* fold_binary_int
FoldBinary(u, v) ==
  LET i == u.inst[v]
      a == i.args[1]
      b == i.args[2]
      known == IF IsConst(u, a) THEN Imm(u, a) ELSE Imm(u, b)
      other == IF IsConst(u, a) THEN b ELSE a
      sym == Symmetric(u, v, i.op, known, other)
  IN IF ~IsInt(i.ty) THEN Nothing(u)
     ELSE IF IsConst(u, a) /\ IsConst(u, b)
     THEN InsertConst(u, v, IF i.op \in CompareOps THEN CompareOp(i.op, Imm(u, a), Imm(u, b))
                            ELSE BinaryOp(i.op, Imm(u, a), Imm(u, b)))
     ELSE IF ~(IsConst(u, a) \/ IsConst(u, b)) THEN Nothing(u)
     ELSE IF sym.r # 0 THEN sym
     ELSE IF IsConst(u, b) THEN Asymmetric(u, v, i.op, known, a)
     ELSE Nothing(u)

-----------------------------------------------------------------------------
\* fold_ins_slice; new instructions are placed before `at`.
FoldInsSlice(u, at, v) ==
  LET i == u.inst[v]
      target == i.args[1]
      value == i.args[2]
      len == i.imms[2]
  IN IF len = 0 THEN Existing(u, target)
     ELSE IF len = TyLen(u.inst[target].ty) THEN Existing(u, value)
     ELSE IF IsConst(u, target) /\ IsConst(u, value)
     THEN InsertConst(u, at, InsertSlice(Imm(u, target), i.imms[1], len, Imm(u, value)))
     ELSE Nothing(u)

\* fold_ext_slice
FoldExtSlice(u, at, v) ==
  LET i == u.inst[v]
      target == i.args[1]
      T == u.inst[target].ty
      len == i.imms[2]
  IN IF (IsInt(T) \/ IsArray(T)) /\ len = 0 THEN InsertZero(u, at, i.ty)
     ELSE IF (IsInt(T) \/ IsArray(T)) /\ len = TyLen(T) THEN Existing(u, target)
     ELSE IF IsConst(u, target)
     THEN InsertConst(u, at, ExtractSlice(Imm(u, target), i.imms[1], len))
     ELSE Nothing(u)

\* fold_ext_field
FoldExtField(u, v) ==
  LET from == u.inst[u.inst[v].args[1]]
      field == u.inst[v].imms[1]
  IN CASE from.op = "array_uniform" -> Existing(u, from.args[1])
       [] from.op \in {"array", "struct"} /\ field < Len(from.args) -> Existing(u, from.args[field + 1])
       [] OTHER -> Nothing(u)

\* fold_mux
FoldMux(u, v) ==
  LET i == u.inst[v] IN
  IF IsConst(u, i.args[2])
  THEN InsertOp(u, v, "extf", <<i.args[1]>>, <<Num(Imm(u, i.args[2]))>>)
  ELSE Nothing(u)

\* replace_use: every use of v becomes a use of r.
Replaced(u, v, r) ==
  [u EXCEPT !.inst = [j \in DOMAIN u.inst |->
     [u.inst[j] EXCEPT !.args = [k \in DOMAIN @ |-> IF @[k] = v THEN r ELSE @[k]]]]]

\* The uses of v become uses of the replacement that f found for it, if any.
Settled(u, v, f) == IF f.r = 0 THEN u ELSE Replaced(f.u, v, f.r)

\* run_on_value for the slices that a folded shift is made of.
FoldSlice(u, v) ==
  CASE u.inst[v].op = "exts" -> FoldExtSlice(u, v, v)
    [] u.inst[v].op = "inss" -> FoldInsSlice(u, v, v)
    [] OTHER -> Nothing(u)
FoldPart(u, v) == Settled(u, v, FoldSlice(u, v))

ShiftedOut(left, amount, bw, hw) == IF left THEN hw - amount ELSE amount - bw

\* The result is a mixture of the base and of the hidden value. The second
\* insertion is folded after the parts, with the insertion point at the first.
FoldMixed(u, v, left, base, hidden, amount) ==
  LET ty == u.inst[v].ty
      bw == TyLen(u.inst[base].ty)
      hw == TyLen(u.inst[hidden].ty)
      b == InsertOp(u, v, "exts", <<base>>, <<IF left THEN 0 ELSE amount, bw - amount>>)
      h == InsertOp(b.u, v, "exts", <<hidden>>, <<IF left THEN hw - amount ELSE 0, amount>>)
      z0 == InsertZero(h.u, v, ty)
      z1 == IF left THEN InsertOp(z0.u, v, "inss", <<z0.r, b.r>>, <<amount, bw - amount>>)
            ELSE InsertOp(z0.u, v, "inss", <<z0.r, h.r>>, <<bw - amount, amount>>)
      z2 == IF left THEN InsertOp(z1.u, v, "inss", <<z1.r, h.r>>, <<0, amount>>)
            ELSE InsertOp(z1.u, v, "inss", <<z1.r, b.r>>, <<0, bw - amount>>)
      parts == FoldPart(FoldPart(FoldPart(FoldPart(z2.u, h.r), b.r), z0.r), z1.r)
  IN OrElse(FoldInsSlice(parts, z1.r, z2.r), z2.r)

\* fold_shift
FoldShift(u, v) ==
  LET i == u.inst[v]
      base == i.args[1]
      hidden == i.args[2]
      bw == TyLen(u.inst[base].ty)
      hw == TyLen(u.inst[hidden].ty)
      k == Num(Imm(u, i.args[3]))
      amount == IF k < hw THEN k ELSE hw
      out == InsertOp(u, v, "exts", <<hidden>>,
                      <<ShiftedOut(i.op = "shl", amount, bw, hw), bw>>)
  IN IF ~IsConst(u, i.args[3]) THEN Nothing(u)
     ELSE IF k = 0 THEN Existing(u, base)
     ELSE IF IsSignal(u.inst[base].ty) \/ IsPointer(u.inst[base].ty) THEN Nothing(u)
     ELSE IF amount >= bw THEN OrElse(FoldExtSlice(out.u, v, out.r), out.r)
     ELSE FoldMixed(u, v, i.op = "shl", base, hidden, amount)

-----------------------------------------------------------------------------
\* The replacement that run_on_inst finds.
Replacement(u, v) ==
  LET op == u.inst[v].op IN
  CASE op = "inss" -> FoldInsSlice(u, v, v)
    [] op = "exts" -> FoldExtSlice(u, v, v)
    [] op = "extf" -> FoldExtField(u, v)
    [] op \in ShiftOps -> FoldShift(u, v)
    [] op = "mux" -> FoldMux(u, v)
    [] op \in UnaryOps -> FoldUnary(u, v)
    [] op \in BinaryOps \cup CompareOps -> FoldBinary(u, v)
    [] OTHER -> Nothing(u)

\* run_on_inst, which replaces the uses of the instruction and leaves it there.
FoldInst(u, v) == Settled(u, v, Replacement(u, v))

\* The assertion of run_on_inst.
FoldKeepsType(u, v) ==
  LET f == Replacement(u, v) IN f.r # 0 => f.u.inst[f.r].ty = u.inst[v].ty
=============================================================================
