----------------------------- MODULE MCDatapath ------------------------------
(* Menus of instructions for TLC. A profile has arguments with the inputs   *)
(* they take, constants, and for every further instruction a menu of forms  *)
(* [op, arity, imms]; `fold` says whether the unit is folded as well.       *)
EXTENDS Datapath

B(w, n) == FromInt(w, n)
I2 == IntTy(2)
I3 == IntTy(3)
Form(op, arity, imms) == [op |-> op, arity |-> arity, imms |-> imms]
Forms(ops, arity) == {Form(op, arity, <<>>) : op \in ops}
Int2 == {B(2, n) : n \in 0..3}

Profile(args, ins, consts, menus, fold) ==
  [args |-> args, inputs |-> ins, consts |-> consts, menus |-> menus, fold |-> fold]

(* Every operation on every pair of operands, known or not.                 *)
Arithmetics ==
  Profile(<<I2>>, {<<x>> : x \in Int2}, <<B(2, 0), B(2, 1), B(2, 2), B(2, 3)>>,
          <<Forms(UnaryOps, 1) \cup Forms(BinaryOps \cup CompareOps, 2)>>, TRUE)

(* Two operations of which the first may be folded into a constant.         *)
Chained == Forms({"not", "neg"}, 1) \cup Forms({"and", "or", "sub", "add", "smul"}, 2)
Chains ==
  Profile(<<I2>>, {<<x>> : x \in Int2}, <<B(2, 0), B(2, 3)>>, <<Chained, Chained>>, TRUE)

(* Shifts, slices and fields of values.                                     *)
Slicings ==
  Profile(<<I2, I3>>, {<<x, B(3, n)>> : x \in Int2, n \in {1, 3, 6}},
          <<B(2, 1), B(2, 2), B(3, 3), B(4, 9)>>,
          <<Forms(ShiftOps, 3) \cup {Form("exts", 1, <<1, 1>>), Form("inss", 2, <<1, 2>>)}>>, TRUE)
Makers == {Form("array", 2, <<>>), Form("struct", 2, <<>>), Form("array_uniform", 1, <<2>>)}
Users == {Form("mux", 2, <<>>), Form("insf", 2, <<1>>), Form("extf", 1, <<0>>),
          Form("extf", 1, <<1>>), Form("exts", 1, <<0, 1>>), Form("inss", 2, <<1, 1>>),
          Form("shl", 3, <<>>), Form("eq", 2, <<>>), Form("neq", 2, <<>>)}
Aggregates ==
  Profile(<<I2>>, {<<x>> : x \in Int2}, <<B(2, 1), B(1, 0)>>, <<Makers, Users>>, TRUE)

(* Signals, and pointers into them.                                         *)
Shifts == Forms(ShiftOps, 3)
Uses == {Form("prb", 1, <<>>), Form("drv", 2, <<>>)}
Signals ==
  Profile(<<SignalTy(I2), SignalTy(I3), I2>>,
          {<<B(2, 1), B(3, 6), x>> : x \in Int2}, <<>>,
          <<Shifts, Shifts \cup {Form("exts", 1, <<1, 2>>), Form("exts", 1, <<0, 1>>)}, Uses>>, FALSE)
SignalOfStruct ==
  Profile(<<SignalTy(StructTy(<<ArrayTy(2, I2), I2>>)), I2>>,
          {<<<<<<B(2, 1), B(2, 2)>>, B(2, 3)>>, y>> : y \in {B(2, 1), B(2, 2)}},
          <<>>,
          <<{Form("extf", 1, <<0>>), Form("extf", 1, <<1>>)},
            {Form("extf", 1, <<1>>), Form("exts", 1, <<1, 1>>), Form("shl", 3, <<>>)},
            {Form("extf", 1, <<0>>), Form("prb", 1, <<>>)}, Uses>>, FALSE)

(* Variables.                                                               *)
Variables ==
  Profile(<<I2, I3>>, {<<x, B(3, 6)>> : x \in {B(2, 1), B(2, 2)}}, <<>>,
          <<{Form("var", 1, <<>>)},
            {Form("shr", 3, <<>>), Form("exts", 1, <<1, 1>>), Form("var", 1, <<>>)},
            {Form("st", 2, <<>>), Form("ld", 1, <<>>)}, {Form("st", 2, <<>>), Form("ld", 1, <<>>)}>>, FALSE)

MCArgTypes ==
  LET S == StructTy(<<ArrayTy(2, I2), I2>>)
  IN {I2, I3, ArrayTy(2, I2), S, SignalTy(I2), SignalTy(I3), SignalTy(S)}
MCArithmetics == {Arithmetics}
MCShifts == {Slicings, Signals}
MCAggregates == {Aggregates}
MCProfiles == {Arithmetics, Chains, Slicings, Aggregates, Signals, SignalOfStruct, Variables}
=============================================================================
