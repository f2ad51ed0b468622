------------------------------- MODULE Datapath ------------------------------
(* The straight-line part of a process on its way through the tools: it is  *)
(* built and verified, constant folding rewrites it instruction by          *)
(* instruction, as Pass::run_on_cfg does (src/opt/pass.rs:27-34), and the   *)
(* simulator executes it on its signals and applies its drive.              *)
EXTENDS UnitMeaning, SimPointer

CONSTANTS
  ArgTypes,   \* the types of arguments, with all their components
  Profiles    \* what may be built: arguments with the values they may have,
              \* constants, and a menu of instructions for every further place

\* How many arguments and numbers an instruction takes (the methods of InstBuilder).
Arities(op) ==
  CASE op \in ShiftOps -> {3}
    [] op \in BinaryOps \cup CompareOps \cup {"mux", "insf", "inss", "drv", "st"} -> {2}
    [] op \in UnaryOps \cup {"array_uniform", "extf", "exts", "prb", "ld", "var"} -> {1}
    [] op = "array" -> Nat \ {0}
    [] op = "struct" -> Nat
    [] OTHER -> {}
NumImms(op) ==
  CASE op \in {"array_uniform", "insf", "extf"} -> 1
    [] op \in {"inss", "exts"} -> 2
    [] OTHER -> 0

ASSUME ProfilesAssumption ==
  /\ ArgTypes \subseteq TypesOver(ArgTypes)
  /\ \A p \in Profiles :
       /\ p.args \in Seq(ArgTypes) /\ p.consts \in Seq(Seq({0, 1}))
       /\ p.menus \in Seq(SUBSET [op : STRING, arity : Nat, imms : Seq(Nat)])
       /\ \A n \in DOMAIN p.menus : \A f \in p.menus[n] :
            f.arity \in Arities(f.op) /\ Len(f.imms) = NumImms(f.op)

VARIABLES
  phase,         \* "build", "fold", "run", "applied" or "panicked"
  profile,
  unit, built,   \* the unit, and as it was built
  repl,          \* what the uses of a value have become
  todo,          \* instructions still to be folded or executed
  inputs,        \* values of the arguments in this execution
  store,         \* signal, variable or value -> contents
  ptrs,          \* value -> pointer
  event          \* the drive to be applied, a sequence of length 0 or 1

vars == <<phase, profile, unit, built, repl, todo, inputs, store, ptrs, event>>

Init ==
  /\ profile \in Profiles
  /\ unit = [inst |-> [v \in DOMAIN profile.args |-> Inst("arg", <<>>, <<>>, profile.args[v])]
                      \o [j \in DOMAIN profile.consts |-> ConstInst(profile.consts[j])],
             order |-> [j \in DOMAIN profile.consts |-> Len(profile.args) + j]]
  /\ built = unit /\ phase = "build" /\ repl = <<>> /\ todo = <<>>
  /\ inputs = <<>> /\ store = <<>> /\ ptrs = <<>> /\ event = <<>>

Values == {v \in DOMAIN unit.inst : unit.inst[v].ty # VoidTy}
NumBuilt == Len(unit.order) - Len(profile.consts)
AllBuilt == NumBuilt = Len(profile.menus)

\* Slices and shifts of values are those of integers and of arrays of integers: the
\* zeros of other types, which folding them inserts, take any number of instructions.
Sliceable(op, ty) == op \in ShiftOps \cup {"exts"} /\ IsArray(ty) => IsInt(ty.of)

\* The builder appends an instruction; only what the verifier accepts goes on.
Build ==
  /\ phase = "build" /\ ~AllBuilt
  /\ \E f \in profile.menus[NumBuilt + 1] : \E args \in [1..f.arity -> Values] :
       LET t == ArgTys(unit, args)
           i == Inst(f.op, args, f.imms, InstTy(f.op, t, f.imms))
           v == Len(unit.inst) + 1
       IN /\ Buildable(f.op, t, f.imms) /\ Sliceable(f.op, i.ty)
          /\ Verified(f.op, t, f.imms, i.ty)
          /\ unit' = [inst |-> Append(unit.inst, i), order |-> Append(unit.order, v)]
  /\ built' = unit'
  /\ UNCHANGED <<phase, profile, repl, todo, inputs, store, ptrs, event>>

-----------------------------------------------------------------------------
(* Constant folding.                                                        *)

StartFolding ==
  /\ phase = "build" /\ AllBuilt /\ profile.fold
  /\ phase' = "fold" /\ todo' = unit.order
  /\ repl' = [v \in DOMAIN unit.inst |-> v]
  /\ UNCHANGED <<profile, unit, built, inputs, store, ptrs, event>>

\* A constant division by zero panics in the arithmetic.
FoldPanics(v) ==
  LET i == unit.inst[v] IN
  /\ i.op \in Divisions /\ IsInt(i.ty)
  /\ \A a \in Range(i.args) : IsConst(unit, a)
  /\ IsZero(Imm(unit, i.args[2]))

Fold ==
  /\ phase = "fold" /\ todo # <<>>
  /\ todo' = Tail(todo)
  /\ IF FoldPanics(Head(todo))
     THEN phase' = "panicked" /\ UNCHANGED <<unit, repl>>
     ELSE LET v == Head(todo)
              f == Replacement(unit, v)
          IN /\ unit' = FoldInst(unit, v)
             /\ repl' = [w \in DOMAIN repl |-> IF f.r # 0 /\ repl[w] = v THEN f.r ELSE repl[w]]
             /\ UNCHANGED phase
  /\ UNCHANGED <<profile, built, inputs, store, ptrs, event>>

-----------------------------------------------------------------------------
(* Execution (InstContext::exec). The result of an instruction that yields  *)
(* a signal or pointer is a pointer, of all others a value.                 *)

StartRunning ==
  /\ (phase = "build" /\ AllBuilt) \/ (phase = "fold" /\ todo = <<>>)
  /\ phase' = "run" /\ todo' = unit.order
  /\ inputs' \in profile.inputs
  /\ LET sigs == {v \in DOMAIN inputs' : IsSignal(unit.inst[v].ty)}
         target(v) == IF v \in sigs THEN <<"signal", v>> ELSE <<"value", v>>
     IN /\ store' = [x \in {target(v) : v \in DOMAIN inputs'} |-> inputs'[x[2]]]
        /\ ptrs' = [v \in sigs |-> Whole(<<"signal", v>>, unit.inst[v].ty)]
  /\ UNCHANGED <<profile, unit, built, repl, event>>

\* resolve_value, and the pointer behind any kind of value.
Resolved(v) == store[<<"value", v>>]
PtrTo(v) == IF v \in DOMAIN ptrs THEN ptrs[v] ELSE Whole(<<"value", v>>, unit.inst[v].ty)

\* The pointer that a shift or an access computes.
PtrOf(i) ==
  CASE i.op \in ShiftOps -> ShiftPtr(i.op, PtrTo(i.args[1]), PtrTo(i.args[2]), Num(Resolved(i.args[3])))
    [] i.op \in {"insf", "extf"} -> FieldPtr(PtrTo(i.args[1]), unit.inst[i.args[1]].ty, i.imms[1])
    [] i.op \in {"inss", "exts"} -> SlicePtr(PtrTo(i.args[1]), i.imms[1], i.imms[2])
    [] i.op \in {"prb", "ld", "drv", "st"} -> PtrTo(i.args[1])

\* The arguments that resolve_value has to find.
ValueArgs(i) ==
  CASE i.op \in ShiftOps -> {3}
    [] i.op \in {"extf", "exts", "prb", "ld"} -> {}
    [] i.op \in {"drv", "st"} -> {2}
    [] OTHER -> DOMAIN i.args

Pointing == ShiftOps \cup {"insf", "extf", "inss", "exts", "prb", "ld"}

\* Where exec panics: a signal or pointer where resolve_value expects a value,
\* unsupported types, a division by zero, a missing field, and the assertions of
\* read_pointer.
Panics(i) ==
  LET t == ArgTys(unit, i.args) IN
  IF \E j \in ValueArgs(i) : IsRef(t[j]) THEN TRUE ELSE
  CASE i.op \in UnaryOps \cup BinaryOps \cup CompareOps ->
         \/ \E j \in DOMAIN t : ~IsInt(t[j])
         \/ i.op \in Divisions /\ IsZero(Resolved(i.args[2]))
    [] i.op \in ShiftOps -> ~IsInt(t[3]) \/ (~IsRef(i.ty) /\ ~Complete(PtrOf(i), i.ty))
    [] i.op \in {"insf", "extf"} -> Holders(PtrTo(i.args[1]), i.imms[1]) = {}
    [] i.op = "mux" -> ~IsInt(t[2]) \/ TyLen(t[1]) = 0
    [] i.op \in {"prb", "ld"} -> ~Complete(PtrTo(i.args[1]), i.ty)
    [] i.op = "call" -> TRUE
    [] OTHER -> FALSE

Mux(ways, k) == ways[Least(Len(ways) - 1, k) + 1]

Result(i) ==
  LET x == [j \in DOMAIN i.args |-> Resolved(i.args[j])] IN
  CASE i.op = "const" -> i.imms
    [] i.op = "array_uniform" -> [j \in 1..i.imms[1] |-> x[1]]
    [] i.op \in {"array", "struct"} -> x
    [] i.op \in UnaryOps -> UnaryOp(i.op, x[1])
    [] i.op \in BinaryOps -> SimBinaryOp(i.op, x[1], x[2])
    [] i.op \in CompareOps -> SimCompareOp(i.op, x[1], x[2])
    [] i.op = "mux" -> Mux(x[1], Num(x[2]))
    [] i.op \in {"insf", "inss"} -> Stored(PtrOf(i), store, x[2])[<<"value", i.args[1]>>]
    [] i.op \in Pointing \ {"insf", "inss"} -> ReadPtr(PtrOf(i), i.ty, store)

Keep(target, x) == [y \in DOMAIN store \cup {target} |-> IF y = target THEN x ELSE store[y]]

Exec ==
  /\ phase = "run" /\ todo # <<>>
  /\ LET v == Head(todo)
         i == unit.inst[v]
     IN \/ /\ Panics(i)
           /\ phase' = "panicked" /\ UNCHANGED <<store, ptrs, event>>
        \/ /\ ~Panics(i) /\ i.op = "var"
           /\ store' = Keep(<<"variable", v>>, Resolved(i.args[1]))
           /\ ptrs' = [w \in DOMAIN ptrs \cup {v} |->
                         IF w = v THEN Whole(<<"variable", v>>, i.ty) ELSE ptrs[w]]
           /\ UNCHANGED <<phase, event>>
        \/ /\ ~Panics(i) /\ i.op = "st"
           /\ store' = Stored(PtrOf(i), store, Resolved(i.args[2]))
           /\ UNCHANGED <<phase, ptrs, event>>
        \/ /\ ~Panics(i) /\ i.op = "drv"
           /\ event' = <<[ptr |-> PtrOf(i), value |-> Resolved(i.args[2])]>>
           /\ UNCHANGED <<phase, store, ptrs>>
        \/ /\ ~Panics(i) /\ IsRef(i.ty) /\ i.op # "var"
           /\ ptrs' = [w \in DOMAIN ptrs \cup {v} |-> IF w = v THEN PtrOf(i) ELSE ptrs[w]]
           /\ UNCHANGED <<phase, store, event>>
        \/ /\ ~Panics(i) /\ ~IsRef(i.ty) /\ i.ty # VoidTy
           /\ store' = Keep(<<"value", v>>, Result(i))
           /\ UNCHANGED <<phase, ptrs, event>>
  /\ todo' = Tail(todo)
  /\ UNCHANGED <<profile, unit, built, repl, inputs>>

\* Engine::step applies the drive in a later step.
ApplyEvent ==
  /\ phase = "run" /\ todo = <<>>
  /\ store' = IF event = <<>> THEN store ELSE Stored(event[1].ptr, store, event[1].value)
  /\ phase' = "applied"
  /\ UNCHANGED <<profile, unit, built, repl, todo, inputs, ptrs, event>>

Next == Build \/ StartFolding \/ Fold \/ StartRunning \/ Exec \/ ApplyEvent

Spec == Init /\ [][Next]_vars

-----------------------------------------------------------------------------
\* Folded so far: `0 - x` is taken for `x - 0` (cf.rs:118-130).
ZeroMinus(u) ==
  \E v \in Range(u.order) : LET i == u.inst[v] IN
    /\ i.op = "sub" /\ IsConst(u, i.args[1]) /\ ~IsConst(u, i.args[2])
    /\ IsZero(Imm(u, i.args[1]))

SameMeaning(u) ==
  \A in \in profile.inputs :
    LET before == Meaning(built, in)
        after == Meaning(u, in)
    IN Defined(before) =>
         /\ Defined(after) /\ after.mem = before.mem
         /\ \A v \in DOMAIN before.val : after.val[repl[v]] = before.val[v]

(* Folding changes the value of nothing, wherever the reference defines it: *)
(* neither of the instructions nor of what their uses become (run_on_inst,  *)
(* cf.rs:28-71). A subtraction from zero is left out: FoldsExactly.         *)
FoldKeepsMeaning == phase = "fold" /\ ~ZeroMinus(unit) => SameMeaning(unit)

(* "types before (lhs) and after (rhs) folding must match" (cf.rs:53), and  *)
(* the verifier, which llhd-opt runs after the passes, accepts the folded   *)
(* unit: above all, new instructions come before their uses.                *)
FoldKeepsVerified ==
  /\ phase \in {"fold", "run"} => UnitVerified(unit)
  /\ phase = "fold" /\ todo # <<>> /\ ~FoldPanics(Head(todo)) => FoldKeepsType(unit, Head(todo))

(* The places of a signal or pointer: what it reads where every place holds *)
(* itself.                                                                  *)
PlacesOf(v) ==
  LET ty(x) == unit.inst[x[2]].ty
      itself == [x \in {y \in DOMAIN store : y[1] # "value"} |-> Places(ty(x).of, <<x[2]>>)]
  IN ReadPtr(ptrs[v], unit.inst[v].ty.of, itself)

\* No two slices of one signal or variable: a write keeps only the last of them
\* (engine.rs:84-107, 238-260).
Apart(v) ==
  v \in DOMAIN ptrs => \A i, j \in DOMAIN ptrs[v] : ptrs[v][i].target = ptrs[v][j].target => i = j
StoresApart ==
  \A v \in Range(unit.order) : unit.inst[v].op = "st" => Apart(unit.inst[v].args[1])

\* Where the reference says what the simulator has to compute.
Comparable(meant) ==
  /\ Defined(meant) /\ StoresApart
  /\ repl # <<>> => ~ZeroMinus(unit)   \* folded

Executed == {v \in DOMAIN built.inst : v \notin Range(todo)}

ValuesRight(meant) ==
  \A v \in Executed :
    /\ v \in DOMAIN ptrs => PlacesOf(v) = meant.val[v]
    /\ <<"value", v>> \in DOMAIN store => store[<<"value", v>>] = meant.val[v]

(* The simulator computes what the reference says, of the unit as it was    *)
(* built, folded or not; and a shift, field or slice of a signal or pointer *)
(* aliases exactly the bits that it selects (LANGUAGE.md:566, 706). Three   *)
(* things are left out, which SimulatesExactly keeps: comparisons of        *)
(* aggregates, shifts past the base, negative operands of signed operations.*)
SimulatesMeaning ==
  phase = "run" =>
    LET meant == Meaning(built, inputs)
    IN Comparable(meant) /\ meant.special = {} => ValuesRight(meant)

\* The bits in memory, each with its place, and those that a drive asks for.
Contents(mem) == {<<p, mem[p]>> : p \in DOMAIN mem}
Asked(drive) ==
  LET to == Leaves(drive.ty, drive.to)
      from == Leaves(drive.ty, drive.value)
  IN {<<to[i], from[i]>> : i \in DOMAIN to}
Held ==
  LET ty(x) == unit.inst[x[2]].ty.of
      held(mem, x) == Write(ty(x), Places(ty(x), <<x[2]>>), store[x], mem)
  IN FoldLeft(held, <<>>, SetToSeq({x \in DOMAIN store : x[1] # "value"}))

(* A drive through a pointer changes the bits it selects, each to its bit   *)
(* of the value, and no other bit of any signal; of a pointer with two      *)
(* slices of one signal, which are copied apart and stored back one after   *)
(* the other, some bits may keep what they were (engine.rs:84-107).         *)
DrivesExact ==
  phase = "applied" =>
    LET meant == Meaning(built, inputs)
        drives == {v \in Range(built.order) : built.inst[v].op = "drv"}
        asked == UNION {Asked(meant.val[v]) : v \in drives}
        held == Contents(Held)
    IN Comparable(meant) /\ meant.special = {} =>
         /\ held \subseteq asked \cup Contents(meant.mem)
         /\ (\A v \in drives : Apart(unit.inst[v].args[1])) => asked \subseteq held

\* The inputs of this execution, any while it is not known.
MayBeInputs == IF inputs = <<>> THEN profile.inputs ELSE {inputs}

(* What the verifier accepts runs, before and after folding, where the      *)
(* reference says what it does (exec, engine.rs:532-667). Three things are  *)
(* left out: signals and pointers as values, for which there is no          *)
(* resolve_value, comparisons of aggregates, and shifts past the base.      *)
AcceptedRuns ==
  phase = "panicked" =>
    \A in \in MayBeInputs : Meaning(built, in).special \ {"negative"} # {}

-----------------------------------------------------------------------------
(* "Handle symmetric operations between a constant and a variable argument" *)
(* (cf.rs:118): of all units.                                               *)
FoldsExactly == phase = "fold" => SameMeaning(unit)

(* "The *maximum shift amount* is determined by the number of bits or       *)
(* elements in `Th`" (LANGUAGE.md:710): whatever the reference defines, the *)
(* simulator computes it and does not panic.                                *)
SimulatesExactly ==
  /\ phase = "run" =>
       LET meant == Meaning(built, inputs) IN Comparable(meant) => ValuesRight(meant)
  /\ phase = "panicked" => \A in \in MayBeInputs : ~Defined(Meaning(built, in))
=============================================================================
