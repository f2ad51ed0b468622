---------------------------- MODULE DatapathProofs ----------------------------
(***************************************************************************)
(* Constant folding keeps a unit verified, whatever instructions it is     *)
(* built of: proofs about Datapath.                                        *)
(***************************************************************************)
EXTENDS Datapath, NatFacts

-----------------------------------------------------------------------------
(* Types. A type is sound if it is made of sound types: if it belongs to a *)
(* set of types whose components are all in the set.                       *)
Closed(S) == S \subseteq TypesOver(S)
IsTy(T) == \E S : T \in S /\ Closed(S)

LEMMA Kinds ==
  ASSUME NEW S, NEW T
  PROVE  T \in TypesOver(S) <=>
           \/ \E w \in Nat : T = IntTy(w)
           \/ \E w \in Nat, X \in S : T = ArrayTy(w, X)
           \/ \E ts \in Seq(S) : T = StructTy(ts)
           \/ \E X \in S : T = SignalTy(X)
           \/ \E X \in S : T = PointerTy(X)
           \/ T = VoidTy
BY DEF TypesOver, IntTy, ArrayTy, StructTy, SignalTy, PointerTy, VoidTy

(* The components of a sound type are sound.                               *)
LEMMA Components ==
  ASSUME NEW T, IsTy(T)
  PROVE  \/ \E w \in Nat : T = IntTy(w)
         \/ \E w \in Nat : \E X : IsTy(X) /\ T = ArrayTy(w, X)
         \/ \E ts : /\ ts \in Seq({ts[i] : i \in DOMAIN ts}) /\ T = StructTy(ts)
                    /\ \A i \in DOMAIN ts : IsTy(ts[i])
         \/ \E X : IsTy(X) /\ (T = SignalTy(X) \/ T = PointerTy(X))
         \/ T = VoidTy
<1>1. PICK S : T \in S /\ Closed(S)
  BY DEF IsTy
<1>2. \A X \in S : IsTy(X)
  BY <1>1 DEF IsTy
<1>3. T \in TypesOver(S)
  BY <1>1 DEF Closed
<1>4. ASSUME NEW ts \in Seq(S)
      PROVE  ts \in Seq({ts[i] : i \in DOMAIN ts}) /\ \A i \in DOMAIN ts : IsTy(ts[i])
  BY <1>2
<1>5. \/ \E w \in Nat : T = IntTy(w)
      \/ \E w \in Nat, X \in S : T = ArrayTy(w, X)
      \/ \E ts \in Seq(S) : T = StructTy(ts)
      \/ \E X \in S : T = SignalTy(X)
      \/ \E X \in S : T = PointerTy(X)
      \/ T = VoidTy
  BY ONLY <1>3, Kinds
<1>6. CASE \E ts \in Seq(S) : T = StructTy(ts)
  BY ONLY <1>4, <1>6
<1>7. CASE ~\E ts \in Seq(S) : T = StructTy(ts)
  BY ONLY <1>2, <1>5, <1>7
<1> QED BY ONLY <1>6, <1>7

(* What is made of sound types is sound.                                   *)
LEMMA Grown ==
  ASSUME NEW S, NEW R, S \subseteq R
  PROVE  TypesOver(S) \subseteq TypesOver(R)
<1>1. Seq(S) \subseteq Seq(R)
  OBVIOUS
<1> QED BY <1>1 DEF TypesOver

LEMMA MadeOf ==
  ASSUME NEW S, \A X \in S : IsTy(X), NEW T \in TypesOver(S)
  PROVE  IsTy(T)
<1> DEFINE Home(X) == CHOOSE R : X \in R /\ Closed(R)
           R == UNION {Home(X) : X \in S}
<1>1. \A X \in S : X \in Home(X) /\ Closed(Home(X))
  BY DEF IsTy
<1> HIDE DEF Home
<1>2. S \subseteq R
  BY <1>1
<1>3. R \subseteq TypesOver(R)
  <2>1. ASSUME NEW X \in S PROVE Home(X) \subseteq TypesOver(R)
    <3>1. Home(X) \subseteq R
      OBVIOUS
    <3> HIDE DEF R
    <3>2. TypesOver(Home(X)) \subseteq TypesOver(R)
      BY <3>1, Grown
    <3> QED BY <1>1, <3>2 DEF Closed
  <2> QED BY <2>1
<1> HIDE DEF R
<1>4. T \in TypesOver(R)
  BY <1>2, Grown
<1>5. Closed(R \cup {T})
  <2>1. TypesOver(R) \subseteq TypesOver(R \cup {T})
    BY Grown
  <2> QED BY <1>3, <1>4, <2>1 DEF Closed
<1> QED BY <1>5 DEF IsTy

LEMMA Makers ==
  /\ IsTy(VoidTy)
  /\ \A w \in Nat : IsTy(IntTy(w))
  /\ \A w \in Nat : \A X : IsTy(X) => IsTy(ArrayTy(w, X))
  /\ \A X : IsTy(X) => IsTy(SignalTy(X)) /\ IsTy(PointerTy(X))
  /\ \A S : (\A X \in S : IsTy(X)) => \A ts \in Seq(S) : IsTy(StructTy(ts))
<1>1. ASSUME NEW X, IsTy(X), NEW w \in Nat
      PROVE  IsTy(ArrayTy(w, X)) /\ IsTy(SignalTy(X)) /\ IsTy(PointerTy(X))
  <2>1. {ArrayTy(w, X), SignalTy(X), PointerTy(X)} \subseteq TypesOver({X})
    BY Kinds
  <2> QED BY <1>1, <2>1, MadeOf
<1>2. {VoidTy} \cup {IntTy(w) : w \in Nat} \subseteq TypesOver({})
  BY Kinds
<1>3. ASSUME NEW S, \A X \in S : IsTy(X), NEW ts \in Seq(S) PROVE IsTy(StructTy(ts))
  <2>1. StructTy(ts) \in TypesOver(S)
    BY Kinds
  <2> QED BY <1>3, <2>1, MadeOf
<1>4. IsTy(VoidTy) /\ \A w \in Nat : IsTy(IntTy(w))
  BY <1>2, MadeOf
<1> QED BY <1>1, <1>3, <1>4

(* What a sound type of each kind consists of.                             *)
LEMMA Shapes ==
  ASSUME NEW T, IsTy(T)
  PROVE  /\ IsInt(T) => TyLen(T) \in Nat /\ T = IntTy(TyLen(T))
         /\ IsArray(T) => TyLen(T) \in Nat /\ T = ArrayTy(TyLen(T), T.of) /\ IsTy(T.of)
         /\ IsStruct(T) => /\ T.fields \in Seq({T.fields[i] : i \in DOMAIN T.fields})
                           /\ TyLen(T) = Len(T.fields)
                           /\ \A i \in DOMAIN T.fields : IsTy(T.fields[i])
         /\ IsSignal(T) \/ IsPointer(T) => IsTy(T.of)
         /\ IsSignal(T) => T = SignalTy(T.of)
         /\ IsPointer(T) => T = PointerTy(T.of)
<1> USE DEF IsInt, IsArray, IsStruct, IsSignal, IsPointer, TyLen
<1>1. CASE \E w \in Nat : T = IntTy(w)
  BY <1>1 DEF IntTy
<1>2. CASE \E w \in Nat : \E X : IsTy(X) /\ T = ArrayTy(w, X)
  BY <1>2 DEF ArrayTy
<1>3. CASE \E ts : /\ ts \in Seq({ts[i] : i \in DOMAIN ts}) /\ T = StructTy(ts)
                   /\ \A i \in DOMAIN ts : IsTy(ts[i])
  BY <1>3 DEF StructTy
<1>4. CASE \E X : IsTy(X) /\ (T = SignalTy(X) \/ T = PointerTy(X))
  BY <1>4 DEF SignalTy, PointerTy
<1>5. CASE T = VoidTy
  BY <1>5 DEF VoidTy
<1> QED BY ONLY <1>1, <1>2, <1>3, <1>4, <1>5, IsTy(T), Components

LEMMA Slices ==
  ASSUME NEW T, IsTy(T), IsInt(T) \/ IsArray(T), NEW n \in Nat
  PROVE  /\ IsTy(SliceTy(T, n))
         /\ IsInt(T) => SliceTy(T, n) = IntTy(n)
         /\ IsArray(T) => SliceTy(T, n) = ArrayTy(n, T.of)
<1>1. CASE IsInt(T)
  <2>1. T = IntTy(TyLen(T))
    BY <1>1, Shapes
  <2>2. SliceTy(T, n) = IntTy(n) /\ ~IsArray(T)
    BY ONLY <2>1 DEF SliceTy, IntTy, IsArray
  <2> QED BY <2>2, Makers
<1>2. CASE IsArray(T)
  <2>1. T = ArrayTy(TyLen(T), T.of) /\ IsTy(T.of)
    BY <1>2, Shapes
  <2>2. SliceTy(T, n) = ArrayTy(n, T.of) /\ ~IsInt(T)
    BY ONLY <2>1 DEF SliceTy, ArrayTy, IsInt
  <2> QED BY <2>1, <2>2, Makers
<1> QED BY <1>1, <1>2

LEMMA WholeSlice ==
  ASSUME NEW T, IsTy(T), IsInt(T) \/ IsArray(T)
  PROVE  SliceTy(T, TyLen(T)) = T
<1> DEFINE n == TyLen(T)
<1>1. n \in Nat /\ (IsInt(T) => T = IntTy(n)) /\ (IsArray(T) => T = ArrayTy(n, T.of))
  BY Shapes
<1> HIDE DEF n
<1>2. (IsInt(T) => SliceTy(T, n) = IntTy(n)) /\ (IsArray(T) => SliceTy(T, n) = ArrayTy(n, T.of))
  BY <1>1, Slices
<1> QED BY <1>1, <1>2 DEF n

LEMMA Wrapped ==
  ASSUME NEW T, IsTy(T)
  PROVE  /\ IsTy(Inner(T))
         /\ \A U : IsTy(U) => IsTy(Rewrap(T, U))
         /\ ~IsSignal(T) /\ ~IsPointer(T) => Inner(T) = T /\ \A U : Rewrap(T, U) = U
<1>1. CASE IsSignal(T)
  <2>1. T = SignalTy(T.of) /\ IsTy(T.of)
    BY <1>1, Shapes
  <2>2. \A U : [T EXCEPT !.of = U] = SignalTy(U)
    BY ONLY <2>1 DEF SignalTy
  <2> QED BY <1>1, <2>1, <2>2, Makers DEF Inner, Rewrap
<1>2. CASE IsPointer(T)
  <2>1. T = PointerTy(T.of) /\ IsTy(T.of)
    BY <1>2, Shapes
  <2>2. \A U : [T EXCEPT !.of = U] = PointerTy(U)
    BY ONLY <2>1 DEF PointerTy
  <2> QED BY <1>2, <2>1, <2>2, Makers DEF Inner, Rewrap
<1>3. CASE ~IsSignal(T) /\ ~IsPointer(T)
  BY <1>3 DEF Inner, Rewrap
<1> QED BY <1>1, <1>2, <1>3

-----------------------------------------------------------------------------
(* Integers: bits stand for a number, and all arithmetic yields bits.      *)
Bits == Seq({0, 1})

LEMMA NumTyped == ASSUME NEW b \in Bits PROVE Num(b) \in Nat
<1> DEFINE n == Len(b)
           G == [k \in Nat |-> [x \in Nat |-> IF k \in 1..n THEN 2 * x + b[n - k + 1] ELSE 0]]
           Step(f) == [k \in 0..n |-> IF k = 0 THEN 0 ELSE 2 * f[k - 1] + b[n - k + 1]]
<1>1. n \in Nat /\ \A k \in 1..n : b[k] \in {0, 1} /\ n - k + 1 \in 1..n
  BY DEF Bits
<1> HIDE DEF n
<1>2. \A k \in 1..n : b[n - k + 1] \in Nat
  BY <1>1
<1>3. G \in [Nat -> [Nat -> Nat]]
  BY <1>2
<1>4. \A k \in 1..n : \A x \in Nat : G[k][x] = 2 * x + b[n - k + 1]
  OBVIOUS
<1> HIDE DEF G
<1>5. PICK f : Recurs(f, Nat, 0, G, n)
  BY <1>1, <1>3, Recurrence
<1>6. /\ f \in [0..n -> Nat] /\ f[0] = 0
      /\ \A k \in 1..n : f[k] = G[k][f[k - 1]]
  BY <1>5 DEF Recurs
<1>7. \A k \in 1..n : k - 1 \in 0..n /\ k \in Nat
  BY <1>1
<1>8. \A k \in 1..n : f[k] = 2 * f[k - 1] + b[n - k + 1]
  BY <1>4, <1>6, <1>7
<1>9. f = Step(f)
  BY <1>1, <1>6, <1>8
<1> DEFINE h == CHOOSE g : g = Step(g)
<1>10. h = Step(h)
  BY <1>9
<1>11. Num(b) = h[n]
  BY DEF Num, n
<1> HIDE DEF h
<1>12. h[0] = 0 /\ \A k \in 1..n : h[k] = 2 * h[k - 1] + b[n - k + 1]
  BY <1>1, <1>10
<1> DEFINE T == {k \in 0..n : h[k] \in Nat}
<1>13. 0 \in T
  BY <1>1, <1>12
<1>14. \A k \in 1..n : k - 1 \in T => k \in T
  BY <1>2, <1>7, <1>12
<1> HIDE DEF T
<1>15. 0..n \subseteq T
  BY <1>1, <1>13, <1>14, CountUp
<1>16. n \in T
  BY <1>1, <1>15
<1> QED BY <1>11, <1>16 DEF T

LEMMA Vectors ==
  ASSUME NEW w \in Nat, NEW F \in [1..w -> {0, 1}]
  PROVE  F \in Bits /\ Len(F) = w
BY DEF Bits

LEMMA FromIntBits ==
  ASSUME NEW w \in Nat, NEW n
  PROVE  FromInt(w, n) \in Bits /\ Len(FromInt(w, n)) = w
<1>1. FromInt(w, n) \in [1..w -> {0, 1}]
  BY DEF FromInt
<1> QED BY ONLY <1>1, w \in Nat, Vectors

ArithBits(op, a, b) ==
         /\ op \in BinaryOps => BinaryOp(op, a, b) \in Bits /\ Len(BinaryOp(op, a, b)) = Len(a)
         /\ CompareOp(op, a, b) \in Bits /\ Len(CompareOp(op, a, b)) = 1
         /\ op \in UnaryOps => UnaryOp(op, a) \in Bits /\ Len(UnaryOp(op, a)) = Len(a)
         /\ AllOnes(Len(a)) \in Bits /\ Len(AllOnes(Len(a))) = Len(a)

LEMMA ArithmeticBits ==
  ASSUME NEW a \in Bits, NEW b \in Bits, Len(a) = Len(b), NEW op
  PROVE  ArithBits(op, a, b)
<1>1. Len(a) \in Nat /\ \A i \in 1..Len(a) : a[i] \in {0, 1} /\ b[i] \in {0, 1}
  BY DEF Bits
<1>2. DOMAIN a = 1..Len(a)
  BY DEF Bits
<1>3. op \in BitOps => BitOp(op, a, b) \in Bits /\ Len(BitOp(op, a, b)) = Len(a)
  <2>1. CASE op \in BitOps
    <3>1. op \in {"and", "or", "xor"}
      BY <2>1 DEF BitOps
    <3>2. \A x, y \in {0, 1} : /\ x * y \in {0, 1} /\ (x + y) % 2 \in {0, 1}
                               /\ (IF x + y > 0 THEN 1 ELSE 0) \in {0, 1}
      OBVIOUS
    <3>3. BitOp(op, a, b) \in [1..Len(a) -> {0, 1}]
      BY <1>1, <1>2, <3>1, <3>2 DEF BitOp
    <3>4. BitOp(op, a, b) \in Bits /\ Len(BitOp(op, a, b)) = Len(a)
      BY ONLY <1>1, <3>3, Vectors
    <3> QED BY ONLY <3>4
  <2> QED BY <2>1
<1>5. BinaryOp(op, a, b) \in Bits /\ Len(BinaryOp(op, a, b)) = Len(a)
  <2>1. CASE op \in BitOps
    BY <1>3, <2>1 DEF BinaryOp
  <2>2. CASE op \notin BitOps
    <3>1. \E n : BinaryOp(op, a, b) = FromInt(Len(a), n)
      BY <2>2 DEF BinaryOp
    <3> QED BY <1>1, <3>1, FromIntBits
  <2> QED BY <2>1, <2>2
<1>6. CompareOp(op, a, b) \in Bits /\ Len(CompareOp(op, a, b)) = 1
  <2>1. <<0>> \in Bits /\ <<1>> \in Bits /\ Len(<<0>>) = 1 /\ Len(<<1>>) = 1
    BY DEF Bits
  <2>2. CompareOp(op, a, b) = <<0>> \/ CompareOp(op, a, b) = <<1>>
    BY DEF CompareOp, Compare
  <2> QED BY <2>1, <2>2
<1>7. op \in UnaryOps => UnaryOp(op, a) \in Bits /\ Len(UnaryOp(op, a)) = Len(a)
  BY <1>1, FromIntBits DEF UnaryOp, UnaryOps
<1>8. AllOnes(Len(a)) \in Bits /\ Len(AllOnes(Len(a))) = Len(a)
  BY <1>1, Vectors DEF AllOnes
<1> QED BY <1>5, <1>6, <1>7, <1>8 DEF ArithBits

LEMMA ExtractBits ==
  ASSUME NEW x \in Bits, NEW off \in Nat, NEW n \in Nat
  PROVE  ExtractSlice(x, off, n) \in Bits /\ Len(ExtractSlice(x, off, n)) = n
<1>1. Len(x) \in Nat /\ DOMAIN x = 1..Len(x) /\ \A i \in 1..Len(x) : x[i] \in {0, 1}
  BY DEF Bits
<1>2. ExtractSlice(x, off, n) \in [1..n -> {0, 1}]
  BY <1>1 DEF ExtractSlice
<1> QED BY <1>2, Vectors

Alike(x, y) == y \in Bits /\ Len(y) = Len(x)

LEMMA InsertBits ==
  ASSUME NEW x \in Bits, NEW off \in Nat, NEW n \in Nat, NEW y \in Bits, Len(y) = n
  PROVE  Alike(x, InsertSlice(x, off, n, y))
<1>1. Len(x) \in Nat /\ DOMAIN x = 1..Len(x) /\ \A i \in 1..Len(x) : x[i] \in {0, 1}
  BY DEF Bits
<1>2. \A i \in 1..Len(x) : i > off /\ i <= off + n => y[i - off] \in {0, 1}
  <2>1. \A i \in 1..n : y[i] \in {0, 1}
    BY DEF Bits
  <2>2. \A i \in 1..Len(x) : i > off /\ i <= off + n => i - off \in 1..n
    BY <1>1
  <2> QED BY <2>1, <2>2
<1>3. InsertSlice(x, off, n, y) \in [1..Len(x) -> {0, 1}]
  BY <1>1, <1>2 DEF InsertSlice
<1> QED BY <1>1, <1>3, Vectors DEF Alike

-----------------------------------------------------------------------------
(* Instructions. What the builder makes and the verifier accepts, with     *)
(* arguments of types t.                                                   *)
Sound(op, t, imms, ty) ==
  /\ Verified(op, t, imms, ty) /\ Sliceable(op, ty)
  /\ op = "const" => imms \in Bits /\ ty = IntTy(Len(imms))
  /\ op # "const" => /\ ty = InstTy(op, t, imms)
                     /\ imms \in Seq(Nat) /\ Len(imms) = NumImms(op)

OpSets == UnaryOps \cup BinaryOps \cup CompareOps \cup ShiftOps

LEMMA Opcodes ==
  /\ OpSets \cap {"const", "call", "array", "array_uniform", "struct", "mux", "insf", "inss",
                  "extf", "exts", "prb", "drv", "var", "ld", "st", "arg"} = {}
  /\ \A op \in BinaryOps : op \notin UnaryOps \cup CompareOps \cup ShiftOps
  /\ \A op \in CompareOps : op \notin UnaryOps \cup BinaryOps \cup ShiftOps
  /\ \A op \in UnaryOps : op \notin BinaryOps \cup CompareOps \cup ShiftOps
  /\ \A op \in ShiftOps : op \notin UnaryOps \cup BinaryOps \cup CompareOps
BY DEF OpSets, UnaryOps, BinaryOps, CompareOps, ShiftOps, SignedOps, SignedCompares, BitOps

(* What the verifier and the builder say of the instructions that are      *)
(* folded, and of those they are folded into.                              *)
LEMMA Checks ==
  ASSUME NEW op, NEW t, NEW imms, NEW ty
  PROVE  /\ op = "const" => Verified(op, t, imms, ty)
         /\ op = "array_uniform" => Verified(op, t, imms, ty)
         /\ op = "array" => (Verified(op, t, imms, ty) <=> \A i \in DOMAIN t : t[i] = ty.of)
         /\ op \in UnaryOps \cup BinaryOps =>
              (Verified(op, t, imms, ty) <=> Arithmetic(ty) /\ \A i \in DOMAIN t : t[i] = ty)
         /\ op \in CompareOps => (Verified(op, t, imms, ty) <=> ty = BoolTy /\ t[1] = t[2])
         /\ op \in ShiftOps =>
              (Verified(op, t, imms, ty) <=> t[1] = ty /\ ShiftChecks(t[1], t[2], t[3]))
         /\ op = "mux" =>
              (Verified(op, t, imms, ty) <=> IsArray(t[1]) /\ t[1].of = ty /\ Arithmetic(t[2]))
         /\ op = "inss" => (Verified(op, t, imms, ty) <=>
              t[1] = ty /\ SliceAccess(ty, imms[1], imms[2]) /\ t[2] = SliceTy(ty, imms[2]))
         /\ op = "extf" => (Verified(op, t, imms, ty) <=>
              /\ FieldAccess(Inner(t[1]), imms[1])
              /\ ty = Rewrap(t[1], FieldTy(Inner(t[1]), imms[1])))
         /\ op = "exts" => (Verified(op, t, imms, ty) <=>
              /\ SliceAccess(Inner(t[1]), imms[1], imms[2])
              /\ ty = Rewrap(t[1], SliceTy(Inner(t[1]), imms[2])))
<1>1. op = "const" => Verified(op, t, imms, ty)
  BY Opcodes DEF Verified, OpSets
<1>2. op = "array_uniform" => Verified(op, t, imms, ty)
  BY Opcodes DEF Verified, OpSets
<1>3. op = "array" => (Verified(op, t, imms, ty) <=> \A i \in DOMAIN t : t[i] = ty.of)
  BY Opcodes DEF Verified, OpSets
<1>4. op \in UnaryOps \cup BinaryOps =>
        (Verified(op, t, imms, ty) <=> Arithmetic(ty) /\ \A i \in DOMAIN t : t[i] = ty)
  BY Opcodes DEF Verified, OpSets
<1>5. op \in CompareOps => (Verified(op, t, imms, ty) <=> ty = BoolTy /\ t[1] = t[2])
  BY Opcodes DEF Verified, OpSets
<1>6. op \in ShiftOps =>
        (Verified(op, t, imms, ty) <=> t[1] = ty /\ ShiftChecks(t[1], t[2], t[3]))
  BY Opcodes DEF Verified, OpSets
<1>7. op = "mux" =>
        (Verified(op, t, imms, ty) <=> IsArray(t[1]) /\ t[1].of = ty /\ Arithmetic(t[2]))
  BY Opcodes DEF Verified, OpSets
<1>8. op = "inss" => (Verified(op, t, imms, ty) <=>
        t[1] = ty /\ SliceAccess(ty, imms[1], imms[2]) /\ t[2] = SliceTy(ty, imms[2]))
  BY Opcodes DEF Verified, OpSets
<1>9. op = "extf" => (Verified(op, t, imms, ty) <=>
        /\ FieldAccess(Inner(t[1]), imms[1])
        /\ ty = Rewrap(t[1], FieldTy(Inner(t[1]), imms[1])))
  BY Opcodes DEF Verified, OpSets
<1>10. op = "exts" => (Verified(op, t, imms, ty) <=>
        /\ SliceAccess(Inner(t[1]), imms[1], imms[2])
        /\ ty = Rewrap(t[1], SliceTy(Inner(t[1]), imms[2])))
  BY Opcodes DEF Verified, OpSets
<1> QED BY ONLY <1>1, <1>2, <1>3, <1>4, <1>5, <1>6, <1>7, <1>8, <1>9, <1>10

LEMMA Results ==
  ASSUME NEW op, NEW t, NEW imms
  PROVE  /\ op = "array" => InstTy(op, t, imms) = ArrayTy(Len(t), t[1])
         /\ op = "array_uniform" => InstTy(op, t, imms) = ArrayTy(imms[1], t[1])
         /\ op = "struct" => InstTy(op, t, imms) = StructTy(t)
         /\ op = "mux" => InstTy(op, t, imms) = t[1].of
         /\ op = "extf" => InstTy(op, t, imms) = Rewrap(t[1], FieldTy(Inner(t[1]), imms[1]))
         /\ op = "exts" => InstTy(op, t, imms) = Rewrap(t[1], SliceTy(Inner(t[1]), imms[2]))
         /\ op \in CompareOps => InstTy(op, t, imms) = BoolTy
         /\ op \in {"prb", "ld"} => InstTy(op, t, imms) = t[1].of
         /\ op = "var" => InstTy(op, t, imms) = PointerTy(t[1])
         /\ op \in {"drv", "st"} => InstTy(op, t, imms) = VoidTy
         /\ op \in UnaryOps \cup BinaryOps \cup ShiftOps \cup {"insf", "inss"} => InstTy(op, t, imms) = t[1]
<1> DEFINE R == InstTy(op, t, imms)
<1>1. op \notin CompareOps =>
        /\ op = "array" => R = ArrayTy(Len(t), t[1])
        /\ op = "array_uniform" => R = ArrayTy(imms[1], t[1])
        /\ op = "struct" => R = StructTy(t)
        /\ op = "mux" => R = t[1].of
        /\ op = "extf" => R = Rewrap(t[1], FieldTy(Inner(t[1]), imms[1]))
        /\ op = "exts" => R = Rewrap(t[1], SliceTy(Inner(t[1]), imms[2]))
  BY DEF InstTy
<1>2. /\ op \notin CompareOps /\ op = "prb" => R = t[1].of
      /\ op \notin CompareOps /\ op = "ld" => R = t[1].of
  BY DEF InstTy
<1>6. op \notin CompareOps /\ op = "var" => R = PointerTy(t[1])
  BY DEF InstTy
<1>7. /\ op \notin CompareOps /\ op = "drv" => R = VoidTy
      /\ op \notin CompareOps /\ op = "st" => R = VoidTy
  BY DEF InstTy
<1>3. op \in CompareOps => R = BoolTy
  BY Opcodes DEF InstTy, OpSets
<1>4. op \in UnaryOps \cup BinaryOps \cup ShiftOps \cup {"insf", "inss"} => R = t[1]
  BY Opcodes DEF InstTy, OpSets
<1> HIDE DEF R
<1>5. op \in {"array", "array_uniform", "struct", "mux", "extf", "exts", "prb", "ld", "var", "drv", "st"}
      => op \notin CompareOps
  BY Opcodes DEF OpSets
<1> QED BY ONLY <1>1, <1>2, <1>3, <1>4, <1>5, <1>6, <1>7 DEF R

-----------------------------------------------------------------------------
(* The layout. An instruction is laid out once, and its place is known     *)
(* relative to those of others.                                            *)
Earlier(s, a, b) == \E p, q \in DOMAIN s : p < q /\ s[p] = a /\ s[q] = b

\* t is s with n placed right before `at`.
Placed(s, t, at, n) ==
  /\ Range(t) = Range(s) \cup {n} /\ IsInjective(t)
  /\ \A a, b : Earlier(s, a, b) => Earlier(t, a, b)
  /\ Earlier(t, n, at) /\ \A a : Earlier(s, a, at) => Earlier(t, a, n)

LEMMA EarlierTransitive ==
  ASSUME NEW S, NEW s \in Seq(S), IsInjective(s), NEW a, NEW b, NEW c,
         Earlier(s, a, b), Earlier(s, b, c)
  PROVE  Earlier(s, a, c)
<1>1. PICK p, q \in DOMAIN s : p < q /\ s[p] = a /\ s[q] = b
  BY DEF Earlier
<1>2. PICK o, r \in DOMAIN s : o < r /\ s[o] = b /\ s[r] = c
  BY DEF Earlier
<1>3. q = o
  BY <1>1, <1>2 DEF IsInjective
<1>4. DOMAIN s = 1..Len(s) /\ Len(s) \in Nat
  OBVIOUS
<1>5. p < r
  BY ONLY <1>1, <1>2, <1>3, <1>4
<1> QED BY <1>1, <1>2, <1>5 DEF Earlier

LEMMA InsertPlaces ==
  ASSUME NEW S, NEW s \in Seq(S), IsInjective(s), NEW at \in Range(s), NEW n, n \notin Range(s),
         NEW p, p = CHOOSE i \in DOMAIN s : s[i] = at
  PROVE  InsertAt(s, p, n) \in Seq(S \cup {n}) /\ Placed(s, InsertAt(s, p, n), at, n)
<1> DEFINE t == InsertAt(s, p, n)
           At(i) == IF i < p THEN i ELSE i + 1
<1>1. DOMAIN s = 1..Len(s) /\ Len(s) \in Nat
  OBVIOUS
<1>2. p \in 1..Len(s) /\ s[p] = at
  BY <1>1 DEF Range
<1>3. /\ t \in Seq(S \cup {n}) /\ Len(t) = Len(s) + 1 /\ DOMAIN t = 1..(Len(s) + 1)
      /\ \A i \in 1..(Len(s) + 1) : t[i] = IF i < p THEN s[i] ELSE IF i = p THEN n ELSE s[i - 1]
  <2>1. SubSeq(s, 1, p - 1) \in Seq(S \cup {n}) /\ Len(SubSeq(s, 1, p - 1)) = p - 1
    BY <1>1, <1>2
  <2>2. SubSeq(s, p, Len(s)) \in Seq(S \cup {n}) /\ Len(SubSeq(s, p, Len(s))) = Len(s) - p + 1
    BY <1>1, <1>2
  <2>3. /\ \A i \in 1..(p - 1) : SubSeq(s, 1, p - 1)[i] = s[i]
        /\ \A i \in 1..(Len(s) - p + 1) : SubSeq(s, p, Len(s))[i] = s[p + i - 1]
    <3>1. SubSeq(s, 1, p - 1) = [i \in 1..(p - 1) |-> s[i]]
      BY <1>1, <1>2
    <3>2. SubSeq(s, p, Len(s)) = [i \in 1..(Len(s) - p + 1) |-> s[p + i - 1]]
      <4>1. p \in Int /\ Len(s) \in Int
        BY <1>1, <1>2
      <4> QED BY ONLY s \in Seq(S), <4>1
    <3> QED BY ONLY <3>1, <3>2
  <2>4. ASSUME NEW x \in Seq(S \cup {n}), NEW z \in Seq(S \cup {n})
        PROVE  LET y == x \o <<n>> \o z IN
               /\ y \in Seq(S \cup {n}) /\ Len(y) = Len(x) + 1 + Len(z)
               /\ \A i \in 1..Len(y) : y[i] = IF i <= Len(x) THEN x[i]
                                            ELSE IF i = Len(x) + 1 THEN n ELSE z[i - Len(x) - 1]
    <3>1. x \o <<n>> \in Seq(S \cup {n}) /\ Len(x \o <<n>>) = Len(x) + 1
      OBVIOUS
    <3>2. \A i \in 1..(Len(x) + 1) : (x \o <<n>>)[i] = IF i <= Len(x) THEN x[i] ELSE n
      OBVIOUS
    <3> DEFINE xn == x \o <<n>>
    <3> HIDE DEF xn
    <3>3. ASSUME xn \in Seq(S \cup {n}) 
          PROVE  /\ xn \o z \in Seq(S \cup {n}) /\ Len(xn \o z) = Len(xn) + Len(z)
                 /\ \A i \in 1..Len(xn \o z) : (xn \o z)[i] = IF i <= Len(xn) THEN xn[i]
                                                               ELSE z[i - Len(xn)]
      BY <3>3
    <3> QED BY <3>1, <3>2, <3>3 DEF xn
  <2>5. t = SubSeq(s, 1, p - 1) \o <<n>> \o SubSeq(s, p, Len(s))
    BY DEF InsertAt
  <2> DEFINE x == SubSeq(s, 1, p - 1)
             z == SubSeq(s, p, Len(s))
  <2> HIDE DEF t, x, z
  <2>9. x \in Seq(S \cup {n}) /\ z \in Seq(S \cup {n}) /\ t = x \o <<n>> \o z
    BY ONLY <2>1, <2>2, <2>5 DEF x, z
  <2>10. /\ t \in Seq(S \cup {n}) /\ Len(t) = Len(x) + 1 + Len(z)
         /\ \A i \in 1..Len(t) : t[i] = IF i <= Len(x) THEN x[i]
                                      ELSE IF i = Len(x) + 1 THEN n ELSE z[i - Len(x) - 1]
    BY ONLY <2>4, <2>9
  <2>6. /\ t \in Seq(S \cup {n}) /\ Len(t) = p - 1 + 1 + (Len(s) - p + 1)
        /\ \A i \in 1..Len(t) : t[i] = IF i <= p - 1 THEN SubSeq(s, 1, p - 1)[i]
              ELSE IF i = p - 1 + 1 THEN n ELSE SubSeq(s, p, Len(s))[i - (p - 1) - 1]
    BY ONLY <2>1, <2>2, <2>10 DEF x, z
  <2>7. t \in Seq(S \cup {n}) /\ Len(t) = Len(s) + 1 /\ DOMAIN t = 1..(Len(s) + 1)
    BY <1>1, <1>2, <2>6
  <2>8. ASSUME NEW i \in 1..(Len(s) + 1)
        PROVE  t[i] = IF i < p THEN s[i] ELSE IF i = p THEN n ELSE s[i - 1]
    <3>1. CASE i < p
      BY ONLY <1>1, <1>2, <2>3, <2>6, <2>7, <3>1
    <3>2. CASE i = p
      BY ONLY <1>1, <1>2, <2>6, <2>7, <3>2
    <3>3. CASE i > p
      <4>1. i - p \in 1..(Len(s) - p + 1) /\ i - (p - 1) - 1 = i - p /\ p + (i - p) - 1 = i - 1
        BY ONLY <1>1, <1>2, <3>3
      <4> QED BY ONLY <1>1, <1>2, <2>3, <2>6, <2>7, <3>3, <4>1
    <3> QED BY ONLY <1>2, <3>1, <3>2, <3>3
  <2> QED BY ONLY <2>7, <2>8
<1> HIDE DEF t
<1>4. \A i \in DOMAIN s : At(i) \in DOMAIN t /\ t[At(i)] = s[i] /\ At(i) # p
  BY ONLY <1>1, <1>2, <1>3
<1>5. p \in DOMAIN t /\ t[p] = n
  BY ONLY <1>1, <1>2, <1>3
<1>6. \A i \in DOMAIN t : i # p => \E j \in DOMAIN s : i = At(j)
  <2>1. ASSUME NEW i \in 1..(Len(s) + 1), i < p PROVE i \in 1..Len(s) /\ i = At(i)
    BY ONLY <1>1, <1>2, <2>1
  <2>2. ASSUME NEW i \in 1..(Len(s) + 1), i > p PROVE i - 1 \in 1..Len(s) /\ i = At(i - 1)
    BY ONLY <1>1, <1>2, <2>2
  <2>3. ASSUME NEW i \in 1..(Len(s) + 1), i # p PROVE i < p \/ i > p
    BY ONLY <1>2, <2>3
  <2> QED BY ONLY <1>1, <1>3, <2>1, <2>2, <2>3
<1>7. \A i, j \in DOMAIN s : (i < j => At(i) < At(j)) /\ (j = p => p < At(j))
                             /\ (i < p => At(i) < p)
  BY ONLY <1>1, <1>2
<1> HIDE DEF At
<1>8. Range(t) = Range(s) \cup {n}
  BY ONLY <1>4, <1>5, <1>6 DEF Range
<1>9. IsInjective(t)
  BY ONLY <1>4, <1>5, <1>6, IsInjective(s), n \notin Range(s) DEF IsInjective, Range
<1>10. ASSUME NEW a, NEW b, Earlier(s, a, b) PROVE Earlier(t, a, b)
  BY ONLY <1>4, <1>7, <1>10 DEF Earlier
<1>11. Earlier(t, n, at)
  BY ONLY <1>1, <1>2, <1>4, <1>5, <1>7 DEF Earlier
<1>12. ASSUME NEW a, Earlier(s, a, at) PROVE Earlier(t, a, n)
  <2>1. PICK i, j \in DOMAIN s : i < j /\ s[i] = a /\ s[j] = at
    BY ONLY <1>12 DEF Earlier
  <2>2. j = p
    BY ONLY <1>1, <1>2, <2>1, IsInjective(s) DEF IsInjective
  <2>3. At(i) < p /\ At(i) \in DOMAIN t /\ t[At(i)] = a
    BY ONLY <1>4, <1>7, <2>1, <2>2
  <2> QED BY ONLY <1>5, <2>3 DEF Earlier
<1> QED BY ONLY <1>3, <1>8, <1>9, <1>10, <1>11, <1>12 DEF Placed, t

-----------------------------------------------------------------------------
(* Units. In a well-formed unit the values that are laid out are sound     *)
(* instructions, each with arguments from before it, and all others are    *)
(* arguments of the unit.                                                  *)
Before(u, a, v) == a \in DOMAIN u.inst /\ (u.inst[a].op = "arg" \/ Earlier(u.order, a, v))

\* i is sound as the instruction at v.
Fits(u, v, i) ==
  /\ i = Inst(i.op, i.args, i.imms, i.ty) /\ i.op # "arg" /\ IsTy(i.ty)
  /\ i.args \in Seq(DOMAIN u.inst) /\ \A k \in DOMAIN i.args : Before(u, i.args[k], v)
  /\ Sound(i.op, ArgTys(u, i.args), i.imms, i.ty)
  /\ i.op # "const" => Len(i.args) \in Arities(i.op)

WellInst(u, v) ==
  IF v \in Range(u.order) THEN Fits(u, v, u.inst[v])
  ELSE u.inst[v] = Inst("arg", <<>>, <<>>, u.inst[v].ty) /\ IsTy(u.inst[v].ty)

WellFormed(u) ==
  /\ u = [inst |-> u.inst, order |-> u.order] /\ u.inst \in Seq(Range(u.inst))
  /\ u.order \in Seq(DOMAIN u.inst) /\ IsInjective(u.order)
  /\ \A v \in DOMAIN u.inst : WellInst(u, v)

\* All of u is in w, where only arguments of instructions may be others.
Grows(u, w) ==
  /\ DOMAIN u.inst \subseteq DOMAIN w.inst /\ Range(u.order) \subseteq Range(w.order)
  /\ \A v \in DOMAIN u.inst : /\ w.inst[v].op = u.inst[v].op /\ w.inst[v].ty = u.inst[v].ty
                              /\ w.inst[v].imms = u.inst[v].imms
  /\ \A a, b : Earlier(u.order, a, b) => Earlier(w.order, a, b)
Extends(u, w) == Grows(u, w) /\ WellFormed(w)

\* The new value of f is instruction i, right before `at`; nothing else changed.
Inserted(u, at, i, f) ==
  /\ Extends(u, f.u) /\ f.r \in DOMAIN f.u.inst /\ f.r \notin DOMAIN u.inst /\ f.r \in Range(f.u.order)
  /\ f.r \in Nat \ {0}
  /\ f.u.inst[f.r] = i /\ Earlier(f.u.order, f.r, at)
  /\ \A v \in DOMAIN u.inst : f.u.inst[v] = u.inst[v]

LEMMA ExtendsTransitive ==
  ASSUME NEW u, NEW v, NEW w, Grows(u, v), Extends(v, w)
  PROVE  Extends(u, w)
BY DEF Extends, Grows

LEMMA BeforeKept ==
  ASSUME NEW u, NEW w, Grows(u, w), NEW a, NEW v, Before(u, a, v)
  PROVE  Before(w, a, v)
BY DEF Grows, Before

LEMMA TypesKept ==
  ASSUME NEW u, NEW w, Grows(u, w), NEW args \in Seq(DOMAIN u.inst)
  PROVE  ArgTys(w, args) = ArgTys(u, args) /\ args \in Seq(DOMAIN w.inst)
<1>1. DOMAIN u.inst \subseteq DOMAIN w.inst
      /\ \A v \in DOMAIN u.inst : w.inst[v].ty = u.inst[v].ty
  BY DEF Grows
<1>2. \A k \in DOMAIN args : args[k] \in DOMAIN u.inst
  OBVIOUS
<1>3. ArgTys(w, args) = ArgTys(u, args)
  BY <1>1, <1>2 DEF ArgTys
<1>4. Seq(DOMAIN u.inst) \subseteq Seq(DOMAIN w.inst)
  BY <1>1
<1> QED BY <1>3, <1>4

LEMMA FitsKept ==
  ASSUME NEW u, NEW w, Grows(u, w), NEW v, NEW x, NEW i, Fits(u, v, i),
         \A a : Before(u, a, v) => Before(w, a, x)
  PROVE  Fits(w, x, i)
<1>1. i.args \in Seq(DOMAIN u.inst)
  BY DEF Fits
<1>2. ArgTys(w, i.args) = ArgTys(u, i.args) /\ i.args \in Seq(DOMAIN w.inst)
  BY ONLY <1>1, Grows(u, w), TypesKept
<1> QED BY <1>2 DEF Fits

LEMMA InsertWell ==
  ASSUME NEW u, WellFormed(u), NEW at \in Range(u.order), NEW i, Fits(u, at, i)
  PROVE  Inserted(u, at, i, Insert(u, at, i))
<1> DEFINE n == Len(u.inst) + 1
           p == CHOOSE j \in DOMAIN u.order : u.order[j] = at
           w == Insert(u, at, i).u
<1>1. Insert(u, at, i).r = n /\ w = [inst |-> Append(u.inst, i), order |-> InsertAt(u.order, p, n)]
  BY DEF Insert
<1>2. w.inst = Append(u.inst, i) /\ w.order = InsertAt(u.order, p, n)
  BY <1>1
<1>3. /\ u.inst \in Seq(Range(u.inst)) /\ u.order \in Seq(DOMAIN u.inst) /\ IsInjective(u.order)
      /\ \A v \in DOMAIN u.inst : WellInst(u, v)
  BY DEF WellFormed
<1>4. DOMAIN u.inst = 1..Len(u.inst) /\ Len(u.inst) \in Nat
  BY <1>3
<1>5. n \notin DOMAIN u.inst /\ n \in Nat \ {0}
  BY <1>4
<1>6. Range(u.order) \subseteq DOMAIN u.inst
  BY <1>3 DEF Range
<1>7. /\ Append(u.inst, i) \in Seq(Range(u.inst) \cup {i})
      /\ DOMAIN Append(u.inst, i) = DOMAIN u.inst \cup {n}
      /\ \A v \in DOMAIN u.inst : Append(u.inst, i)[v] = u.inst[v]
      /\ Append(u.inst, i)[n] = i
  <2>1. u.inst \in Seq(Range(u.inst) \cup {i})
    BY <1>3
  <2> DEFINE s == u.inst
             R == Range(u.inst) \cup {i}
  <2> HIDE DEF s, R
  <2>2. ASSUME s \in Seq(R), i \in R
        PROVE  /\ Append(s, i) \in Seq(R) /\ DOMAIN Append(s, i) = 1..(Len(s) + 1)
               /\ \A v \in 1..Len(s) : Append(s, i)[v] = s[v]
               /\ Append(s, i)[Len(s) + 1] = i
    BY ONLY <2>2
  <2>3. i \in R
    BY DEF R
  <2> QED BY ONLY <1>4, <2>1, <2>2, <2>3 DEF s, R
<1>8. InsertAt(u.order, p, n) \in Seq(DOMAIN u.inst \cup {n})
      /\ Placed(u.order, InsertAt(u.order, p, n), at, n)
  <2>1. n \notin Range(u.order)
    BY <1>5, <1>6
  <2> HIDE DEF n
  <2> QED BY ONLY <1>3, <2>1, at \in Range(u.order), InsertPlaces
<1> HIDE DEF n, p, w
<1>9. /\ DOMAIN w.inst = DOMAIN u.inst \cup {n} /\ w.inst[n] = i
      /\ \A v \in DOMAIN u.inst : w.inst[v] = u.inst[v]
      /\ w.order \in Seq(DOMAIN w.inst) /\ Placed(u.order, w.order, at, n)
  BY ONLY <1>2, <1>7, <1>8
<1>10. Range(w.inst) = Range(u.inst) \cup {i}
  BY ONLY <1>5, <1>9 DEF Range
<1>11. w.inst \in Seq(Range(w.inst))
  BY ONLY <1>2, <1>7, <1>10
<1>12. Grows(u, w)
  BY ONLY <1>9 DEF Grows, Placed
<1>13. \A v \in DOMAIN w.inst : WellInst(w, v)
  <2>1. ASSUME NEW v \in DOMAIN u.inst PROVE WellInst(w, v)
    <3>1. v \in Range(w.order) <=> v \in Range(u.order)
      BY ONLY <1>5, <1>9, <2>1 DEF Placed
    <3>2. CASE v \in Range(u.order)
      <4>1. Fits(u, v, u.inst[v])
        BY <1>3, <3>2 DEF WellInst
      <4>2. \A a : Before(u, a, v) => Before(w, a, v)
        BY ONLY <1>12, BeforeKept
      <4>3. Fits(w, v, u.inst[v])
        BY ONLY <1>12, <4>1, <4>2, FitsKept
      <4> QED BY <1>9, <3>1, <3>2, <4>3 DEF WellInst
    <3>3. CASE v \notin Range(u.order)
      BY <1>3, <1>9, <3>1, <3>3 DEF WellInst
    <3> QED BY <3>2, <3>3
  <2>2. WellInst(w, n)
    <3>1. \A a : Before(u, a, at) => Before(w, a, n)
      BY ONLY <1>9 DEF Before, Placed
    <3>2. Fits(w, n, i)
      BY ONLY <1>12, <3>1, Fits(u, at, i), FitsKept
    <3> QED BY <1>9, <3>2 DEF WellInst, Placed
  <2> QED BY ONLY <1>9, <2>1, <2>2
<1>14. WellFormed(w)
  <2>1. w = [inst |-> w.inst, order |-> w.order]
    BY <1>1
  <2> QED BY ONLY <1>9, <1>11, <1>13, <2>1 DEF WellFormed, Placed
<1>15. n \in Range(w.order) /\ Earlier(w.order, n, at)
  BY ONLY <1>9 DEF Placed
<1> QED BY ONLY <1>1, <1>5, <1>9, <1>12, <1>14, <1>15 DEF Inserted, Extends, w

-----------------------------------------------------------------------------
(* What folding inserts.                                                   *)
LEMMA Counts ==
  /\ Arities("exts") = {1} /\ Arities("inss") = {2} /\ Arities("extf") = {1} /\ Arities("mux") = {2}
  /\ Arities("array_uniform") = {1} /\ Arities("array") = Nat \ {0} /\ Arities("struct") = Nat
  /\ \A op \in UnaryOps : Arities(op) = {1}
  /\ \A op \in BinaryOps \cup CompareOps : Arities(op) = {2}
  /\ \A op \in ShiftOps : Arities(op) = {3}
  /\ NumImms("exts") = 2 /\ NumImms("inss") = 2 /\ NumImms("extf") = 1
  /\ NumImms("array_uniform") = 1 /\ \A op \in UnaryOps : NumImms(op) = 0
<1>1. \A op \in ShiftOps : Arities(op) = {3}
  BY Opcodes DEF Arities, OpSets
<1>2. \A op \in BinaryOps \cup CompareOps : Arities(op) = {2}
  BY Opcodes DEF Arities, OpSets
<1>3. \A op \in UnaryOps : Arities(op) = {1} /\ NumImms(op) = 0
  BY Opcodes DEF Arities, NumImms, OpSets
<1>4. Arities("inss") = {2} /\ Arities("mux") = {2}
  BY Opcodes DEF Arities, OpSets
<1>5. Arities("exts") = {1} /\ Arities("extf") = {1} /\ Arities("array_uniform") = {1}
  BY Opcodes DEF Arities, OpSets
<1>6. Arities("array") = Nat \ {0} /\ Arities("struct") = Nat
  BY Opcodes DEF Arities, OpSets
<1>7. NumImms("exts") = 2 /\ NumImms("inss") = 2 /\ NumImms("extf") = 1 /\ NumImms("array_uniform") = 1
  BY DEF NumImms
<1> QED BY <1>1, <1>2, <1>3, <1>4, <1>5, <1>6, <1>7

LEMMA ValueFacts ==
  ASSUME NEW u, WellFormed(u), NEW v \in DOMAIN u.inst
  PROVE  /\ v \in Nat \ {0} /\ IsTy(u.inst[v].ty)
         /\ v \in Range(u.order) <=> u.inst[v].op # "arg"
         /\ v \in Range(u.order) => Fits(u, v, u.inst[v])
         /\ IsConst(u, v) => Imm(u, v) \in Bits /\ u.inst[v].ty = IntTy(Len(Imm(u, v)))
<1>1. v \in Nat \ {0}
  <2>1. DOMAIN u.inst = 1..Len(u.inst)
    BY DEF WellFormed
  <2> QED BY <2>1
<1>2. WellInst(u, v)
  BY DEF WellFormed
<1>3. CASE v \in Range(u.order)
  BY <1>1, <1>2, <1>3 DEF WellInst, Fits, Sound, IsConst, Imm
<1>4. CASE v \notin Range(u.order)
  BY <1>1, <1>2, <1>4 DEF WellInst, Inst, IsConst
<1> QED BY <1>3, <1>4

LEMMA LaidOut ==
  ASSUME NEW u, WellFormed(u), NEW v \in Range(u.order)
  PROVE  v \in DOMAIN u.inst /\ Fits(u, v, u.inst[v])
<1>1. v \in DOMAIN u.inst
  BY DEF WellFormed, Range
<1> QED BY <1>1, ValueFacts

\* The new value of f has type T and is right before `at`, or with what it is
\* made of; u is in the unit of f.
NewValue(u, at, T, f) ==
  /\ Extends(u, f.u) /\ f.r \in Range(f.u.order) /\ f.r \in DOMAIN f.u.inst /\ f.r \in Nat \ {0}
  /\ f.u.inst[f.r].ty = T /\ Earlier(f.u.order, f.r, at)

\* The replacement that f is for v, if it is one, has the type of v and is there
\* before v.
Found(u, v, f) ==
  /\ Extends(u, f.u)
  /\ f.r # 0 => /\ f.r \in DOMAIN f.u.inst /\ f.u.inst[f.r].ty = u.inst[v].ty
                /\ Before(f.u, f.r, v)

UpTo(u, at, v) == at = v \/ Earlier(u.order, at, v)

LEMMA NewInserted ==
  ASSUME NEW u, NEW at, NEW i, NEW f, Inserted(u, at, i, f)
  PROVE  NewValue(u, at, i.ty, f)
BY DEF Inserted, NewValue

LEMMA FoundNew ==
  ASSUME NEW u, NEW at, NEW v, UpTo(u, at, v), NEW f, NewValue(u, at, u.inst[v].ty, f)
  PROVE  Found(u, v, f)
<1>1. Earlier(f.u.order, f.r, v)
  <2>1. CASE at = v
    BY <2>1 DEF NewValue
  <2>2. CASE Earlier(u.order, at, v)
    <3>1. Earlier(f.u.order, at, v) /\ Earlier(f.u.order, f.r, at)
      BY <2>2 DEF NewValue, Extends, Grows
    <3>2. f.u.order \in Seq(DOMAIN f.u.inst) /\ IsInjective(f.u.order)
      BY DEF NewValue, Extends, WellFormed
    <3> QED BY ONLY <3>1, <3>2, EarlierTransitive
  <2> QED BY <2>1, <2>2 DEF UpTo
<1> QED BY <1>1 DEF Found, NewValue, Before

LEMMA GrowsReflexive == ASSUME NEW u PROVE Grows(u, u)
BY DEF Grows

LEMMA FoundOld ==
  ASSUME NEW u, WellFormed(u), NEW v
  PROVE  /\ Found(u, v, Nothing(u))
         /\ \A x : Before(u, x, v) /\ u.inst[x].ty = u.inst[v].ty => Found(u, v, Existing(u, x))
BY GrowsReflexive DEF Found, Extends, Nothing, Existing, Before

LEMMA ConstFits ==
  ASSUME NEW u, NEW at, NEW b \in Bits
  PROVE  Fits(u, at, ConstInst(b))
<1>1. ConstInst(b) = Inst("const", <<>>, b, IntTy(Len(b)))
  BY DEF ConstInst
<1> DEFINE T == IntTy(Len(b))
<1>2. IsTy(T)
  <2>1. Len(b) \in Nat
    BY DEF Bits
  <2> QED BY <2>1, Makers
<1>3. Verified("const", ArgTys(u, <<>>), b, T)
  BY Checks
<1>4. Sliceable("const", T)
  BY Opcodes DEF Sliceable, OpSets
<1> HIDE DEF T
<1>5. Sound("const", ArgTys(u, <<>>), b, T) <=> T = IntTy(Len(b))
  BY <1>3, <1>4 DEF Sound
<1> QED BY <1>1, <1>2, <1>5 DEF Fits, Inst, T

LEMMA InsertedConst ==
  ASSUME NEW u, WellFormed(u), NEW at \in Range(u.order), NEW b \in Bits
  PROVE  Inserted(u, at, ConstInst(b), InsertConst(u, at, b)) /\ ConstInst(b).ty = IntTy(Len(b))
<1>1. Inserted(u, at, ConstInst(b), Insert(u, at, ConstInst(b)))
  BY ConstFits, InsertWell
<1> QED BY <1>1 DEF InsertConst, ConstInst, Inst

LEMMA FoundConst ==
  ASSUME NEW u, WellFormed(u), NEW at \in Range(u.order), NEW v, UpTo(u, at, v),
         NEW b \in Bits, u.inst[v].ty = IntTy(Len(b))
  PROVE  Found(u, v, InsertConst(u, at, b))
<1>1. NewValue(u, at, IntTy(Len(b)), InsertConst(u, at, b))
  BY InsertedConst, NewInserted
<1> QED BY <1>1, FoundNew

\* InsertOp inserts what is sound.
LEMMA InsertedOp ==
  ASSUME NEW u, WellFormed(u), NEW at \in Range(u.order), NEW op, NEW args, NEW imms, NEW T,
         T = InstTy(op, ArgTys(u, args), imms), Fits(u, at, Inst(op, args, imms, T))
  PROVE  Inserted(u, at, Inst(op, args, imms, T), InsertOp(u, at, op, args, imms))
BY InsertWell DEF InsertOp

LEMMA Single ==
  ASSUME NEW S, NEW a \in S
  PROVE  <<a>> \in Seq(S) /\ DOMAIN <<a>> = {1} /\ Len(<<a>>) = 1 /\ <<a>>[1] = a
OBVIOUS

LEMMA Couple ==
  ASSUME NEW S, NEW a \in S, NEW b \in S
  PROVE  <<a, b>> \in Seq(S) /\ DOMAIN <<a, b>> = {1, 2} /\ Len(<<a, b>>) = 2
OBVIOUS

LEMMA FitsWithOne ==
  ASSUME NEW u, NEW at, NEW a, Before(u, a, at), NEW op, NEW imms, NEW T, IsTy(T),
         Sound(op, ArgTys(u, <<a>>), imms, T), op \notin {"arg", "const"}, Arities(op) = {1}
  PROVE  Fits(u, at, Inst(op, <<a>>, imms, T))
<1> DEFINE i == Inst(op, <<a>>, imms, T)
<1>1. i.op = op /\ i.args = <<a>> /\ i.imms = imms /\ i.ty = T
  BY DEF Inst
<1>2. <<a>> \in Seq(DOMAIN u.inst) /\ DOMAIN <<a>> = {1} /\ Len(<<a>>) = 1 /\ <<a>>[1] = a
  <2>1. a \in DOMAIN u.inst
    BY DEF Before
  <2> QED BY ONLY <2>1, Single
<1> HIDE DEF i
<1>3. i = Inst(i.op, i.args, i.imms, i.ty)
  BY <1>1 DEF i
<1> QED BY <1>1, <1>2, <1>3 DEF Fits, i

LEMMA FitsWithTwo ==
  ASSUME NEW u, NEW at, NEW a, Before(u, a, at), NEW b, Before(u, b, at), NEW op, NEW imms, NEW T,
         IsTy(T), Sound(op, ArgTys(u, <<a, b>>), imms, T), op \notin {"arg", "const"}, Arities(op) = {2}
  PROVE  Fits(u, at, Inst(op, <<a, b>>, imms, T))
<1> DEFINE i == Inst(op, <<a, b>>, imms, T)
<1>1. i.op = op /\ i.args = <<a, b>> /\ i.imms = imms /\ i.ty = T
  BY DEF Inst
<1>2. /\ <<a, b>> \in Seq(DOMAIN u.inst) /\ DOMAIN <<a, b>> = {1, 2} /\ Len(<<a, b>>) = 2
  <2>1. a \in DOMAIN u.inst /\ b \in DOMAIN u.inst
    BY DEF Before
  <2> QED BY ONLY <2>1, Couple
<1> HIDE DEF i
<1>3. i = Inst(i.op, i.args, i.imms, i.ty)
  BY <1>1 DEF i
<1>4. \A k \in {1, 2} : Before(u, <<a, b>>[k], at)
  OBVIOUS
<1> QED BY <1>1, <1>2, <1>3, <1>4 DEF Fits, i

\* Integers and arrays of integers.
Simple(T) == IsTy(T) /\ (IsInt(T) \/ (IsArray(T) /\ IsInt(T.of)))

LEMMA SimpleFacts ==
  ASSUME NEW T, Simple(T)
  PROVE  /\ ~IsSignal(T) /\ ~IsPointer(T) /\ Inner(T) = T /\ \A U : Rewrap(T, U) = U
         /\ TyLen(T) \in Nat /\ TyLen(T) = T.w /\ (IsInt(T) \/ IsArray(T))
         /\ \A n \in Nat : Simple(SliceTy(T, n)) /\ TyLen(SliceTy(T, n)) = n
         /\ SliceTy(T, TyLen(T)) = T
<1>1. CASE IsInt(T)
  <2>1. TyLen(T) \in Nat /\ T = IntTy(TyLen(T))
    BY <1>1, Shapes DEF Simple
  <2>2. \A n \in Nat : SliceTy(T, n) = IntTy(n) /\ IsTy(SliceTy(T, n))
    BY <1>1, Slices DEF Simple
  <2>3. ~IsSignal(T) /\ ~IsPointer(T) /\ TyLen(T) = T.w
    BY <1>1 DEF IsInt, IsSignal, IsPointer, TyLen, IsArray, IsStruct
  <2>4. \A n \in Nat : IsInt(SliceTy(T, n)) /\ TyLen(SliceTy(T, n)) = n
    BY <2>2 DEF IntTy, IsInt, TyLen, IsArray, IsStruct
  <2> QED BY <1>1, <2>1, <2>2, <2>3, <2>4 DEF Simple, Inner, Rewrap
<1>2. CASE IsArray(T) /\ IsInt(T.of)
  <2>1. TyLen(T) \in Nat /\ T = ArrayTy(TyLen(T), T.of)
    BY <1>2, Shapes DEF Simple
  <2>2. \A n \in Nat : SliceTy(T, n) = ArrayTy(n, T.of) /\ IsTy(SliceTy(T, n))
    BY <1>2, Slices DEF Simple
  <2>3. ~IsSignal(T) /\ ~IsPointer(T) /\ TyLen(T) = T.w
    BY <1>2 DEF IsInt, IsSignal, IsPointer, TyLen, IsArray, IsStruct
  <2>4. \A n \in Nat : /\ IsArray(SliceTy(T, n)) /\ SliceTy(T, n).of = T.of
                       /\ TyLen(SliceTy(T, n)) = n
    BY <2>2 DEF ArrayTy, IsInt, TyLen, IsArray, IsStruct
  <2> QED BY <1>2, <2>1, <2>2, <2>3, <2>4 DEF Simple, Inner, Rewrap
<1> QED BY <1>1, <1>2 DEF Simple

LEMMA SimpleKinds ==
  ASSUME NEW T, Simple(T)
  PROVE  /\ T.w \in Nat /\ (IsInt(T) => T = IntTy(T.w))
         /\ ~IsInt(T) => /\ IsArray(T) /\ T = ArrayTy(T.w, T.of)
                         /\ IsInt(T.of) /\ Simple(T.of)
<1>1. T.w = TyLen(T) /\ T.w \in Nat
  <2>1. TyLen(T) \in Nat /\ TyLen(T) = T.w
    BY ONLY Simple(T), SimpleFacts
  <2> QED BY ONLY <2>1
<1>2. IsTy(T) /\ (IsInt(T) \/ (IsArray(T) /\ IsInt(T.of)))
  BY DEF Simple
<1>3. /\ IsInt(T) => T = IntTy(TyLen(T))
      /\ IsArray(T) => T = ArrayTy(TyLen(T), T.of) /\ IsTy(T.of)
  BY ONLY <1>2, Shapes
<1> QED BY ONLY <1>1, <1>2, <1>3 DEF Simple

LEMMA InsertedSlice ==
  ASSUME NEW u, WellFormed(u), NEW at \in Range(u.order), NEW a, Before(u, a, at),
         NEW T, T = u.inst[a].ty, Simple(T), NEW off \in Nat, NEW n \in Nat, off + n <= TyLen(T)
  PROVE  NewValue(u, at, SliceTy(T, n), InsertOp(u, at, "exts", <<a>>, <<off, n>>))
<1> DEFINE t == ArgTys(u, <<a>>)
           i == Inst("exts", <<a>>, <<off, n>>, SliceTy(T, n))
<1>1. t[1] = T /\ <<off, n>>[1] = off /\ <<off, n>>[2] = n
  BY DEF ArgTys
<1>2. Rewrap(t[1], SliceTy(Inner(t[1]), <<off, n>>[2])) = SliceTy(T, n)
      /\ SliceAccess(Inner(t[1]), <<off, n>>[1], <<off, n>>[2])
  BY <1>1, SimpleFacts DEF SliceAccess
<1>3. Simple(SliceTy(T, n))
  BY SimpleFacts
<1>4. Sliceable("exts", SliceTy(T, n))
  BY <1>3 DEF Sliceable, Simple, IsInt, IsArray
<1> HIDE DEF t
<1>5. SliceTy(T, n) = InstTy("exts", t, <<off, n>>)
  BY ONLY <1>2, Results
<1>6. Verified("exts", t, <<off, n>>, SliceTy(T, n))
  BY ONLY <1>2, Checks
<1>7. Sound("exts", t, <<off, n>>, SliceTy(T, n))
  BY <1>4, <1>5, <1>6, Counts DEF Sound
<1>8. Fits(u, at, i)
  BY <1>3, <1>7, FitsWithOne, Counts DEF t, Simple
<1>9. Inserted(u, at, i, InsertOp(u, at, "exts", <<a>>, <<off, n>>))
  BY <1>5, <1>8, InsertedOp DEF t
<1>10. i.ty = SliceTy(T, n)
  BY DEF Inst
<1> QED BY <1>9, <1>10, NewInserted

LEMMA InsertedInsert ==
  ASSUME NEW u, WellFormed(u), NEW at \in Range(u.order), NEW a, Before(u, a, at),
         NEW T, T = u.inst[a].ty, Simple(T), NEW off \in Nat, NEW n \in Nat, off + n <= TyLen(T),
         NEW b, Before(u, b, at), u.inst[b].ty = SliceTy(T, n)
  PROVE  Inserted(u, at, Inst("inss", <<a, b>>, <<off, n>>, T),
                  InsertOp(u, at, "inss", <<a, b>>, <<off, n>>))
<1> DEFINE t == ArgTys(u, <<a, b>>)
           i == Inst("inss", <<a, b>>, <<off, n>>, T)
<1>1. t[1] = T /\ t[2] = SliceTy(T, n) /\ <<off, n>>[1] = off /\ <<off, n>>[2] = n
  BY DEF ArgTys
<1>2. SliceAccess(T, <<off, n>>[1], <<off, n>>[2])
  BY <1>1, SimpleFacts DEF SliceAccess
<1>4. Sliceable("inss", T)
  BY Opcodes DEF Sliceable, OpSets
<1> HIDE DEF t
<1>5. T = InstTy("inss", t, <<off, n>>)
  BY <1>1, Results
<1>6. Verified("inss", t, <<off, n>>, T)
  BY ONLY <1>1, <1>2, Checks
<1>7. Sound("inss", t, <<off, n>>, T)
  BY <1>4, <1>5, <1>6, Counts DEF Sound
<1>8. Fits(u, at, i)
  BY <1>7, FitsWithTwo, Counts DEF t, Simple
<1> QED BY <1>5, <1>8, InsertedOp DEF t

LEMMA InsertedZero ==
  ASSUME NEW u, WellFormed(u), NEW at \in Range(u.order), NEW T, Simple(T)
  PROVE  NewValue(u, at, T, InsertZero(u, at, T))
<1>1. CASE IsInt(T)
  <2> DEFINE b == FromInt(T.w, 0)
  <2>1. T.w \in Nat /\ T = IntTy(T.w)
    BY ONLY <1>1, Simple(T), SimpleKinds
  <2>2. b \in Bits /\ Len(b) = T.w
    BY <2>1, FromIntBits
  <2> HIDE DEF b
  <2>3. NewValue(u, at, T, InsertConst(u, at, b))
    BY <2>1, <2>2, InsertedConst, NewInserted
  <2> QED BY <1>1, <2>3 DEF InsertZero, b
<1>2. CASE ~IsInt(T)
  <2> DEFINE b == FromInt(T.of.w, 0)
             e == InsertConst(u, at, b)
             t == ArgTys(e.u, <<e.r>>)
             i == Inst("array_uniform", <<e.r>>, <<T.w>>, T)
  <2>1. IsArray(T) /\ T.w \in Nat /\ T = ArrayTy(T.w, T.of) /\ Simple(T.of) /\ IsInt(T.of)
    BY ONLY <1>2, Simple(T), SimpleKinds
  <2>2. T.of.w \in Nat /\ T.of = IntTy(T.of.w)
    BY ONLY <2>1, SimpleKinds
  <2>3. b \in Bits /\ Len(b) = T.of.w
    BY <2>2, FromIntBits
  <2> HIDE DEF b
  <2>4. NewValue(u, at, T.of, e)
    BY <2>2, <2>3, InsertedConst, NewInserted
  <2> HIDE DEF e
  <2>5. WellFormed(e.u) /\ at \in Range(e.u.order) /\ Before(e.u, e.r, at) /\ Grows(u, e.u)
    BY <2>4 DEF NewValue, Extends, Grows, Before
  <2>15. e.u.inst[e.r].ty = T.of
    BY <2>4 DEF NewValue
  <2>6. t[1] = T.of
    BY <2>15 DEF ArgTys
  <2> HIDE DEF t
  <2>7. T = InstTy("array_uniform", t, <<T.w>>)
    BY <2>1, <2>6, Results
  <2>8. Verified("array_uniform", t, <<T.w>>, T)
    BY Checks
  <2>9. Sliceable("array_uniform", T)
    BY Opcodes DEF Sliceable, OpSets
  <2>10. Sound("array_uniform", t, <<T.w>>, T)
    BY <2>1, <2>7, <2>8, <2>9, Counts DEF Sound
  <2>11. Fits(e.u, at, i)
    BY <2>5, <2>10, FitsWithOne, Counts DEF t, Simple
  <2>12. Inserted(e.u, at, i, InsertOp(e.u, at, "array_uniform", <<e.r>>, <<T.w>>))
    BY <2>5, <2>7, <2>11, InsertedOp DEF t
  <2>13. i.ty = T
    BY DEF Inst
  <2>14. InsertZero(u, at, T) = InsertOp(e.u, at, "array_uniform", <<e.r>>, <<T.w>>)
    BY <1>2 DEF InsertZero, e, b
  <2>16. NewValue(e.u, at, T, InsertZero(u, at, T))
    BY <2>12, <2>13, <2>14, NewInserted
  <2> QED BY <2>5, <2>16, ExtendsTransitive DEF NewValue
<1> QED BY <1>1, <1>2

-----------------------------------------------------------------------------
(* What each fold finds.                                                   *)
Given(u, v, n) ==
  /\ \A k \in 1..n : /\ u.inst[v].args[k] \in DOMAIN u.inst
                     /\ Before(u, u.inst[v].args[k], v)
                     /\ ArgTys(u, u.inst[v].args)[k] = u.inst[u.inst[v].args[k]].ty
  /\ DOMAIN ArgTys(u, u.inst[v].args) = 1..n

LEMMA Operands ==
  ASSUME NEW u, WellFormed(u), NEW v \in Range(u.order), NEW n \in Nat,
         u.inst[v].op # "const", Arities(u.inst[v].op) = {n}
  PROVE  Given(u, v, n)
<1> DEFINE i == u.inst[v]
<1>1. Fits(u, v, i)
  BY LaidOut
<1> HIDE DEF i
<1>2. i.args \in Seq(DOMAIN u.inst) /\ Len(i.args) = n
  BY <1>1 DEF Fits, i
<1>3. DOMAIN i.args = 1..n /\ \A k \in 1..n : i.args[k] \in DOMAIN u.inst
  BY <1>2
<1>4. \A k \in 1..n : Before(u, i.args[k], v)
  BY <1>1, <1>3 DEF Fits
<1>5. DOMAIN ArgTys(u, i.args) = 1..n
      /\ \A k \in 1..n : ArgTys(u, i.args)[k] = u.inst[i.args[k]].ty
  BY <1>3 DEF ArgTys
<1> QED BY <1>3, <1>4, <1>5 DEF Given, i

\* What is sound of the instruction at v.
LEMMA SoundAt ==
  ASSUME NEW u, WellFormed(u), NEW v \in Range(u.order)
  PROVE  LET i == u.inst[v]
             t == ArgTys(u, i.args)
         IN /\ v \in DOMAIN u.inst /\ IsTy(i.ty) /\ i.op # "arg"
            /\ Verified(i.op, t, i.imms, i.ty) /\ Sliceable(i.op, i.ty)
            /\ i.op # "const" => /\ i.ty = InstTy(i.op, t, i.imms)
                                 /\ i.imms \in Seq(Nat) /\ Len(i.imms) = NumImms(i.op)
BY LaidOut DEF Fits, Sound

LEMMA Constants ==
  ASSUME NEW u, WellFormed(u), NEW a \in DOMAIN u.inst, NEW w, u.inst[a].ty = IntTy(w), IsConst(u, a)
  PROVE  Imm(u, a) \in Bits /\ Len(Imm(u, a)) = w
<1>1. Imm(u, a) \in Bits /\ u.inst[a].ty = IntTy(Len(Imm(u, a)))
  BY ValueFacts
<1>2. IntTy(w) = IntTy(Len(Imm(u, a)))
  BY <1>1
<1> QED BY ONLY <1>1, <1>2 DEF IntTy

LEMMA UpToItself == ASSUME NEW u, NEW v PROVE UpTo(u, v, v)
BY DEF UpTo

LEMMA BeforeTransitive ==
  ASSUME NEW u, WellFormed(u), NEW x, NEW a, NEW v, Before(u, x, a), Before(u, a, v),
         u.inst[a].op # "arg"
  PROVE  Before(u, x, v)
<1>1. Earlier(u.order, a, v) /\ x \in DOMAIN u.inst
  BY DEF Before
<1>2. CASE Earlier(u.order, x, a)
  <2>1. u.order \in Seq(DOMAIN u.inst) /\ IsInjective(u.order)
    BY DEF WellFormed
  <2>2. Earlier(u.order, x, v)
    BY ONLY <1>1, <1>2, <2>1, EarlierTransitive
  <2> QED BY <1>1, <2>2 DEF Before
<1>3. CASE ~Earlier(u.order, x, a)
  BY <1>3 DEF Before
<1> QED BY <1>2, <1>3

LEMMA FoundUnary ==
  ASSUME NEW u, WellFormed(u), NEW v \in Range(u.order)
  PROVE  Found(u, v, FoldUnary(u, v))
<1> DEFINE i == u.inst[v]
           a == i.args[1]
           b == UnaryOp(i.op, Imm(u, a))
<1>1. CASE i.op \in UnaryOps /\ IsInt(i.ty) /\ IsConst(u, a)
  <2>1. i.op # "const" /\ Arities(i.op) = {1}
    BY <1>1, Counts, Opcodes DEF OpSets
  <2>2. a \in DOMAIN u.inst /\ ArgTys(u, i.args)[1] = u.inst[a].ty /\ DOMAIN ArgTys(u, i.args) = 1..1
    <3>1. Given(u, v, 1)
      BY <2>1, Operands
    <3> QED BY <3>1 DEF Given
  <2>3. Verified(i.op, ArgTys(u, i.args), i.imms, i.ty) /\ IsTy(i.ty)
    BY SoundAt
  <2> HIDE DEF i
  <2>4. \A k \in DOMAIN ArgTys(u, i.args) : ArgTys(u, i.args)[k] = i.ty
    BY ONLY <1>1, <2>3, Checks
  <2>5. u.inst[a].ty = i.ty
    BY <2>2, <2>4
  <2>6. i.ty = IntTy(TyLen(i.ty))
    BY <1>1, <2>3, Shapes
  <2>7. Imm(u, a) \in Bits /\ Len(Imm(u, a)) = TyLen(i.ty)
    BY <1>1, <2>2, <2>5, <2>6, Constants
  <2>8. b \in Bits /\ Len(b) = TyLen(i.ty)
    <3>1. ArithBits(i.op, Imm(u, a), Imm(u, a))
      BY <2>7, ArithmeticBits
    <3> QED BY <1>1, <2>7, <3>1 DEF ArithBits
  <2> HIDE DEF b
  <2>9. Found(u, v, InsertConst(u, v, b))
    BY <2>6, <2>8, FoundConst, UpToItself DEF i
  <2> QED BY <1>1, <2>9 DEF FoldUnary, b, i
<1>2. CASE ~(i.op \in UnaryOps /\ IsInt(i.ty) /\ IsConst(u, a))
  <2>1. FoldUnary(u, v) = Nothing(u)
    BY <1>2 DEF FoldUnary
  <2> QED BY <2>1, FoundOld
<1> QED BY <1>1, <1>2

LEMMA FoundSymmetric ==
  ASSUME NEW u, WellFormed(u), NEW v \in Range(u.order), NEW op, NEW c \in Bits, NEW x,
         Before(u, x, v), u.inst[v].ty = IntTy(Len(c)), u.inst[x].ty = IntTy(Len(c))
  PROVE  Found(u, v, Symmetric(u, v, op, c, x)) /\ Found(u, v, Asymmetric(u, v, op, c, x))
<1> DEFINE w == Len(c)
<1>1. w \in Nat
  BY DEF Bits
<1>2. Found(u, v, Existing(u, x)) /\ Found(u, v, Nothing(u))
  BY FoundOld
<1>3. Found(u, v, InsertConst(u, v, FromInt(w, 0)))
  <2> DEFINE b == FromInt(w, 0)
  <2>1. b \in Bits /\ Len(b) = w
    BY <1>1, FromIntBits
  <2> HIDE DEF b
  <2>2. Found(u, v, InsertConst(u, v, b))
    BY <2>1, FoundConst, UpToItself
  <2> QED BY <2>2 DEF b
<1>4. Found(u, v, InsertConst(u, v, AllOnes(w)))
  <2> DEFINE b == AllOnes(w)
  <2>1. b \in Bits /\ Len(b) = w
    <3>1. ArithBits("not", c, c)
      BY ArithmeticBits
    <3> QED BY <3>1 DEF ArithBits
  <2> HIDE DEF b
  <2>2. Found(u, v, InsertConst(u, v, b))
    BY <2>1, FoundConst, UpToItself
  <2> QED BY <2>2 DEF b
<1>5. Found(u, v, InsertOp(u, v, "not", <<x>>, <<>>))
  <2> DEFINE t == ArgTys(u, <<x>>)
             T == IntTy(w)
             i == Inst("not", <<x>>, <<>>, T)
  <2>1. t[1] = T /\ DOMAIN t = {1}
    BY DEF ArgTys
  <2>2. IsTy(T) /\ Arithmetic(T)
    BY <1>1, Makers DEF Arithmetic, IsInt, IntTy
  <2>3. "not" \in UnaryOps
    BY DEF UnaryOps
  <2> HIDE DEF t, T
  <2>4. T = InstTy("not", t, <<>>)
    BY <2>1, <2>3, Results
  <2>5. Verified("not", t, <<>>, T)
    <3>1. \A k \in DOMAIN t : t[k] = T
      BY <2>1
    <3> QED BY ONLY <2>2, <2>3, <3>1, Checks
  <2>6. Sliceable("not", T)
    BY <2>3, Opcodes DEF Sliceable, OpSets
  <2>7. Sound("not", t, <<>>, T)
    BY <2>3, <2>4, <2>5, <2>6, Counts DEF Sound
  <2>8. Fits(u, v, i)
    BY <2>2, <2>3, <2>7, FitsWithOne, Counts DEF t
  <2>9. Inserted(u, v, i, InsertOp(u, v, "not", <<x>>, <<>>))
    BY <2>4, <2>8, InsertedOp DEF t
  <2>10. i.ty = u.inst[v].ty
    BY DEF Inst, T
  <2>11. NewValue(u, v, u.inst[v].ty, InsertOp(u, v, "not", <<x>>, <<>>))
    BY <2>9, <2>10, NewInserted
  <2> QED BY ONLY <2>11, FoundNew, UpToItself
<1> DEFINE s == Symmetric(u, v, op, c, x)
           r == Asymmetric(u, v, op, c, x)
<1>6. s \in {InsertConst(u, v, FromInt(w, 0)), Existing(u, x), InsertConst(u, v, AllOnes(w)),
             InsertOp(u, v, "not", <<x>>, <<>>), Nothing(u)}
  BY DEF Symmetric
<1>7. r \in {Existing(u, x), InsertConst(u, v, FromInt(w, 0)), Nothing(u)}
  BY DEF Asymmetric
<1> HIDE DEF s, r
<1> QED BY <1>2, <1>3, <1>4, <1>5, <1>6, <1>7 DEF s, r

LEMMA FoundBinary ==
  ASSUME NEW u, WellFormed(u), NEW v \in Range(u.order),
         u.inst[v].op \in BinaryOps \cup CompareOps
  PROVE  Found(u, v, FoldBinary(u, v))
<1> DEFINE i == u.inst[v]
           a == i.args[1]
           b == i.args[2]
           t == ArgTys(u, i.args)
           known == IF IsConst(u, a) THEN Imm(u, a) ELSE Imm(u, b)
           other == IF IsConst(u, a) THEN b ELSE a
           sym == Symmetric(u, v, i.op, known, other)
           both == IF i.op \in CompareOps THEN CompareOp(i.op, Imm(u, a), Imm(u, b))
                   ELSE BinaryOp(i.op, Imm(u, a), Imm(u, b))
<1>1. i.op # "const" /\ Arities(i.op) = {2}
  BY Counts, Opcodes DEF OpSets
<1>2. /\ a \in DOMAIN u.inst /\ t[1] = u.inst[a].ty /\ Before(u, a, v)
      /\ b \in DOMAIN u.inst /\ t[2] = u.inst[b].ty /\ Before(u, b, v)
      /\ DOMAIN t = 1..2
  <2>1. Given(u, v, 2)
    BY <1>1, Operands
  <2>2. 1 \in 1..2 /\ 2 \in 1..2
    OBVIOUS
  <2> QED BY ONLY <2>1, <2>2 DEF Given
<1>3. Verified(i.op, t, i.imms, i.ty) /\ IsTy(i.ty)
  BY SoundAt
<1>4. FoldBinary(u, v) =
        IF ~IsInt(i.ty) THEN Nothing(u)
        ELSE IF IsConst(u, a) /\ IsConst(u, b) THEN InsertConst(u, v, both)
        ELSE IF ~(IsConst(u, a) \/ IsConst(u, b)) THEN Nothing(u)
        ELSE IF sym.r # 0 THEN sym
        ELSE IF IsConst(u, b) THEN Asymmetric(u, v, i.op, known, a) ELSE Nothing(u)
  BY DEF FoldBinary
<1>5. Found(u, v, Nothing(u))
  BY FoundOld
<1>6. i.ty = u.inst[v].ty /\ i.op \in BinaryOps \cup CompareOps
  OBVIOUS
<1> HIDE DEF i, a, b, t
<1>7. CASE ~IsInt(i.ty)
  BY <1>4, <1>5, <1>7
<1>8. CASE IsInt(i.ty) /\ i.op \in BinaryOps
  <2> DEFINE w == TyLen(i.ty)
  <2>1. u.inst[a].ty = i.ty /\ u.inst[b].ty = i.ty
    <3>1. \A k \in DOMAIN t : t[k] = i.ty
      BY ONLY <1>3, <1>8, Checks
    <3> QED BY <1>2, <3>1
  <2>2. i.ty = IntTy(w)
    BY <1>3, <1>8, Shapes
  <2> HIDE DEF w
  <2>3. /\ IsConst(u, a) => Imm(u, a) \in Bits /\ Len(Imm(u, a)) = w
        /\ IsConst(u, b) => Imm(u, b) \in Bits /\ Len(Imm(u, b)) = w
    BY <1>2, <2>1, <2>2, Constants
  <2>4. CASE IsConst(u, a) /\ IsConst(u, b)
    <3>1. both = BinaryOp(i.op, Imm(u, a), Imm(u, b))
      BY <1>8, Opcodes
    <3>2. both \in Bits /\ Len(both) = w
      <4>1. ArithBits(i.op, Imm(u, a), Imm(u, b))
        BY <2>3, <2>4, ArithmeticBits
      <4> QED BY <1>8, <2>3, <2>4, <3>1, <4>1 DEF ArithBits
    <3> HIDE DEF both
    <3>3. Found(u, v, InsertConst(u, v, both))
      BY <1>6, <2>2, <3>2, FoundConst, UpToItself
    <3> QED BY <1>4, <1>8, <2>4, <3>3
  <2>5. CASE (IsConst(u, a) /\ ~IsConst(u, b)) \/ (~IsConst(u, a) /\ IsConst(u, b))
    <3>1. known \in Bits /\ Len(known) = w /\ Before(u, other, v) /\ u.inst[other].ty = IntTy(w)
      BY <1>2, <2>1, <2>2, <2>3, <2>5
    <3>2. IsConst(u, b) => other = a
      BY <2>5
    <3> HIDE DEF known, other
    <3>3. Found(u, v, sym) /\ Found(u, v, Asymmetric(u, v, i.op, known, other))
      BY <1>6, <2>2, <3>1, FoundSymmetric
    <3> HIDE DEF sym
    <3> QED BY <1>4, <1>5, <1>8, <2>5, <3>2, <3>3
  <2>6. CASE ~IsConst(u, a) /\ ~IsConst(u, b)
    BY <1>4, <1>5, <1>8, <2>6
  <2> QED BY <2>4, <2>5, <2>6
<1>9. CASE IsInt(i.ty) /\ i.op \in CompareOps
  <2>1. u.inst[a].ty = u.inst[b].ty /\ i.ty = IntTy(1)
    BY <1>2, <1>3, <1>9, Checks DEF BoolTy
  <2>2. CASE IsConst(u, a) /\ IsConst(u, b)
    <3>1. Imm(u, a) \in Bits /\ u.inst[a].ty = IntTy(Len(Imm(u, a)))
      BY <1>2, <2>2, ValueFacts
    <3>2. Imm(u, b) \in Bits /\ Len(Imm(u, b)) = Len(Imm(u, a))
      BY <1>2, <2>1, <2>2, <3>1, Constants
    <3>3. both = CompareOp(i.op, Imm(u, a), Imm(u, b))
      BY <1>9
    <3>4. both \in Bits /\ Len(both) = 1
      <4>1. ArithBits(i.op, Imm(u, a), Imm(u, b))
        BY <3>1, <3>2, ArithmeticBits
      <4> QED BY <3>3, <4>1 DEF ArithBits
    <3> HIDE DEF both
    <3>5. Found(u, v, InsertConst(u, v, both))
      BY <1>6, <2>1, <3>4, FoundConst, UpToItself
    <3> QED BY <1>4, <1>9, <2>2, <3>5
  <2>3. CASE ~(IsConst(u, a) /\ IsConst(u, b))
    <3>1. \A c, x : Symmetric(u, v, i.op, c, x) = Nothing(u) /\ Asymmetric(u, v, i.op, c, x) = Nothing(u)
      <4>1. i.op \notin {"and", "or", "xor", "add", "sub", "smul", "umul",
                         "sdiv", "udiv", "smod", "umod", "srem", "urem"}
        BY <1>9 DEF CompareOps, SignedCompares
      <4> QED BY <4>1 DEF Symmetric, Asymmetric
    <3> QED BY <1>4, <1>5, <1>9, <2>3, <3>1
  <2> QED BY <2>2, <2>3
<1> QED BY <1>6, <1>7, <1>8, <1>9

LEMMA FoundInsSlice ==
  ASSUME NEW u, WellFormed(u), NEW at \in Range(u.order), NEW v \in Range(u.order), UpTo(u, at, v),
         u.inst[v].op = "inss"
  PROVE  Found(u, v, FoldInsSlice(u, at, v))
<1> DEFINE i == u.inst[v]
           a == i.args[1]
           b == i.args[2]
           t == ArgTys(u, i.args)
           x == InsertSlice(Imm(u, a), i.imms[1], i.imms[2], Imm(u, b))
<1>1. i.op = "inss" /\ i.op # "const" /\ Arities(i.op) = {2}
  BY Counts
<1>2. /\ a \in DOMAIN u.inst /\ t[1] = u.inst[a].ty /\ Before(u, a, v)
      /\ b \in DOMAIN u.inst /\ t[2] = u.inst[b].ty /\ Before(u, b, v)
  <2>1. Given(u, v, 2)
    BY <1>1, Operands
  <2>2. 1 \in 1..2 /\ 2 \in 1..2
    OBVIOUS
  <2> QED BY ONLY <2>1, <2>2 DEF Given
<1>3. /\ Verified(i.op, t, i.imms, i.ty) /\ IsTy(i.ty)
      /\ i.imms \in Seq(Nat) /\ Len(i.imms) = NumImms("inss")
  BY <1>1, SoundAt
<1>4. FoldInsSlice(u, at, v) =
        IF i.imms[2] = 0 THEN Existing(u, a)
        ELSE IF i.imms[2] = TyLen(u.inst[a].ty) THEN Existing(u, b)
        ELSE IF IsConst(u, a) /\ IsConst(u, b) THEN InsertConst(u, at, x) ELSE Nothing(u)
  BY DEF FoldInsSlice
<1>5. i.ty = u.inst[v].ty
  OBVIOUS
<1> HIDE DEF i, a, b, t
<1>6. i.imms[1] \in Nat /\ i.imms[2] \in Nat
  BY <1>3, Counts
<1>7. /\ u.inst[a].ty = i.ty /\ u.inst[b].ty = SliceTy(i.ty, i.imms[2])
      /\ IsArray(i.ty) \/ IsInt(i.ty)
  <2>1. t[1] = i.ty /\ SliceAccess(i.ty, i.imms[1], i.imms[2]) /\ t[2] = SliceTy(i.ty, i.imms[2])
    BY ONLY <1>1, <1>3, Checks
  <2> QED BY <1>2, <2>1 DEF SliceAccess
<1>8. SliceTy(i.ty, TyLen(i.ty)) = i.ty
  BY <1>3, <1>7, WholeSlice
<1>9. CASE i.imms[2] = 0
  BY <1>2, <1>4, <1>5, <1>7, <1>9, FoundOld
<1>10. CASE i.imms[2] # 0 /\ i.imms[2] = TyLen(u.inst[a].ty)
  BY <1>2, <1>4, <1>5, <1>7, <1>8, <1>10, FoundOld
<1>11. CASE i.imms[2] # 0 /\ i.imms[2] # TyLen(u.inst[a].ty) /\ IsConst(u, a) /\ IsConst(u, b)
  <2>1. Imm(u, a) \in Bits /\ i.ty = IntTy(Len(Imm(u, a)))
    BY <1>2, <1>7, <1>11, ValueFacts
  <2>2. SliceTy(i.ty, i.imms[2]) = IntTy(i.imms[2])
    BY <2>1, <1>6 DEF SliceTy, IntTy
  <2>3. Imm(u, b) \in Bits /\ Len(Imm(u, b)) = i.imms[2]
    BY <1>2, <1>7, <1>11, <2>2, Constants
  <2>4. x \in Bits /\ Len(x) = Len(Imm(u, a))
    <3> DEFINE p == Imm(u, a)
               q == Imm(u, b)
               o == i.imms[1]
               n == i.imms[2]
    <3>1. p \in Bits /\ q \in Bits /\ o \in Nat /\ n \in Nat /\ Len(q) = n
      BY ONLY <1>6, <2>1, <2>3
    <3> HIDE DEF p, q, o, n
    <3>2. Alike(p, InsertSlice(p, o, n, q))
      BY ONLY <3>1, InsertBits
    <3> QED BY ONLY <3>2 DEF p, q, o, n, Alike
  <2> HIDE DEF x
  <2>5. Found(u, v, InsertConst(u, at, x))
    BY <1>5, <2>1, <2>4, FoundConst
  <2> QED BY <1>4, <1>11, <2>5
<1>12. CASE i.imms[2] # 0 /\ i.imms[2] # TyLen(u.inst[a].ty) /\ ~(IsConst(u, a) /\ IsConst(u, b))
  BY <1>4, <1>12, FoundOld
<1> QED BY <1>9, <1>10, <1>11, <1>12

\* Where the folded instruction is x: v itself, or right before it.
LEMMA FoundExtSlice ==
  ASSUME NEW u, WellFormed(u), NEW at \in Range(u.order), NEW v \in Range(u.order),
         u.inst[v].op = "exts", NEW x, UpTo(u, at, x), UpTo(u, v, x), u.inst[x].ty = u.inst[v].ty
  PROVE  Found(u, x, FoldExtSlice(u, at, v))
<1> DEFINE i == u.inst[v]
           a == i.args[1]
           t == ArgTys(u, i.args)
           T == u.inst[a].ty
           y == ExtractSlice(Imm(u, a), i.imms[1], i.imms[2])
<1>1. i.op = "exts" /\ i.op # "const" /\ Arities(i.op) = {1}
  BY Counts
<1>2. a \in DOMAIN u.inst /\ t[1] = T /\ Before(u, a, x)
  <2>1. Given(u, v, 1)
    BY <1>1, Operands
  <2>2. a \in DOMAIN u.inst /\ t[1] = T /\ Before(u, a, v)
    BY <2>1 DEF Given
  <2>3. CASE v = x
    BY <2>2, <2>3
  <2>4. CASE Earlier(u.order, v, x)
    <3>1. Before(u, v, x) /\ i.op # "arg"
      BY <2>4, SoundAt DEF Before
    <3> QED BY <2>2, <3>1, BeforeTransitive
  <2> QED BY <2>3, <2>4 DEF UpTo
<1>3. /\ Verified(i.op, t, i.imms, i.ty) /\ Sliceable(i.op, i.ty) /\ IsTy(i.ty)
      /\ i.imms \in Seq(Nat) /\ Len(i.imms) = NumImms("exts")
  BY <1>1, SoundAt
<1>4. FoldExtSlice(u, at, v) =
        IF (IsInt(T) \/ IsArray(T)) /\ i.imms[2] = 0 THEN InsertZero(u, at, i.ty)
        ELSE IF (IsInt(T) \/ IsArray(T)) /\ i.imms[2] = TyLen(T) THEN Existing(u, a)
        ELSE IF IsConst(u, a) THEN InsertConst(u, at, y) ELSE Nothing(u)
  BY DEF FoldExtSlice
<1>5. i.ty = u.inst[x].ty
  OBVIOUS
<1>6. IsTy(T)
  BY <1>2, ValueFacts
<1>7. IsConst(u, a) => Imm(u, a) \in Bits /\ T = IntTy(Len(Imm(u, a)))
  BY <1>2, ValueFacts
<1> HIDE DEF i, a, t, T
<1>8. i.imms[1] \in Nat /\ i.imms[2] \in Nat
  BY <1>3, Counts
<1>9. i.ty = Rewrap(T, SliceTy(Inner(T), i.imms[2]))
  BY <1>1, <1>2, <1>3, Checks
<1>10. ASSUME IsInt(T) \/ IsArray(T)
       PROVE  /\ i.ty = SliceTy(T, i.imms[2])
              /\ IsInt(T) => i.ty = IntTy(i.imms[2])
              /\ IsArray(T) => i.ty = ArrayTy(i.imms[2], T.of)
              /\ SliceTy(T, TyLen(T)) = T
  <2>1. ~IsSignal(T) /\ ~IsPointer(T)
    BY <1>10 DEF IsInt, IsArray, IsSignal, IsPointer
  <2>2. i.ty = SliceTy(T, i.imms[2])
    BY <1>9, <2>1 DEF Inner, Rewrap
  <2>3. SliceTy(T, TyLen(T)) = T
    BY <1>6, <1>10, WholeSlice
  <2> QED BY <1>6, <1>8, <1>10, <2>2, <2>3, Slices
<1>11. CASE (IsInt(T) \/ IsArray(T)) /\ i.imms[2] = 0
  <2>1. Simple(i.ty)
    BY <1>1, <1>3, <1>10, <1>11 DEF Simple, Sliceable, IntTy, ArrayTy, IsInt, IsArray
  <2>2. NewValue(u, at, i.ty, InsertZero(u, at, i.ty))
    BY <2>1, InsertedZero
  <2>3. Found(u, x, InsertZero(u, at, i.ty))
    BY <1>5, <2>2, FoundNew
  <2> QED BY <1>4, <1>11, <2>3
<1>12. CASE (IsInt(T) \/ IsArray(T)) /\ i.imms[2] # 0 /\ i.imms[2] = TyLen(T)
  <2>1. i.ty = T
    BY <1>10, <1>12
  <2> QED BY <1>2, <1>4, <1>5, <1>12, <2>1, FoundOld DEF T
<1>13. CASE ~((IsInt(T) \/ IsArray(T)) /\ i.imms[2] \in {0, TyLen(T)}) /\ IsConst(u, a)
  <2>1. IsInt(T)
    BY <1>7, <1>13 DEF IsInt, IntTy
  <2>2. i.ty = IntTy(i.imms[2])
    BY <1>10, <2>1
  <2>3. y \in Bits /\ Len(y) = i.imms[2]
    BY <1>7, <1>8, <1>13, ExtractBits
  <2> HIDE DEF y
  <2>4. Found(u, x, InsertConst(u, at, y))
    BY <1>5, <2>2, <2>3, FoundConst
  <2> QED BY <1>4, <1>13, <2>4
<1>14. CASE ~((IsInt(T) \/ IsArray(T)) /\ i.imms[2] \in {0, TyLen(T)}) /\ ~IsConst(u, a)
  BY <1>4, <1>14, FoundOld
<1> QED BY <1>11, <1>12, <1>13, <1>14

LEMMA FoundExtField ==
  ASSUME NEW u, WellFormed(u), NEW v \in Range(u.order), u.inst[v].op = "extf"
  PROVE  Found(u, v, FoldExtField(u, v))
<1> DEFINE i == u.inst[v]
           a == i.args[1]
           from == u.inst[a]
           field == i.imms[1]
           t == ArgTys(u, i.args)
           tf == ArgTys(u, from.args)
<1>1. i.op = "extf" /\ i.op # "const" /\ Arities(i.op) = {1}
  BY Counts
<1>2. a \in DOMAIN u.inst /\ t[1] = from.ty /\ Before(u, a, v)
  <2>1. Given(u, v, 1)
    BY <1>1, Operands
  <2> QED BY <2>1 DEF Given
<1>3. Verified(i.op, t, i.imms, i.ty) /\ i.imms \in Seq(Nat) /\ Len(i.imms) = NumImms("extf")
  BY <1>1, SoundAt
<1>4. FoldExtField(u, v) =
        CASE from.op = "array_uniform" -> Existing(u, from.args[1])
          [] from.op \in {"array", "struct"} /\ field < Len(from.args) ->
               Existing(u, from.args[field + 1])
          [] OTHER -> Nothing(u)
  BY DEF FoldExtField
<1>5. i.ty = u.inst[v].ty /\ field = i.imms[1] /\ from = u.inst[a]
  OBVIOUS
<1>6. ASSUME from.op \in {"array_uniform", "array", "struct"}
      PROVE  /\ Verified(from.op, tf, from.imms, from.ty) /\ from.ty = InstTy(from.op, tf, from.imms)
             /\ from.op # "array" => tf \in Seq(Range(tf))
             /\ Len(from.args) \in Arities(from.op) /\ DOMAIN from.args = 1..Len(from.args)
             /\ DOMAIN tf = DOMAIN from.args /\ Len(from.args) \in Nat
             /\ \A k \in DOMAIN from.args : /\ Before(u, from.args[k], v)
                                            /\ tf[k] = u.inst[from.args[k]].ty
  <2>1. from.op # "arg" /\ from.op # "const"
    BY <1>6
  <2>2. Fits(u, a, from)
    BY <1>2, <2>1, ValueFacts
  <2> HIDE DEF from, a
  <2>3. /\ from.args \in Seq(DOMAIN u.inst) /\ Len(from.args) \in Arities(from.op)
        /\ \A k \in DOMAIN from.args : Before(u, from.args[k], a)
        /\ Verified(from.op, tf, from.imms, from.ty) /\ from.ty = InstTy(from.op, tf, from.imms)
    BY <2>1, <2>2 DEF Fits, Sound
  <2>4. \A k \in DOMAIN from.args : Before(u, from.args[k], v)
    BY <1>2, <1>5, <2>1, <2>3, BeforeTransitive
  <2>5. DOMAIN tf = DOMAIN from.args /\ \A k \in DOMAIN from.args : tf[k] = u.inst[from.args[k]].ty
    BY DEF ArgTys
  <2>6. tf \in Seq(Range(tf))
    <3>1. DOMAIN tf = 1..Len(from.args) /\ Len(from.args) \in Nat
      BY <2>3, <2>5
    <3>2. tf = [k \in 1..Len(from.args) |-> u.inst[from.args[k]].ty]
      BY <2>5, <3>1 DEF ArgTys
    <3> HIDE DEF tf
    <3>3. \A k \in 1..Len(from.args) : tf[k] \in Range(tf)
      BY <3>1 DEF Range
    <3> QED BY SMTT(30), <3>1, <3>2, <3>3
  <2> QED BY <2>3, <2>4, <2>5, <2>6
<1> HIDE DEF i, a, from, t, tf, field
<1>7. field \in Nat
  BY <1>3, <1>5, Counts
<1>8. i.ty = Rewrap(from.ty, FieldTy(Inner(from.ty), field))
  BY <1>1, <1>2, <1>3, <1>5, Checks
<1>9. IsArray(from.ty) \/ IsStruct(from.ty) => i.ty = FieldTy(from.ty, field)
  BY <1>8 DEF Rewrap, Inner, IsArray, IsStruct, IsSignal, IsPointer
<1>10. CASE from.op = "array_uniform"
  <2>1. Len(from.args) = 1
    BY <1>6, <1>10, Counts
  <2>2. from.ty = ArrayTy(from.imms[1], tf[1])
    BY <1>6, <1>10, Results
  <2>3. i.ty = tf[1]
    BY <1>9, <2>2 DEF ArrayTy, IsArray, IsStruct, FieldTy
  <2>4. Before(u, from.args[1], v) /\ u.inst[from.args[1]].ty = u.inst[v].ty
    BY <1>5, <1>6, <1>10, <2>1, <2>3
  <2> QED BY <1>4, <1>10, <2>4, FoundOld
<1>11. CASE from.op \in {"array", "struct"} /\ field < Len(from.args)
  <2>1. field + 1 \in DOMAIN from.args
    BY <1>6, <1>7, <1>11
  <2>2. i.ty = tf[field + 1]
    <3>1. CASE from.op = "array"
      <4>1. from.ty = ArrayTy(Len(tf), tf[1]) /\ tf[field + 1] = from.ty.of
        BY <1>6, <2>1, <3>1, Results, Checks
      <4> QED BY <1>9, <4>1 DEF ArrayTy, IsArray, IsStruct, FieldTy
    <3>2. CASE from.op = "struct"
      <4>1. from.ty = StructTy(tf)
        BY <1>6, <3>2, Results
      <4> QED BY <1>9, <4>1 DEF StructTy, IsArray, IsStruct, FieldTy
    <3> QED BY <1>11, <3>1, <3>2
  <2>3. Before(u, from.args[field + 1], v) /\ u.inst[from.args[field + 1]].ty = u.inst[v].ty
    BY <1>5, <1>6, <1>11, <2>1, <2>2
  <2> QED BY <1>4, <1>11, <2>3, FoundOld
<1>12. CASE from.op # "array_uniform" /\ ~(from.op \in {"array", "struct"} /\ field < Len(from.args))
  BY <1>4, <1>12, FoundOld
<1> QED BY <1>10, <1>11, <1>12

LEMMA FoundMux ==
  ASSUME NEW u, WellFormed(u), NEW v \in Range(u.order), u.inst[v].op = "mux"
  PROVE  Found(u, v, FoldMux(u, v))
<1> DEFINE i == u.inst[v]
           a == i.args[1]
           b == i.args[2]
           t == ArgTys(u, i.args)
           n == Num(Imm(u, b))
           ta == ArgTys(u, <<a>>)
           e == Inst("extf", <<a>>, <<n>>, i.ty)
<1>1. i.op = "mux" /\ i.op # "const" /\ Arities(i.op) = {2}
  BY Counts
<1>2. /\ a \in DOMAIN u.inst /\ t[1] = u.inst[a].ty /\ Before(u, a, v)
      /\ b \in DOMAIN u.inst
  <2>1. Given(u, v, 2)
    BY <1>1, Operands
  <2>2. 1 \in 1..2 /\ 2 \in 1..2
    OBVIOUS
  <2> QED BY ONLY <2>1, <2>2 DEF Given
<1>3. Verified(i.op, t, i.imms, i.ty) /\ IsTy(i.ty)
  BY SoundAt
<1>4. FoldMux(u, v) = IF IsConst(u, b) THEN InsertOp(u, v, "extf", <<a>>, <<n>>) ELSE Nothing(u)
  BY DEF FoldMux
<1>5. i.ty = u.inst[v].ty
  OBVIOUS
<1>6. ta[1] = u.inst[a].ty
  BY DEF ArgTys
<1>7. e.ty = i.ty
  BY DEF Inst
<1> HIDE DEF i, a, b, t
<1>8. CASE IsConst(u, b)
  <2>1. n \in Nat
    <3>1. Imm(u, b) \in Bits
      BY <1>2, <1>8, ValueFacts
    <3> QED BY <3>1, NumTyped
  <2> HIDE DEF n, ta
  <2>2. <<n>> \in Seq(Nat) /\ Len(<<n>>) = 1 /\ <<n>>[1] = n
    BY <2>1
  <2>3. IsArray(ta[1]) /\ ta[1].of = i.ty
    BY <1>1, <1>2, <1>3, <1>6, Checks
  <2>4. FieldAccess(Inner(ta[1]), <<n>>[1])
        /\ i.ty = Rewrap(ta[1], FieldTy(Inner(ta[1]), <<n>>[1]))
    BY <2>3 DEF FieldAccess, Inner, Rewrap, FieldTy, IsArray, IsStruct, IsSignal, IsPointer
  <2>5. i.ty = InstTy("extf", ta, <<n>>)
    BY <2>4, Results
  <2>6. Verified("extf", ta, <<n>>, i.ty)
    BY ONLY <2>4, Checks
  <2>7. Sliceable("extf", i.ty)
    BY Opcodes DEF Sliceable, OpSets
  <2>8. Sound("extf", ta, <<n>>, i.ty)
    BY <2>2, <2>5, <2>6, <2>7, Counts DEF Sound
  <2>9. Fits(u, v, e)
    BY <1>2, <1>3, <2>8, FitsWithOne, Counts DEF ta
  <2>10. Inserted(u, v, e, InsertOp(u, v, "extf", <<a>>, <<n>>))
    BY <2>5, <2>9, InsertedOp DEF ta
  <2>11. NewValue(u, v, u.inst[v].ty, InsertOp(u, v, "extf", <<a>>, <<n>>))
    BY <1>5, <1>7, <2>10, NewInserted
  <2> HIDE DEF e
  <2>12. Found(u, v, InsertOp(u, v, "extf", <<a>>, <<n>>))
    BY ONLY <2>11, FoundNew, UpToItself
  <2> QED BY <1>4, <1>8, <2>12
<1>9. CASE ~IsConst(u, b)
  BY <1>4, <1>9, FoundOld
<1> QED BY <1>8, <1>9

-----------------------------------------------------------------------------
(* Replacing the uses of a value keeps the unit well-formed.               *)
LEMMA ReplacedWell ==
  ASSUME NEW u, WellFormed(u), NEW v \in Range(u.order), NEW r,
         r \in DOMAIN u.inst, u.inst[r].ty = u.inst[v].ty, Before(u, r, v)
  PROVE  Extends(u, Replaced(u, v, r))
<1> DEFINE D == DOMAIN u.inst
           New(s) == [k \in DOMAIN s |-> IF s[k] = v THEN r ELSE s[k]]
           w == Replaced(u, v, r)
<1>1. /\ u = [inst |-> u.inst, order |-> u.order] /\ u.inst \in Seq(Range(u.inst))
      /\ u.order \in Seq(D) /\ IsInjective(u.order) /\ \A x \in D : WellInst(u, x)
  BY DEF WellFormed
<1>2. w.order = u.order /\ w = [inst |-> w.inst, order |-> w.order]
      /\ w.inst = [j \in D |-> [u.inst[j] EXCEPT !.args = New(@)]]
  <2>1. w = [u EXCEPT !.inst = [j \in D |-> [u.inst[j] EXCEPT !.args = New(@)]]]
    BY DEF Replaced
  <2> HIDE DEF w, New
  <2> QED BY <1>1, <2>1
<1>3. v \in D /\ u.inst[v].op # "arg"
  BY SoundAt
<1>4. ASSUME NEW x \in D
      PROVE  LET i == u.inst[x] IN
             /\ i = Inst(i.op, i.args, i.imms, i.ty) /\ IsTy(i.ty)
             /\ i.args \in Seq(D) /\ \A k \in DOMAIN i.args : Before(u, i.args[k], x)
  <2>1. WellInst(u, x)
    BY <1>1
  <2>2. CASE x \in Range(u.order)
    BY <2>1, <2>2 DEF WellInst, Fits
  <2>3. CASE x \notin Range(u.order)
    <3>1. u.inst[x] = Inst("arg", <<>>, <<>>, u.inst[x].ty) /\ IsTy(u.inst[x].ty)
      BY <2>1, <2>3 DEF WellInst
    <3>2. u.inst[x].op = "arg" /\ u.inst[x].args = <<>> /\ u.inst[x].imms = <<>>
      BY <3>1 DEF Inst
    <3> QED BY <3>1, <3>2
  <2> QED BY <2>2, <2>3
<1>5. ASSUME NEW x \in D
      PROVE  w.inst[x] = Inst(u.inst[x].op, New(u.inst[x].args), u.inst[x].imms, u.inst[x].ty)
  <2>1. w.inst[x] = [u.inst[x] EXCEPT !.args = New(u.inst[x].args)]
    BY <1>2
  <2>2. u.inst[x] = Inst(u.inst[x].op, u.inst[x].args, u.inst[x].imms, u.inst[x].ty)
    BY <1>4
  <2> HIDE DEF New
  <2> QED BY <2>1, <2>2 DEF Inst
<1> HIDE DEF w
<1>6. ASSUME NEW x \in D
      PROVE  /\ w.inst[x].op = u.inst[x].op /\ w.inst[x].imms = u.inst[x].imms
             /\ w.inst[x].ty = u.inst[x].ty /\ w.inst[x].args = New(u.inst[x].args)
  <2>1. w.inst[x] = Inst(u.inst[x].op, New(u.inst[x].args), u.inst[x].imms, u.inst[x].ty)
    BY <1>5
  <2> HIDE DEF New
  <2> QED BY ONLY <2>1 DEF Inst
<1>7. DOMAIN w.inst = D
  BY <1>2
<1>8. Grows(u, w)
  BY ONLY <1>2, <1>6, <1>7 DEF Grows
<1>9. ASSUME NEW s \in Seq(D)
      PROVE  /\ New(s) \in Seq(D) /\ DOMAIN New(s) = DOMAIN s /\ Len(New(s)) = Len(s)
             /\ ArgTys(w, New(s)) = ArgTys(u, s)
  <2>1. New(s) \in Seq(D) /\ DOMAIN New(s) = DOMAIN s /\ Len(New(s)) = Len(s)
    BY <1>3, <1>9
  <2>2. ASSUME NEW k \in DOMAIN s PROVE w.inst[New(s)[k]].ty = u.inst[s[k]].ty
    <3>1. New(s)[k] = IF s[k] = v THEN r ELSE s[k]
      OBVIOUS
    <3>2. s[k] \in D
      BY <1>9
    <3>3. w.inst[r].ty = u.inst[v].ty /\ w.inst[s[k]].ty = u.inst[s[k]].ty
      BY <1>6, <3>2
    <3> HIDE DEF New
    <3> QED BY <3>1, <3>3
  <2> QED BY <2>1, <2>2 DEF ArgTys
<1>10. ASSUME NEW x \in D, NEW k \in DOMAIN u.inst[x].args
       PROVE  Before(w, New(u.inst[x].args)[k], x)
  <2> DEFINE a == u.inst[x].args[k]
  <2>1. Before(u, a, x)
    BY <1>4
  <2>2. New(u.inst[x].args)[k] = IF a = v THEN r ELSE a
    OBVIOUS
  <2> HIDE DEF a
  <2>3. a = v => Before(u, r, x)
    BY <1>3, <2>1, BeforeTransitive
  <2>4. Before(u, IF a = v THEN r ELSE a, x)
    BY <2>1, <2>3
  <2> QED BY <1>8, <2>2, <2>4, BeforeKept
<1>11. ASSUME NEW x \in D PROVE WellInst(w, x)
  <2> DEFINE i == w.inst[x]
             o == u.inst[x]
  <2>1. WellInst(u, x)
    BY <1>1
  <2>2. /\ i = Inst(i.op, i.args, i.imms, i.ty) /\ IsTy(i.ty)
        /\ i.op = o.op /\ i.imms = o.imms /\ i.ty = o.ty /\ i.args = New(o.args)
    BY <1>4, <1>5, <1>6
  <2>3. i.args \in Seq(D) /\ DOMAIN i.args = DOMAIN o.args /\ Len(i.args) = Len(o.args)
        /\ ArgTys(w, i.args) = ArgTys(u, o.args)
    BY <1>4, <1>9, <2>2
  <2>4. \A k \in DOMAIN i.args : Before(w, i.args[k], x)
    BY <1>10, <2>2, <2>3
  <2>5. CASE x \in Range(u.order)
    <3>1. Fits(u, x, o)
      BY <2>1, <2>5 DEF WellInst
    <3> HIDE DEF i, o, New
    <3>2. Fits(w, x, i)
      BY ONLY <1>7, <2>2, <2>3, <2>4, <3>1 DEF Fits
    <3> QED BY <1>2, <2>5, <3>2 DEF WellInst, i
  <2>6. CASE x \notin Range(u.order)
    <3>1. o = Inst("arg", <<>>, <<>>, o.ty) /\ IsTy(o.ty)
      BY <2>1, <2>6 DEF WellInst
    <3>2. o.args = <<>> /\ o.op = "arg" /\ o.imms = <<>>
      BY <3>1 DEF Inst
    <3>3. New(<<>>) = <<>>
      OBVIOUS
    <3> HIDE DEF New
    <3>4. i = Inst("arg", <<>>, <<>>, i.ty)
      BY <2>2, <3>2, <3>3
    <3> QED BY <1>2, <2>2, <2>6, <3>4 DEF WellInst
  <2> QED BY <2>5, <2>6
<1>12. w.inst \in Seq(Range(w.inst))
  <2>1. D = 1..Len(u.inst) /\ Len(u.inst) \in Nat
    BY <1>1
  <2>2. \A x \in D : w.inst[x] \in Range(w.inst)
    BY <1>7 DEF Range
  <2>3. w.inst \in [1..Len(u.inst) -> Range(w.inst)]
    BY <1>2, <2>1, <2>2
  <2> HIDE DEF D
  <2> QED BY ONLY <2>1, <2>3
<1>13. w.order \in Seq(DOMAIN w.inst) /\ IsInjective(w.order)
  BY <1>1, <1>2, <1>7
<1>14. \A x \in DOMAIN w.inst : WellInst(w, x)
  BY <1>7, <1>11
<1>15. w = [inst |-> w.inst, order |-> w.order]
  BY <1>2
<1>16. WellFormed(w)
  BY ONLY <1>12, <1>13, <1>14, <1>15 DEF WellFormed
<1> QED BY <1>8, <1>16 DEF Extends, w

LEMMA UsesSettled ==
  ASSUME NEW u, WellFormed(u), NEW v \in Range(u.order), NEW f, Found(u, v, f)
  PROVE  Extends(u, Settled(u, v, f))
<1>1. CASE f.r = 0
  BY <1>1, GrowsReflexive DEF Settled, Extends
<1>2. CASE f.r # 0
  <2>1. /\ Grows(u, f.u) /\ WellFormed(f.u) /\ f.r \in DOMAIN f.u.inst
        /\ f.u.inst[f.r].ty = u.inst[v].ty /\ Before(f.u, f.r, v)
    BY <1>2 DEF Found, Extends
  <2>2. v \in Range(f.u.order) /\ f.u.inst[v].ty = u.inst[v].ty
    BY <2>1, LaidOut DEF Grows
  <2>3. Extends(f.u, Replaced(f.u, v, f.r))
    BY <2>1, <2>2, ReplacedWell
  <2>4. Extends(u, Replaced(f.u, v, f.r))
    BY <2>1, <2>3, ExtendsTransitive
  <2> QED BY <1>2, <2>4 DEF Settled
<1> QED BY <1>1, <1>2

LEMMA FoldPartExtends ==
  ASSUME NEW u, WellFormed(u), NEW v \in Range(u.order)
  PROVE  Extends(u, FoldPart(u, v))
<1>1. Found(u, v, FoldSlice(u, v))
  <2>1. CASE u.inst[v].op = "exts"
    BY <2>1, FoundExtSlice, UpToItself DEF FoldSlice
  <2>2. CASE u.inst[v].op = "inss"
    BY <2>2, FoundInsSlice, UpToItself DEF FoldSlice
  <2>3. CASE u.inst[v].op \notin {"exts", "inss"}
    BY <2>3, FoundOld DEF FoldSlice
  <2> QED BY <2>1, <2>2, <2>3
<1>2. Extends(u, Settled(u, v, FoldSlice(u, v)))
  BY <1>1, UsesSettled
<1> QED BY <1>2 DEF FoldPart

\* What a fold returns.
IsFold(f) == f = [u |-> f.u, r |-> f.r]

LEMMA SlicesAreFolds ==
  ASSUME NEW u, NEW at, NEW v
  PROVE  IsFold(FoldInsSlice(u, at, v)) /\ IsFold(FoldExtSlice(u, at, v))
<1>1. \A w, i : IsFold(Insert(w, at, i))
  BY DEF Insert, IsFold
<1>2. \A w, x : IsFold(Nothing(w)) /\ IsFold(Existing(w, x))
  BY DEF Nothing, Existing, IsFold
<1>3. \A w, T : IsFold(InsertZero(w, at, T))
  BY <1>1 DEF InsertZero, InsertConst, InsertOp
<1> QED BY <1>1, <1>2, <1>3 DEF FoldInsSlice, FoldExtSlice, InsertConst

\* A replacement for the last of the new values is one for v.
LEMMA FoundThrough ==
  ASSUME NEW u, NEW v, NEW w, Extends(u, w), NEW x \in Range(w.order),
         x \in Nat \ {0}, w.inst[x].ty = u.inst[v].ty, Earlier(w.order, x, v),
         v \in DOMAIN u.inst, NEW f, IsFold(f), Found(w, x, f) \/ Found(w, v, f)
  PROVE  Found(u, v, OrElse(f, x))
<1> DEFINE g == OrElse(f, x)
<1>1. g.u = f.u /\ g.r = IF f.r = 0 THEN x ELSE f.r
  BY DEF OrElse, IsFold
<1>2. Grows(w, f.u) /\ WellFormed(f.u) /\ Grows(u, w) /\ WellFormed(w)
  BY DEF Found, Extends
<1>3. x \in DOMAIN w.inst /\ w.inst[x].op # "arg"
  BY <1>2, SoundAt
<1>4. /\ x \in DOMAIN f.u.inst /\ f.u.inst[x].op # "arg" /\ f.u.inst[x].ty = u.inst[v].ty
      /\ Before(f.u, x, v)
  BY <1>2, <1>3 DEF Grows, Before
<1>5. Extends(u, f.u)
  BY <1>2, ExtendsTransitive DEF Extends
<1>6. CASE f.r = 0
  BY <1>1, <1>4, <1>5, <1>6 DEF Found
<1>7. CASE f.r # 0
  <2>1. /\ f.r \in DOMAIN f.u.inst /\ f.u.inst[f.r].ty = u.inst[v].ty
        /\ Before(f.u, f.r, x) \/ Before(f.u, f.r, v)
    BY <1>2, <1>7 DEF Found, Grows
  <2>2. Before(f.u, f.r, v)
    BY <1>2, <1>4, <2>1, BeforeTransitive
  <2> QED BY <1>1, <1>5, <1>7, <2>1, <2>2 DEF Found
<1> QED BY <1>6, <1>7

\* In u, v is laid out and has type T; value a of type T is there before v.
Ready(u, v, T) == WellFormed(u) /\ v \in Range(u.order) /\ u.inst[v].ty = T
Has(u, v, a, T) == Before(u, a, v) /\ u.inst[a].ty = T

LEMMA ReadyKept ==
  ASSUME NEW u, NEW w, Extends(u, w), NEW v, NEW T
  PROVE  /\ Ready(u, v, T) => Ready(w, v, T)
         /\ \A a, A : Has(u, v, a, A) => Has(w, v, a, A)
<1>1. Grows(u, w) /\ WellFormed(w)
  BY DEF Extends
<1>2. ASSUME Ready(u, v, T) PROVE Ready(w, v, T)
  <2>1. v \in DOMAIN u.inst
    BY <1>2, SoundAt DEF Ready
  <2> QED BY <1>1, <1>2, <2>1 DEF Ready, Grows
<1>3. ASSUME NEW a, NEW A, Has(u, v, a, A) PROVE Has(w, v, a, A)
  <2>1. Before(w, a, v)
    BY <1>1, <1>3, BeforeKept DEF Has
  <2> QED BY <1>1, <1>3, <2>1 DEF Has, Grows, Before
<1> QED BY <1>2, <1>3

LEMMA NewHas ==
  ASSUME NEW u, NEW v, NEW T, NEW f, NewValue(u, v, T, f)
  PROVE  Has(f.u, v, f.r, T) /\ Extends(u, f.u)
BY DEF NewValue, Has, Before

\* The slice p inserted into z, right before v.
LEMMA InsertedPart ==
  ASSUME NEW u, NEW v, NEW T, Ready(u, v, T), Simple(T), NEW z, Has(u, v, z, T), u.inst[z].op # "arg",
         NEW off \in Nat, NEW n \in Nat, off + n <= TyLen(T), NEW p, Has(u, v, p, SliceTy(T, n)),
         NEW f, f = InsertOp(u, v, "inss", <<z, p>>, <<off, n>>)
  PROVE  /\ NewValue(u, v, T, f) /\ f.u.inst[f.r].op = "inss"
         /\ Earlier(f.u.order, z, f.r)
<1> DEFINE i == Inst("inss", <<z, p>>, <<off, n>>, T)
<1>1. Inserted(u, v, i, f)
  BY InsertedInsert DEF Ready, Has
<1>2. i.ty = T /\ i.op = "inss" /\ i.args = <<z, p>>
  BY DEF Inst
<1> HIDE DEF i
<1>3. NewValue(u, v, T, f) /\ f.u.inst[f.r] = i
  BY <1>1, <1>2, NewInserted DEF Inserted
<1>4. WellFormed(f.u) /\ f.r \in Range(f.u.order)
  BY <1>3 DEF NewValue, Extends
<1>5. Fits(f.u, f.r, i)
  BY <1>3, <1>4, LaidOut
<1>6. Before(f.u, z, f.r)
  <2>1. DOMAIN i.args = {1, 2} /\ i.args[1] = z
    BY <1>2
  <2> QED BY <1>5, <2>1 DEF Fits
<1>7. f.u.inst[z].op # "arg"
  BY <1>3 DEF NewValue, Extends, Grows, Has, Before
<1> QED BY <1>2, <1>3, <1>6, <1>7 DEF Before

LEMMA FoundMixed ==
  ASSUME NEW u, NEW v, NEW T, Ready(u, v, T), Simple(T), NEW base, Has(u, v, base, T),
         NEW H, Simple(H), NEW hidden, Has(u, v, hidden, H),
         \A n \in Nat : SliceTy(H, n) = SliceTy(T, n),
         NEW amount \in Nat, amount <= TyLen(H), amount < TyLen(T), NEW left \in BOOLEAN
  PROVE  Found(u, v, FoldMixed(u, v, left, base, hidden, amount))
<1> DEFINE ty == u.inst[v].ty
           bw == TyLen(u.inst[base].ty)
           hw == TyLen(u.inst[hidden].ty)
           rest == bw - amount
           b == InsertOp(u, v, "exts", <<base>>, <<IF left THEN 0 ELSE amount, rest>>)
           h == InsertOp(b.u, v, "exts", <<hidden>>, <<IF left THEN hw - amount ELSE 0, amount>>)
           z0 == InsertZero(h.u, v, ty)
           z1 == IF left THEN InsertOp(z0.u, v, "inss", <<z0.r, b.r>>, <<amount, rest>>)
                 ELSE InsertOp(z0.u, v, "inss", <<z0.r, h.r>>, <<rest, amount>>)
           z2 == IF left THEN InsertOp(z1.u, v, "inss", <<z1.r, h.r>>, <<0, amount>>)
                 ELSE InsertOp(z1.u, v, "inss", <<z1.r, b.r>>, <<0, rest>>)
           c1 == FoldPart(z2.u, h.r)
           c2 == FoldPart(c1, b.r)
           c3 == FoldPart(c2, z0.r)
           c4 == FoldPart(c3, z1.r)
           f == FoldInsSlice(c4, z1.r, z2.r)
<1>1. FoldMixed(u, v, left, base, hidden, amount) = OrElse(f, z2.r)
  BY ONLY DEF FoldMixed
<1>20. ty = T /\ bw = TyLen(T) /\ hw = TyLen(H)
  BY DEF Ready, Has
<1> HIDE DEF ty, bw, hw
<1>2. bw \in Nat /\ hw \in Nat /\ rest \in Nat
  BY <1>20, SimpleFacts
<1> HIDE DEF rest
<1>3. NewValue(u, v, SliceTy(T, rest), b)
  <2> DEFINE off == IF left THEN 0 ELSE amount
  <2>1. off \in Nat /\ off + rest <= bw
    BY <1>2 DEF rest
  <2> HIDE DEF off
  <2>2. NewValue(u, v, SliceTy(T, rest), InsertOp(u, v, "exts", <<base>>, <<off, rest>>))
    BY <1>2, <1>20, <2>1, InsertedSlice DEF Ready, Has
  <2> QED BY <2>2 DEF off
<1> HIDE DEF b
<1>4. /\ Ready(b.u, v, T) /\ Has(b.u, v, hidden, H) /\ Has(b.u, v, b.r, SliceTy(T, rest))
      /\ Extends(u, b.u)
  BY <1>3, NewHas, ReadyKept
<1>5. NewValue(b.u, v, SliceTy(T, amount), h)
  <2> DEFINE off == IF left THEN hw - amount ELSE 0
  <2>1. off \in Nat /\ off + amount <= hw
    BY <1>2, <1>20
  <2> HIDE DEF off
  <2>2. NewValue(b.u, v, SliceTy(H, amount), InsertOp(b.u, v, "exts", <<hidden>>, <<off, amount>>))
    BY <1>4, <1>20, <2>1, InsertedSlice DEF Ready, Has
  <2> QED BY <2>2 DEF off
<1> HIDE DEF h
<1>6. /\ Ready(h.u, v, T) /\ Has(h.u, v, b.r, SliceTy(T, rest))
      /\ Has(h.u, v, h.r, SliceTy(T, amount)) /\ Extends(b.u, h.u)
  BY <1>4, <1>5, NewHas, ReadyKept
<1>7. NewValue(h.u, v, T, z0)
  BY <1>6, <1>20, InsertedZero DEF Ready
<1> HIDE DEF z0
<1>8. /\ Ready(z0.u, v, T) /\ Has(z0.u, v, b.r, SliceTy(T, rest))
      /\ Has(z0.u, v, h.r, SliceTy(T, amount)) /\ Has(z0.u, v, z0.r, T) /\ Extends(h.u, z0.u)
  BY <1>6, <1>7, NewHas, ReadyKept
<1>9. z0.u.inst[z0.r].op # "arg"
  BY <1>7, SoundAt DEF NewValue, Extends
<1>10. NewValue(z0.u, v, T, z1) /\ z1.u.inst[z1.r].op = "inss"
  <2>1. CASE left
    <3>1. amount + rest <= TyLen(T)
      BY <1>2, <1>20 DEF rest
    <3>2. z1 = InsertOp(z0.u, v, "inss", <<z0.r, b.r>>, <<amount, rest>>)
      BY <2>1
    <3> HIDE DEF z1
    <3> QED BY <1>2, <1>8, <1>9, <3>1, <3>2, InsertedPart
  <2>2. CASE ~left
    <3>1. rest + amount <= TyLen(T)
      BY <1>2, <1>20 DEF rest
    <3>2. z1 = InsertOp(z0.u, v, "inss", <<z0.r, h.r>>, <<rest, amount>>)
      BY <2>2
    <3> HIDE DEF z1
    <3> QED BY <1>2, <1>8, <1>9, <3>1, <3>2, InsertedPart
  <2> QED BY <2>1, <2>2
<1> HIDE DEF z1
<1>11. /\ Ready(z1.u, v, T) /\ Has(z1.u, v, b.r, SliceTy(T, rest))
       /\ Has(z1.u, v, h.r, SliceTy(T, amount)) /\ Has(z1.u, v, z1.r, T) /\ Extends(z0.u, z1.u)
       /\ z1.u.inst[z1.r].op # "arg"
  BY <1>8, <1>10, NewHas, ReadyKept
<1>12. NewValue(z1.u, v, T, z2) /\ z2.u.inst[z2.r].op = "inss" /\ Earlier(z2.u.order, z1.r, z2.r)
  <2>1. CASE left
    <3>1. 0 + amount <= TyLen(T)
      BY <1>2, <1>20 DEF rest
    <3>2. z2 = InsertOp(z1.u, v, "inss", <<z1.r, h.r>>, <<0, amount>>)
      BY <2>1
    <3> HIDE DEF z2
    <3> QED BY <1>2, <1>11, <3>1, <3>2, InsertedPart
  <2>2. CASE ~left
    <3>1. 0 + rest <= TyLen(T)
      BY <1>2, <1>20 DEF rest
    <3>2. z2 = InsertOp(z1.u, v, "inss", <<z1.r, b.r>>, <<0, rest>>)
      BY <2>2
    <3> HIDE DEF z2
    <3> QED BY <1>2, <1>11, <3>1, <3>2, InsertedPart
  <2> QED BY <2>1, <2>2
<1> HIDE DEF z2
<1>13. /\ Extends(u, z2.u) /\ z2.r \in Nat \ {0}
       /\ {h.r, b.r, z0.r, z1.r, z2.r} \subseteq Range(z2.u.order) /\ z2.r \in DOMAIN z2.u.inst
       /\ z2.u.inst[z2.r].ty = T /\ Earlier(z2.u.order, z2.r, v)
  <2>1. /\ Extends(u, b.u) /\ Extends(b.u, h.u) /\ Extends(h.u, z0.u)
        /\ Extends(z0.u, z1.u) /\ Extends(z1.u, z2.u)
    BY <1>4, <1>6, <1>8, <1>11, <1>12 DEF NewValue
  <2>2. Extends(u, z2.u)
    BY <2>1, ExtendsTransitive DEF Extends
  <2>3. /\ b.r \in Range(b.u.order) /\ h.r \in Range(h.u.order) /\ z0.r \in Range(z0.u.order)
        /\ z1.r \in Range(z1.u.order) /\ z2.r \in Range(z2.u.order)
    BY <1>3, <1>5, <1>7, <1>10, <1>12 DEF NewValue
  <2>4. {h.r, b.r, z0.r, z1.r, z2.r} \subseteq Range(z2.u.order)
    BY <2>1, <2>3 DEF Extends, Grows
  <2> QED BY <1>12, <2>2, <2>4 DEF NewValue
<1>14. Extends(z2.u, c4)
  <2>1. Extends(z2.u, c1)
    BY <1>13, FoldPartExtends DEF Extends
  <2> HIDE DEF c1
  <2>2. Extends(z2.u, c2)
    <3>1. WellFormed(c1) /\ b.r \in Range(c1.order) /\ Grows(z2.u, c1)
      BY <1>13, <2>1 DEF Extends, Grows
    <3> QED BY <3>1, FoldPartExtends, ExtendsTransitive
  <2> HIDE DEF c2
  <2>3. Extends(z2.u, c3)
    <3>1. WellFormed(c2) /\ z0.r \in Range(c2.order) /\ Grows(z2.u, c2)
      BY <1>13, <2>2 DEF Extends, Grows
    <3> QED BY <3>1, FoldPartExtends, ExtendsTransitive
  <2> HIDE DEF c3
  <2>4. WellFormed(c3) /\ z1.r \in Range(c3.order) /\ Grows(z2.u, c3)
    BY <1>13, <2>3 DEF Extends, Grows
  <2> QED BY <2>4, FoldPartExtends, ExtendsTransitive
<1> HIDE DEF c4
<1>15. /\ WellFormed(c4) /\ z1.r \in Range(c4.order) /\ z2.r \in Range(c4.order)
       /\ UpTo(c4, z1.r, z2.r) /\ c4.inst[z2.r].op = "inss" /\ c4.inst[z2.r].ty = T
       /\ Earlier(c4.order, z2.r, v)
  BY <1>12, <1>13, <1>14 DEF Extends, Grows, UpTo
<1>16. Found(c4, z2.r, f)
  BY <1>15, FoundInsSlice
<1>17. IsFold(f)
  BY SlicesAreFolds
<1>18. Extends(u, c4)
  BY <1>13, <1>14, ExtendsTransitive DEF Extends
<1> HIDE DEF f
<1>21. v \in DOMAIN u.inst
  BY LaidOut DEF Ready
<1>19. Found(u, v, OrElse(f, z2.r))
  BY <1>13, <1>15, <1>16, <1>17, <1>18, <1>21, FoundThrough DEF Ready
<1> QED BY ONLY <1>1, <1>19

LEMMA FoundShift ==
  ASSUME NEW u, WellFormed(u), NEW v \in Range(u.order), u.inst[v].op \in ShiftOps
  PROVE  Found(u, v, FoldShift(u, v))
<1> DEFINE i == u.inst[v]
           base == i.args[1]
           hidden == i.args[2]
           t == ArgTys(u, i.args)
           T == u.inst[base].ty
           H == u.inst[hidden].ty
           bw == TyLen(T)
           hw == TyLen(H)
           k == Num(Imm(u, i.args[3]))
           amount == IF k < hw THEN k ELSE hw
           off == ShiftedOut(i.op = "shl", amount, bw, hw)
           out == InsertOp(u, v, "exts", <<hidden>>, <<off, bw>>)
           left == i.op = "shl"
<1>1. i.op # "const" /\ Arities(i.op) = {3}
  BY Counts, Opcodes DEF OpSets
<1>2. /\ base \in DOMAIN u.inst /\ t[1] = T /\ Before(u, base, v)
      /\ hidden \in DOMAIN u.inst /\ t[2] = H /\ Before(u, hidden, v)
      /\ i.args[3] \in DOMAIN u.inst
  <2>1. Given(u, v, 3)
    BY <1>1, Operands
  <2>2. 1 \in 1..3 /\ 2 \in 1..3 /\ 3 \in 1..3
    OBVIOUS
  <2> QED BY ONLY <2>1, <2>2 DEF Given
<1>3. Verified(i.op, t, i.imms, i.ty) /\ Sliceable(i.op, i.ty)
  BY SoundAt
<1>4. FoldShift(u, v) =
        IF ~IsConst(u, i.args[3]) THEN Nothing(u)
        ELSE IF k = 0 THEN Existing(u, base)
        ELSE IF IsSignal(T) \/ IsPointer(T) THEN Nothing(u)
        ELSE IF amount >= bw THEN OrElse(FoldExtSlice(out.u, v, out.r), out.r)
        ELSE FoldMixed(u, v, left, base, hidden, amount)
  BY ONLY DEF FoldShift
<1>5. i.ty = u.inst[v].ty /\ i.op \in ShiftOps /\ T = u.inst[base].ty /\ H = u.inst[hidden].ty
  OBVIOUS
<1>6. IsTy(T) /\ IsTy(H)
  BY <1>2, ValueFacts
<1>7. IsConst(u, i.args[3]) => k \in Nat
  <2>1. IsConst(u, i.args[3]) => Imm(u, i.args[3]) \in Bits
    BY <1>2, ValueFacts
  <2> QED BY <2>1, NumTyped
<1> HIDE DEF i, base, hidden, t, T, H, k
<1>8. i.ty = T /\ ShiftChecks(T, H, t[3])
  BY <1>2, <1>3, <1>5, Checks
<1>9. CASE ~IsConst(u, i.args[3])
  BY <1>4, <1>9, FoundOld
<1>10. CASE IsConst(u, i.args[3]) /\ k = 0
  BY <1>2, <1>4, <1>5, <1>8, <1>10, FoundOld
<1>11. CASE IsConst(u, i.args[3]) /\ k # 0 /\ (IsSignal(T) \/ IsPointer(T))
  BY <1>4, <1>11, FoundOld
<1>12. ASSUME ~(IsSignal(T) \/ IsPointer(T))
       PROVE  /\ Simple(T) /\ Simple(H) /\ bw \in Nat /\ hw \in Nat
              /\ \A n \in Nat : SliceTy(H, n) = SliceTy(T, n)
  <2>1. ~(IsSignal(H) \/ IsPointer(H)) /\ Inner(T) = T /\ Inner(H) = H
    <3>1. IsSignal(T) = IsSignal(H) /\ IsPointer(T) = IsPointer(H)
      BY <1>8 DEF ShiftChecks
    <3>2. ~IsSignal(H) /\ ~IsPointer(H)
      BY <1>12, <3>1
    <3> QED BY <1>12, <3>2 DEF Inner
  <2>2. IF IsInt(T) THEN IsInt(H) ELSE IsArray(T) /\ T = H
    BY <1>8, <2>1 DEF ShiftChecks
  <2>3. IsArray(T) => IsInt(T.of)
    BY <1>3, <1>5, <1>8 DEF Sliceable
  <2>4. Simple(T) /\ Simple(H)
    BY <1>6, <2>2, <2>3 DEF Simple
  <2>5. ASSUME NEW n \in Nat PROVE SliceTy(H, n) = SliceTy(T, n)
    <3>1. CASE IsInt(T)
      <4>1. SliceTy(T, n) = IntTy(n) /\ SliceTy(H, n) = IntTy(n)
        BY <1>6, <2>2, <3>1, Slices
      <4> QED BY <4>1
    <3>2. CASE ~IsInt(T)
      BY <2>2, <3>2
    <3> QED BY <3>1, <3>2
  <2> QED BY <2>4, <2>5, SimpleFacts
<1> HIDE DEF bw, hw
<1>13. ASSUME IsConst(u, i.args[3]), ~(IsSignal(T) \/ IsPointer(T))
       PROVE  amount \in Nat /\ amount <= hw
  BY <1>7, <1>12, <1>13
<1> HIDE DEF amount
<1>14. CASE IsConst(u, i.args[3]) /\ k # 0 /\ ~(IsSignal(T) \/ IsPointer(T)) /\ amount >= bw
  <2>1. /\ Simple(T) /\ Simple(H) /\ bw \in Nat /\ hw \in Nat /\ amount \in Nat /\ amount <= hw
        /\ SliceTy(H, bw) = SliceTy(T, bw)
    BY <1>12, <1>13, <1>14
  <2>2. off \in Nat /\ off + bw <= hw
    BY <1>14, <2>1 DEF ShiftedOut
  <2> HIDE DEF off
  <2>3. SliceTy(T, bw) = T
    BY <2>1, SimpleFacts DEF bw
  <2>4. NewValue(u, v, T, out)
    <3>1. NewValue(u, v, SliceTy(H, bw), InsertOp(u, v, "exts", <<hidden>>, <<off, bw>>))
      BY <1>2, <1>5, <2>1, <2>2, InsertedSlice DEF hw
    <3> QED BY <2>1, <2>3, <3>1
  <2>5. out.u.inst[out.r].op = "exts"
    <3> DEFINE e == Inst("exts", <<hidden>>, <<off, bw>>, InstTy("exts", ArgTys(u, <<hidden>>), <<off, bw>>))
    <3>1. out = Insert(u, v, e)
      BY DEF InsertOp
    <3>2. e.op = "exts"
      BY DEF Inst
    <3> HIDE DEF e, out
    <3>3. out.r = Len(u.inst) + 1 /\ out.u.inst = Append(u.inst, e)
      BY <3>1 DEF Insert
    <3>4. u.inst \in Seq(Range(u.inst))
      BY DEF WellFormed
    <3>5. Append(u.inst, e)[Len(u.inst) + 1] = e
      BY <3>4
    <3> QED BY <3>2, <3>3, <3>5
  <2> HIDE DEF out
  <2>6. /\ Extends(u, out.u) /\ WellFormed(out.u) /\ v \in Range(out.u.order)
        /\ out.r \in Range(out.u.order) /\ out.r \in Nat \ {0} /\ out.u.inst[out.r].ty = u.inst[v].ty
        /\ Earlier(out.u.order, out.r, v)
    BY <1>5, <1>8, <2>4 DEF NewValue, Extends, Grows
  <2>7. v \in DOMAIN u.inst /\ out.u.inst[v].ty = out.u.inst[out.r].ty
    BY <2>6, SoundAt DEF Extends, Grows
  <2>8. Found(out.u, v, FoldExtSlice(out.u, v, out.r))
    BY <2>5, <2>6, <2>7, FoundExtSlice DEF UpTo
  <2>9. IsFold(FoldExtSlice(out.u, v, out.r))
    BY SlicesAreFolds
  <2>10. Found(u, v, OrElse(FoldExtSlice(out.u, v, out.r), out.r))
    BY <2>6, <2>7, <2>8, <2>9, FoundThrough
  <2> QED BY <1>4, <1>14, <2>10
<1>15. CASE IsConst(u, i.args[3]) /\ k # 0 /\ ~(IsSignal(T) \/ IsPointer(T)) /\ ~(amount >= bw)
  <2>1. /\ Simple(T) /\ Simple(H) /\ amount \in Nat /\ amount <= TyLen(H) /\ amount < TyLen(T)
        /\ \A n \in Nat : SliceTy(H, n) = SliceTy(T, n)
    BY <1>12, <1>13, <1>15 DEF bw, hw
  <2>2. Ready(u, v, T) /\ Has(u, v, base, T) /\ Has(u, v, hidden, H) /\ left \in BOOLEAN
    BY <1>2, <1>5, <1>8 DEF Ready, Has
  <2> HIDE DEF left
  <2>3. Found(u, v, FoldMixed(u, v, left, base, hidden, amount))
    BY ONLY <2>1, <2>2, FoundMixed
  <2> QED BY <1>4, <1>15, <2>3
<1> QED BY <1>9, <1>10, <1>11, <1>14, <1>15

-----------------------------------------------------------------------------
(* Folding as a whole.                                                     *)

(* The replacement that run_on_inst finds is there before the instruction  *)
(* that it replaces, has its type, and leaves the unit well-formed.        *)
LEMMA FoundReplacement ==
  ASSUME NEW u, WellFormed(u), NEW v \in Range(u.order)
  PROVE  Found(u, v, Replacement(u, v))
<1> DEFINE op == u.inst[v].op
<1>1. Replacement(u, v) =
        CASE op = "inss" -> FoldInsSlice(u, v, v)
          [] op = "exts" -> FoldExtSlice(u, v, v)
          [] op = "extf" -> FoldExtField(u, v)
          [] op \in ShiftOps -> FoldShift(u, v)
          [] op = "mux" -> FoldMux(u, v)
          [] op \in UnaryOps -> FoldUnary(u, v)
          [] op \in BinaryOps \cup CompareOps -> FoldBinary(u, v)
          [] OTHER -> Nothing(u)
  BY ONLY DEF Replacement
<1>2. op = u.inst[v].op
  OBVIOUS
<1> HIDE DEF op
<1>3. /\ op = "inss" => Found(u, v, FoldInsSlice(u, v, v))
      /\ op = "exts" => Found(u, v, FoldExtSlice(u, v, v))
      /\ op = "extf" => Found(u, v, FoldExtField(u, v))
      /\ op \in ShiftOps => Found(u, v, FoldShift(u, v))
      /\ op = "mux" => Found(u, v, FoldMux(u, v))
      /\ Found(u, v, FoldUnary(u, v)) /\ Found(u, v, Nothing(u))
      /\ op \in BinaryOps \cup CompareOps => Found(u, v, FoldBinary(u, v))
  BY <1>2, FoundInsSlice, FoundExtSlice, FoundExtField, FoundShift, FoundMux, FoundUnary,
     FoundBinary, FoundOld, UpToItself
<1> QED BY ONLY <1>1, <1>3

LEMMA FoldInstExtends ==
  ASSUME NEW u, WellFormed(u), NEW v \in Range(u.order)
  PROVE  Extends(u, FoldInst(u, v))
BY FoundReplacement, UsesSettled DEF FoldInst

\* A well-formed unit is one that the verifier accepts.
LEMMA WellFormedVerified ==
  ASSUME NEW u, WellFormed(u)
  PROVE  UnitVerified(u)
<1>1. ASSUME NEW v \in Range(u.order)
      PROVE  Verified(u.inst[v].op, ArgTys(u, u.inst[v].args), u.inst[v].imms, u.inst[v].ty)
  BY SoundAt
<1>2. ASSUME NEW p \in DOMAIN u.order, NEW a \in Range(u.inst[u.order[p]].args)
      PROVE  u.inst[a].op = "arg" \/ \E q \in 1..(p - 1) : u.order[q] = a
  <2> DEFINE v == u.order[p]
  <2>1. v \in Range(u.order)
    BY DEF Range
  <2>2. Fits(u, v, u.inst[v])
    BY <2>1, LaidOut
  <2>3. Before(u, a, v)
    BY <1>2, <2>2 DEF Fits, Range
  <2>4. CASE Earlier(u.order, a, v)
    <3>1. PICK q, o \in DOMAIN u.order : q < o /\ u.order[q] = a /\ u.order[o] = v
      BY <2>4 DEF Earlier
    <3>2. o = p /\ DOMAIN u.order = 1..Len(u.order) /\ Len(u.order) \in Nat
      BY <3>1 DEF WellFormed, IsInjective
    <3>3. q \in 1..(p - 1)
      BY <3>1, <3>2
    <3> QED BY <3>1, <3>3
  <2> QED BY <2>3, <2>4 DEF Before
<1> QED BY <1>1, <1>2 DEF UnitVerified, DefsBeforeUses

-----------------------------------------------------------------------------
(* Building.                                                               *)

\* The type of what the builder makes of sound arguments and the verifier accepts.
LEMMA BuiltType ==
  ASSUME NEW op, NEW S, \A X \in S : IsTy(X), NEW t \in Seq(S), NEW imms \in Seq(Nat),
         Len(t) \in Arities(op), Len(imms) = NumImms(op),
         Buildable(op, t, imms), Verified(op, t, imms, InstTy(op, t, imms))
  PROVE  IsTy(InstTy(op, t, imms)) /\ op \notin {"arg", "const"}
<1> DEFINE R == InstTy(op, t, imms)
<1>1. DOMAIN t = 1..Len(t) /\ Len(t) \in Nat /\ \A k \in 1..Len(t) : t[k] \in S
  OBVIOUS
<1>2. Len(t) >= 1 => IsTy(t[1])
  BY <1>1
<1>3. CASE op \in UnaryOps \cup BinaryOps \cup ShiftOps \cup {"insf", "inss"}
  <2>1. Len(t) \in {1, 2, 3}
    <3>1. op \in {"insf"} => Arities(op) = {2}
      BY Opcodes DEF Arities, OpSets
    <3> QED BY <1>3, <3>1, Counts
  <2>2. R = t[1]
    BY ONLY <1>3, Results
  <2>3. op \notin {"arg", "const"}
    BY <1>3, Opcodes DEF OpSets
  <2> HIDE DEF R
  <2>4. IsTy(R)
    BY ONLY <1>2, <2>1, <2>2
  <2> QED BY <2>3, <2>4 DEF R
<1>4. CASE op \in CompareOps
  <2>1. R = IntTy(1)
    BY <1>4, Results DEF BoolTy
  <2>2. op \notin {"arg", "const"}
    BY <1>4, Opcodes DEF OpSets
  <2> QED BY <2>1, <2>2, Makers
<1>5. CASE op = "array"
  <2>1. R = ArrayTy(Len(t), t[1])
    BY ONLY <1>5, Results
  <2>2. Len(t) >= 1
    BY <1>1, <1>5, Counts
  <2> QED BY <1>1, <1>2, <1>5, <2>1, <2>2, Makers
<1>6. CASE op = "array_uniform"
  <2>1. R = ArrayTy(imms[1], t[1])
    BY ONLY <1>6, Results
  <2>2. Len(t) = 1 /\ Len(imms) = 1
    BY <1>6, Counts
  <2>3. imms[1] \in Nat
    <3>1. 1 \in DOMAIN imms
      BY <2>2
    <3> QED BY <3>1
  <2> QED BY <1>2, <1>6, <2>1, <2>2, <2>3, Makers
<1>7. CASE op = "struct"
  <2>1. R = StructTy(t)
    BY ONLY <1>7, Results
  <2> QED BY <1>7, <2>1, Makers
<1>8. CASE op = "mux"
  <2>1. Len(t) = 2
    BY <1>8, Counts
  <2>2. R = t[1].of
    BY ONLY <1>8, Results
  <2>3. IsArray(t[1])
    BY <1>8, Checks
  <2>4. IsTy(t[1].of)
    <3>1. IsTy(t[1])
      BY <1>2, <2>1
    <3> QED BY ONLY <2>3, <3>1, Shapes
  <2> QED BY <1>8, <2>2, <2>4
<1>9. CASE op \in {"extf", "exts"}
  <2> DEFINE T == Inner(t[1])
  <2>1. Len(t) = 1
    BY <1>9, Counts
  <2>2. IsTy(T) /\ IsTy(t[1]) /\ \A U : IsTy(U) => IsTy(Rewrap(t[1], U))
    BY <1>2, <2>1, Wrapped
  <2>3. CASE op = "extf"
    <3>1. R = Rewrap(t[1], FieldTy(T, imms[1]))
      BY ONLY <2>3, Results
    <3>2. FieldAccess(T, imms[1])
      BY <2>3, Checks
    <3>3. imms[1] \in Nat
      BY <2>3, Counts
    <3> HIDE DEF T
    <3>4. CASE IsStruct(T)
      <4>1. imms[1] < TyLen(T)
        BY <3>2, <3>4 DEF FieldAccess, IsArray, IsStruct
      <4>2. /\ T.fields \in Seq({T.fields[i] : i \in DOMAIN T.fields}) /\ TyLen(T) = Len(T.fields)
            /\ \A i \in DOMAIN T.fields : IsTy(T.fields[i])
        BY <2>2, <3>4, Shapes
      <4>3. imms[1] + 1 \in DOMAIN T.fields
        BY <3>3, <4>1, <4>2
      <4>4. FieldTy(T, imms[1]) = T.fields[imms[1] + 1]
        BY <3>4 DEF FieldTy
      <4> QED BY <2>2, <2>3, <3>1, <4>2, <4>3, <4>4
    <3>5. CASE ~IsStruct(T)
      <4>1. IsArray(T) /\ FieldTy(T, imms[1]) = T.of
        BY <3>2, <3>5 DEF FieldAccess, FieldTy
      <4>2. IsTy(T.of)
        BY <2>2, <4>1, Shapes
      <4> QED BY <2>2, <2>3, <3>1, <4>1, <4>2
    <3> QED BY <3>4, <3>5
  <2>4. CASE op = "exts"
    <3>1. R = Rewrap(t[1], SliceTy(T, imms[2]))
      BY ONLY <2>4, Results
    <3>2. SliceAccess(T, imms[1], imms[2])
      BY <2>4, Checks
    <3>3. imms[2] \in Nat
      BY <2>4, Counts
    <3>4. IsTy(SliceTy(T, imms[2]))
      BY <2>2, <3>2, <3>3, Slices DEF SliceAccess
    <3> QED BY <2>2, <2>4, <3>1, <3>4
  <2> QED BY <1>9, <2>3, <2>4
<1>10. CASE op \in {"prb", "ld"}
  <2>1. Len(t) = 1
    <3>1. Arities(op) = {1}
      BY <1>10, Opcodes DEF Arities, OpSets
    <3> QED BY <3>1
  <2>2. R = t[1].of
    BY ONLY <1>10, Results
  <2>3. IsSignal(t[1]) \/ IsPointer(t[1])
    BY <1>10 DEF Buildable
  <2>4. IsTy(t[1].of)
    <3>1. IsTy(t[1])
      BY <1>2, <2>1
    <3> DEFINE T == t[1]
    <3> HIDE DEF T
    <3>2. IsTy(T) /\ (IsSignal(T) \/ IsPointer(T))
      BY <2>3, <3>1 DEF T
    <3>3. IsTy(T.of)
      BY ONLY <3>2, Shapes
    <3> QED BY <3>3 DEF T
  <2> QED BY <1>10, <2>2, <2>4
<1>11. CASE op = "var"
  <2>1. Arities("var") = {1}
    BY Opcodes DEF Arities, OpSets
  <2>2. R = PointerTy(t[1])
    BY ONLY <1>11, Results
  <2> QED BY <1>2, <1>11, <2>1, <2>2, Makers
<1>12. CASE op \in {"drv", "st"}
  <2>1. R = VoidTy
    BY ONLY <1>12, Results
  <2> QED BY <1>12, <2>1, Makers
<1>13. op \in UnaryOps \cup BinaryOps \cup ShiftOps \cup CompareOps \cup
         {"insf", "inss", "array", "array_uniform", "struct", "mux", "extf", "exts", "prb", "ld",
          "var", "drv", "st"}
  BY DEF Arities
<1> QED BY ONLY <1>3, <1>4, <1>5, <1>6, <1>7, <1>8, <1>9, <1>10, <1>11, <1>12, <1>13

\* s with n at the end.
LEMMA AppendPlaces ==
  ASSUME NEW S, NEW s \in Seq(S), IsInjective(s), NEW n, n \notin Range(s)
  PROVE  /\ Append(s, n) \in Seq(S \cup {n}) /\ IsInjective(Append(s, n))
         /\ Range(Append(s, n)) = Range(s) \cup {n} /\ Len(Append(s, n)) = Len(s) + 1
         /\ \A a, b : Earlier(s, a, b) => Earlier(Append(s, n), a, b)
         /\ \A a \in Range(s) : Earlier(Append(s, n), a, n)
<1> DEFINE t == Append(s, n)
<1>1. DOMAIN s = 1..Len(s) /\ Len(s) \in Nat
  OBVIOUS
<1>2. s \in Seq(S \cup {n})
  OBVIOUS
<1>3. /\ t \in Seq(S \cup {n}) /\ DOMAIN t = 1..(Len(s) + 1) /\ Len(t) = Len(s) + 1
      /\ t[Len(s) + 1] = n /\ \A i \in 1..Len(s) : t[i] = s[i]
  BY <1>2
<1> HIDE DEF t
<1>4. DOMAIN t = DOMAIN s \cup {Len(s) + 1} /\ \A i \in DOMAIN s : i < Len(s) + 1
  BY <1>1, <1>3
<1>5. Range(t) = Range(s) \cup {n}
  BY ONLY <1>1, <1>3, <1>4 DEF Range
<1>6. IsInjective(t)
  BY ONLY <1>1, <1>3, <1>4, IsInjective(s), n \notin Range(s) DEF IsInjective, Range
<1>7. \A a, b : Earlier(s, a, b) => Earlier(t, a, b)
  BY ONLY <1>1, <1>3, <1>4 DEF Earlier
<1>8. \A a \in Range(s) : Earlier(t, a, n)
  BY ONLY <1>1, <1>3, <1>4 DEF Earlier, Range
<1> QED BY <1>3, <1>5, <1>6, <1>7, <1>8 DEF t

\* The unit with instruction i at the end is well-formed if i is sound.
LEMMA AppendWell ==
  ASSUME NEW u, WellFormed(u), NEW i, i = Inst(i.op, i.args, i.imms, i.ty), IsTy(i.ty),
         i.op \notin {"arg", "const"}, i.args \in Seq(DOMAIN u.inst), Len(i.args) \in Arities(i.op),
         Sound(i.op, ArgTys(u, i.args), i.imms, i.ty),
         NEW w, w = [inst |-> Append(u.inst, i), order |-> Append(u.order, Len(u.inst) + 1)]
  PROVE  WellFormed(w)
<1> DEFINE n == Len(u.inst) + 1
<1>1. /\ u.inst \in Seq(Range(u.inst)) /\ u.order \in Seq(DOMAIN u.inst) /\ IsInjective(u.order)
      /\ \A v \in DOMAIN u.inst : WellInst(u, v)
  BY DEF WellFormed
<1>2. DOMAIN u.inst = 1..Len(u.inst) /\ Len(u.inst) \in Nat
  BY <1>1
<1>3. n \notin DOMAIN u.inst /\ Range(u.order) \subseteq DOMAIN u.inst
  <2>1. n \notin DOMAIN u.inst
    BY <1>2
  <2>2. Range(u.order) \subseteq DOMAIN u.inst
    <3> HIDE DEF n
    <3> QED BY <1>1 DEF Range
  <2> QED BY <2>1, <2>2
<1>4. w.inst = Append(u.inst, i) /\ w.order = Append(u.order, n)
  OBVIOUS
<1>5. /\ Append(u.inst, i) \in Seq(Range(u.inst) \cup {i})
      /\ DOMAIN Append(u.inst, i) = DOMAIN u.inst \cup {n}
      /\ \A v \in DOMAIN u.inst : Append(u.inst, i)[v] = u.inst[v]
      /\ Append(u.inst, i)[n] = i
  <2> DEFINE s == u.inst
             R == Range(u.inst) \cup {i}
  <2>1. s \in Seq(R) /\ i \in R
    BY <1>1
  <2> HIDE DEF s, R
  <2>2. ASSUME s \in Seq(R), i \in R
        PROVE  /\ Append(s, i) \in Seq(R) /\ DOMAIN Append(s, i) = 1..(Len(s) + 1)
               /\ \A v \in 1..Len(s) : Append(s, i)[v] = s[v]
               /\ Append(s, i)[Len(s) + 1] = i
    BY ONLY <2>2
  <2> QED BY ONLY <1>2, <2>1, <2>2 DEF s, R
<1>6. /\ Append(u.order, n) \in Seq(DOMAIN u.inst \cup {n}) /\ IsInjective(Append(u.order, n))
      /\ Range(Append(u.order, n)) = Range(u.order) \cup {n}
      /\ \A a, b : Earlier(u.order, a, b) => Earlier(Append(u.order, n), a, b)
      /\ \A a \in Range(u.order) : Earlier(Append(u.order, n), a, n)
  <2>1. n \notin Range(u.order)
    BY <1>3
  <2> HIDE DEF n
  <2> QED BY ONLY <1>1, <2>1, AppendPlaces
<1> HIDE DEF n
<1>7. /\ DOMAIN w.inst = DOMAIN u.inst \cup {n} /\ w.inst[n] = i
      /\ \A v \in DOMAIN u.inst : w.inst[v] = u.inst[v]
      /\ w.order \in Seq(DOMAIN w.inst) /\ IsInjective(w.order)
      /\ Range(w.order) = Range(u.order) \cup {n}
      /\ \A a, b : Earlier(u.order, a, b) => Earlier(w.order, a, b)
      /\ \A a \in Range(u.order) : Earlier(w.order, a, n)
  BY ONLY <1>4, <1>5, <1>6
<1>8. Range(w.inst) = Range(u.inst) \cup {i}
  BY ONLY <1>3, <1>7 DEF Range
<1>9. w.inst \in Seq(Range(w.inst))
  BY ONLY <1>4, <1>5, <1>8
<1>10. Grows(u, w)
  BY ONLY <1>7 DEF Grows
<1>11. ASSUME NEW v \in DOMAIN u.inst PROVE WellInst(w, v)
  <2>1. v \in Range(w.order) <=> v \in Range(u.order)
    BY ONLY <1>3, <1>7, <1>11
  <2>2. CASE v \in Range(u.order)
    <3>1. Fits(u, v, u.inst[v])
      BY <1>1, <2>2 DEF WellInst
    <3>2. \A a : Before(u, a, v) => Before(w, a, v)
      BY ONLY <1>10, BeforeKept
    <3>3. Fits(w, v, u.inst[v])
      BY ONLY <1>10, <3>1, <3>2, FitsKept
    <3> QED BY <1>7, <2>1, <2>2, <3>3 DEF WellInst
  <2>3. CASE v \notin Range(u.order)
    BY <1>1, <1>7, <2>1, <2>3 DEF WellInst
  <2> QED BY <2>2, <2>3
<1>12. WellInst(w, n)
  <2>1. ArgTys(w, i.args) = ArgTys(u, i.args) /\ i.args \in Seq(DOMAIN w.inst)
    BY ONLY <1>10, i.args \in Seq(DOMAIN u.inst), TypesKept
  <2>2. ASSUME NEW k \in DOMAIN i.args PROVE Before(w, i.args[k], n)
    <3> DEFINE a == i.args[k]
    <3>1. a \in DOMAIN u.inst
      OBVIOUS
    <3> HIDE DEF a
    <3>2. a \in Range(u.order) \/ u.inst[a].op = "arg"
      BY <3>1, ValueFacts
    <3>3. Before(w, a, n)
      BY <1>7, <3>1, <3>2 DEF Before
    <3> QED BY <3>3 DEF a
  <2>3. Fits(w, n, i)
    BY <2>1, <2>2 DEF Fits
  <2> QED BY <1>7, <2>3 DEF WellInst
<1>13. w = [inst |-> w.inst, order |-> w.order]
  OBVIOUS
<1> QED BY ONLY <1>7, <1>9, <1>11, <1>12, <1>13 DEF WellFormed

\* The unit that building starts with.
StartUnit(args, consts) ==
  [inst |-> [v \in DOMAIN args |-> Inst("arg", <<>>, <<>>, args[v])]
            \o [j \in DOMAIN consts |-> ConstInst(consts[j])],
   order |-> [j \in DOMAIN consts |-> Len(args) + j]]

LEMMA StartWell ==
  ASSUME NEW args, NEW consts, args \in Seq(ArgTypes), consts \in Seq(Seq({0, 1}))
  PROVE  WellFormed(StartUnit(args, consts)) /\ Len(StartUnit(args, consts).order) = Len(consts)
<1> DEFINE u == StartUnit(args, consts)
           n == Len(args)
           m == Len(consts)
           A == [v \in DOMAIN args |-> Inst("arg", <<>>, <<>>, args[v])]
           C == [j \in DOMAIN consts |-> ConstInst(consts[j])]
           S == Range(A) \cup Range(C)
<1>1. n \in Nat /\ m \in Nat /\ DOMAIN args = 1..n /\ DOMAIN consts = 1..m
  OBVIOUS
<1>2. u.inst = A \o C /\ u.order = [j \in DOMAIN consts |-> n + j] /\ u = [inst |-> u.inst, order |-> u.order]
  BY DEF StartUnit
<1>3. A \in Seq(S) /\ C \in Seq(S) /\ Len(A) = n /\ Len(C) = m
      /\ DOMAIN A = 1..n /\ DOMAIN C = 1..m
  <2> HIDE DEF n, m
  <2>1. DOMAIN A = 1..n /\ DOMAIN C = 1..m
    BY <1>1
  <2>2. A \in [1..n -> S] /\ C \in [1..m -> S]
    BY <1>1, <2>1 DEF Range
  <2> HIDE DEF A, C, S
  <2> QED BY ONLY <1>1, <2>1, <2>2
<1>4. /\ A \o C \in Seq(S) /\ Len(A \o C) = n + m
      /\ \A v \in 1..(n + m) : (A \o C)[v] = IF v <= n THEN A[v] ELSE C[v - n]
  <2> HIDE DEF A, C, S, n, m
  <2> QED BY ONLY <1>1, <1>3
<1>5. /\ \A v \in 1..n : A[v] = Inst("arg", <<>>, <<>>, A[v].ty) /\ IsTy(A[v].ty)
      /\ \A j \in 1..m : C[j] = ConstInst(consts[j]) /\ consts[j] \in Bits
  <2>1. \A X \in ArgTypes : IsTy(X)
    BY ProfilesAssumption DEF IsTy, Closed
  <2>2. \A v \in 1..n : A[v] = Inst("arg", <<>>, <<>>, args[v]) /\ args[v] \in ArgTypes
    BY <1>1
  <2>3. \A j \in 1..m : C[j] = ConstInst(consts[j]) /\ consts[j] \in Bits
    BY <1>1 DEF Bits
  <2>4. \A v \in 1..n : A[v].ty = args[v]
    BY <2>2 DEF Inst
  <2> HIDE DEF A, C, n, m
  <2> QED BY <2>1, <2>2, <2>3, <2>4
<1> HIDE DEF u, n, m, A, C, S
<1>6. u.inst \in Seq(S) /\ Len(u.inst) = n + m /\ DOMAIN u.inst = 1..(n + m)
  <2> DEFINE s == u.inst
  <2>1. s \in Seq(S) /\ Len(s) = n + m
    BY ONLY <1>2, <1>4
  <2> HIDE DEF s
  <2>2. s \in Seq(S) => DOMAIN s = 1..Len(s)
    OBVIOUS
  <2> QED BY ONLY <2>1, <2>2 DEF s
<1>7. u.inst \in Seq(Range(u.inst))
  <2>1. \A v \in 1..(n + m) : u.inst[v] \in Range(u.inst)
    BY <1>6 DEF Range
  <2> DEFINE s == u.inst
  <2> HIDE DEF s
  <2>2. ASSUME s \in Seq(S), Len(s) = n + m, \A v \in 1..(n + m) : s[v] \in Range(s)
        PROVE  s \in Seq(Range(s))
    BY <2>2
  <2> QED BY <1>6, <2>1, <2>2 DEF s
<1>8. u.order = [j \in 1..m |-> n + j]
  BY <1>1, <1>2
<1>9. /\ Len(u.order) = m /\ DOMAIN u.order = 1..m /\ u.order \in Seq(1..(n + m))
      /\ IsInjective(u.order) /\ \A v \in 1..(n + m) : v \in Range(u.order) <=> v > n
  <2>1. u.order \in [1..m -> 1..(n + m)] /\ DOMAIN u.order = 1..m /\ \A j \in 1..m : u.order[j] = n + j
    BY ONLY <1>1, <1>8
  <2>2. Len(u.order) = m /\ u.order \in Seq(1..(n + m))
    <3> DEFINE s == u.order
    <3> HIDE DEF s
    <3>1. ASSUME NEW T, s \in [1..m -> T], m \in Nat PROVE Len(s) = m /\ s \in Seq(T)
      BY ONLY <3>1
    <3>2. s \in [1..m -> 1..(n + m)] /\ m \in Nat
      BY ONLY <1>1, <2>1 DEF s
    <3> QED BY ONLY <3>1, <3>2 DEF s
  <2>3. IsInjective(u.order)
    BY ONLY <1>1, <2>1 DEF IsInjective
  <2>4. ASSUME NEW v \in 1..(n + m) PROVE v \in Range(u.order) <=> v > n
    <3>1. v > n => v - n \in 1..m /\ v = n + (v - n)
      BY <1>1
    <3>2. v > n => v \in Range(u.order)
      BY <2>1, <3>1 DEF Range
    <3>3. v \in Range(u.order) => v > n
      BY <1>1, <2>1 DEF Range
    <3> QED BY <3>2, <3>3
  <2> QED BY <2>1, <2>2, <2>3, <2>4
<1>10. ASSUME NEW v \in 1..(n + m) PROVE WellInst(u, v)
  <2>1. CASE v <= n
    <3>1. v \in 1..n /\ ~(v > n)
      BY <1>1, <2>1
    <3>2. u.inst[v] = A[v]
      BY <1>2, <1>4, <2>1
    <3>3. u.inst[v] = Inst("arg", <<>>, <<>>, u.inst[v].ty) /\ IsTy(u.inst[v].ty)
      BY <1>5, <3>1, <3>2
    <3>4. v \notin Range(u.order)
      BY <1>9, <3>1
    <3> QED BY <3>3, <3>4 DEF WellInst
  <2>2. CASE v > n
    <3>1. v - n \in 1..m /\ ~(v <= n)
      BY <1>1, <2>2
    <3>2. u.inst[v] = ConstInst(consts[v - n]) /\ consts[v - n] \in Bits
      BY <1>2, <1>4, <1>5, <3>1
    <3>3. Fits(u, v, u.inst[v])
      BY <3>2, ConstFits
    <3> QED BY <1>9, <2>2, <3>3 DEF WellInst
  <2> QED BY <1>1, <2>1, <2>2
<1>11. WellFormed(u) /\ Len(u.order) = m
  BY <1>2, <1>6, <1>7, <1>9, <1>10 DEF WellFormed
<1> QED BY ONLY <1>11 DEF u, m

-----------------------------------------------------------------------------
(* The inductive invariant.                                                 *)
PathInv ==
  /\ profile \in Profiles /\ WellFormed(unit)
  /\ phase = "build" => NumBuilt \in 0..Len(profile.menus)
  /\ phase = "fold" => todo \in Seq(Range(unit.order))

LEMMA InitPath == Init => PathInv
<1> SUFFICES ASSUME Init PROVE PathInv
  OBVIOUS
<1>1. profile \in Profiles /\ phase = "build"
  BY DEF Init
<1>2. profile.args \in Seq(ArgTypes) /\ profile.consts \in Seq(Seq({0, 1})) /\ Len(profile.menus) \in Nat
  BY <1>1, ProfilesAssumption
<1>3. WellFormed(unit) /\ Len(unit.order) = Len(profile.consts)
  <2> DEFINE args == profile.args
             consts == profile.consts
  <2>1. unit = StartUnit(args, consts)
    BY DEF Init, StartUnit
  <2>2. args \in Seq(ArgTypes) /\ consts \in Seq(Seq({0, 1}))
    BY <1>2
  <2> HIDE DEF args, consts
  <2>3. WellFormed(unit) /\ Len(unit.order) = Len(consts)
    BY ONLY <2>1, <2>2, StartWell
  <2> QED BY <2>3 DEF consts
<1>4. Len(profile.consts) \in Nat
  BY <1>2
<1>5. NumBuilt = 0
  BY <1>3, <1>4 DEF NumBuilt
<1> QED BY <1>1, <1>2, <1>3, <1>5 DEF PathInv

LEMMA BuildPath == PathInv /\ Build => PathInv'
<1> SUFFICES ASSUME PathInv, Build PROVE PathInv'
  OBVIOUS
<1>1. /\ profile \in Profiles /\ WellFormed(unit) /\ phase = "build"
      /\ NumBuilt \in 0..Len(profile.menus) /\ NumBuilt # Len(profile.menus)
  BY DEF PathInv, Build, AllBuilt
<1>2. /\ profile.menus \in Seq(SUBSET [op : STRING, arity : Nat, imms : Seq(Nat)])
      /\ \A n \in DOMAIN profile.menus : \A f \in profile.menus[n] :
           f.arity \in Arities(f.op) /\ Len(f.imms) = NumImms(f.op)
      /\ profile.consts \in Seq(Seq({0, 1}))
  BY <1>1, ProfilesAssumption
<1>3. NumBuilt + 1 \in DOMAIN profile.menus /\ NumBuilt + 1 \in 0..Len(profile.menus)
  <2> DEFINE N == NumBuilt
  <2> HIDE DEF N
  <2>1. N \in 0..Len(profile.menus) /\ N # Len(profile.menus)
    BY <1>1 DEF N
  <2>2. DOMAIN profile.menus = 1..Len(profile.menus) /\ Len(profile.menus) \in Nat
    BY <1>2
  <2>3. N + 1 \in DOMAIN profile.menus /\ N + 1 \in 0..Len(profile.menus)
    BY ONLY <2>1, <2>2
  <2> QED BY <2>3 DEF N
<1>f. PICK f \in profile.menus[NumBuilt + 1] :
        \E args \in [1..f.arity -> Values] :
          LET t == ArgTys(unit, args)
              i == Inst(f.op, args, f.imms, InstTy(f.op, t, f.imms))
              v == Len(unit.inst) + 1
          IN /\ Buildable(f.op, t, f.imms) /\ Sliceable(f.op, i.ty)
             /\ Verified(f.op, t, f.imms, i.ty)
             /\ unit' = [inst |-> Append(unit.inst, i), order |-> Append(unit.order, v)]
  BY DEF Build
<1>4. PICK args \in [1..f.arity -> Values] :
        LET t == ArgTys(unit, args)
            i == Inst(f.op, args, f.imms, InstTy(f.op, t, f.imms))
            v == Len(unit.inst) + 1
        IN /\ Buildable(f.op, t, f.imms) /\ Sliceable(f.op, i.ty)
           /\ Verified(f.op, t, f.imms, i.ty)
           /\ unit' = [inst |-> Append(unit.inst, i), order |-> Append(unit.order, v)]
  BY <1>f
<1> DEFINE t == ArgTys(unit, args)
           R == InstTy(f.op, t, f.imms)
           i == Inst(f.op, args, f.imms, R)
           v == Len(unit.inst) + 1
<1>5. i.op = f.op /\ i.args = args /\ i.imms = f.imms /\ i.ty = R
  BY DEF Inst
<1>6. /\ Buildable(f.op, t, f.imms) /\ Sliceable(f.op, R) /\ Verified(f.op, t, f.imms, R)
      /\ unit' = [inst |-> Append(unit.inst, i), order |-> Append(unit.order, v)]
  BY <1>4, <1>5
<1>7. /\ f.arity \in Nat /\ f.imms \in Seq(Nat) /\ f.arity \in Arities(f.op) /\ Len(f.imms) = NumImms(f.op)
  <2> DEFINE F == [op : STRING, arity : Nat, imms : Seq(Nat)]
             n == NumBuilt + 1
  <2>1. n \in DOMAIN profile.menus /\ f \in profile.menus[n]
    BY <1>3
  <2>2. profile.menus \in Seq(SUBSET F)
    BY <1>2
  <2>3. f.arity \in Arities(f.op) /\ Len(f.imms) = NumImms(f.op)
    BY ONLY <1>2, <2>1
  <2> HIDE DEF n
  <2>4. profile.menus[n] \in SUBSET F
    <3> HIDE DEF F
    <3> QED BY ONLY <2>1, <2>2
  <2>5. f \in F
    BY ONLY <2>1, <2>4
  <2> QED BY <2>3, <2>5
<1>8. args \in Seq(DOMAIN unit.inst) /\ Len(args) = f.arity
  <2>1. args \in [1..f.arity -> DOMAIN unit.inst]
    BY DEF Values
  <2> DEFINE D == DOMAIN unit.inst
             m == f.arity
  <2> HIDE DEF D, m
  <2>2. ASSUME args \in [1..m -> D], m \in Nat PROVE args \in Seq(D) /\ Len(args) = m
    BY ONLY <2>2
  <2> QED BY ONLY <1>7, <2>1, <2>2 DEF D, m
<1>9. PICK S : (\A X \in S : IsTy(X)) /\ t \in Seq(S) /\ Len(t) = f.arity
  <2> DEFINE S == {unit.inst[w].ty : w \in DOMAIN unit.inst}
  <2>1. \A X \in S : IsTy(X)
    BY <1>1, ValueFacts
  <2>2. DOMAIN args = 1..f.arity /\ \A k \in 1..f.arity : args[k] \in DOMAIN unit.inst
    BY DEF Values
  <2>3. t \in [1..f.arity -> S]
    BY ONLY <2>2 DEF ArgTys
  <2> DEFINE m == f.arity
  <2> HIDE DEF S, t, m
  <2>4. ASSUME t \in [1..m -> S], m \in Nat PROVE t \in Seq(S) /\ Len(t) = m
    BY ONLY <2>4
  <2>5. t \in Seq(S) /\ Len(t) = f.arity
    BY ONLY <1>7, <2>3, <2>4 DEF m
  <2> QED BY ONLY <2>1, <2>5
<1> HIDE DEF t
<1>10. Buildable(f.op, t, f.imms) /\ Verified(f.op, t, f.imms, InstTy(f.op, t, f.imms)) /\ Len(t) \in Arities(f.op)
  BY ONLY <1>6, <1>7, <1>9
<1>11. IsTy(R) /\ f.op \notin {"arg", "const"}
  <2> HIDE DEF R
  <2> QED BY ONLY <1>7, <1>9, <1>10, BuiltType DEF R
<1>12. Sound(f.op, t, f.imms, R)
  <2>1. f.op # "const"
    BY ONLY <1>11
  <2> QED BY ONLY <1>6, <1>7, <2>1 DEF Sound
<1> HIDE DEF R, i
<1>13. /\ i = Inst(i.op, i.args, i.imms, i.ty) /\ IsTy(i.ty) /\ i.op \notin {"arg", "const"}
       /\ i.args \in Seq(DOMAIN unit.inst) /\ Len(i.args) \in Arities(i.op)
       /\ Sound(i.op, ArgTys(unit, i.args), i.imms, i.ty)
  <2>1. i = Inst(i.op, i.args, i.imms, i.ty)
    BY ONLY <1>5 DEF i
  <2> QED BY ONLY <1>5, <1>7, <1>8, <1>11, <1>12, <2>1 DEF t
<1>14. WellFormed(unit')
  BY ONLY <1>1, <1>6, <1>13, AppendWell
<1>15. profile' = profile /\ phase' = phase
  BY DEF Build
<1>16. Len(unit'.order) = Len(unit.order) + 1
  <2> DEFINE o == unit.order
             D == DOMAIN unit.inst
  <2>1. o \in Seq(D)
    BY <1>1 DEF WellFormed
  <2>2. unit'.order = Append(o, v)
    BY ONLY <1>6
  <2> HIDE DEF o, D, v
  <2>3. Len(Append(o, v)) = Len(o) + 1
    BY ONLY <2>1
  <2> QED BY ONLY <2>2, <2>3 DEF o
<1>17. NumBuilt' = NumBuilt + 1
  <2>1. Len(unit.order) \in Nat /\ Len(profile.consts) \in Nat
    BY <1>1, <1>2 DEF WellFormed
  <2> QED BY ONLY <1>15, <1>16, <2>1 DEF NumBuilt
<1> QED BY ONLY <1>1, <1>3, <1>14, <1>15, <1>17 DEF PathInv

LEMMA FoldPath == PathInv /\ Fold => PathInv'
<1> SUFFICES ASSUME PathInv, Fold PROVE PathInv'
  OBVIOUS
<1>1. /\ profile \in Profiles /\ WellFormed(unit) /\ phase = "fold" /\ todo # <<>>
      /\ todo \in Seq(Range(unit.order)) /\ todo' = Tail(todo) /\ profile' = profile
  BY DEF PathInv, Fold
<1>2. CASE FoldPanics(Head(todo))
  BY <1>1, <1>2 DEF Fold, PathInv
<1>3. CASE ~FoldPanics(Head(todo))
  <2> DEFINE v == Head(todo)
             P == Range(unit.order)
             Q == Range(unit'.order)
  <2>1. unit' = FoldInst(unit, v) /\ phase' = "fold"
    BY <1>1, <1>3 DEF Fold
  <2>2. v \in P /\ Tail(todo) \in Seq(P)
    <3> HIDE DEF P
    <3> QED BY <1>1 DEF P
  <2>3. Extends(unit, unit')
    <3> HIDE DEF v
    <3> QED BY ONLY <1>1, <2>1, <2>2, FoldInstExtends
  <2>4. WellFormed(unit') /\ P \subseteq Q
    BY ONLY <2>3 DEF Extends, Grows
  <2>5. Tail(todo) \in Seq(Q)
    <3> DEFINE s == Tail(todo)
    <3> HIDE DEF P, Q, s
    <3>1. s \in Seq(P) /\ P \subseteq Q => s \in Seq(Q)
      OBVIOUS
    <3> QED BY ONLY <2>2, <2>4, <3>1 DEF s
  <2>6. todo' \in Seq(Range(unit'.order))
    BY ONLY <1>1, <2>5
  <2> QED BY ONLY <1>1, <2>1, <2>4, <2>6 DEF PathInv
<1> QED BY <1>2, <1>3

LEMMA StepPath == PathInv /\ [Next]_vars => PathInv'
<1> SUFFICES ASSUME PathInv, [Next]_vars PROVE PathInv'
  OBVIOUS
<1>1. CASE Build
  BY <1>1, BuildPath
<1>2. CASE StartFolding
  <2>1. unit.order \in Seq(Range(unit.order))
    <3> DEFINE o == unit.order
               D == DOMAIN unit.inst
    <3>1. o \in Seq(D)
      BY DEF PathInv, WellFormed
    <3> HIDE DEF o, D
    <3>2. o \in Seq(D) => o \in Seq(Range(o))
      BY DEF Range
    <3> QED BY ONLY <3>1, <3>2 DEF o
  <2> QED BY <1>2, <2>1 DEF StartFolding, PathInv
<1>3. CASE Fold
  BY <1>3, FoldPath
<1>4. CASE StartRunning
  BY <1>4 DEF StartRunning, PathInv
<1>5. CASE Exec
  <2>1. unit' = unit /\ profile' = profile /\ phase' \notin {"build", "fold"}
    BY <1>5 DEF Exec
  <2> QED BY <2>1 DEF PathInv
<1>6. CASE ApplyEvent
  BY <1>6 DEF ApplyEvent, PathInv
<1>7. CASE UNCHANGED vars
  BY <1>7 DEF vars, PathInv, NumBuilt
<1> QED BY <1>1, <1>2, <1>3, <1>4, <1>5, <1>6, <1>7 DEF Next

(* In every state the unit is well-formed: all that instructions name is    *)
(* there and before them, and its type is what the builder gives them; so   *)
(* it stays when folding inserts and replaces instructions one at a time.   *)
THEOREM PathInvariant == Spec => []PathInv
BY InitPath, StepPath, PTL DEF Spec

(* "types before (lhs) and after (rhs) folding must match" (cf.rs:53), and  *)
(* the folded unit is one that the verifier accepts, for all profiles: of   *)
(* arguments of any types, constants of any width and any menus.            *)
THEOREM FoldingKeepsVerified == Spec => []FoldKeepsVerified
<1>1. PathInv => FoldKeepsVerified
  <2> SUFFICES ASSUME PathInv PROVE FoldKeepsVerified
    OBVIOUS
  <2>1. WellFormed(unit)
    BY DEF PathInv
  <2>2. UnitVerified(unit)
    BY <2>1, WellFormedVerified
  <2>3. ASSUME phase = "fold", todo # <<>> PROVE FoldKeepsType(unit, Head(todo))
    <3> DEFINE v == Head(todo)
               P == Range(unit.order)
    <3>1. v \in P
      <4>1. todo \in Seq(P)
        BY <2>3 DEF PathInv
      <4> HIDE DEF P
      <4> QED BY <2>3, <4>1
    <3> HIDE DEF v
    <3>2. Found(unit, v, Replacement(unit, v))
      BY ONLY <2>1, <3>1, FoundReplacement
    <3>3. FoldKeepsType(unit, v)
      BY ONLY <3>2 DEF Found, FoldKeepsType
    <3> QED BY <3>3 DEF v
  <2> QED BY <2>2, <2>3 DEF FoldKeepsVerified
<1> QED BY <1>1, PathInvariant, PTL
=============================================================================
