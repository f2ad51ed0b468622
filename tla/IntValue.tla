------------------------------ MODULE IntValue -------------------------------
(* Fixed-width integers: the library's arithmetic (src/value/int.rs), the   *)
(* simulator's copy of it (src/bin/llhd-sim/value.rs), and what the         *)
(* language reference says of both. An integer is the sequence of its bits. *)
EXTENDS Integers, Sequences

\* The number that the bits stand for, the highest ones first.
Num(b) ==
  LET high[k \in 0..Len(b)] == IF k = 0 THEN 0 ELSE 2 * high[k - 1] + b[Len(b) - k + 1]
  IN high[Len(b)]
AllOnes(w) == [i \in 1..w |-> 1]
IsOne(b) == Num(b) = 1
IsZero(b) == \A i \in DOMAIN b : b[i] = 0
IsAllOnes(b) == \A i \in DOMAIN b : b[i] = 1

\* from_unsigned and from_signed, which wrap around 2^w.
FromInt(w, n) == [i \in 1..w |-> IF (n \div 2^(i - 1)) % 2 = 1 THEN 1 ELSE 0]

Negative(b) == b[Len(b)] = 1
\* IntValue::to_signed, and the simulator's, which has the difference the wrong
\* way round.
ToSigned(b) == IF Negative(b) THEN Num(b) - 2^Len(b) ELSE Num(b)
SimToSigned(b) == IF Negative(b) THEN 2^Len(b) - Num(b) ELSE Num(b)

\* BigInt's / and %: the quotient is truncated, the remainder has the sign of a.
Abs(n) == IF n < 0 THEN -n ELSE n
Quot(a, b) == IF (a < 0) = (b < 0) THEN Abs(a) \div Abs(b) ELSE -(Abs(a) \div Abs(b))
Rem(a, b) == a - b * Quot(a, b)

-----------------------------------------------------------------------------
(* Opcodes.                                                                 *)

UnaryOps == {"not", "neg"}
BitOps == {"and", "or", "xor"}
SignedOps == {"sub", "smul", "sdiv", "smod", "srem"}
SignedCompares == {"slt", "sgt", "sle", "sge"}
Divisions == {"sdiv", "smod", "srem", "udiv", "umod", "urem"}
BinaryOps == {"add", "umul", "udiv", "umod", "urem"} \cup BitOps \cup SignedOps
CompareOps == {"eq", "neq", "ult", "ugt", "ule", "uge"} \cup SignedCompares

\* not, neg
UnaryOp(op, a) ==
  CASE op = "not" -> FromInt(Len(a), 2^Len(a) - 1 - Num(a))
    [] op = "neg" -> FromInt(Len(a), 2^Len(a) - Num(a))

BitOp(op, a, b) ==
  [i \in DOMAIN a |->
     CASE op = "and" -> a[i] * b[i]
       [] op = "or" -> IF a[i] + b[i] > 0 THEN 1 ELSE 0
       [] op = "xor" -> (a[i] + b[i]) % 2]

\* The operations both copies share; x and y are the operands as signed numbers.
Arith(op, a, b, x, y) ==
  CASE op = "add" -> Num(a) + Num(b)
    [] op = "umul" -> Num(a) * Num(b)
    [] op = "udiv" -> Num(a) \div Num(b)
    [] op \in {"umod", "urem"} -> Num(a) % Num(b)
    [] op = "sub" -> x - y
    [] op = "smul" -> x * y
    [] op = "sdiv" -> Quot(x, y)
    [] op \in {"srem", "smod"} -> Rem(x, y)

\* IntValue::smod corrects the remainder if the operands differ in sign.
Smod(x, y) ==
  IF Rem(x, y) # 0 /\ (x < 0) # (y < 0) THEN Rem(x, y) + y ELSE Rem(x, y)

\* IntValue::binary_op of the library and of the simulator.
BinaryOp(op, a, b) ==
  IF op \in BitOps THEN BitOp(op, a, b)
  ELSE FromInt(Len(a), IF op = "smod" THEN Smod(ToSigned(a), ToSigned(b))
                       ELSE Arith(op, a, b, ToSigned(a), ToSigned(b)))
SimBinaryOp(op, a, b) ==
  IF op \in BitOps THEN BitOp(op, a, b)
  ELSE FromInt(Len(a), Arith(op, a, b, SimToSigned(a), SimToSigned(b)))

Compare(op, a, b, x, y) ==
  LET holds == CASE op = "eq" -> a = b
                 [] op = "neq" -> a # b
                 [] op = "ult" -> Num(a) < Num(b)
                 [] op = "ugt" -> Num(a) > Num(b)
                 [] op = "ule" -> Num(a) <= Num(b)
                 [] op = "uge" -> Num(a) >= Num(b)
                 [] op = "slt" -> x < y
                 [] op = "sgt" -> x > y
                 [] op = "sle" -> x <= y
                 [] op = "sge" -> x >= y
  IN IF holds THEN <<1>> ELSE <<0>>
CompareOp(op, a, b) == Compare(op, a, b, ToSigned(a), ToSigned(b))
SimCompareOp(op, a, b) == Compare(op, a, b, SimToSigned(a), SimToSigned(b))

\* extract_slice and insert_slice, on the bits of an integer or the elements of
\* an array alike. Beyond an integer there are zeros; the slice of an array lies
\* within it, its shifts being between arrays of one length.
ExtractSlice(x, off, len) ==
  [i \in 1..len |-> IF off + i \in DOMAIN x THEN x[off + i] ELSE 0]
InsertSlice(x, off, len, y) ==
  [i \in DOMAIN x |-> IF i > off /\ i <= off + len THEN y[i - off] ELSE x[i]]

-----------------------------------------------------------------------------
(* What the language reference says (doc/LANGUAGE.md:660-790).              *)

\* The representative of x in two's complement, which the width determines.
Value(b) == CHOOSE n \in -(2^(Len(b) - 1))..(2^(Len(b) - 1) - 1) : n % 2^Len(b) = Num(b)
FloorDiv(a, b) == IF b < 0 THEN (-a) \div (-b) ELSE a \div b

RefUnary(op, a) ==
  CASE op = "not" -> [i \in DOMAIN a |-> 1 - a[i]]
    [] op = "neg" -> FromInt(Len(a), -Value(a))
RefBinary(op, a, b) ==
  IF op \in BitOps THEN BitOp(op, a, b)
  ELSE FromInt(Len(a),
    CASE op = "add" -> Value(a) + Value(b)
      [] op = "sub" -> Value(a) - Value(b)
      [] op \in {"umul", "smul"} -> Value(a) * Value(b)
      [] op = "udiv" -> Num(a) \div Num(b)
      [] op \in {"umod", "urem"} -> Num(a) - Num(b) * (Num(a) \div Num(b))
      [] op = "sdiv" -> Quot(Value(a), Value(b))
      [] op = "srem" -> Value(a) - Value(b) * Quot(Value(a), Value(b))
      [] op = "smod" -> Value(a) - Value(b) * FloorDiv(Value(a), Value(b)))
RefCompare(op, a, b) == Compare(op, a, b, Value(a), Value(b))
=============================================================================
