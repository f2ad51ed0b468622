-------------------------------- MODULE Types --------------------------------
(* Types and values of the IR (src/ty.rs). A type is a record with its kind *)
(* first; the values of every type are nested sequences: an integer is the  *)
(* sequence of its bits, the lowest one first, an array or struct the       *)
(* sequence of its elements or fields.                                      *)
EXTENDS Naturals, Sequences

IntTy(w) == [k |-> "int", w |-> w]
ArrayTy(n, T) == [k |-> "array", w |-> n, of |-> T]
StructTy(ts) == [k |-> "struct", fields |-> ts]
SignalTy(T) == [k |-> "signal", of |-> T]
PointerTy(T) == [k |-> "pointer", of |-> T]
VoidTy == [k |-> "void"]

IsInt(T) == T.k = "int"
IsArray(T) == T.k = "array"
IsStruct(T) == T.k = "struct"
IsSignal(T) == T.k = "signal"
IsPointer(T) == T.k = "pointer"

\* The type behind a signal or pointer, and the same wrapping for another type
\* (with_unpacked_sigptr).
Inner(T) == IF IsSignal(T) \/ IsPointer(T) THEN T.of ELSE T
Rewrap(T, U) == IF IsSignal(T) \/ IsPointer(T) THEN [T EXCEPT !.of = U] ELSE U

\* Type::len
TyLen(T) == CASE IsInt(T) \/ IsArray(T) -> T.w
              [] IsStruct(T) -> Len(T.fields)
              [] OTHER -> 0

\* The type of element or field i, counted from 0.
FieldTy(T, i) == IF IsStruct(T) THEN T.fields[i + 1] ELSE T.of
SliceTy(T, len) == [T EXCEPT !.w = len]

\* The types of the model whose components are in S.
TypesOver(S) ==
  [k : {"int"}, w : Nat] \cup [k : {"array"}, w : Nat, of : S] \cup
  [k : {"struct"}, fields : Seq(S)] \cup [k : {"signal", "pointer"}, of : S] \cup {VoidTy}
=============================================================================
