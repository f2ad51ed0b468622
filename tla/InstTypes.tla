------------------------------ MODULE InstTypes ------------------------------
(* Instructions that compute: the type the builder gives them               *)
(* (src/ir/inst.rs:38-635) and the checks of the verifier                   *)
(* (src/verifier.rs:206-416). An instruction is [op, args, imms, ty]; here  *)
(* `t` is the sequence of the types of its arguments.                       *)
EXTENDS Types, IntValue

ShiftOps == {"shl", "shr"}
BoolTy == IntTy(1)

\* InstBuilder: where it does not panic, and the type of the result.
Buildable(op, t, imms) ==
  CASE op = "mux" -> IsArray(t[1])
    [] op = "prb" -> IsSignal(t[1])
    [] op = "ld" -> IsPointer(t[1])
    [] op = "extf" -> LET T == Inner(t[1]) IN
         IF IsStruct(T) THEN imms[1] < TyLen(T) ELSE IsArray(T)
    [] op = "exts" -> IsArray(Inner(t[1])) \/ IsInt(Inner(t[1]))
    [] OTHER -> TRUE

InstTy(op, t, imms) ==
  CASE op \in CompareOps -> BoolTy
    [] op = "array" -> ArrayTy(Len(t), t[1])
    [] op = "array_uniform" -> ArrayTy(imms[1], t[1])
    [] op = "struct" -> StructTy(t)
    [] op = "mux" -> t[1].of
    [] op = "extf" -> Rewrap(t[1], FieldTy(Inner(t[1]), imms[1]))
    [] op = "exts" -> Rewrap(t[1], SliceTy(Inner(t[1]), imms[2]))
    [] op \in {"prb", "ld"} -> t[1].of
    [] op = "var" -> PointerTy(t[1])
    [] op \in {"drv", "st"} -> VoidTy
    [] OTHER -> t[1]

-----------------------------------------------------------------------------
(* The verifier.                                                            *)

\* verify_arith_compatible_ty
Arithmetic(T) == IsInt(T) \/ (IsSignal(T) /\ IsInt(T.of))

\* verify_shift_inst, without the type of the base, which is the result's.
ShiftChecks(base, hidden, amount) ==
  /\ Arithmetic(amount)
  /\ IsSignal(base) = IsSignal(hidden) /\ IsPointer(base) = IsPointer(hidden)
  /\ LET B == Inner(base)
         H == Inner(hidden)
     IN IF IsInt(B) THEN IsInt(H) ELSE IsArray(B) /\ B = H

\* find_insext_field_type: an index beyond a struct is an error, one beyond an
\* array is not.
FieldAccess(T, i) == IsArray(T) \/ (IsStruct(T) /\ i < TyLen(T))
\* find_insext_slice_type
SliceAccess(T, off, len) == (IsArray(T) \/ IsInt(T)) /\ off + len <= TyLen(T)

\* verify_inst for the opcodes of the model.
Verified(op, t, imms, ty) ==
  CASE op \in {"const", "call", "array_uniform"} -> TRUE
    [] op = "array" -> \A i \in DOMAIN t : t[i] = ty.of
    [] op = "struct" -> \A i \in DOMAIN t : t[i] = ty.fields[i]
    [] op \in UnaryOps \cup BinaryOps -> Arithmetic(ty) /\ \A i \in DOMAIN t : t[i] = ty
    [] op \in CompareOps -> ty = BoolTy /\ t[1] = t[2]
    [] op \in ShiftOps -> t[1] = ty /\ ShiftChecks(t[1], t[2], t[3])
    [] op = "mux" -> IsArray(t[1]) /\ t[1].of = ty /\ Arithmetic(t[2])
    [] op = "insf" -> t[1] = ty /\ FieldAccess(ty, imms[1]) /\ t[2] = FieldTy(ty, imms[1])
    [] op = "inss" -> t[1] = ty /\ SliceAccess(ty, imms[1], imms[2]) /\ t[2] = SliceTy(ty, imms[2])
    [] op = "extf" -> /\ FieldAccess(Inner(t[1]), imms[1])
                      /\ ty = Rewrap(t[1], FieldTy(Inner(t[1]), imms[1]))
    [] op = "exts" -> /\ SliceAccess(Inner(t[1]), imms[1], imms[2])
                      /\ ty = Rewrap(t[1], SliceTy(Inner(t[1]), imms[2]))
    [] op = "prb" -> t[1] = SignalTy(ty)
    [] op = "drv" -> t[1] = SignalTy(t[2])
    [] op = "var" -> ty = PointerTy(t[1])
    [] op = "ld" -> t[1] = PointerTy(ty)
    [] op = "st" -> t[1] = PointerTy(t[2])
=============================================================================
