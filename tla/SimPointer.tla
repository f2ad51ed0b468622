----------------------------- MODULE SimPointer ------------------------------
(* The simulator's pointers (src/bin/llhd-sim/state.rs:394-447): sequences  *)
(* of slices, each a selection from a signal, a variable or a value. Shifts *)
(* and accesses only cut and join slices; reading and writing follow them   *)
(* (src/bin/llhd-sim/engine.rs:754-1132). A slice of width 0 is a struct.   *)
EXTENDS InstTypes, SequencesExt

Slice(target, select, width) == [target |-> target, select |-> select, width |-> width]
Field(i) == [how |-> "field", off |-> i, len |-> 1]
Part(off, len) == [how |-> "slice", off |-> off, len |-> len]

Least(a, b) == IF a < b THEN a ELSE b
Clamp(x, w) == IF x < 0 THEN 0 ELSE Least(w, x)

\* pointer_width, and ValuePointer::width.
WidthOf(T) == IF IsStruct(Inner(T)) THEN 0 ELSE TyLen(Inner(T))
\* A signal, variable or value as a whole (resolve_signal_pointer and others).
Whole(target, T) == <<Slice(target, <<>>, WidthOf(T))>>
PtrWidth(p) == FoldLeft(LAMBDA n, s : n + s.width, 0, p)

\* offset_slices: where slice i begins.
Offset(p, i) == PtrWidth(SubSeq(p, 1, i - 1))

\* The part of slice s, which begins at `at`, that lies in [off, off + len).
CutSlice(s, at, off, len) ==
  LET a == Clamp(off - at, s.width)
      e == Clamp(off + len - at, s.width)
  IN IF a = 0 /\ e = s.width THEN <<s>>
     ELSE IF e = a THEN <<>>
     ELSE <<Slice(s.target, Append(s.select, Part(a, e - a)), e - a)>>
CutPtr(p, off, len) == FlattenSeq([i \in DOMAIN p |-> CutSlice(p[i], Offset(p, i), off, len)])

ShiftPtrUnclamped(op, base, hidden, k) ==   \* mutant: the hidden part enters at its other end
  LET amount == Least(PtrWidth(hidden), k)
      kept == PtrWidth(base) - amount
  IN CASE op = "shl" -> CutPtr(hidden, 0, amount) \o CutPtr(base, 0, kept)
       [] op = "shr" -> CutPtr(base, amount, kept) \o CutPtr(hidden, 0, amount)
\* exec_shift
ShiftPtr(op, base, hidden, k) ==
  LET amount == Least(PtrWidth(hidden), k)
      kept == PtrWidth(base) - amount
  IN CASE op = "shl" -> CutPtr(hidden, PtrWidth(hidden) - amount, amount) \o CutPtr(base, 0, kept)
       [] op = "shr" -> CutPtr(base, amount, kept) \o CutPtr(hidden, 0, amount)

\* exec_insext for slices.
SlicePtr(p, off, len) == CutPtr(p, off, len)

HoldersAfter(p, i) ==   \* mutant: not where the slice begins
  {j \in DOMAIN p : p[j].width = 0 \/ (i > Offset(p, j) /\ i < Offset(p, j) + p[j].width)}
\* exec_insext for a field of a target of type T: the first slice that is a
\* struct or holds the index. None is a panic.
Holders(p, i) == {j \in DOMAIN p : p[j].width = 0 \/ (i >= Offset(p, j) /\ i < Offset(p, j) + p[j].width)}
FieldPtr(p, T, i) ==
  LET j == CHOOSE j \in Holders(p, i) : \A m \in Holders(p, i) : j <= m
      F == FieldTy(Inner(T), i)
  IN <<Slice(p[j].target, Append(p[j].select, Field(i - Offset(p, j))), WidthOf(F))>>

-----------------------------------------------------------------------------
(* `content` maps targets to values.                                        *)

\* What one step of a selection chooses.
Chosen(x, sel) ==
  IF sel.how = "field" THEN x[sel.off + 1] ELSE ExtractSlice(x, sel.off, sel.len)
\* read_pointer_slice
ReadSlice(s, content) == FoldLeft(Chosen, content[s.target], s.select)
\* read_pointer, which asserts that the slices make up the whole type.
Complete(p, T) == IsStruct(T) \/ PtrWidth(p) = TyLen(T)
ReadPtr(p, T, content) ==
  IF IsStruct(T) THEN ReadSlice(p[1], content)
  ELSE FlattenSeq([i \in DOMAIN p |-> ReadSlice(p[i], content)])

\* write_pointer_select
WriteSelect(select, into, x) ==
  LET n == Len(select)
      old[k \in 0..n] == IF k = 0 THEN into ELSE Chosen(old[k - 1], select[k])
      new[k \in 0..n] ==
        IF k = n THEN x
        ELSE LET sel == select[k + 1] IN
             IF sel.how = "field" THEN [old[k] EXCEPT ![sel.off + 1] = new[k + 1]]
             ELSE InsertSlice(old[k], sel.off, sel.len, new[k + 1])
  IN new[0]

\* write_pointer: what each slice's target becomes, every one from its old value.
WrittenSlices(p, content, x) ==
  [i \in DOMAIN p |->
     WriteSelect(p[i].select, content[p[i].target],
                 IF p[i].width = 0 THEN x ELSE ExtractSlice(x, Offset(p, i), p[i].width))]

StoredFirst(p, content, x) ==   \* mutant: only the first slice is stored back
  LET store(c, i) == [c EXCEPT ![p[i].target] = WrittenSlices(p, content, x)[i]]
  IN IF p = <<>> THEN content ELSE store(content, 1)
\* The targets are stored back one after the other.
Stored(p, content, x) ==
  LET store(c, i) == [c EXCEPT ![p[i].target] = WrittenSlices(p, content, x)[i]]
  IN FoldLeft(store, content, [i \in DOMAIN p |-> i])
=============================================================================
