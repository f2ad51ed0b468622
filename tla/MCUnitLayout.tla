---------------------------- MODULE MCUnitLayout ----------------------------
(* Instances of UnitLayout for TLC. *)
EXTENDS UnitLayoutRefinement, TLC

Symmetry == Permutations(Inst) \cup Permutations(Block)
=============================================================================
