------------------------------ MODULE MCUnitDfg ------------------------------
(* Small units for TLC. A shape says how many operands and blocks an        *)
(* instruction has.                                                        *)
EXTENDS UnitDfg

Shape(k, a, b) == [kind |-> k, args |-> a, bbs |-> b]

(* Constants, drives to a fixed signal, phis and jumps.                     *)
UnitShapes == {Shape("val", 0, 0), Shape("eff", 1, 0), Shape("phi", 2, 2), Shape("term", 0, 1)}

(* Instructions, values and blocks are only compared, but their ids are    *)
(* recycled lowest first, so they are no symmetric sets.                   *)
=============================================================================
