----------------------------- MODULE ControlFlow -----------------------------
(* Control flow of a unit as its analyses see it (src/analysis/preds.rs):   *)
(* blocks with their terminators, and the predecessor tables. A unit maps a *)
(* block to its terminator [op, to], where `to` lists the blocks of the     *)
(* instruction. The layout lists the blocks in the order of their ids.      *)
EXTENDS Naturals, Sequences, FiniteSets, SequencesExt

CONSTANT N                       \* number of blocks
ASSUME NAssumption == N \in Nat \ {0}

Blocks == 1..N
Entry == 1                       \* Unit::entry, the first block of the layout

\* Opcode::is_temporal
IsTemporal(t) == t.op \in {"wait", "halt"}

\* PredecessorTable: all successors, or those reached in the same instant.
Table(succ) == [succ |-> succ, pred |-> [b \in Blocks |-> {a \in Blocks : b \in succ[a]}]]
PredTbl(unit) == Table([b \in Blocks |-> Range(unit[b].to)])
TemporalPredTbl(unit) ==
  Table([b \in Blocks |-> IF IsTemporal(unit[b]) THEN {} ELSE Range(unit[b].to)])

-----------------------------------------------------------------------------
(* Reference notions over a table, by exhaustion.                           *)

\* The blocks reached from those of S without entering those of Avoid.
Reach(tbl, S, Avoid) ==
  LET step[i \in 0..N] ==
        IF i = 0 THEN S \ Avoid
        ELSE step[i - 1] \cup ((UNION {tbl.succ[a] : a \in step[i - 1]}) \ Avoid)
  IN step[N]

\* Where execution or the analysis may begin.
Heads(tbl) == {Entry} \cup {b \in Blocks : tbl.pred[b] = {}}

\* Blocks no head leads to: a cycle that nothing enters.
Orphans(tbl) == Blocks \ Reach(tbl, Heads(tbl), {})

\* Every path from head h to b passes through d.
OnEveryPath(tbl, h, d, b) == b \notin Reach(tbl, {h}, {d})
=============================================================================
