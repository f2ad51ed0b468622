--------------------------- MODULE MCUnitAnalyses ----------------------------
(* Small units for TLC.                                                     *)
EXTENDS UnitAnalyses

Br(b) == [op |-> "br", to |-> <<b>>]
BrCond(a, b) == [op |-> "br_cond", to |-> <<a, b>>]
Wait(b) == [op |-> "wait", to |-> <<b>>]
Halt == [op |-> "halt", to |-> <<>>]

Jumps(S) == {Br(b) : b \in S} \cup {Wait(b) : b \in S}
            \cup {BrCond(p[1], p[2]) : p \in {q \in S \X S : q[1] <= q[2]}}

(* Every unit of three blocks; the fourth runs from nowhere.                *)
ThreeBlocks == {<<t[1], t[2], t[3], Halt>> : t \in [1..3 -> Jumps(1..3) \cup {Halt}]}

(* Four blocks, the first one not entered again.                            *)
Forward(S) == {Br(b) : b \in S} \cup {Wait(b) : b \in S}
              \cup {BrCond(p[1], p[2]) : p \in {q \in S \X S : q[1] < q[2]}}
FourBlocks == {<<t[1], t[2], t[3], last>> : t \in [1..3 -> Forward(2..4)],
                                            last \in Forward({2, 3}) \cup {Halt}}
MCUnits == ThreeBlocks \cup FourBlocks

(* A process every block of which is run. Blocks 3 and 5 are entered after  *)
(* a wait only, so in the temporal table they are heads like the entry.     *)
TwoWaits == {<<BrCond(2, 7), BrCond(4, 6), BrCond(2, 4), BrCond(2, 8),
               BrCond(2, 6), BrCond(1, 4), Wait(3), Wait(5)>>}
=============================================================================
