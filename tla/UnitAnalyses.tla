---------------------------- MODULE UnitAnalyses -----------------------------
(* The analyses that temporal code motion asks for, over one unit           *)
(* (src/pass/tcm.rs:33-38, src/ir/unit.rs:281-314): the temporal region     *)
(* graph, and a dominator tree from either predecessor table.               *)
EXTENDS DomTree, TemporalRegions

CONSTANT Units                   \* the units that are analysed
Terminators == [op : {"br", "br_cond", "ret", "wait", "halt"}, to : Seq(Blocks)]
ASSUME UnitsAssumption == Units \subseteq [Blocks -> Terminators]

vars == <<domVars, trgVars>>

Init ==
  /\ \E u \in Units : /\ TrgInit(u)
                      /\ \E table \in {PredTbl(u), TemporalPredTbl(u)} : DomInit(table)

Regions == TrgNext /\ UNCHANGED domVars
Tree == phase # "spread" /\ DomNext /\ UNCHANGED trgVars
Next == Regions \/ Tree

Spec == Init /\ [][Next]_vars

\* The analyses run on one thread until they have an answer.
FairSpec == Spec /\ WF_vars(Next)

Temporal == tbl = TemporalPredTbl(unit)

-----------------------------------------------------------------------------
(* "Records for every block which other blocks in the CFG *have* to be      *)
(* traversed to reach it" (domtree.rs:15), whatever order the hash sets are *)
(* iterated in: exact for every block that a single head leads to, and the  *)
(* two ways to ask agree on it, the sets (domtree.rs:182) and the climb     *)
(* (domtree.rs:217).                                                        *)
DominatorsRight ==
  pc = "done" =>
    \A b \in Blocks :
      LET above == {h \in Roots : b \in Reach(tbl, {h}, {})}
      IN Cardinality(above) = 1 =>
           /\ dominated[b] = {d \in Blocks : \A h \in above : OnEveryPath(tbl, h, d, b)}
           /\ \A p \in Blocks : Dominates(p, b) <=> BlockDominatesBlock(p, b)

(* The construction fails exactly for the units with a cycle of blocks that *)
(* no head leads to (the indices at domtree.rs:79, 109 and 120).            *)
PanicsOnOrphans ==
  /\ pc = "panicked" => Orphans(tbl) # {}
  /\ pc = "done" => Orphans(tbl) = {}

(* Every block belongs to the region of a root that leads to it without     *)
(* leaving the region and without a wait in between (trg.rs:55-79).         *)
RegionsRooted ==
  phase = "done" =>
    \A b \in DOMAIN region :
      \E root \in HeadBlocks :
        /\ region[root] = region[b]
        /\ b \in Reach(TemporalPredTbl(unit), {root}, {c \in seen : region[c] # region[b]})

(* Temporal code motion hoists a probe into the only head of its region     *)
(* (tcm.rs:39-71). That head runs before every block of the region in each  *)
(* instant, and the temporal dominator tree says so.                        *)
SingleHeadDominates ==
  phase = "done" /\ pc = "done" /\ Temporal =>
    \A r \in DOMAIN regions :
      Cardinality(regions[r].headBlocks) = 1 =>
        \A h \in regions[r].headBlocks, b \in regions[r].blocks : Dominates(h, b)

(* The sweeps end (`while changed`, domtree.rs:69) for every iteration      *)
(* order, where a single head leads to each block: then the intersections   *)
(* only ever climb.                                                         *)
SingleHead ==
  \A b \in Blocks : \E h \in Roots : \A k \in Roots \ {h} : b \notin Reach(tbl, {k}, {})
SingleHeadEnds == SingleHead => <>(pc \in {"done", "panicked"})

(* "Compute the dominator tree of a function or process" (domtree.rs:33):   *)
(* the sweeps end for every control flow. A finger that is stuck at a root  *)
(* gives up (domtree.rs:85, 90), and what it returns need not be an         *)
(* ancestor of both predecessors, so two sweeps can undo each other.        *)
TreeEnds == <>(pc \in {"done", "panicked"})

=============================================================================
