--------------------------- MODULE TemporalRegions ---------------------------
(* The temporal region graph of a process (src/analysis/trg.rs): the entry  *)
(* and the targets of waits each root a region, and a queue spreads the     *)
(* regions along the branches.                                              *)
EXTENDS ControlFlow

VARIABLES
  unit,         \* the blocks and their terminators
  todo,         \* blocks whose targets are still to be assigned
  seen,
  region,       \* blocks: block -> region
  nextId,
  tailBlocks,   \* blocks that end in a wait or halt
  regions,      \* TemporalRegionData by region
  phase         \* "spread", "done" or "panicked"

trgVars == <<unit, todo, seen, region, nextId, tailBlocks, regions, phase>>

\* A queue with a set beside it that keeps out what was seen before: o lists
\* elements of s in the order in which they first occur there.
FirstSeen(o, s) ==
  \A i, j \in DOMAIN o : i < j =>
    \E m \in DOMAIN s : s[m] = o[i] /\ \A n \in 1..m : s[n] # o[j]

\* The roots of the regions: the entry, and the targets of temporal terminators
\* in layout order. A wait has one target, a halt none.
RootList(u) ==
  <<Entry>> \o [b \in 1..N |-> IF IsTemporal(u[b]) /\ u[b].to # <<>> THEN u[b].to[1] ELSE Entry]

HeadBlocks == Range(RootList(unit))

TrgInit(u) ==
  \E roots \in SetToSeqs(Range(RootList(u))) :
    /\ FirstSeen(roots, RootList(u))
    /\ unit = u
    /\ todo = roots /\ seen = Range(roots)
    /\ region = [b \in Range(roots) |-> (CHOOSE i \in DOMAIN roots : roots[i] = b) - 1]
    /\ nextId = Len(roots)
    /\ tailBlocks = {} /\ regions = <<>> /\ phase = "spread"

SpreadOver ==   \* mutant: targets that have a region already are moved
  /\ phase = "spread" /\ todo # <<>>
  /\ LET bb == Head(todo)
         to == IF IsTemporal(unit[bb]) THEN <<>> ELSE unit[bb].to
     IN /\ todo' = Tail(todo) \o SelectSeq(to, LAMBDA b : b \notin seen)
        /\ seen' = seen \cup Range(to)
        /\ region' = [b \in seen' |-> IF b \in Range(to) THEN region[bb] ELSE region[b]]
        /\ tailBlocks' = IF IsTemporal(unit[bb]) THEN tailBlocks \cup {bb} ELSE tailBlocks
  /\ UNCHANGED <<unit, nextId, regions, phase>>
\* A block leaves the queue; the targets that were not seen yet join its region.
\* (The code would open a region for a target that has one already, but only
\* asks for targets it has not seen, and those have none.)
Spread ==
  /\ phase = "spread" /\ todo # <<>>
  /\ LET bb == Head(todo)
         to == IF IsTemporal(unit[bb]) THEN <<>> ELSE unit[bb].to
     IN \E fresh \in SetToSeqs(Range(to) \ seen) :
          /\ FirstSeen(fresh, to)
          /\ todo' = Tail(todo) \o fresh
          /\ seen' = seen \cup Range(fresh)
          /\ region' = [b \in seen' |-> IF b \in seen THEN region[b] ELSE region[bb]]
          /\ tailBlocks' = IF IsTemporal(unit[bb]) THEN tailBlocks \cup {bb} ELSE tailBlocks
  /\ UNCHANGED <<unit, nextId, regions, phase>>

-----------------------------------------------------------------------------
RegionDataRoots(r) ==   \* mutant: only the roots are heads
  LET mine == {b \in seen : region[b] = r}
  IN [blocks |-> mine, headBlocks |-> mine \cap HeadBlocks, tailBlocks |-> mine \cap tailBlocks]
\* TemporalRegionData of region r. Heads are the roots and the blocks with a
\* predecessor in another region; tails are the blocks that end the instant or
\* branch to another region. Instructions are named by their block.
RegionData(r) ==
  LET pt == PredTbl(unit)
      mine == {b \in seen : region[b] = r}
      foreign(S) == {b \in S : region[b] # r}
      heads == {b \in mine : b \in HeadBlocks \/ foreign(pt.pred[b]) # {}}
      tails == {b \in mine : b \in tailBlocks \/ foreign(pt.succ[b]) # {}}
  IN [blocks |-> mine, entry |-> region[Entry] = r,
      headBlocks |-> heads, tailBlocks |-> tails,
      headTight |-> \A b \in heads : foreign(pt.pred[b]) = pt.pred[b],
      tailTight |-> \A b \in tails : foreign(pt.succ[b]) = pt.succ[b],
      headInsts |-> UNION {foreign(pt.pred[b]) : b \in mine},
      tailInsts |-> {b \in mine : foreign(pt.succ[b]) # {}}]

\* A predecessor without a region: the index into the map of blocks panics.
LostBlock == \E b \in seen : ~(PredTbl(unit).pred[b] \subseteq seen)

Describe ==
  /\ phase = "spread" /\ todo = <<>>
  /\ IF LostBlock
     THEN phase' = "panicked" /\ UNCHANGED regions
     ELSE /\ regions' = [r \in 0..(nextId - 1) |-> RegionData(r)]
          /\ phase' = "done"
  /\ UNCHANGED <<unit, todo, seen, region, nextId, tailBlocks>>

TrgNext == Spread \/ Describe

IsHead(b) == b \in regions[region[b]].headBlocks
IsTail(b) == b \in regions[region[b]].tailBlocks
=============================================================================
