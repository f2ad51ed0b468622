------------------------------- MODULE Optimizer ------------------------------
(* llhd-opt (src/bin/llhd-opt.rs): the passes of a list run one after the   *)
(* other on a unit, each a run_on_unit of src/opt/pass.rs; the unit is      *)
(* verified before and after. A job is a unit and the lists to try on it.   *)
EXTENDS Activation, DeadCodeElim, VarToPhi, CodeMotion, PhiToMux, TemporalMotion, Desequentialize

CONSTANTS Jobs,                                     \* [unit, lists]
          Inputs                                    \* sequences of input states

VARIABLES prog,                 \* the unit
          todo,                 \* the passes still to run
          promised,             \* the outputs of the unit as it was read, for each of Inputs
          panicked
vars == <<prog, todo, promised, panicked>>

\* The outputs for every one of Inputs, as the inputs of p.
Showing(p) == [s \in Inputs |-> Outputs(p, s)]

Init == \E job \in Jobs : LET shown == Showing(job.unit) IN
  /\ prog = job.unit
  /\ todo \in job.lists
  /\ promised = shown
  /\ panicked = FALSE

\* One pass and what it does with the unit; a panic ends the tool.
RunPass(name, done) ==
  /\ todo # <<>> /\ Head(todo) = name /\ ~panicked
  /\ todo' = Tail(todo)
  /\ prog' = IF done.ok THEN Compact(done.p) ELSE prog
  /\ panicked' = ~done.ok
  /\ UNCHANGED promised

\* The hash tables are in either order.
RunCf == \E up \in BOOLEAN : RunPass("cf", Cf(prog, up))
RunVtpp == \E up \in BOOLEAN : RunPass("vtpp", Vtpp(prog, up))
RunDce == \E up \in BOOLEAN : RunPass("dce", Dce(prog, up))
RunGcse == \E up \in BOOLEAN : RunPass("gcse", Gcse(prog, up))
RunEcm == \E up \in BOOLEAN : RunPass("ecm", Ecm(prog, up))
RunTcm == \E up \in BOOLEAN : RunPass("tcm", Tcm(prog, up))
RunCfs == \E up \in BOOLEAN : RunPass("cfs", Cfs(prog, up))
RunInSim == \E up \in BOOLEAN : RunPass("insim", InSim(prog, up))
RunProcLower == \E up \in BOOLEAN : RunPass("proclower", ProcLower(prog, up))
RunDeseq == \E up \in BOOLEAN : RunPass("deseq", Deseq(prog, up))

Next == RunCf \/ RunVtpp \/ RunDce \/ RunGcse \/ RunEcm \/ RunTcm \/ RunCfs \/ RunInSim
          \/ RunProcLower \/ RunDeseq
Spec == Init /\ [][Next]_vars

-----------------------------------------------------------------------------
(* The verifier (src/verifier.rs, inst_dominates_inst of                    *)
(* src/analysis/domtree.rs).                                                *)

InstDominates(p, dt, i, u) ==
  LET a == BlockOf(p, i)
      ways == {k \in DOMAIN p.inst[u].to : p.inst[u].args[k] = i}
  IN \/ i = u
     \/ /\ {i, u} \subseteq Laid(p)
        /\ IF Op(p, u) = "phi" /\ ways # {}
           THEN Dominates(dt, a, p.inst[u].to[CHOOSE k \in ways : \A m \in ways : k <= m])
           ELSE IF a = BlockOf(p, u) THEN PlaceIn(p, i) < PlaceIn(p, u)
           ELSE Dominates(dt, a, BlockOf(p, u))

Verified(p) ==
  LET dt == DomTree(p, PredTbl(p), TRUE) IN
  /\ \A b \in BlocksOf(p) : \A k \in DOMAIN p.body[b] :
       (Op(p, p.body[b][k]) \in Terminators) = (k = Len(p.body[b]))
  /\ \A i \in Laid(p) :
       /\ p.kind = "entity" => Op(p, i) \notin NotInEntity
       /\ Range(p.inst[i].args) \subseteq Laid(p) \cup {v \in DOMAIN p.inst : Op(p, v) \in Ports}
       /\ Range(p.inst[i].to) \subseteq BlocksOf(p)
       /\ \A u \in UsersOf(p, i) : InstDominates(p, dt, i, u)
  /\ \A b \in BlocksOf(p) : p.body[b] # <<>>

\* What llhd-opt reads and does not turn away.
ASSUME JobsAssumption == \A job \in Jobs : Verified(job.unit)

-----------------------------------------------------------------------------
(* Properties.                                                              *)

\* No pass trips over an assertion, an unwrap or an expect, in whichever order its hash
\* tables are: a phi of joined blocks is trivial, a load has a value, a deleted
\* variable is unused, the user of a probe is in a block.
PassesTotal == ~panicked

\* After every pass the verifier accepts the unit: definitions dominate uses although
\* passes move, merge and delete both, no use is left of what is gone, and blocks end in
\* their only terminator.
StaysVerified == ~panicked => Verified(prog)

\* Whatever the passes have done, a unit shows the outputs that the unit as it was read
\* would have shown, for the same inputs, as long as that one came to its waits.
MeaningKept == ~panicked => \A s \in Inputs : IsPrefix(promised[s], Outputs(prog, s))
=============================================================================
