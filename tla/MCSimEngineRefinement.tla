----------------------- MODULE MCSimEngineRefinement -----------------------
(***************************************************************************)
(* Instances of SimEngineRefinement for TLC, beside the tracer.            *)
(***************************************************************************)
EXTENDS SimEngineRefinement, VcdTracer, MCSimEngine

QuietDesigns == OneOfEach(Drivers, Readers, Drivers)
                \cup OneOfEach(Resting, Listeners, Resting)
                \cup OneOfEach(Resting, Contenders, Listeners)

(* The hypotheses of the theorems about wake-ups.                          *)
ASSUME QuietAssumption == \A d \in Designs : Verified(d) /\ TimersAlone(d) /\ Wired(d)

(* Both specifications at once; the tracer never holds the engine up.      *)
MCVars == <<traced, past>>
MCInit == HistoryInit /\ TracedInit
MCNext == HistoryNext /\ Watched
MCSpec == MCInit /\ [][MCNext]_MCVars /\ WF_MCVars(MCNext)
=============================================================================
