------------------------------- MODULE SimTime -------------------------------
(***************************************************************************)
(* The simulation time of llhd-sim: a physical time, a delta step and an   *)
(* epsilon step, compared lexicographically (the derived Ord of TimeValue  *)
(* in src/value/time.rs), and the instant at which a delay expires         *)
(* (InstContext::time_after_delay in engine.rs).  The physical time is a   *)
(* rational number of seconds in the code; here it counts multiples of the *)
(* greatest common unit of the design's delays.                            *)
(***************************************************************************)
EXTENDS Integers

Times == Nat \X Nat \X Nat
Zero  == <<0, 0, 0>>

TimeLess(a, b) ==
  \/ a[1] < b[1]
  \/ a[1] = b[1] /\ a[2] < b[2]
  \/ a[1] = b[1] /\ a[2] = b[2] /\ a[3] < b[3]

TimeLeq(a, b) == a = b \/ TimeLess(a, b)

AfterDelayAnew(now, delay) ==   \* mutant: deltas are not added to the current one
  << now[1] + delay[1], delay[2], delay[3] >>
AfterDelayShort(now, delay) ==  \* mutant: one epsilon too early
  << now[1] + delay[1],
     (IF delay[1] # 0 THEN 0 ELSE now[2]) + delay[2],
     (IF delay[1] # 0 \/ delay[2] # 0 THEN 0 ELSE now[3]) + delay[3] - 1 >>

(* The delta counter restarts when physical time passes, the epsilon       *)
(* counter when physical time or a delta passes.                           *)
AfterDelay(now, delay) ==
  << now[1] + delay[1],
     (IF delay[1] # 0 THEN 0 ELSE now[2]) + delay[2],
     (IF delay[1] # 0 \/ delay[2] # 0 THEN 0 ELSE now[3]) + delay[3] >>

(* The first key of a BTreeMap whose keys are the members of S.            *)
Earliest(S, t) == t \in S /\ \A u \in S : TimeLeq(t, u)
=============================================================================
