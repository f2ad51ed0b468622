------------------------------ MODULE VcdTracer ------------------------------
(***************************************************************************)
(* The value change dump of llhd-sim (src/bin/llhd-sim/tracer/vcd.rs),     *)
(* beside the engine that calls it.  Changes are gathered as long as the   *)
(* physical time stands still, and written when it has moved on or the     *)
(* simulation is over.  The file is what a viewer knows after reading it:  *)
(* the last time stamp and the value of every signal.  All signals have a  *)
(* name, so that each of their lanes has an abbreviation; times are whole  *)
(* picoseconds.                                                            *)
(***************************************************************************)
EXTENDS SimEngine

VARIABLES
  pending,      \* VcdTracer::pending, a function on the signals that changed
  vcdTime,      \* VcdTracer::time
  stamp,        \* the last time stamp in the file, if any
  shown,        \* the values of the signals as of that stamp
  ended         \* history: the physical time that ended last, and its last values

tracer == <<pending, vcdTime, stamp, shown>>
NoStamp == -1
Nothing == [s \in {} |-> {}]

\* init: the header and the initial values.
TracerInit == pending = Nothing /\ vcdTime = 0 /\ stamp = NoStamp /\ shown = sig

Flush ==
  /\ stamp' = vcdTime
  /\ shown' = [s \in Sigs |-> IF s \in DOMAIN pending THEN pending[s] ELSE shown[s]]

\* mutant: what is pending already stays as it was first marked
MarkedOnce(old) ==
  [s \in changed \cup DOMAIN old |-> IF s \in DOMAIN old THEN old[s] ELSE sig[s]]
\* The values of `changed`, next to what is pending already.
Marked(old) ==
  [s \in changed \cup DOMAIN old |-> IF s \in changed THEN sig[s] ELSE old[s]]

TracerStep ==
  IF vcdTime # time[1]
  THEN Flush /\ vcdTime' = time[1] /\ pending' = Marked(Nothing)
  ELSE pending' = Marked(pending) /\ UNCHANGED <<vcdTime, stamp, shown>>

\* finish, once Engine::run has returned.
TracerFinish == Flush /\ pending' = Nothing /\ UNCHANGED vcdTime

\* Engine::step calls the tracer after the wake-ups, main at the end.
Traced ==
  IF phase = "sense" /\ phase' = "exec" THEN TracerStep
  ELSE IF phase # "stopped" /\ phase' = "stopped" THEN TracerFinish
  ELSE UNCHANGED tracer

TracedInit == Init /\ TracerInit /\ ended = [time |-> NoStamp, sig |-> sig]

\* What is seen of a step of the engine.
Watched ==
  /\ Traced
  /\ ended' = IF time'[1] # time[1] THEN [time |-> time[1], sig |-> sig] ELSE ended

TracedNext == Next /\ Watched

traced == <<vars, tracer, ended>>
TracedSpec == TracedInit /\ [][TracedNext]_traced

(* While the instances run, the file shows the values that the signals had *)
(* when the previous physical time was over, under that time: those after  *)
(* its last delta step, none of an earlier one, and none of the time that  *)
(* has begun. In the end it shows the values that the simulation left.     *)
ShowsEndOfTime ==
  /\ phase = "exec" => stamp = ended.time /\ shown = ended.sig
  /\ phase = "stopped" => shown = sig
=============================================================================
