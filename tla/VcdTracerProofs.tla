--------------------------- MODULE VcdTracerProofs ---------------------------
(***************************************************************************)
(* What the value change dump shows is what the signals were, for every    *)
(* design, every step limit, and every order of the hash maps.             *)
(***************************************************************************)
EXTENDS VcdTracer, SimEngineProofs

(* What a viewer would know if the tracer were to flush now.               *)
View == [s \in Sigs |-> IF s \in DOMAIN pending THEN pending[s] ELSE shown[s]]

(* Between two steps the tracer knows the signals.  While the events are   *)
(* applied it knows those that did not change.                             *)
Known ==
  /\ phase \in {"idle", "exec"} => View = sig
  /\ phase \in {"apply", "sense"} => \A s \in Sigs \ changed : View[s] = sig[s]

(* The file is as of the last physical time, or will be with a flush,      *)
(* which is due in the first step of a physical time.                      *)
Recorded ==
  IF vcdTime = time[1] THEN stamp = ended.time /\ shown = ended.sig
                       ELSE vcdTime = ended.time /\ View = ended.sig

TraceInv ==
  /\ pending = [s \in DOMAIN pending |-> pending[s]] /\ DOMAIN pending \subseteq Sigs
  /\ shown = [s \in Sigs |-> shown[s]]
  /\ Known
  /\ phase \in {"idle", "apply", "sense", "exec"} => Recorded
  /\ phase = "exec" => vcdTime = time[1]
  /\ phase = "stopped" => shown = sig

LEMMA TraceInit == TypeOK /\ TracedInit => TraceInv
<1> SUFFICES ASSUME TypeOK, TracedInit PROVE TraceInv
  OBVIOUS
<1>1. phase = "idle" /\ time = <<0, 0, 0>> /\ sig \in [Sigs -> Values]
  BY DEF TracedInit, Init, Zero, TypeOK
<1>2. DOMAIN pending = {} /\ pending = [s \in DOMAIN pending |-> pending[s]]
  BY DEF TracedInit, TracerInit, Nothing
<1>3. View = sig
  BY <1>1, <1>2 DEF View, TracedInit, TracerInit
<1>4. vcdTime = time[1] /\ stamp = ended.time /\ shown = ended.sig
  BY <1>1 DEF TracedInit, TracerInit, NoStamp
<1>5. Known /\ Recorded
  BY <1>1, <1>3, <1>4 DEF Known, Recorded
<1> QED BY <1>1, <1>2, <1>4, <1>5 DEF TraceInv, TracedInit, TracerInit

(* A step of the engine that neither calls the tracer nor moves the time.  *)
LEMMA TraceQuiet ==
  ASSUME TraceInv, UNCHANGED tracer, UNCHANGED <<time, ended>>,
         \/ UNCHANGED <<phase, sig, changed>>
         \/ phase = "exec" /\ phase' \in {"exec", "panic"} /\ UNCHANGED <<sig, changed>>
         \/ phase = "idle" /\ phase' = "apply" /\ UNCHANGED sig
         \/ phase = "apply" /\ phase' = "sense" /\ UNCHANGED <<sig, changed>>
  PROVE  TraceInv'
<1>1. View' = View /\ (Recorded' <=> Recorded)
  BY DEF View, Recorded, tracer
<1>2. Known'
  BY <1>1 DEF TraceInv, Known
<1> QED BY <1>1, <1>2 DEF TraceInv, tracer

(* An event changes no signal but its own, which is marked if it changes.  *)
LEMMA TraceApply ==
  ASSUME TypeOK, TraceInv, ApplyEvent, UNCHANGED tracer, UNCHANGED ended
  PROVE  TraceInv'
<1>1. phase = "apply" /\ phase' = "apply" /\ time' = time
  BY DEF ApplyEvent
<1>2. View' = View /\ (Recorded' <=> Recorded)
  BY <1>1 DEF View, Recorded, tracer
<1>3. \A s \in Sigs \ changed' : s \notin changed /\ sig'[s] = sig[s]
  <2>1. PICK e \in due :
          LET new == Written(sig[e.ptr.sig], e.ptr, e.val)
          IN /\ sig' = [sig EXCEPT ![e.ptr.sig] = new]
             /\ changed' = IF new # sig[e.ptr.sig] THEN changed \cup {e.ptr.sig} ELSE changed
    BY DEF ApplyEvent
  <2> DEFINE new == Written(sig[e.ptr.sig], e.ptr, e.val)
  <2>2. sig \in [Sigs -> Values]
    BY DEF TypeOK
  <2> HIDE DEF new
  <2>3. /\ sig' = [sig EXCEPT ![e.ptr.sig] = new]
        /\ changed' = IF new # sig[e.ptr.sig] THEN changed \cup {e.ptr.sig} ELSE changed
    BY <2>1 DEF new
  <2> QED BY <2>2, <2>3
<1>4. Known'
  BY <1>1, <1>2, <1>3 DEF TraceInv, Known
<1> QED BY <1>1, <1>2, <1>4 DEF TraceInv, tracer

(* The tracer is called: what it marks makes up for what was applied.      *)
LEMMA TraceStep ==
  ASSUME TypeOK, TraceInv, WakeSensed, TracerStep, UNCHANGED ended
  PROVE  TraceInv'
<1>1. /\ phase = "sense" /\ phase' = "exec"
      /\ UNCHANGED <<time, sig, changed>>
      /\ sig \in [Sigs -> Values] /\ changed \subseteq Sigs
  BY DEF WakeSensed, TypeOK
<1>2. \A s \in Sigs \ changed : View[s] = sig[s]
  BY <1>1 DEF TraceInv, Known
<1>3. CASE vcdTime = time[1]
  <2>1. pending' = Marked(pending) /\ UNCHANGED <<vcdTime, stamp, shown>>
    BY <1>3 DEF TracerStep
  <2>2. /\ DOMAIN pending' = changed \cup DOMAIN pending
        /\ pending' = [s \in DOMAIN pending' |-> pending'[s]]
        /\ \A s \in DOMAIN pending' : pending'[s] = IF s \in changed THEN sig[s] ELSE pending[s]
    BY <2>1 DEF Marked
  <2>3. \A s \in Sigs : View'[s] = sig'[s]
    BY <1>1, <1>2, <2>1, <2>2 DEF View
  <2>4. View' = sig'
    BY <1>1, <2>3 DEF View
  <2>5. Recorded' /\ Known'
    BY <1>1, <1>3, <2>1, <2>4 DEF TraceInv, Recorded, Known
  <2> QED BY <1>1, <1>3, <2>1, <2>2, <2>5 DEF TraceInv
<1>4. CASE vcdTime # time[1]
  <2>1. /\ stamp' = vcdTime /\ shown' = View /\ vcdTime' = time[1]
        /\ pending' = Marked(Nothing)
    BY <1>4 DEF TracerStep, Flush, View
  <2>2. /\ DOMAIN pending' = changed
        /\ pending' = [s \in DOMAIN pending' |-> pending'[s]]
        /\ \A s \in DOMAIN pending' : pending'[s] = sig[s]
    BY <2>1 DEF Marked, Nothing
  <2>3. \A s \in Sigs : View'[s] = sig'[s]
    BY <1>1, <1>2, <2>1, <2>2 DEF View
  <2>4. View' = sig'
    BY <1>1, <2>3 DEF View
  <2>5. Recorded' /\ Known'
    BY <1>1, <1>4, <2>1, <2>4 DEF TraceInv, Recorded, Known
  <2>6. shown' = [s \in Sigs |-> shown'[s]]
    BY <2>1 DEF View
  <2> QED BY <1>1, <2>1, <2>2, <2>5, <2>6 DEF TraceInv
<1> QED BY <1>3, <1>4

(* The end of the simulation.                                              *)
LEMMA TraceFinish ==
  ASSUME TypeOK, TraceInv, phase \in {"idle", "exec"}, phase' = "stopped",
         TracerFinish, UNCHANGED sig
  PROVE  TraceInv'
<1>1. shown' = View /\ View = sig /\ pending' = Nothing
  BY DEF TracerFinish, Flush, View, TraceInv, Known
<1>2. DOMAIN pending' = {} /\ pending' = [s \in DOMAIN pending' |-> pending'[s]]
  BY <1>1 DEF Nothing
<1>3. shown' = [s \in Sigs |-> shown'[s]]
  BY <1>1 DEF View
<1> QED BY <1>1, <1>2, <1>3 DEF TraceInv, Known

(* The time moves on: the physical time that is over may have changes that *)
(* are not in the file yet.                                                *)
LEMMA TraceEndStep ==
  ASSUME TypeOK, TraceInv, EndStep, phase' = "idle", UNCHANGED tracer,
         ended' = IF time'[1] # time[1] THEN [time |-> time[1], sig |-> sig] ELSE ended
  PROVE  TraceInv'
<1>1. phase = "exec" /\ UNCHANGED sig /\ View = sig /\ vcdTime = time[1] /\ Recorded
  BY DEF EndStep, TraceInv, Known
<1>2. View' = View
  BY DEF View, tracer
<1>3. Recorded'
  BY <1>1, <1>2 DEF Recorded, tracer
<1> QED BY <1>1, <1>2, <1>3 DEF TraceInv, Known, tracer

LEMMA TraceNext == EngineInv /\ TraceInv /\ [TracedNext]_traced => TraceInv'
<1> SUFFICES ASSUME EngineInv, TraceInv, [TracedNext]_traced PROVE TraceInv'
  OBVIOUS
<1> USE DEF EngineInv
<1>1. CASE UNCHANGED traced
  BY <1>1, TraceQuiet DEF traced, vars, locals
<1> SUFFICES ASSUME TracedNext PROVE TraceInv'
  BY <1>1
<1>2. /\ Next /\ Traced
      /\ ended' = IF time'[1] # time[1] THEN [time |-> time[1], sig |-> sig] ELSE ended
  BY DEF TracedNext, Watched
<1>3. CASE BeginStep
  BY <1>2, <1>3, TraceQuiet DEF BeginStep, Traced
<1>4. CASE LimitReached
  BY <1>2, <1>4, TraceFinish DEF LimitReached, Traced
<1>5. CASE ApplyEvent
  <2>1. UNCHANGED tracer /\ UNCHANGED ended
    BY <1>2, <1>5 DEF ApplyEvent, Traced
  <2> QED BY <1>5, <2>1, TraceApply
<1>6. CASE WakeTimed
  BY <1>2, <1>6, TraceQuiet DEF WakeTimed, Traced, locals
<1>7. CASE WakeSensed
  <2>1. TracerStep /\ UNCHANGED ended
    BY <1>2, <1>7 DEF WakeSensed, Traced
  <2> QED BY <1>7, <2>1, TraceStep
<1>8. ASSUME NEW i \in Insts, Exec(i) PROVE TraceInv'
  <2>1. Executed(i)
    BY <1>8, ExecEffect
  <2>2. UNCHANGED <<time, sig, changed>> /\ phase = "exec" /\ phase' \in {"exec", "panic"}
    BY <2>1 DEF Executed
  <2>3. UNCHANGED tracer /\ UNCHANGED ended
    BY <1>2, <2>2 DEF Traced
  <2> QED BY <2>2, <2>3, TraceQuiet
<1>9. CASE EndStep
  <2>1. phase = "exec" /\ phase' \in {"idle", "stopped"} /\ UNCHANGED sig
    BY <1>9 DEF EndStep
  <2>2. CASE phase' = "stopped"
    <3>1. TracerFinish
      BY <1>2, <2>1, <2>2 DEF Traced
    <3> QED BY <2>1, <2>2, <3>1, TraceFinish
  <2>3. CASE phase' = "idle"
    <3>1. UNCHANGED tracer
      BY <1>2, <2>1, <2>3 DEF Traced
    <3> QED BY <1>2, <1>9, <2>3, <3>1, TraceEndStep
  <2> QED BY <2>1, <2>2, <2>3
<1>10. CASE Over
  <2>1. UNCHANGED <<phase, sig, changed, time>> /\ UNCHANGED tracer /\ UNCHANGED ended
    BY <1>2, <1>10 DEF Over, vars, locals, Traced
  <2> QED BY <2>1, TraceQuiet
<1> QED BY <1>2, <1>3, <1>4, <1>5, <1>6, <1>7, <1>8, <1>9, <1>10 DEF Next

(* The dump of llhd-sim: under every time stamp the values that the        *)
(* signals had when that physical time was over, in the end those that the *)
(* simulation left, whatever the design and the step limit, and in         *)
(* whichever order changes are applied and gathered.                       *)
THEOREM TraceFaithful == TracedSpec => []ShowsEndOfTime
<1>1. TracedInit => Init
  BY DEF TracedInit
<1>2. [TracedNext]_traced => [Next]_vars
  BY DEF TracedNext, traced
<1>3. TracedSpec => Spec
  BY <1>1, <1>2, PTL DEF TracedSpec, Spec
<1>4. TracedInit => TraceInv
  BY <1>1, TypeInit, TraceInit
<1>5. TraceInv => ShowsEndOfTime
  BY DEF TraceInv, Recorded, ShowsEndOfTime
<1> QED BY <1>3, <1>4, <1>5, TraceNext, EngineCorrect, PTL DEF TracedSpec
=============================================================================
