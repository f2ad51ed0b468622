--------------------------- MODULE SimEngineProofs ---------------------------
(***************************************************************************)
(* Theorems about the execution engine, for every design, every number of  *)
(* instances, every step limit, sequential and parallel.                   *)
(***************************************************************************)
EXTENDS SimEngine, FiniteSetTheorems, TLAPS

-----------------------------------------------------------------------------
(* Simulation time.                                                        *)

LEMMA TimeOrder ==
  ASSUME NEW a \in Times, NEW b \in Times, NEW c \in Times
  PROVE  /\ TimeLeq(a, a)
         /\ TimeLess(a, b) => TimeLeq(a, b)
         /\ TimeLeq(a, b) /\ a # b => TimeLess(a, b)
         /\ TimeLeq(a, b) /\ TimeLeq(b, c) => TimeLeq(a, c)
         /\ ~TimeLess(a, a)
  BY DEF Times, TimeLeq, TimeLess

LEMMA DelayAhead ==
  ASSUME NEW now \in Times, NEW delay \in Times
  PROVE  AfterDelay(now, delay) \in Times /\ TimeLeq(now, AfterDelay(now, delay))
<1>1. /\ now = <<now[1], now[2], now[3]>>
      /\ delay = <<delay[1], delay[2], delay[3]>>
      /\ now[1] \in Nat /\ now[2] \in Nat /\ now[3] \in Nat
      /\ delay[1] \in Nat /\ delay[2] \in Nat /\ delay[3] \in Nat
  BY DEF Times
<1>2. CASE delay[1] # 0
  BY <1>1, <1>2 DEF AfterDelay, Times, TimeLeq, TimeLess
<1>3. CASE delay[1] = 0 /\ delay[2] # 0
  BY <1>1, <1>3 DEF AfterDelay, Times, TimeLeq, TimeLess
<1>4. CASE delay[1] = 0 /\ delay[2] = 0
  BY <1>1, <1>4 DEF AfterDelay, Times, TimeLeq, TimeLess
<1> QED BY <1>2, <1>3, <1>4

-----------------------------------------------------------------------------
(* Types.                                                                  *)

(* The design under simulation is one of the design space.                 *)
LEMMA DesignTyped ==
  ASSUME TypeOK
  PROVE  /\ design.init \in [Sigs -> Values]
         /\ design.code \in [Insts -> Seq(Seq(Instrs))]
         /\ design.flows \in [Insts -> Seq(Flows)]
         /\ design.ports \in [Insts -> SUBSET Sigs]
BY DesignAssumption DEF TypeOK, DesignSpace

LEMMA InstrTyped ==
  ASSUME TypeOK, NEW i \in Insts, AtInstr(i)
  PROVE  Instr(i) \in Instrs
BY DesignTyped DEF AtInstr, Instr, Block

LEMMA FlowTyped ==
  ASSUME TypeOK, NEW i \in Insts, NEW k \in DOMAIN design.flows[i]
  PROVE  Flow(i, k) \in Flows
BY DesignTyped DEF Flow

(* The operands of each instruction.                                       *)
LEMMA OperandsTyped ==
  ASSUME NEW I \in Instrs
  PROVE  /\ I.op = "prb" => I.dst \in Regs /\ I.ptr \in Ptrs
         /\ I.op = "val" => I.dst \in Regs /\ I.src \in Regs
         /\ I.op = "drv" => I.ptr \in Ptrs /\ I.src \in Regs /\ I.delay \in Times
         /\ I.op = "br" => I.to \in Nat
         /\ I.op = "brcond" => I.src \in Regs /\ I.to0 \in Nat /\ I.to1 \in Nat
         /\ I.op = "wait" => I.to \in Nat /\ I.sigs \subseteq Sigs
         /\ I.op = "waittime" => I.to \in Nat /\ I.sigs \subseteq Sigs /\ I.delay \in Times
BY DEF Instrs, Blocks

(* What the engine computes with typed operands is typed.                  *)
LEMMA ValuesTyped ==
  ASSUME NEW v \in Values, NEW w \in Values, NEW p \in Ptrs, NEW b \in BOOLEAN
  PROVE  /\ Read(v, p) \in Values
         /\ Invert(b, v) \in Values
         /\ Written(v, p, w) \in Values
BY DEF Values, Ptrs, Read, Invert, Written

LEMMA EventTyped ==
  ASSUME NEW t \in Times, NEW p \in Ptrs, NEW v \in Values
  PROVE  /\ Event(t, p, v) \in Events
         /\ Event(t, p, v).time = t
BY DEF Event, Events

(* A suspension and a jump keep the types of the instances.                *)
LEMMA JumpTyped ==
  ASSUME TypeOK, NEW i \in Insts, NEW b \in Nat, Jump(i, b)
  PROVE  pc' \in [Insts -> [blk : Nat, pos : Nat]]
BY DEF TypeOK, Jump

LEMMA FallthroughTyped ==
  ASSUME TypeOK, NEW i \in Insts, Fallthrough(i)
  PROVE  pc' \in [Insts -> [blk : Nat, pos : Nat]]
BY DEF TypeOK, Fallthrough

LEMMA SuspendTyped ==
  ASSUME TypeOK, NEW i \in Insts, NEW b \in Nat, NEW st \in States, Suspend(i, st, b)
  PROVE  TypeOK'
<1>1. pc' \in [Insts -> [blk : Nat, pos : Nat]]
  BY JumpTyped DEF Suspend
<1>2. state' \in [Insts -> States]
  BY DEF TypeOK, Suspend
<1> QED
  BY <1>1, <1>2 DEF TypeOK, Suspend, engineVars, queues

LEMMA TypeInit == Init => TypeOK
<1> SUFFICES ASSUME Init PROVE TypeOK
  OBVIOUS
<1>1. Zero \in Times
  BY DEF Zero, Times
<1>2. sig \in [Sigs -> Values]
  BY DesignAssumption DEF Init, DesignSpace
<1>3. state \in [Insts -> States]
  BY DEF Init, States
<1>4. pc \in [Insts -> [blk : Nat, pos : Nat]]
  BY DEF Init
<1>5. values \in [Insts -> [Regs -> Values]]
  BY DEF Init, Values
<1>6. out \in [Insts -> Seq(Events)]
  BY DEF Init
<1> QED
  BY <1>1, <1>2, <1>3, <1>4, <1>5, <1>6 DEF Init, TypeOK, Phases

(* The steps of one instance.                                              *)
LEMMA TypePrb ==
  ASSUME TypeOK, NEW i \in Insts, Prb(i)
  PROVE  TypeOK'
<1>1. Instr(i).dst \in Regs /\ Instr(i).ptr \in Ptrs
  BY InstrTyped, OperandsTyped DEF Prb, At
<1>2. sig[Instr(i).ptr.sig] \in Values
  BY <1>1 DEF TypeOK, Ptrs
<1>3. Read(sig[Instr(i).ptr.sig], Instr(i).ptr) \in Values
  BY <1>1, <1>2, ValuesTyped
<1>4. values' \in [Insts -> [Regs -> Values]]
  BY <1>3 DEF TypeOK, Prb
<1>5. pc' \in [Insts -> [blk : Nat, pos : Nat]]
  BY FallthroughTyped DEF Prb
<1> QED
  BY <1>4, <1>5 DEF TypeOK, Prb, engineVars, queues

LEMMA TypeVal ==
  ASSUME TypeOK, NEW i \in Insts, Val(i)
  PROVE  TypeOK'
<1>1. Instr(i).dst \in Regs /\ Instr(i).src \in Regs
  BY InstrTyped, OperandsTyped DEF Val, At
<1>2. values[i][Instr(i).src] \in Values
  BY <1>1 DEF TypeOK
<1>3. Invert(Instr(i).inv, values[i][Instr(i).src]) \in Values
  BY <1>2 DEF Invert, Values
<1>4. values' \in [Insts -> [Regs -> Values]]
  BY <1>3 DEF TypeOK, Val
<1>5. pc' \in [Insts -> [blk : Nat, pos : Nat]]
  BY FallthroughTyped DEF Val
<1> QED
  BY <1>4, <1>5 DEF TypeOK, Val, engineVars, queues

(* The event of a drv instruction: typed, and not in the past.             *)
LEMMA DrvEvent ==
  ASSUME TypeOK, NEW i \in Insts, Drv(i)
  PROVE  \E e \in Events : /\ TimeLeq(time, e.time)
                           /\ out' = [out EXCEPT ![i] = Append(@, e)]
<1>1. Instr(i).ptr \in Ptrs /\ Instr(i).src \in Regs /\ Instr(i).delay \in Times
  BY InstrTyped, OperandsTyped DEF Drv, At
<1>2. values[i][Instr(i).src] \in Values /\ time \in Times
  BY <1>1 DEF TypeOK
<1>3. /\ AfterDelay(time, Instr(i).delay) \in Times
      /\ TimeLeq(time, AfterDelay(time, Instr(i).delay))
  BY <1>1, <1>2, DelayAhead
<1> DEFINE e == Event(AfterDelay(time, Instr(i).delay), Instr(i).ptr,
                      values[i][Instr(i).src])
<1>4. e \in Events /\ e.time = AfterDelay(time, Instr(i).delay)
  BY <1>1, <1>2, <1>3, EventTyped
<1>5. out' = [out EXCEPT ![i] = Append(@, e)]
  BY DEF Drv
<1> QED
  BY <1>3, <1>4, <1>5

LEMMA TypeDrv ==
  ASSUME TypeOK, NEW i \in Insts, Drv(i)
  PROVE  TypeOK'
<1>1. PICK e \in Events : out' = [out EXCEPT ![i] = Append(@, e)]
  BY DrvEvent
<1>2. out' \in [Insts -> Seq(Events)]
  BY <1>1 DEF TypeOK
<1>3. pc' \in [Insts -> [blk : Nat, pos : Nat]]
  BY FallthroughTyped DEF Drv
<1> QED
  BY <1>2, <1>3 DEF TypeOK, Drv, engineVars, queues

LEMMA TypeBranch ==
  ASSUME TypeOK, NEW i \in Insts, Br(i) \/ BrCond(i)
  PROVE  TypeOK'
<1>1. \E b \in Nat : Jump(i, b)
  <2>1. CASE Br(i)
    BY <2>1, InstrTyped, OperandsTyped DEF Br, At
  <2>2. CASE BrCond(i)
    BY <2>2, InstrTyped, OperandsTyped DEF BrCond, At
  <2> QED BY <2>1, <2>2
<1>2. pc' \in [Insts -> [blk : Nat, pos : Nat]]
  BY <1>1, JumpTyped
<1> QED
  BY <1>2 DEF TypeOK, Br, BrCond, engineVars, queues

(* An instance that suspends does so in a typed state, and with no         *)
(* deadline in the past.                                                   *)
LEMMA Suspension ==
  ASSUME TypeOK, NEW i \in Insts, WaitSigs(i) \/ WaitTime(i) \/ Halt(i)
  PROVE  \E st \in States, b \in Nat :
           /\ Suspend(i, st, b)
           /\ st.kind # "Ready"
           /\ \A t \in st.until : TimeLeq(time, t)
<1>1. CASE WaitSigs(i)
  <2>1. Instr(i).to \in Nat /\ Instr(i).sigs \subseteq Sigs
    BY <1>1, InstrTyped, OperandsTyped DEF WaitSigs, At
  <2>2. /\ Wait(None, Instr(i).sigs) \in States
        /\ Wait(None, Instr(i).sigs).kind # "Ready"
        /\ Wait(None, Instr(i).sigs).until = {}
    BY <2>1 DEF Wait, None, States
  <2> QED BY <1>1, <2>1, <2>2 DEF WaitSigs
<1>2. CASE WaitTime(i)
  <2>1. /\ Instr(i).to \in Nat /\ Instr(i).sigs \subseteq Sigs
        /\ Instr(i).delay \in Times
    BY <1>2, InstrTyped, OperandsTyped DEF WaitTime, At
  <2> DEFINE t == AfterDelay(time, Instr(i).delay)
  <2>2. t \in Times /\ TimeLeq(time, t)
    BY <2>1, DelayAhead DEF TypeOK
  <2>3. /\ Wait(Some(t), Instr(i).sigs) \in States
        /\ Wait(Some(t), Instr(i).sigs).kind # "Ready"
        /\ Wait(Some(t), Instr(i).sigs).until = {t}
    BY <2>1, <2>2 DEF Wait, Some, States
  <2> QED BY <1>2, <2>1, <2>2, <2>3 DEF WaitTime
<1>3. CASE Halt(i)
  <2>1. Done \in States /\ Done.kind # "Ready" /\ Done.until = {}
    BY DEF Done, States
  <2> QED BY <1>3, <2>1 DEF Halt, NoBlock
<1> QED BY <1>1, <1>2, <1>3

(* The events of an entity: typed, and not in the past.                    *)
LEMMA EntityEvents ==
  ASSUME TypeOK, NEW i \in Insts, Entity(i)
  PROVE  \E evs \in Seq(Events) :
           /\ out' = [out EXCEPT ![i] = evs]
           /\ \A n \in DOMAIN evs : TimeLeq(time, evs[n].time)
<1>1. PICK q \in Order(i) :
        out' = [out EXCEPT ![i] = [n \in DOMAIN q |-> FlowEvent(i, q[n])]]
  BY DEF Entity
<1>2. \A k \in Firing(i) : /\ FlowEvent(i, k) \in Events
                           /\ TimeLeq(time, FlowEvent(i, k).time)
  <2> SUFFICES ASSUME NEW k \in Firing(i)
               PROVE  /\ FlowEvent(i, k) \in Events
                      /\ TimeLeq(time, FlowEvent(i, k).time)
    OBVIOUS
  <2>1. Flow(i, k) \in Flows
    BY FlowTyped DEF Firing
  <2>2. /\ Flow(i, k).from \in Ptrs /\ Flow(i, k).to \in Ptrs
        /\ Flow(i, k).delay \in Times /\ Flow(i, k).inv \in BOOLEAN
    BY <2>1 DEF Flows
  <2>3. Probed(i, k) \in Values
    <3>1. sig[Flow(i, k).from.sig] \in Values
      BY <2>2 DEF TypeOK, Ptrs
    <3> QED BY <2>2, <3>1, ValuesTyped DEF Probed
  <2>4. Invert(Flow(i, k).inv, Probed(i, k)) \in Values
    BY <2>2, <2>3 DEF Invert, Values
  <2>5. /\ AfterDelay(time, Flow(i, k).delay) \in Times
        /\ TimeLeq(time, AfterDelay(time, Flow(i, k).delay))
    BY <2>2, DelayAhead DEF TypeOK
  <2> QED BY <2>2, <2>4, <2>5, EventTyped DEF FlowEvent
<1>3. q \in [1..Cardinality(Firing(i)) -> Firing(i)]
  BY <1>1 DEF Order
<1> DEFINE evs == [n \in DOMAIN q |-> FlowEvent(i, q[n])]
<1>4. Cardinality(Firing(i)) \in Nat
  <2>1. DOMAIN design.flows[i] = 1..Len(design.flows[i]) /\ Len(design.flows[i]) \in Nat
    BY DesignTyped
  <2>2. IsFiniteSet(1..Len(design.flows[i]))
    BY <2>1, FS_Interval
  <2>3. IsFiniteSet(Firing(i))
    BY <2>1, <2>2, FS_Subset DEF Firing
  <2> QED BY <2>3, FS_CardinalityType
<1>5. evs \in Seq(Events)
  <2>1. evs \in [1..Cardinality(Firing(i)) -> Events]
    BY <1>2, <1>3
  <2> QED BY <1>4, <2>1
<1>6. \A n \in DOMAIN evs : TimeLeq(time, evs[n].time)
  BY <1>2, <1>3
<1> QED BY <1>1, <1>5, <1>6

LEMMA TypeEntity ==
  ASSUME TypeOK, NEW i \in Insts, Entity(i)
  PROVE  TypeOK'
<1>1. PICK evs \in Seq(Events) : out' = [out EXCEPT ![i] = evs]
  BY EntityEvents
<1>2. out' \in [Insts -> Seq(Events)]
  BY <1>1 DEF TypeOK
<1>3. \A k \in Firing(i) : Probed(i, k) \in Values
  <2> SUFFICES ASSUME NEW k \in Firing(i) PROVE Probed(i, k) \in Values
    OBVIOUS
  <2>1. Flow(i, k).from \in Ptrs
    BY FlowTyped DEF Firing, Flows
  <2>2. sig[Flow(i, k).from.sig] \in Values
    BY <2>1 DEF TypeOK, Ptrs
  <2> QED BY <2>1, <2>2, ValuesTyped DEF Probed
<1>4. values' \in [Insts -> [Regs -> Values]]
  <2> DEFINE new(r) == IF \E k \in Firing(i) : Flow(i, k).reg = r
                       THEN Probed(i, CHOOSE k \in Firing(i) : Flow(i, k).reg = r)
                       ELSE values[i][r]
  <2>1. \A r \in Regs : new(r) \in Values
    BY <1>3 DEF TypeOK
  <2>2. values' = [values EXCEPT ![i] = [r \in Regs |-> new(r)]]
    BY DEF Entity
  <2> HIDE DEF new
  <2> QED BY <2>1, <2>2 DEF TypeOK
<1>5. state' \in [Insts -> States]
  <2>1. Wait(None, design.ports[i]) \in States
    BY DesignTyped DEF Wait, None, States
  <2> QED BY <2>1 DEF Entity, TypeOK
<1> QED
  BY <1>2, <1>4, <1>5 DEF TypeOK, Entity, engineVars, queues

LEMMA TypeExec ==
  ASSUME TypeOK, NEW i \in Insts, Exec(i)
  PROVE  TypeOK'
<1>1. CASE Prb(i)
  BY <1>1, TypePrb
<1>2. CASE Val(i)
  BY <1>2, TypeVal
<1>3. CASE Drv(i)
  BY <1>3, TypeDrv
<1>4. CASE Br(i) \/ BrCond(i)
  BY <1>4, TypeBranch
<1>5. CASE WaitSigs(i) \/ WaitTime(i) \/ Halt(i)
  BY <1>5, Suspension, SuspendTyped
<1>6. CASE Starve(i)
  BY <1>6 DEF TypeOK, Starve, queues, insts, locals, Phases
<1>7. CASE Entity(i)
  BY <1>7, TypeEntity
<1> QED BY <1>1, <1>2, <1>3, <1>4, <1>5, <1>6, <1>7 DEF Exec

(* The steps of the engine itself.                                         *)
LEMMA TypeScheduled ==
  ASSUME TypeOK
  PROVE  Scheduled \subseteq Events /\ Sleepers \subseteq Times \X Insts
<1>1. \A a \in Produced : out[a[1]][a[2]] \in Events
  BY DEF Produced, TypeOK
<1>2. Scheduled \subseteq Events
  BY <1>1 DEF Scheduled, TypeOK
<1>3. \A i \in ready : state[i].until \subseteq Times /\ i \in Insts
  <2> SUFFICES ASSUME NEW i \in ready
               PROVE  state[i].until \subseteq Times /\ i \in Insts
    OBVIOUS
  <2>1. i \in Insts /\ state[i] \in States
    BY DEF TypeOK
  <2> QED BY <2>1 DEF States, Ready, Done
<1>4. Sleepers \subseteq Times \X Insts
  BY <1>3 DEF Sleepers
<1> QED BY <1>2, <1>4

LEMMA TypeEndStep ==
  ASSUME TypeOK, EndStep
  PROVE  TypeOK'
<1>1. events' \subseteq Events /\ timed' \subseteq Times \X Insts
  BY TypeScheduled DEF EndStep, TypeOK
<1>2. Agenda(events', timed') \subseteq Times
  BY <1>1 DEF Agenda, Events
<1>3. time' \in Times /\ phase' \in Phases
  BY <1>2 DEF EndStep, TypeOK, Phases, Earliest
<1>4. out' \in [Insts -> Seq(Events)]
  BY DEF EndStep
<1> QED BY <1>1, <1>3, <1>4 DEF TypeOK, EndStep, insts

LEMMA TypeNext == TypeOK /\ [Next]_vars => TypeOK'
<1> SUFFICES ASSUME TypeOK, [Next]_vars PROVE TypeOK'
  OBVIOUS
<1>1. CASE BeginStep
  BY <1>1 DEF BeginStep, TypeOK, Phases, insts
<1>2. CASE LimitReached
  BY <1>2 DEF LimitReached, TypeOK, Phases, queues, insts, locals
<1>3. CASE ApplyEvent
  <2>1. PICK e \in due :
          /\ due' = due \ {e}
          /\ sig' = [sig EXCEPT ![e.ptr.sig] = Written(sig[e.ptr.sig], e.ptr, e.val)]
          /\ changed' \subseteq changed \cup {e.ptr.sig}
    BY <1>3 DEF ApplyEvent
  <2>2. e.ptr \in Ptrs /\ e.ptr.sig \in Sigs /\ e.val \in Values
    BY DEF TypeOK, Events, Ptrs
  <2>3. Written(sig[e.ptr.sig], e.ptr, e.val) \in Values
    BY <2>2, ValuesTyped DEF TypeOK
  <2>4. sig' \in [Sigs -> Values]
    BY <2>1, <2>2, <2>3 DEF TypeOK
  <2> QED BY <1>3, <2>1, <2>2, <2>4 DEF ApplyEvent, TypeOK, queues, insts
<1>4. CASE WakeTimed
  <2>1. state' \in [Insts -> States]
    BY <1>4 DEF WakeTimed, TimedWoken, TypeOK, States
  <2> QED BY <1>4, <2>1 DEF WakeTimed, TypeOK, Phases, locals
<1>5. CASE WakeSensed
  <2>1. state' \in [Insts -> States]
    BY <1>5 DEF WakeSensed, TypeOK, States
  <2> QED BY <1>5, <2>1 DEF WakeSensed, Collected, TypeOK, Phases, queues
<1>6. CASE \E i \in Insts : Exec(i)
  BY <1>6, TypeExec
<1>7. CASE EndStep
  BY <1>7, TypeEndStep
<1>8. CASE Over \/ UNCHANGED vars
  BY <1>8 DEF Over, vars, TypeOK, queues, insts, locals
<1> QED BY <1>1, <1>2, <1>3, <1>4, <1>5, <1>6, <1>7, <1>8 DEF Next

(* The state of the engine (State, Instance, InstanceState) stays well     *)
(* typed whatever the design does.                                         *)
THEOREM TypeCorrect == Spec => []TypeOK
<1> QED BY TypeInit, TypeNext, PTL DEF Spec

-----------------------------------------------------------------------------
(* The inductive invariant.  No part of it is inductive alone: the clock   *)
(* stays ahead of no queue only because executions respect the asserts,    *)
(* and a timer is queued only because the instances that ran are the ones  *)
(* that were collected.                                                    *)
EngineInv ==
  /\ TypeOK
  /\ QueuesAhead
  /\ ScheduleAsserts
  /\ TimersQueued
  /\ ReadyCollected
  /\ NoneLeftReady
  /\ QuiescentAtEnd
  /\ OneValuePerSlot

LEMMA InvInit == Init => EngineInv
<1> SUFFICES ASSUME Init PROVE EngineInv
  OBVIOUS
<1>1. TypeOK
  BY TypeInit
<1>2. \A i \in Insts : state[i] = Ready /\ state[i].until = {} /\ out[i] = <<>>
  BY DEF Init, Ready
<1> QED
  BY <1>1, <1>2 DEF Init, EngineInv, QueuesAhead, ScheduleAsserts, TimersQueued,
     ReadyCollected, NoneLeftReady, QuiescentAtEnd, OneValuePerSlot

(* What an instance that executes can change: its own events, to which it  *)
(* adds none of the past, and its own state, if it suspends.               *)
Executed(i) ==
  /\ UNCHANGED <<design, step, time, sig, events, timed, due, changed, ready>>
  /\ phase = "exec" /\ i \in ready /\ phase' \in {"exec", "panic"}
  /\ \E evs : /\ out' = [out EXCEPT ![i] = evs]
              /\ \A n \in DOMAIN evs : TimeLeq(time, evs[n].time)
  /\ \/ state' = state
     \/ \E st \in States : /\ state' = [state EXCEPT ![i] = st]
                           /\ st.kind # "Ready"
                           /\ \A t \in st.until : TimeLeq(time, t)

LEMMA ExecEffect ==
  ASSUME TypeOK, ScheduleAsserts, NEW i \in Insts, Exec(i)
  PROVE  Executed(i)
<1> DEFINE kept == \E evs : /\ out' = [out EXCEPT ![i] = evs]
                            /\ \A n \in DOMAIN evs : TimeLeq(time, evs[n].time)
<1>1. ASSUME out' = out PROVE kept
  <2>1. out' = [out EXCEPT ![i] = out[i]]
    BY <1>1 DEF TypeOK
  <2> QED BY <2>1 DEF ScheduleAsserts
<1>2. CASE Prb(i) \/ Val(i) \/ Br(i) \/ BrCond(i) \/ Starve(i)
  <2>1. out' = out /\ state' = state
    BY <1>2 DEF Prb, Val, Br, BrCond, Starve, insts, locals
  <2>2. kept
    BY <1>1, <2>1
  <2> QED
    BY <1>2, <2>1, <2>2 DEF Executed, Prb, Val, Br, BrCond, Starve, At, Running,
       engineVars, queues, locals
<1>3. CASE Drv(i)
  <2>1. PICK e \in Events : /\ TimeLeq(time, e.time)
                            /\ out' = [out EXCEPT ![i] = Append(@, e)]
    BY <1>3, DrvEvent
  <2>2. \A n \in DOMAIN Append(out[i], e) : TimeLeq(time, Append(out[i], e)[n].time)
    <3>1. out[i] \in Seq(Events)
      BY DEF TypeOK
    <3> QED BY <2>1, <3>1 DEF ScheduleAsserts
  <2>3. kept
    BY <2>1, <2>2
  <2> QED
    BY <1>3, <2>3 DEF Executed, Drv, At, Running, engineVars, queues
<1>4. CASE WaitSigs(i) \/ WaitTime(i) \/ Halt(i)
  <2>1. PICK st \in States, b \in Nat :
          /\ Suspend(i, st, b)
          /\ st.kind # "Ready"
          /\ \A t \in st.until : TimeLeq(time, t)
    BY <1>4, Suspension
  <2>2. out' = out
    BY <2>1 DEF Suspend
  <2>3. kept
    BY <1>1, <2>2
  <2>4. phase = "exec" /\ i \in ready
    BY <1>4 DEF WaitSigs, WaitTime, Halt, At, Running
  <2> QED
    BY <2>1, <2>3, <2>4 DEF Executed, Suspend, engineVars, queues
<1>5. CASE Entity(i)
  <2>1. kept
    BY <1>5, EntityEvents
  <2>2. Wait(None, design.ports[i]) \in States
    BY DesignTyped DEF Wait, None, States
  <2>3. /\ Wait(None, design.ports[i]).kind # "Ready"
        /\ Wait(None, design.ports[i]).until = {}
    BY DEF Wait, None
  <2> QED
    BY <1>5, <2>1, <2>2, <2>3 DEF Executed, Entity, Running, engineVars, queues
<1> QED BY <1>2, <1>3, <1>4, <1>5 DEF Exec

LEMMA InvExec ==
  ASSUME EngineInv, NEW i \in Insts, Exec(i)
  PROVE  EngineInv'
<1>1. TypeOK /\ TypeOK' /\ Executed(i)
  BY TypeExec, ExecEffect DEF EngineInv
<1>2. QueuesAhead'
  <2>1. /\ phase = "exec" /\ phase' \in {"exec", "panic"}
        /\ UNCHANGED <<time, events, timed, due>>
    BY <1>1 DEF Executed
  <2>2. /\ \A e \in events : TimeLess(time, e.time)
        /\ \A w \in timed : TimeLess(time, w[1])
        /\ due = {}
    BY <2>1 DEF EngineInv, QueuesAhead
  <2>3. /\ \A e \in events : TimeLeq(time, e.time)
        /\ \A w \in timed : TimeLeq(time, w[1])
    BY <2>2 DEF TimeLeq
  <2> QED BY <2>1, <2>2, <2>3 DEF QueuesAhead
<1>3. ScheduleAsserts'
  <2>1. \A j \in Insts : \A n \in DOMAIN out'[j] : TimeLeq(time', out'[j][n].time)
    BY <1>1 DEF EngineInv, ScheduleAsserts, Executed, TypeOK
  <2>2. \A j \in ready' : \A t \in state'[j].until : TimeLeq(time', t)
    BY <1>1 DEF EngineInv, ScheduleAsserts, Executed, TypeOK
  <2> QED BY <2>1, <2>2 DEF ScheduleAsserts
<1>4. TimersQueued'
  BY <1>1 DEF EngineInv, TimersQueued, Executed, TypeOK
<1>5. ReadyCollected'
  BY <1>1 DEF EngineInv, ReadyCollected, Executed, TypeOK
<1>6. NoneLeftReady' /\ QuiescentAtEnd'
  BY <1>1 DEF NoneLeftReady, QuiescentAtEnd, Executed
<1>7. OneValuePerSlot'
  BY <1>1 DEF EngineInv, OneValuePerSlot, Executed
<1> QED
  BY <1>1, <1>2, <1>3, <1>4, <1>5, <1>6, <1>7 DEF EngineInv

LEMMA InvBeginStep ==
  ASSUME EngineInv, BeginStep
  PROVE  EngineInv'
<1>1. TypeOK /\ TypeOK'
  BY TypeNext DEF EngineInv, Next
<1>2. QueuesAhead'
  <2>1. \A e \in events : TimeLeq(time, e.time) /\ e.time \in Times
    BY <1>1 DEF EngineInv, QueuesAhead, BeginStep, TypeOK, Events
  <2>2. \A e \in events' : TimeLess(time, e.time)
    BY <1>1, <2>1, TimeOrder DEF BeginStep, TypeOK
  <2>3. \A e \in due' : e.time = time
    BY DEF BeginStep
  <2>4. phase = "idle" /\ phase' = "apply" /\ time' = time /\ timed' = timed
    BY DEF BeginStep
  <2>5. \A w \in timed' : TimeLeq(time, w[1])
    BY <2>4 DEF EngineInv, QueuesAhead
  <2> QED BY <2>2, <2>3, <2>4, <2>5 DEF QueuesAhead
<1>3. ScheduleAsserts'
  BY DEF EngineInv, ScheduleAsserts, BeginStep, insts
<1>4. TimersQueued' /\ ReadyCollected' /\ NoneLeftReady' /\ QuiescentAtEnd'
  BY DEF EngineInv, TimersQueued, ReadyCollected, NoneLeftReady, QuiescentAtEnd,
     BeginStep, insts
<1>5. OneValuePerSlot'
  BY DEF EngineInv, OneValuePerSlot, BeginStep
<1> QED BY <1>1, <1>2, <1>3, <1>4, <1>5 DEF EngineInv

LEMMA InvApplyEvent ==
  ASSUME EngineInv, ApplyEvent
  PROVE  EngineInv'
<1>1. TypeOK'
  BY TypeNext DEF EngineInv, Next
<1>2. /\ phase = "apply" /\ due' \subseteq due
      /\ UNCHANGED <<phase, step, time, events, timed, state, ready, out>>
  BY DEF ApplyEvent, queues, insts
<1>3. QueuesAhead' /\ OneValuePerSlot'
  BY <1>2 DEF EngineInv, QueuesAhead, OneValuePerSlot
<1>4. ScheduleAsserts' /\ TimersQueued' /\ ReadyCollected' /\ NoneLeftReady'
      /\ QuiescentAtEnd'
  BY <1>2 DEF EngineInv, ScheduleAsserts, TimersQueued, ReadyCollected,
     NoneLeftReady, QuiescentAtEnd
<1> QED BY <1>1, <1>3, <1>4 DEF EngineInv

(* The timers that are removed from the queue belong to instances that are *)
(* no longer waiting.                                                      *)
LEMMA InvWakeTimed ==
  ASSUME EngineInv, WakeTimed
  PROVE  EngineInv'
<1>1. TypeOK /\ TypeOK'
  BY TypeNext DEF EngineInv, Next
<1>2. QueuesAhead'
  <2>1. \A w \in timed : TimeLeq(time, w[1]) /\ w[1] \in Times
    BY <1>1 DEF EngineInv, QueuesAhead, WakeTimed, TypeOK
  <2>2. \A w \in timed' : TimeLess(time, w[1])
    BY <1>1, <2>1, TimeOrder DEF WakeTimed, TypeOK
  <2> QED BY <2>2 DEF EngineInv, QueuesAhead, WakeTimed, locals
<1>3. ready = {} /\ ready' = {} /\ out' = out /\ time' = time
  BY DEF EngineInv, ReadyCollected, WakeTimed, locals
<1>4. ScheduleAsserts' /\ ReadyCollected'
  BY <1>3 DEF EngineInv, ScheduleAsserts, ReadyCollected, WakeTimed
<1>5. TimersQueued'
  <2> SUFFICES ASSUME NEW i \in Insts, NEW t \in state'[i].until
               PROVE  <<t, i>> \in timed'
    BY DEF TimersQueued
  <2>1. i \notin Expired /\ state'[i] = state[i]
    BY DEF WakeTimed, TimedWoken, Ready
  <2>2. <<t, i>> \in timed
    BY <1>3, <2>1 DEF EngineInv, TimersQueued
  <2>3. t # time
    BY <2>1, <2>2 DEF Expired
  <2> QED BY <2>2, <2>3 DEF WakeTimed
<1>6. NoneLeftReady' /\ QuiescentAtEnd' /\ OneValuePerSlot'
  BY DEF EngineInv, NoneLeftReady, QuiescentAtEnd, OneValuePerSlot, WakeTimed, locals
<1> QED BY <1>1, <1>2, <1>4, <1>5, <1>6 DEF EngineInv

LEMMA InvWakeSensed ==
  ASSUME EngineInv, WakeSensed
  PROVE  EngineInv'
<1>1. TypeOK /\ TypeOK'
  BY TypeNext DEF EngineInv, Next
<1>2. /\ phase = "sense" /\ phase' = "exec"
      /\ UNCHANGED <<step, time, events, timed, due, out>>
      /\ \A i \in Insts : out[i] = <<>>
      /\ ready' = {i \in Insts : state'[i].kind = "Ready"}
  BY DEF EngineInv, ReadyCollected, WakeSensed, Collected, queues
<1>3. \A i \in Insts : state'[i].until \subseteq state[i].until
  BY DEF WakeSensed, Ready
<1>4. \A i \in Insts : state'[i].kind = "Ready" => state'[i].until = {}
  <2> SUFFICES ASSUME NEW i \in Insts, state'[i].kind = "Ready"
               PROVE  state'[i].until = {}
    OBVIOUS
  <2>1. state'[i] \in States
    BY <1>1 DEF TypeOK
  <2> QED BY <2>1 DEF States, Ready, Done
<1>5. QueuesAhead' /\ OneValuePerSlot' /\ NoneLeftReady' /\ QuiescentAtEnd'
  BY <1>2 DEF EngineInv, QueuesAhead, OneValuePerSlot, NoneLeftReady, QuiescentAtEnd
<1>6. ScheduleAsserts' /\ ReadyCollected'
  BY <1>2, <1>4 DEF ScheduleAsserts, ReadyCollected
<1>7. TimersQueued'
  BY <1>2, <1>3 DEF EngineInv, TimersQueued
<1> QED BY <1>1, <1>5, <1>6, <1>7 DEF EngineInv

(* What goes into the queues at the end of a step lies ahead.              *)
LEMMA ScheduledAhead ==
  ASSUME EngineInv, phase = "exec"
  PROVE  /\ \A e \in Scheduled : TimeLeq(time, e.time)
         /\ \A w \in timed \cup Sleepers : TimeLeq(time, w[1])
<1>1. TypeOK /\ \A e \in events : TimeLess(time, e.time)
  BY DEF EngineInv, QueuesAhead
<1>2. \A e \in events : TimeLeq(time, e.time)
  BY <1>1, TimeOrder DEF TypeOK, Events
<1>3. \A a \in Produced : TimeLeq(time, out[a[1]][a[2]].time)
  BY DEF Produced, EngineInv, ScheduleAsserts
<1>4. \A e \in Scheduled : TimeLeq(time, e.time)
  BY <1>2, <1>3 DEF Scheduled
<1>5. \A w \in timed : TimeLess(time, w[1])
  BY DEF EngineInv, QueuesAhead
<1>6. \A w \in timed : TimeLeq(time, w[1])
  BY <1>1, <1>5, TimeOrder DEF TypeOK
<1>7. \A w \in Sleepers : TimeLeq(time, w[1])
  BY DEF Sleepers, EngineInv, ScheduleAsserts
<1> QED BY <1>4, <1>6, <1>7

(* The later of two produced events of one slot is the one that stays.     *)
LEMMA ScheduledOnce ==
  ASSUME TypeOK, OneValuePerSlot
  PROVE  \A e, f \in Scheduled : SameSlot(e, f) => e = f
<1> DEFINE Ev(a) == out[a[1]][a[2]]
           Last == {a \in Produced :
                      \A b \in Produced : Later(b, a) => ~SameSlot(Ev(b), Ev(a))}
           Kept == {e \in events : \A a \in Produced : ~SameSlot(e, Ev(a))}
<1>1. Scheduled = Kept \cup {Ev(a) : a \in Last}
  BY DEF Scheduled
<1>2. ASSUME NEW a \in Produced, NEW b \in Produced, a # b
      PROVE  Later(a, b) \/ Later(b, a)
  <2>1. \A c \in Produced : c = <<c[1], c[2]>> /\ c[1] \in Int /\ c[2] \in Int
    <3> SUFFICES ASSUME NEW i \in Insts, NEW n \in DOMAIN out[i]
                 PROVE  i \in Int /\ n \in Int
      BY DEF Produced
    <3> QED BY NAssumption DEF Insts, TypeOK
  <2> QED BY <1>2, <2>1 DEF Later
<1>3. ASSUME NEW a \in Last, NEW b \in Last, SameSlot(Ev(a), Ev(b))
      PROVE  Ev(a) = Ev(b)
  <2>1. SameSlot(Ev(b), Ev(a))
    BY <1>3 DEF SameSlot
  <2>2. ~Later(a, b) /\ ~Later(b, a)
    BY <1>3, <2>1
  <2> QED BY <1>2, <2>2
<1>4. ASSUME NEW e \in Kept, NEW a \in Last
      PROVE  ~SameSlot(e, Ev(a)) /\ ~SameSlot(Ev(a), e)
  BY DEF SameSlot
<1>5. ASSUME NEW e \in Kept, NEW f \in Kept, SameSlot(e, f) PROVE e = f
  BY <1>5 DEF OneValuePerSlot
<1> HIDE DEF Kept, Last, Ev
<1> QED BY <1>1, <1>3, <1>4, <1>5

LEMMA InvEndStep ==
  ASSUME EngineInv, EndStep
  PROVE  EngineInv' /\ TimeLeq(time, time')
<1>1. TypeOK /\ TypeOK'
  BY TypeNext DEF EngineInv, Next
<1>2. /\ events' = Scheduled /\ timed' = timed \cup Sleepers
      /\ UNCHANGED <<step, state, due>>
      /\ phase = "exec" /\ phase' \in {"idle", "stopped"}
      /\ ready' = {} /\ \A i \in Insts : out'[i] = <<>>
  BY DEF EndStep, insts
<1> DEFINE agenda == Agenda(events', timed')
<1>3. \A t \in agenda : TimeLeq(time, t)
  BY <1>2, ScheduledAhead DEF Agenda
<1>4. \/ agenda = {} /\ phase' = "stopped" /\ time' = time
      \/ time' \in agenda /\ phase' = "idle" /\ \A t \in agenda : TimeLeq(time', t)
  BY DEF EndStep, Earliest
<1>5. due' = {}
  BY <1>2 DEF EngineInv, QueuesAhead
<1>6. /\ \A e \in events' : e.time \in agenda
      /\ \A w \in timed' : w[1] \in agenda
  BY DEF Agenda
<1>7. TimeLeq(time, time')
  BY <1>1, <1>3, <1>4, TimeOrder DEF TypeOK
<1>8. QueuesAhead'
  BY <1>2, <1>4, <1>5, <1>6 DEF QueuesAhead
<1>9. ScheduleAsserts' /\ ReadyCollected'
  BY <1>2 DEF ScheduleAsserts, ReadyCollected
<1>10. \A i \in Insts : \A t \in state'[i].until : <<t, i>> \in timed'
  <2> SUFFICES ASSUME NEW i \in Insts, NEW t \in state[i].until
               PROVE  <<t, i>> \in timed \cup Sleepers
    BY <1>2
  <2> QED BY DEF EngineInv, TimersQueued, Sleepers
<1>11. TimersQueued'
  BY <1>10 DEF TimersQueued
<1>12. NoneLeftReady'
  BY <1>2 DEF NoneLeftReady, EngineInv, ReadyCollected, EndStep
<1>13. QuiescentAtEnd'
  <2> SUFFICES ASSUME phase' = "stopped"
               PROVE  events' = {} /\ \A i \in Insts : state'[i].until = {}
    BY DEF QuiescentAtEnd
  <2>1. agenda = {}
    BY <1>4
  <2>2. events' = {} /\ timed' = {}
    BY <1>6, <2>1
  <2> QED BY <1>10, <2>2
<1>14. OneValuePerSlot'
  BY <1>1, <1>2, <1>5, ScheduledOnce DEF EngineInv, OneValuePerSlot
<1> QED
  BY <1>1, <1>7, <1>8, <1>9, <1>11, <1>12, <1>13, <1>14 DEF EngineInv

LEMMA InvNext == EngineInv /\ [Next]_vars => EngineInv'
<1> SUFFICES ASSUME EngineInv, [Next]_vars PROVE EngineInv'
  OBVIOUS
<1>1. CASE BeginStep
  BY <1>1, InvBeginStep
<1>2. CASE LimitReached
  <2>1. TypeOK'
    BY <1>2, TypeNext DEF EngineInv, Next
  <2> QED
    BY <1>2, <2>1 DEF LimitReached, MayStep, queues, insts, locals, EngineInv,
       QueuesAhead, ScheduleAsserts, TimersQueued, ReadyCollected, NoneLeftReady,
       QuiescentAtEnd, OneValuePerSlot
<1>3. CASE ApplyEvent
  BY <1>3, InvApplyEvent
<1>4. CASE WakeTimed
  BY <1>4, InvWakeTimed
<1>5. CASE WakeSensed
  BY <1>5, InvWakeSensed
<1>6. CASE \E i \in Insts : Exec(i)
  BY <1>6, InvExec
<1>7. CASE EndStep
  BY <1>7, InvEndStep
<1>8. CASE Over \/ UNCHANGED vars
  <2>1. TypeOK'
    BY TypeNext DEF EngineInv
  <2> QED
    BY <1>8, <2>1 DEF Over, vars, MayStep, queues, insts, locals, EngineInv,
       QueuesAhead, ScheduleAsserts, TimersQueued, ReadyCollected, NoneLeftReady,
       QuiescentAtEnd, OneValuePerSlot
<1> QED BY <1>1, <1>2, <1>3, <1>4, <1>5, <1>6, <1>7, <1>8 DEF Next

(* The engine keeps its whole invariant.                                   *)
THEOREM EngineCorrect == Spec => []EngineInv
<1> QED BY InvInit, InvNext, PTL DEF Spec

(* No timer is lost: a process or entity that waits for a time is in the   *)
(* wake queue for it (Engine::step, schedule_timed, take_next_timed).      *)
THEOREM NoTimerLost == Spec => []TimersQueued
<1>1. EngineInv => TimersQueued
  BY DEF EngineInv
<1> QED BY <1>1, EngineCorrect, PTL

(* Nothing is ever queued for the past, and the assertions in              *)
(* schedule_events and schedule_timed cannot fail.                         *)
THEOREM NothingLate == Spec => [](QueuesAhead /\ ScheduleAsserts)
<1>1. EngineInv => QueuesAhead /\ ScheduleAsserts
  BY DEF EngineInv
<1> QED BY <1>1, EngineCorrect, PTL

(* When next_time finds nothing, nothing is left to do (Engine::step       *)
(* returns false), and between two steps no instance is left ready.        *)
THEOREM StopsWhenDone == Spec => [](QuiescentAtEnd /\ NoneLeftReady)
<1>1. EngineInv => QuiescentAtEnd /\ NoneLeftReady
  BY DEF EngineInv
<1> QED BY <1>1, EngineCorrect, PTL

(* Only the instances that a step has collected run in it, and their drives *)
(* are the only ones in flight (ready_insts in Engine::step).               *)
THEOREM OnlyCollectedRun == Spec => []ReadyCollected
<1>1. EngineInv => ReadyCollected
  BY DEF EngineInv
<1> QED BY <1>1, EngineCorrect, PTL

(* The last drive of a slot replaces the others (the HashMap of the event  *)
(* queue).                                                                 *)
THEOREM LastDriveWins == Spec => []OneValuePerSlot
<1>1. EngineInv => OneValuePerSlot
  BY DEF EngineInv
<1> QED BY <1>1, EngineCorrect, PTL

LEMMA ClockNext == EngineInv /\ [Next]_vars => TimeLeq(time, time')
<1> SUFFICES ASSUME EngineInv, [Next]_vars PROVE TimeLeq(time, time')
  OBVIOUS
<1>1. CASE EndStep
  BY <1>1, InvEndStep
<1>2. CASE \E i \in Insts : Exec(i)
  BY <1>2, ExecEffect DEF EngineInv, Executed, TimeLeq
<1>3. CASE ~EndStep /\ ~\E i \in Insts : Exec(i)
  BY <1>3 DEF Next, BeginStep, LimitReached, ApplyEvent, WakeTimed, WakeSensed,
     Over, vars, TimeLeq
<1> QED BY <1>1, <1>2, <1>3

(* Simulated time never runs backwards (State::next_time).                 *)
THEOREM ClockMonotone == Spec => TimeMonotone
<1>1. EngineInv /\ [Next]_vars => [TimeLeq(time, time')]_vars
  BY ClockNext
<1> QED BY <1>1, EngineCorrect, PTL DEF Spec, TimeMonotone

-----------------------------------------------------------------------------
(* Designs in which no process waits for a time and for signals at once.   *)
(* (In the others a timer outlives its wait: state.rs:178 wakes whoever is *)
(* entered, whatever it waits for by then.) A timer in the queue is then   *)
(* always the one its instance waits for.                                  *)
Alone(st) ==
  /\ st.until # {} => st.sigs = {}
  /\ \A t, u \in st.until : t = u

TimersFit ==
  /\ \A i \in Insts : Alone(state[i])
  /\ \A w \in timed : w[1] \in state[w[2]].until

LEMMA ReadyHasNoTimer ==
  ASSUME TypeOK, NEW i \in Insts, state[i].kind = "Ready"
  PROVE  state[i] = Ready /\ state[i].until = {}
<1>1. state[i] \in States
  BY DEF TypeOK
<1> QED BY <1>1 DEF States, Ready, Done

(* An instruction suspends a ready instance at most, and not in two ways.  *)
LEMMA ExecState ==
  ASSUME TypeOK, \A d \in Designs : TimersAlone(d), NEW i \in Insts, Exec(i)
  PROVE  /\ state[i].kind = "Ready"
         /\ timed' = timed
         /\ \/ state' = state
            \/ \E st \in States : Alone(st) /\ state' = [state EXCEPT ![i] = st]
<1>1. CASE Prb(i) \/ Val(i) \/ Drv(i) \/ Br(i) \/ BrCond(i) \/ Starve(i)
  BY <1>1 DEF Prb, Val, Drv, Br, BrCond, Starve, At, Running, insts, locals, engineVars, queues
<1>2. CASE WaitSigs(i)
  <2>1. Instr(i).sigs \subseteq Sigs
    BY <1>2, InstrTyped, OperandsTyped DEF WaitSigs, At
  <2>2. Wait(None, Instr(i).sigs) \in States /\ Alone(Wait(None, Instr(i).sigs))
    BY <2>1 DEF Wait, None, States, Alone
  <2> QED BY <1>2, <2>2 DEF WaitSigs, Suspend, At, Running, engineVars, queues
<1>3. CASE WaitTime(i)
  <2> DEFINE st == Wait(Some(AfterDelay(time, Instr(i).delay)), Instr(i).sigs)
  <2>1. Instr(i).sigs \subseteq Sigs /\ Instr(i).delay \in Times
    BY <1>3, InstrTyped, OperandsTyped DEF WaitTime, At
  <2>2. Instr(i).sigs = {}
    BY <1>3 DEF WaitTime, At, AtInstr, Instr, Block, TypeOK, TimersAlone
  <2>3. AfterDelay(time, Instr(i).delay) \in Times
    BY <2>1, DelayAhead DEF TypeOK
  <2>4. st \in States /\ Alone(st)
    BY <2>2, <2>3 DEF Wait, Some, States, Alone
  <2>5. state' = [state EXCEPT ![i] = st]
    BY <1>3 DEF WaitTime, Suspend
  <2> HIDE DEF st
  <2> QED BY <1>3, <2>4, <2>5 DEF WaitTime, Suspend, At, Running, engineVars, queues
<1>4. CASE Halt(i)
  <2>1. Done \in States /\ Alone(Done)
    BY DEF Done, States, Alone
  <2> QED BY <1>4, <2>1 DEF Halt, Suspend, At, Running, engineVars, queues
<1>5. CASE Entity(i)
  <2>1. Wait(None, design.ports[i]) \in States /\ Alone(Wait(None, design.ports[i]))
    BY DesignTyped DEF Wait, None, States, Alone
  <2> QED BY <1>5, <2>1 DEF Entity, Running, engineVars, queues
<1> QED BY <1>1, <1>2, <1>3, <1>4, <1>5 DEF Exec

LEMMA FitInit == Init => TimersFit
BY DEF Init, TimersFit, Alone, Ready

LEMMA FitNext ==
  ASSUME \A d \in Designs : TimersAlone(d), TypeOK, TimersFit, [Next]_vars
  PROVE  TimersFit'
<1>0. Alone(Ready) /\ timed \subseteq Times \X Insts /\ state \in [Insts -> States]
  BY DEF Alone, Ready, TypeOK
<1>1. CASE \E i \in Insts : Exec(i)
  <2>1. PICK i \in Insts : Exec(i)
    BY <1>1
  <2>2. \A w \in timed : w[2] \in Insts /\ w[2] # i
    BY <1>0, <2>1, ExecState, ReadyHasNoTimer DEF TimersFit
  <2>3. timed' = timed
    BY <2>1, ExecState
  <2>4. CASE state' = state
    BY <2>3, <2>4 DEF TimersFit
  <2>5. CASE \E st \in States : Alone(st) /\ state' = [state EXCEPT ![i] = st]
    <3>1. PICK st \in States : Alone(st) /\ state' = [state EXCEPT ![i] = st]
      BY <2>5
    <3>2. state'[i] = st /\ \A j \in Insts \ {i} : state'[j] = state[j]
      BY <1>0, <3>1
    <3> QED BY <2>2, <2>3, <3>1, <3>2 DEF TimersFit
  <2> QED BY <2>1, <2>4, <2>5, ExecState
<1>2. CASE WakeTimed
  <2>1. /\ timed' = {w \in timed : w[1] # time}
        /\ \A i \in Insts : state'[i] = IF i \in Expired THEN Ready ELSE state[i]
    BY <1>2 DEF WakeTimed, TimedWoken
  <2>2. ASSUME NEW w \in timed' PROVE w[1] \in state'[w[2]].until
    <3>1. w \in timed /\ w[1] # time /\ w[2] \in Insts /\ w[1] \in state[w[2]].until
      BY <1>0, <2>1 DEF TimersFit
    <3>2. w[2] \notin Expired
      <4> SUFFICES ASSUME <<time, w[2]>> \in timed PROVE FALSE
        BY DEF Expired
      <4>1. time \in state[w[2]].until
        BY DEF TimersFit
      <4> QED BY <3>1, <4>1 DEF TimersFit, Alone
    <3> QED BY <2>1, <3>1, <3>2
  <2>3. \A i \in Insts : Alone(state'[i])
    BY <1>0, <2>1 DEF TimersFit
  <2> QED BY <2>2, <2>3 DEF TimersFit
<1>3. CASE WakeSensed
  <2>1. /\ timed' = timed
        /\ \A i \in Insts : state'[i] = IF Triggered(i) THEN Ready ELSE state[i]
    BY <1>3 DEF WakeSensed, queues
  <2>2. \A i \in Insts : Triggered(i) => state[i].until = {}
    BY DEF Triggered, TimersFit, Alone
  <2>3. \A w \in timed : w[2] \in Insts /\ ~Triggered(w[2])
    BY <1>0, <2>2 DEF TimersFit
  <2> QED BY <1>0, <2>1, <2>3 DEF TimersFit
<1>4. CASE EndStep
  <2>1. state' = state /\ timed' = timed \cup Sleepers
    BY <1>4 DEF EndStep, insts
  <2>2. \A w \in Sleepers : w[1] \in state[w[2]].until
    BY DEF Sleepers
  <2> QED BY <2>1, <2>2 DEF TimersFit
<1>5. CASE UNCHANGED <<state, timed>>
  BY <1>5 DEF TimersFit
<1> QED
  BY <1>1, <1>2, <1>3, <1>4, <1>5 DEF Next, BeginStep, LimitReached, ApplyEvent, Over,
     vars, queues, insts

WakesRight ==
  \A i \in Insts :
    /\ state[i].kind = "Wait" /\ state'[i].kind = "Ready" =>
         time \in state[i].until \/ state[i].sigs \cap changed # {}
    /\ state[i].kind = "Done" => state'[i].kind = "Done"

LEMMA WakeSteps ==
  ASSUME \A d \in Designs : TimersAlone(d), TypeOK, TimersFit, [Next]_vars
  PROVE  WakesRight
<1>0. state \in [Insts -> States] /\ \A i \in Insts : state[i].kind = "Done" => state[i].until = {}
  <2>1. state \in [Insts -> States]
    BY DEF TypeOK
  <2> QED BY <2>1 DEF States, Ready, Done
<1>1. CASE \E i \in Insts : Exec(i)
  <2>1. PICK i \in Insts : Exec(i)
    BY <1>1
  <2>2. state[i].kind = "Ready" /\ \A j \in Insts \ {i} : state'[j] = state[j]
    BY <1>0, <2>1, ExecState
  <2> QED BY <2>2 DEF WakesRight
<1>2. CASE WakeTimed
  <2>1. \A i \in Insts : state'[i] = IF i \in Expired THEN Ready ELSE state[i]
    BY <1>2 DEF WakeTimed, TimedWoken
  <2>2. \A i \in Expired : i \in Insts /\ time \in state[i].until
    BY DEF Expired, TimersFit
  <2> QED BY <1>0, <2>1, <2>2 DEF WakesRight
<1>3. CASE WakeSensed
  <2>1. \A i \in Insts : state'[i] = IF Triggered(i) THEN Ready ELSE state[i]
    BY <1>3 DEF WakeSensed
  <2> QED BY <2>1 DEF WakesRight, Triggered
<1>4. CASE state' = state
  BY <1>4 DEF WakesRight
<1> QED
  BY <1>1, <1>2, <1>3, <1>4 DEF Next, BeginStep, LimitReached, ApplyEvent, EndStep, Over,
     vars, insts

(* A wait ends for its own reasons only: an observed signal has changed in *)
(* this step, or the time limit of that very wait has expired              *)
(* (Engine::step, State::take_next_timed), in every design in which no     *)
(* process waits for a time and for signals at once.                       *)
THEOREM WakesJustified ==
  ASSUME \A d \in Designs : TimersAlone(d)
  PROVE  Spec => WakeJustified
<1>1. TypeOK /\ TimersFit /\ [Next]_vars => TimersFit'
  BY FitNext
<1>2. TypeOK /\ TimersFit /\ [Next]_vars =>
        [\A i \in Insts : state[i].kind = "Wait" /\ state'[i].kind = "Ready" =>
           time \in state[i].until \/ state[i].sigs \cap changed # {}]_vars
  BY WakeSteps DEF WakesRight
<1> QED BY <1>1, <1>2, FitInit, TypeCorrect, PTL DEF Spec, WakeJustified

(* What has halted stays halted (Opcode::Halt, InstanceState::Done), in    *)
(* the same designs.                                                       *)
THEOREM HaltsFinal ==
  ASSUME \A d \in Designs : TimersAlone(d)
  PROVE  Spec => HaltIsFinal
<1>1. TypeOK /\ TimersFit /\ [Next]_vars => TimersFit'
  BY FitNext
<1>2. TypeOK /\ TimersFit /\ [Next]_vars =>
        [\A i \in Insts : state[i].kind = "Done" => state'[i].kind = "Done"]_vars
  BY WakeSteps DEF WakesRight
<1> QED BY <1>1, <1>2, FitInit, TypeCorrect, PTL DEF Spec, HaltIsFinal

-----------------------------------------------------------------------------
(* A process that has not halted has an instruction to execute.            *)
Fed == \A i \in Insts :
         design.kind[i] = "process" /\ state[i].kind # "Done" => AtInstr(i)

LEMMA DesignVerified ==
  ASSUME \A d \in Designs : Verified(d), TypeOK,
         NEW i \in Insts, design.kind[i] = "process"
  PROVE  /\ VerifiedProcess(design.code[i])
         /\ design.code[i] \in Seq(Seq(Instrs))
BY DesignTyped DEF TypeOK, Verified

(* Control goes to the beginning of a block of the process, or to the next *)
(* instruction of a block that does not end here.                          *)
LEMMA JumpFed ==
  ASSUME \A d \in Designs : Verified(d), TypeOK, Fed,
         NEW i \in Insts, design.kind[i] = "process", AtInstr(i),
         NEW b \in Targets(Instr(i)), Jump(i, b), design' = design
  PROVE  AtInstr(i)'
<1> DEFINE code == design.code[i]
<1>1. VerifiedProcess(code) /\ code \in Seq(Seq(Instrs))
  BY DesignVerified
<1>2. b \in DOMAIN code
  BY <1>1 DEF AtInstr, Instr, Block, VerifiedProcess
<1>3. code[b] \in Seq(Instrs) /\ code[b] # <<>>
  BY <1>1, <1>2 DEF VerifiedProcess
<1>4. 1 \in DOMAIN code[b]
  BY <1>3
<1>5. pc'[i] = [blk |-> b, pos |-> 1]
  BY DEF Jump, TypeOK
<1> QED BY <1>2, <1>4, <1>5 DEF AtInstr, Block

LEMMA FallthroughFed ==
  ASSUME \A d \in Designs : Verified(d), TypeOK,
         NEW i \in Insts, design.kind[i] = "process", AtInstr(i),
         Instr(i).op \notin TerminatorOps, Fallthrough(i), design' = design
  PROVE  AtInstr(i)'
<1> DEFINE blk == design.code[i][pc[i].blk]
           n == pc[i].pos
<1>1. VerifiedProcess(design.code[i]) /\ design.code[i] \in Seq(Seq(Instrs))
  BY DesignVerified
<1>2. pc[i].blk \in DOMAIN design.code[i] /\ blk \in Seq(Instrs)
  BY <1>1 DEF AtInstr
<1>3. n \in DOMAIN blk /\ blk[n].op \notin TerminatorOps
  BY DEF AtInstr, Block, Instr
<1>4. n # Len(blk)
  BY <1>1, <1>2, <1>3 DEF VerifiedProcess
<1>5. n + 1 \in DOMAIN blk
  BY SMTT(30), <1>2, <1>3, <1>4
<1>6. pc'[i] = [blk |-> pc[i].blk, pos |-> n + 1]
  BY DEF Fallthrough, TypeOK
<1> QED BY <1>2, <1>5, <1>6 DEF AtInstr, Block

LEMMA ExecFed ==
  ASSUME \A d \in Designs : Verified(d), TypeOK, Fed, NEW i \in Insts, Exec(i)
  PROVE  Fed' /\ phase' = phase
<1>0. /\ state \in [Insts -> States] /\ pc \in [Insts -> [blk : Nat, pos : Nat]]
      /\ state[i].kind = "Ready" /\ design' = design
  <2>1. Running(i) /\ design' = design
    BY DEF Exec, Prb, Val, Drv, Br, BrCond, WaitSigs, WaitTime, Halt, Starve, Entity,
       Suspend, At, engineVars
  <2> QED BY <2>1 DEF TypeOK, Running
<1>1. design.kind[i] = "process" => AtInstr(i)
  BY <1>0 DEF Fed
<1>2. ASSUME \A j \in Insts \ {i} : state'[j] = state[j] /\ pc'[j] = pc[j],
             design.kind[i] = "process" /\ state'[i].kind # "Done" => AtInstr(i)'
      PROVE  Fed'
  BY <1>0, <1>2 DEF Fed, AtInstr, Block
<1>3. CASE Prb(i) \/ Val(i) \/ Drv(i)
  <2>1. At(i, Instr(i).op) /\ Instr(i).op \in {"prb", "val", "drv"}
    BY <1>3 DEF Prb, Val, Drv, At
  <2>2. Fallthrough(i) /\ state' = state /\ phase' = phase
    BY <1>3 DEF Prb, Val, Drv, engineVars
  <2>3. AtInstr(i)'
    BY <1>0, <2>1, <2>2, FallthroughFed DEF At, TerminatorOps
  <2> QED BY <1>0, <1>2, <2>2, <2>3 DEF Fallthrough
<1>4. CASE Br(i) \/ BrCond(i)
  <2>1. PICK b \in Targets(Instr(i)) : Jump(i, b)
    <3>1. CASE Br(i)
      BY <3>1 DEF Br, At, Targets
    <3>2. CASE BrCond(i)
      BY <3>2 DEF BrCond, At, Targets
    <3> QED BY <1>4, <3>1, <3>2
  <2>2. state' = state /\ phase' = phase /\ design.kind[i] = "process"
    BY <1>4 DEF Br, BrCond, At, engineVars
  <2>3. AtInstr(i)'
    BY <1>0, <1>1, <2>1, <2>2, JumpFed
  <2> QED BY <1>0, <1>2, <2>1, <2>2, <2>3 DEF Jump
<1>5. CASE WaitSigs(i) \/ WaitTime(i)
  <2>1. PICK st : Suspend(i, st, Instr(i).to)
    BY <1>5 DEF WaitSigs, WaitTime
  <2>2. Instr(i).to \in Targets(Instr(i)) /\ design.kind[i] = "process"
    BY <1>5 DEF WaitSigs, WaitTime, At, Targets
  <2>3. AtInstr(i)'
    BY <1>0, <1>1, <2>1, <2>2, JumpFed DEF Suspend
  <2> QED BY <1>0, <1>2, <2>1, <2>3 DEF Suspend, Jump, engineVars
<1>6. CASE Halt(i)
  <2>1. Suspend(i, Done, NoBlock)
    BY <1>6 DEF Halt
  <2>2. state'[i].kind = "Done"
    BY <1>0, <2>1 DEF Suspend, Done
  <2> QED BY <1>0, <1>2, <2>1, <2>2 DEF Suspend, Jump, engineVars
<1>7. CASE Entity(i)
  <2>1. design.kind[i] # "process" /\ pc' = pc /\ phase' = phase
    BY <1>7 DEF Entity, engineVars
  <2>2. \A j \in Insts \ {i} : state'[j] = state[j]
    BY <1>0, <1>7 DEF Entity
  <2> QED BY <1>2, <2>1, <2>2
<1>8. CASE Starve(i)
  BY <1>1, <1>8 DEF Starve
<1> QED BY <1>3, <1>4, <1>5, <1>6, <1>7, <1>8 DEF Exec

LEMMA FedInit ==
  ASSUME \A d \in Designs : Verified(d), Init
  PROVE  Fed
<1> SUFFICES ASSUME NEW i \in Insts, design.kind[i] = "process" PROVE AtInstr(i)
  BY DEF Fed
<1>1. VerifiedProcess(design.code[i]) /\ design.code[i] \in Seq(Seq(Instrs))
  BY TypeInit, DesignVerified
<1>2. 1 \in DOMAIN design.code[i]
  BY <1>1 DEF VerifiedProcess
<1>3. design.code[i][1] \in Seq(Instrs) /\ design.code[i][1] # <<>>
  BY <1>1, <1>2 DEF VerifiedProcess
<1>4. 1 \in DOMAIN design.code[i][1]
  BY <1>3
<1>5. pc[i] = [blk |-> 1, pos |-> 1]
  BY DEF Init
<1> QED BY <1>2, <1>4, <1>5 DEF AtInstr, Block

LEMMA FedNext ==
  ASSUME \A d \in Designs : Verified(d) /\ TimersAlone(d),
         TypeOK, TimersFit, Fed, NeverStarved, [Next]_vars
  PROVE  Fed' /\ NeverStarved'
<1>1. CASE \E i \in Insts : Exec(i)
  BY <1>1, ExecFed DEF NeverStarved
<1>2. CASE ~\E i \in Insts : Exec(i)
  <2>1. /\ UNCHANGED <<design, pc>> /\ phase' # "panic"
    BY <1>2 DEF Next, BeginStep, LimitReached, ApplyEvent, WakeTimed, WakeSensed, EndStep,
       Over, vars, insts, NeverStarved
  <2>2. \A i \in Insts : state[i].kind = "Done" => state'[i].kind = "Done"
    BY WakeSteps DEF WakesRight
  <2>3. Fed'
    BY <2>1, <2>2 DEF Fed, AtInstr, Block
  <2> QED BY <2>1, <2>3 DEF NeverStarved
<1> QED BY <1>1, <1>2

(* step_process never finds a process without instructions, as its comment *)
(* says (engine.rs:283), in every verified design in which no process      *)
(* waits for a time and for signals at once: those waits alone are what    *)
(* the panic takes.                                                        *)
THEOREM ProcessesFed ==
  ASSUME \A d \in Designs : Verified(d) /\ TimersAlone(d)
  PROVE  Spec => []NeverStarved
<1>1. Init => TimersFit /\ Fed /\ NeverStarved
  BY FitInit, FedInit DEF Init, NeverStarved
<1>2. TypeOK /\ TimersFit /\ Fed /\ NeverStarved /\ [Next]_vars
        => TimersFit' /\ Fed' /\ NeverStarved'
  BY FitNext, FedNext
<1> QED BY <1>1, <1>2, TypeCorrect, PTL DEF Spec

=============================================================================
