------------------------------ MODULE SimEngine ------------------------------
(***************************************************************************)
(* The event-driven execution engine of llhd-sim                           *)
(* (src/bin/llhd-sim/engine.rs and state.rs).                              *)
(*                                                                         *)
(* Engine::step is split at the points where another order of the same     *)
(* work is possible: the events due now are applied one at a time in the   *)
(* arbitrary order of a HashMap, and the ready instances run instruction   *)
(* by instruction, interleaved as rayon's worker threads interleave them.  *)
(*                                                                         *)
(*   idle --BeginStep--> apply --ApplyEvent*, WakeTimed--> sense           *)
(*        --WakeSensed--> exec --(instructions)*, EndStep--> idle          *)
(***************************************************************************)
EXTENDS SimDesign

CONSTANTS
  UntilStep,    \* the step limit of Engine::run, or NoLimit
  NoLimit,
  Parallelize   \* Engine::parallelize

ASSUME LimitAssumption == UntilStep \in Nat \cup {NoLimit} /\ NoLimit \notin Nat
ASSUME ParallelAssumption == Parallelize \in BOOLEAN

VARIABLES
  design,   \* the design under simulation, fixed by Init
  phase,    \* where Engine::run stands
  step,     \* Engine::step
  time,     \* State::time
  sig,      \* State::signals: the current value of every signal
  events,   \* State::events: records [time, ptr, val], one per time and ptr
  timed,    \* State::timed: pairs <<time, instance>>
  state,    \* InstanceState of every instance
  pc,       \* next_block of a process; the position in it while it runs
  values,   \* Instance::values: the value table of every instance
  due,      \* the events taken from the queue in this step, not yet applied
  changed,  \* changed_signals
  ready,    \* ready_insts
  out       \* the events each ready instance has produced in this step

queues  == <<events, timed>>
insts   == <<state, pc, values>>
locals  == <<due, changed, ready, out>>
vars    == <<design, phase, step, time, sig, queues, insts, locals>>

-----------------------------------------------------------------------------
Init ==
  /\ design \in Designs
  /\ phase = "idle" /\ step = 0 /\ time = Zero
  /\ sig = design.init
  /\ events = {} /\ timed = {}
  /\ state = [i \in Insts |-> Ready]
  /\ pc = [i \in Insts |-> [blk |-> 1, pos |-> 1]]
  /\ values = [i \in Insts |-> [r \in Regs |-> {}]]
  /\ due = {} /\ changed = {} /\ ready = {}
  /\ out = [i \in Insts |-> <<>>]

-----------------------------------------------------------------------------
(* Engine::run enters another step only below its step limit.              *)
MayStep == UntilStep # NoLimit => step < UntilStep

BeginStep ==
  /\ phase = "idle" /\ MayStep
  /\ phase' = "apply" /\ step' = step + 1
  /\ due' = {e \in events : e.time = time}
  /\ events' = events \ due'
  /\ changed' = {}
  /\ UNCHANGED <<design, time, sig, timed, insts, ready, out>>

LimitReached ==
  /\ phase = "idle" /\ ~MayStep
  /\ phase' = "stopped"
  /\ UNCHANGED <<design, step, time, sig, queues, insts, locals>>

(* One iteration over the drained HashMap, whose order is arbitrary.       *)
ApplyEvent ==
  /\ phase = "apply"
  /\ \E e \in due :
       LET s   == e.ptr.sig
           new == Written(sig[s], e.ptr, e.val)
       IN /\ due' = due \ {e}
          /\ sig' = [sig EXCEPT ![s] = new]
          /\ changed' = IF new # sig[s] THEN changed \cup {s} ELSE changed
  /\ UNCHANGED <<design, phase, step, time, queues, insts, ready, out>>

(* take_next_timed, and the state every instance in it is put in.          *)
Expired == {i \in Insts : <<time, i>> \in timed}
TimedWokenAll ==   \* mutant: one expired timer wakes everybody
  [i \in Insts |-> IF Expired # {} THEN Ready ELSE state[i]]
TimedWoken == [i \in Insts |-> IF i \in Expired THEN Ready ELSE state[i]]

WakeTimed ==
  /\ phase = "apply" /\ due = {}
  /\ phase' = "sense"
  /\ state' = TimedWoken
  /\ timed' = {w \in timed : w[1] # time}
  /\ UNCHANGED <<design, step, time, sig, events, pc, values, locals>>

TriggeredByAny(i) ==   \* mutant: the sensitivity list is ignored
  state[i].kind = "Wait" /\ changed # {}
Triggered(i) == state[i].kind = "Wait" /\ state[i].sigs \cap changed # {}

(* The instances that execute in this step.                                *)
CollectedEarly(st) == {i \in Insts : state[i].kind = "Ready"}   \* mutant: before the wake-ups
Collected(st) == {i \in Insts : st[i].kind = "Ready"}

WakeSensed ==
  /\ phase = "sense"
  /\ phase' = "exec"
  /\ state' = [i \in Insts |-> IF Triggered(i) THEN Ready ELSE state[i]]
  /\ ready' = Collected(state')
  /\ UNCHANGED <<design, step, time, sig, queues, pc, values, due, changed, out>>

-----------------------------------------------------------------------------
(* An instance runs from the moment it is ready until it suspends.  Without *)
(* parallelize the ready instances run one after the other, by index.      *)
Running(i) ==
  /\ phase = "exec" /\ i \in ready /\ state[i].kind = "Ready"
  /\ ~Parallelize => \A j \in ready : state[j].kind = "Ready" => i <= j

Block(i)   == design.code[i][pc[i].blk]
AtInstr(i) == /\ pc[i].blk \in DOMAIN design.code[i]
              /\ pc[i].pos \in DOMAIN Block(i)
Instr(i)   == Block(i)[pc[i].pos]

(* Process i is about to execute an instruction of kind op.                *)
At(i, op) == /\ Running(i) /\ design.kind[i] = "process"
             /\ AtInstr(i) /\ Instr(i).op = op

FallthroughStuck(i) == pc' = [pc EXCEPT ![i] = @]   \* mutant: never advances
Fallthrough(i) == pc' = [pc EXCEPT ![i] = [blk |-> pc[i].blk, pos |-> pc[i].pos + 1]]
Jump(i, b)     == pc' = [pc EXCEPT ![i] = [blk |-> b, pos |-> 1]]

engineVars == <<design, phase, step, time, sig, queues, due, changed, ready>>

Prb(i) ==
  /\ At(i, "prb")
  /\ values' = [values EXCEPT ![i][Instr(i).dst] =
                  Read(sig[Instr(i).ptr.sig], Instr(i).ptr)]
  /\ Fallthrough(i)
  /\ UNCHANGED <<engineVars, state, out>>

Val(i) ==
  /\ At(i, "val")
  /\ values' = [values EXCEPT ![i][Instr(i).dst] =
                  Invert(Instr(i).inv, values[i][Instr(i).src])]
  /\ Fallthrough(i)
  /\ UNCHANGED <<engineVars, state, out>>

Drv(i) ==
  /\ At(i, "drv")
  /\ out' = [out EXCEPT ![i] = Append(@, Event(AfterDelay(time, Instr(i).delay),
                                               Instr(i).ptr,
                                               values[i][Instr(i).src]))]
  /\ Fallthrough(i)
  /\ UNCHANGED <<engineVars, state, values>>

Br(i) ==
  /\ At(i, "br")
  /\ Jump(i, Instr(i).to)
  /\ UNCHANGED <<engineVars, state, values, out>>

BrCond(i) ==
  /\ At(i, "brcond")
  /\ Jump(i, IF values[i][Instr(i).src] = {} THEN Instr(i).to0 ELSE Instr(i).to1)
  /\ UNCHANGED <<engineVars, state, values, out>>

(* Action::Suspend: the state to wait in and the block to resume at.       *)
Suspend(i, st, b) ==
  /\ state' = [state EXCEPT ![i] = st]
  /\ Jump(i, b)
  /\ UNCHANGED <<engineVars, values, out>>

WaitSigs(i) == At(i, "wait") /\ Suspend(i, Wait(None, Instr(i).sigs), Instr(i).to)

WaitTime(i) ==
  /\ At(i, "waittime")
  /\ Suspend(i, Wait(Some(AfterDelay(time, Instr(i).delay)), Instr(i).sigs),
             Instr(i).to)

Halt(i) == At(i, "halt") /\ Suspend(i, Done, NoBlock)

(* No next_block, or a block without a terminator: step_process panics.    *)
Starve(i) ==
  /\ Running(i) /\ design.kind[i] = "process" /\ ~AtInstr(i)
  /\ phase' = "panic"
  /\ UNCHANGED <<design, step, time, sig, queues, insts, locals>>

(* step_entity: in the first step every instruction runs, in program       *)
(* order; later the uses of the changed signals do, in the arbitrary order *)
(* of a HashSet, and a drive is repeated if the value it depends on has    *)
(* changed since it was last probed.                                       *)
Flow(i, k)   == design.flows[i][k]
Probed(i, k) == Read(sig[Flow(i, k).from.sig], Flow(i, k).from)
Fires(i, k)  ==
  \/ step = 1
  \/ Flow(i, k).from.sig \in changed /\ Probed(i, k) # values[i][Flow(i, k).reg]

Firing(i) == {k \in DOMAIN design.flows[i] : Fires(i, k)}
Order(i)  == {q \in [1..Cardinality(Firing(i)) -> Firing(i)] :
                \A a, b \in DOMAIN q : a < b => IF step = 1 THEN q[a] < q[b]
                                                ELSE q[a] # q[b]}

FlowEvent(i, k) == Event(AfterDelay(time, Flow(i, k).delay), Flow(i, k).to,
                         Invert(Flow(i, k).inv, Probed(i, k)))

Entity(i) ==
  /\ Running(i) /\ design.kind[i] = "entity"
  /\ \E q \in Order(i) :
       out' = [out EXCEPT ![i] = [n \in DOMAIN q |-> FlowEvent(i, q[n])]]
  /\ values' = [values EXCEPT ![i] =
       [r \in Regs |-> IF \E k \in Firing(i) : Flow(i, k).reg = r
                       THEN Probed(i, CHOOSE k \in Firing(i) : Flow(i, k).reg = r)
                       ELSE values[i][r]]]
  /\ state' = [state EXCEPT ![i] = Wait(None, design.ports[i])]
  /\ UNCHANGED <<engineVars, pc>>

-----------------------------------------------------------------------------
(* The produced events in the order schedule_events inserts them: instance *)
(* by instance, then in program order.                                     *)
Produced == UNION {{<<i, n>> : n \in DOMAIN out[i]} : i \in Insts}
Earlier(a, b) ==   \* mutant: the first drive of a slot stays
  a[1] < b[1] \/ (a[1] = b[1] /\ a[2] < b[2])
Later(a, b) == a[1] > b[1] \/ (a[1] = b[1] /\ a[2] > b[2])

ScheduledTwice ==   \* mutant: a queue of events instead of a map
  events \cup {out[a[1]][a[2]] : a \in Produced}

(* Inserting under an occupied time and pointer replaces the value, so the *)
(* last event produced for a slot is the one that stays.                   *)
Scheduled ==
  LET Ev(a) == out[a[1]][a[2]]
  IN   {e \in events : \A a \in Produced : ~SameSlot(e, Ev(a))}
  \cup {Ev(a) : a \in {a \in Produced :
          \A b \in Produced : Later(b, a) => ~SameSlot(Ev(b), Ev(a))}}

SleepersOverwritten ==   \* mutant: one instance per instant in the wake queue
  UNION {{<<t, i>> : t \in {t \in state[i].until :
    \A j \in ready : t \in state[j].until => j <= i}} : i \in ready}
SleepersUnobserving ==   \* mutant: an instance woken by signals needs no timer
  UNION {{<<t, i>> : t \in {t \in state[i].until : state[i].sigs = {}}} : i \in ready}
(* Only the instances that ran in this step are entered into the queue.    *)
Sleepers == UNION {{<<t, i>> : t \in state[i].until} : i \in ready}

AgendaOfEvents(E, W) == {e.time : e \in E}   \* mutant: next_time forgets the timers
AgendaOfTimers(E, W) == {w[1] : w \in W}      \* mutant: next_time forgets the events
Agenda(E, W) == {e.time : e \in E} \cup {w[1] : w \in W}

EndStep ==
  /\ phase = "exec"
  /\ \A i \in ready : state[i].kind # "Ready"
  /\ events' = Scheduled
  /\ timed' = timed \cup Sleepers
  /\ LET agenda == Agenda(events', timed')
     IN \/ /\ agenda = {} /\ phase' = "stopped" /\ time' = time
        \/ /\ \E t \in agenda : Earliest(agenda, t) /\ time' = t
           /\ phase' = "idle"
  /\ changed' = {} /\ ready' = {} /\ out' = [i \in Insts |-> <<>>]
  /\ UNCHANGED <<design, step, sig, insts, due>>

(* The engine has returned or panicked.                                    *)
Over == phase \in {"stopped", "panic"} /\ UNCHANGED vars

Exec(i) == \/ Prb(i) \/ Val(i) \/ Drv(i) \/ Br(i) \/ BrCond(i)
           \/ WaitSigs(i) \/ WaitTime(i) \/ Halt(i) \/ Starve(i) \/ Entity(i)

Next == \/ BeginStep \/ LimitReached
        \/ ApplyEvent \/ WakeTimed \/ WakeSensed
        \/ \E i \in Insts : Exec(i)
        \/ EndStep \/ Over

Spec == Init /\ [][Next]_vars

-----------------------------------------------------------------------------
Phases == {"idle", "apply", "sense", "exec", "stopped", "panic"}

(* Types of the engine's state (struct State, Instance, InstanceState).    *)
TypeOK ==
  /\ design \in Designs
  /\ phase \in Phases /\ step \in Nat /\ time \in Times
  /\ sig \in [Sigs -> Values]
  /\ events \subseteq Events /\ due \subseteq Events
  /\ timed \subseteq Times \X Insts
  /\ state \in [Insts -> States]
  /\ pc \in [Insts -> [blk : Nat, pos : Nat]]
  /\ values \in [Insts -> [Regs -> Values]]
  /\ changed \subseteq Sigs /\ ready \subseteq Insts
  /\ out \in [Insts -> Seq(Events)]

(* Nothing is queued for the past: what next_time picks never turns the    *)
(* clock back, and once the entries of an instant have been taken from a   *)
(* queue, none of that instant is left behind to be overtaken.             *)
QueuesAhead ==
  /\ \A e \in events : IF phase \in {"apply", "sense", "exec"}
                       THEN TimeLess(time, e.time) ELSE TimeLeq(time, e.time)
  /\ \A w \in timed  : IF phase \in {"sense", "exec"}
                       THEN TimeLess(time, w[1]) ELSE TimeLeq(time, w[1])
  /\ \A e \in due : phase = "apply" /\ e.time = time

(* assert!(i.time >= time) in schedule_events and schedule_timed: what an  *)
(* execution hands to the queues is not in the past.                       *)
ScheduleAsserts ==
  /\ \A i \in Insts : \A n \in DOMAIN out[i] : TimeLeq(time, out[i][n].time)
  /\ \A i \in ready : \A t \in state[i].until : TimeLeq(time, t)

(* No lost timer: an instance in a wait with a time limit is in the wake   *)
(* queue under its deadline, except in the very step in which it suspended *)
(* (Engine::step enters the timed waits at the end).                       *)
TimersQueued ==
  \A i \in Insts : \A t \in state[i].until :
    <<t, i>> \in timed \/ (phase \in {"exec", "panic"} /\ i \in ready)

(* Every instance woken in a step is run to its next suspension in that    *)
(* step: between two steps nobody is left ready.                           *)
NoneLeftReady ==
  phase \in {"idle", "stopped"} /\ step > 0 =>
    \A i \in Insts : state[i].kind # "Ready"

(* Only the instances collected in ready_insts run: no other one is ready  *)
(* or has events in flight, and outside of the execution nobody has.       *)
ReadyCollected ==
  /\ phase = "exec" => \A i \in Insts \ ready :
                         state[i].kind # "Ready" /\ out[i] = <<>>
  /\ phase \notin {"exec", "panic"} => ready = {} /\ \A i \in Insts : out[i] = <<>>

(* When the engine returns on its own account, there is nothing it could   *)
(* still do: no drive is pending and nobody waits for a deadline.          *)
QuiescentAtEnd ==
  phase = "stopped" /\ MayStep =>
    events = {} /\ \A i \in Insts : state[i].until = {}

(* The BTreeMap and its HashMaps hold one value per instant and pointer.   *)
OneValuePerSlot ==
  \A e, f \in events \cup due : SameSlot(e, f) => e = f

(* "We should never arrive here, since every block ends with a terminator  *)
(* instruction" (step_process).                                            *)
NeverStarved == phase # "panic"

(* The simulation time never runs backwards.                               *)
TimeMonotone == [][TimeLeq(time, time')]_vars

(* A wait ends only because an observed signal has changed in this step or *)
(* because the time limit of that very wait has expired.                   *)
WakeJustified ==
  [][\A i \in Insts :
       state[i].kind = "Wait" /\ state'[i].kind = "Ready" =>
         time \in state[i].until \/ state[i].sigs \cap changed # {}]_vars

(* halt terminates a process: it is never put in another state again.      *)
HaltIsFinal ==
  [][\A i \in Insts : state[i].kind = "Done" => state'[i].kind = "Done"]_vars

(* A wait with a time limit ends, unless the engine hits its step limit.   *)
TimedWaitEnds ==
  \A i \in Insts :
    (state[i].until # {}) ~> (state[i].until = {} \/ step = UntilStep)

(* Every scheduled drive is taken from the queue and applied, unless the   *)
(* engine hits its step limit.                                             *)
DrivesApplied == (events # {}) ~> (events \cup due = {} \/ step = UntilStep)

(* A step that has begun is brought to its end.                            *)
StepsEnd == (phase \in {"apply", "sense", "exec"}) ~>
              (phase \in {"idle", "stopped", "panic"})
=============================================================================
