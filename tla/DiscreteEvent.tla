---------------------------- MODULE DiscreteEvent ----------------------------
(***************************************************************************)
(* What the simulation of a design means (doc/LANGUAGE.md, prb, drv, wait, *)
(* halt), in steps that are atomic and have no order inside: at an instant *)
(* all drives due take effect at once, every process whose wait is over    *)
(* runs to its next wait on the signals as they are then, and what the     *)
(* processes drive is scheduled.  There is no queue of wake-ups: a process *)
(* wakes at its own deadline, or when a signal it observes has another     *)
(* value than before.  SimEngineRefinement shows that the engine, with its *)
(* two queues and its threads, implements this.                            *)
(*                                                                         *)
(* Where two drives of one instant touch the same lane, the lane is as     *)
(* either wants it, and the change back and forth may be noticed.          *)
(***************************************************************************)
EXTENDS SimDesign

VARIABLES
  design,
  started,  \* FALSE until the first instant, in which everybody runs
  now,      \* the instant of the next step
  sig,      \* the value of every signal
  agenda,   \* the drives that have not taken effect
  procs     \* for every instance its wait, the block it resumes at, its values

vars == <<design, started, now, sig, agenda, procs>>

Init ==
  /\ design \in Designs
  /\ started = FALSE /\ now = Zero
  /\ sig = design.init
  /\ agenda = {}
  /\ procs = [i \in Insts |-> [wait |-> Ready, at |-> 1,
                               values |-> [r \in Regs |-> {}]]]

-----------------------------------------------------------------------------
(* The drives that are due, those of signal s, those of its lane l.        *)
DueAt(t) == {e \in agenda : e.time = t}
DueOf(s) == {e \in DueAt(now) : e.ptr.sig = s}
DueOn(s, l) == {e \in DueOf(s) : l \in e.ptr.sel}

(* What s may be when they have taken effect, and which signals are then   *)
(* seen to change.                                                         *)
Driven(s, v) ==
  \A l \in Lanes : IF DueOn(s, l) = {} THEN l \in v <=> l \in sig[s]
                   ELSE \E e \in DueOn(s, l) : l \in v <=> l \in e.val
Contended(s) == \E e, f \in DueOf(s) : e # f /\ e.ptr.sel \cap f.ptr.sel # {}
Changes(S, seen) ==
  \A s \in Sigs : /\ S[s] # sig[s] => s \in seen
                  /\ s \in seen => S[s] # sig[s] \/ Contended(s)

Wakes(i, seen) ==
  \/ ~started
  \/ now \in procs[i].wait.until
  \/ procs[i].wait.sigs \cap seen # {}

-----------------------------------------------------------------------------
(* A process at work: at an instruction of a block, with its values and    *)
(* the drives so far in program order.  It ends when it waits.             *)
Machine(w, b, n, x, d) == [wait |-> w, at |-> b, pos |-> n, values |-> x, drives |-> d]
Machines == [wait : States, at : Blocks, pos : Nat, values : [Regs -> Values], drives : Seq(Events)]

Continued(code, t, S, m) ==
  LET I == code[m.at][m.pos]
      On(x, d) == Machine(Ready, m.at, m.pos + 1, x, d)
      To(w, b) == Machine(w, b, 1, m.values, m.drives)
  IN IF m.at \notin DOMAIN code \/ m.pos \notin DOMAIN code[m.at]
     THEN To(Done, NoBlock)   \* not in a verified design
     ELSE CASE I.op = "prb"  -> On([m.values EXCEPT ![I.dst] = Read(S[I.ptr.sig], I.ptr)], m.drives)
            [] I.op = "val"  -> On([m.values EXCEPT ![I.dst] = Invert(I.inv, m.values[I.src])], m.drives)
            [] I.op = "drv"  -> On(m.values, Append(m.drives, Event(AfterDelay(t, I.delay), I.ptr,
                                                                    m.values[I.src])))
            [] I.op = "br"   -> To(Ready, I.to)
            [] I.op = "brcond" -> To(Ready, IF m.values[I.src] = {} THEN I.to0 ELSE I.to1)
            [] I.op = "wait" -> To(Wait(None, I.sigs), I.to)
            [] I.op = "waittime" -> To(Wait(Some(AfterDelay(t, I.delay)), I.sigs), I.to)
            [] I.op = "halt" -> To(Done, NoBlock)

(* What becomes of a machine that is run at the instant t on the signals S. *)
Run(code, t, S) ==
  LET run[m \in Machines] == IF m.wait # Ready THEN m ELSE run[Continued(code, t, S, m)]
  IN run

(* Of several drives with one pointer and instant the last one counts.     *)
Lasting(d) == {d[n] : n \in {n \in DOMAIN d : \A k \in DOMAIN d : k > n => ~SameSlot(d[n], d[k])}}

(* What an instance is after a step, and what it drives.                   *)
Result(w, b, x, D) == [proc |-> [wait |-> w, at |-> b, values |-> x], drives |-> D]

Ran(i, S) ==
  LET m == Run(design.code[i], now, S)[Machine(Ready, procs[i].at, 1, procs[i].values, <<>>)]
  IN Result(m.wait, m.at, m.values, Lasting(m.drives))

(* An entity drives with every flow whose source has a new value.          *)
Flowed(i, S) ==
  LET F == design.flows[i]
      Probed(k) == Read(S[F[k].from.sig], F[k].from)
      Fired == {k \in DOMAIN F : ~started \/ Probed(k) # procs[i].values[F[k].reg]}
      Drive(k) == Event(AfterDelay(now, F[k].delay), F[k].to, Invert(F[k].inv, Probed(k)))
  IN Result(Wait(None, design.ports[i]), procs[i].at,
            [r \in Regs |-> IF \E k \in DOMAIN F : F[k].reg = r
                            THEN Probed(CHOOSE k \in DOMAIN F : F[k].reg = r)
                            ELSE procs[i].values[r]],
            {Drive(k) : k \in Fired})

Resumed(i, S, seen) ==
  IF ~Wakes(i, seen) THEN Result(procs[i].wait, procs[i].at, procs[i].values, {})
  ELSE IF design.kind[i] = "entity" THEN Flowed(i, S)
  ELSE Ran(i, S)

(* The drives of a step are scheduled, D[i] of instance i, in place of     *)
(* those with the same pointer and instant: one of the last instance that  *)
(* has any.                                                                *)
Overridden(e, D) == \E f \in D : SameSlot(e, f)
Lasts(D) == UNION {{e \in D[i] : \A j \in Insts : j > i => ~Overridden(e, D[j])} : i \in Insts}
Posted(left, D, A) ==
  LET stay == {e \in left : \A i \in Insts : ~Overridden(e, D[i])}
  IN /\ stay \subseteq A /\ A \subseteq stay \cup Lasts(D)
     /\ \A e \in Lasts(D) : \E f \in A \cap Lasts(D) : SameSlot(e, f)
     /\ \A e, f \in A : SameSlot(e, f) => e = f

Instants(A, P) == {e.time : e \in A} \cup UNION {P[i].wait.until : i \in Insts}

Step ==
  /\ ~started \/ Instants(agenda, procs) # {}
  /\ \E S \in [Sigs -> Values], seen \in SUBSET Sigs :
       LET res == [i \in Insts |-> Resumed(i, S, seen)]
       IN /\ \A s \in Sigs : Driven(s, S[s])
          /\ Changes(S, seen)
          /\ sig' = S
          /\ procs' = [i \in Insts |-> res[i].proc]
          /\ Posted(agenda \ DueAt(now), [i \in Insts |-> res[i].drives], agenda')
  /\ started' = TRUE
  /\ LET next == Instants(agenda', procs')
     IN IF next = {} THEN now' = now ELSE Earliest(next, now')
  /\ UNCHANGED design

Spec == Init /\ [][Step]_vars
=============================================================================
