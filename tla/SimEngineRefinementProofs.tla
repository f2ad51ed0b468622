---------------------- MODULE SimEngineRefinementProofs ----------------------
(***************************************************************************)
(* The engine implements the meaning of its design: for every design in    *)
(* which no process waits for a time and for signals at once and every     *)
(* entity is sensitive to what it probes, every number of instances, every *)
(* step limit, sequential and parallel.                                    *)
(*                                                                         *)
(* The invariant relates the engine in the middle of a step to the state   *)
(* that it was in before the step (past): which drives have been applied   *)
(* so far, who has to run, and that whoever runs is on its way to where    *)
(* the atomic step puts it.                                                *)
(***************************************************************************)
EXTENDS SimEngineRefinement, SimEngineProofs, NatFacts

-----------------------------------------------------------------------------
(* A machine run until it ends.                                            *)

(* The machines of E that m becomes when g is applied until it is in E.    *)
Reaches(g, M, E, m, k, h) ==
  /\ h \in [0..k -> M] /\ h[0] = m /\ \A j \in 1..k : h[j] = g[h[j - 1]]
  /\ h[k] \in E /\ \A j \in 0..(k - 1) : h[j] \notin E
Ends(g, M, E, m) == {e \in E : \E k \in Nat : \E h : Reaches(g, M, E, m, k, h) /\ h[k] = e}

LEMMA EndsAtOnce ==
  ASSUME NEW M, NEW E \in SUBSET M, NEW g, NEW m \in E
  PROVE  Ends(g, M, E, m) = {m}
<1>1. m \in Ends(g, M, E, m)
  <2> DEFINE h == [j \in 0..0 |-> m]
  <2>1. Reaches(g, M, E, m, 0, h)
    BY DEF Reaches
  <2>2. h[0] = m
    OBVIOUS
  <2> QED BY <2>1, <2>2 DEF Ends
<1>2. ASSUME NEW e \in Ends(g, M, E, m) PROVE e = m
  <2>1. PICK k \in Nat : \E h : Reaches(g, M, E, m, k, h) /\ h[k] = e
    BY DEF Ends
  <2>2. PICK h : Reaches(g, M, E, m, k, h) /\ h[k] = e
    BY <2>1
  <2>3. h[0] = m /\ \A j \in 0..(k - 1) : h[j] \notin E
    BY <2>2 DEF Reaches
  <2>4. k = 0
    BY <2>3
  <2> QED BY <2>2, <2>3, <2>4
<1> QED BY <1>1, <1>2

LEMMA EndsLater ==
  ASSUME NEW M, NEW E \in SUBSET M, NEW g, NEW m \in M \ E, g[m] \in M
  PROVE  Ends(g, M, E, m) = Ends(g, M, E, g[m])
<1>1. ASSUME NEW e \in Ends(g, M, E, m) PROVE e \in Ends(g, M, E, g[m])
  <2>1. PICK k \in Nat : \E h : Reaches(g, M, E, m, k, h) /\ h[k] = e
    BY DEF Ends
  <2>2. PICK h : Reaches(g, M, E, m, k, h) /\ h[k] = e
    BY <2>1
  <2>3. /\ h \in [0..k -> M] /\ h[0] = m /\ \A j \in 1..k : h[j] = g[h[j - 1]]
        /\ h[k] \in E /\ \A j \in 0..(k - 1) : h[j] \notin E
    BY <2>2 DEF Reaches
  <2>4. k # 0 /\ k - 1 \in Nat
    BY <2>3
  <2> DEFINE f == [j \in 0..(k - 1) |-> h[j + 1]]
  <2>5. f \in [0..(k - 1) -> M]
    BY <2>3, <2>4
  <2>6. f[0] = g[m]
    BY <2>3, <2>4
  <2>7. \A j \in 1..(k - 1) : f[j] = g[f[j - 1]]
    BY <2>3, <2>4
  <2>8. f[k - 1] = h[k] /\ \A j \in 0..(k - 1 - 1) : f[j] \notin E
    BY <2>3, <2>4
  <2> HIDE DEF f
  <2>9. Reaches(g, M, E, g[m], k - 1, f)
    BY <2>3, <2>5, <2>6, <2>7, <2>8 DEF Reaches
  <2> QED BY <2>2, <2>3, <2>4, <2>8, <2>9 DEF Ends
<1>2. ASSUME NEW e \in Ends(g, M, E, g[m]) PROVE e \in Ends(g, M, E, m)
  <2>1. PICK k \in Nat : \E h : Reaches(g, M, E, g[m], k, h) /\ h[k] = e
    BY DEF Ends
  <2>2. PICK h : Reaches(g, M, E, g[m], k, h) /\ h[k] = e
    BY <2>1
  <2>3. /\ h \in [0..k -> M] /\ h[0] = g[m] /\ \A j \in 1..k : h[j] = g[h[j - 1]]
        /\ h[k] \in E /\ \A j \in 0..(k - 1) : h[j] \notin E
    BY <2>2 DEF Reaches
  <2> DEFINE f == [j \in 0..(k + 1) |-> IF j = 0 THEN m ELSE h[j - 1]]
  <2>5. f \in [0..(k + 1) -> M]
    BY <2>3
  <2>6. f[0] = m
    OBVIOUS
  <2>7. \A j \in 1..(k + 1) : f[j] = g[f[j - 1]]
    <3> SUFFICES ASSUME NEW j \in 1..(k + 1) PROVE f[j] = g[f[j - 1]]
      OBVIOUS
    <3>1. CASE j = 1
      BY <2>3, <3>1
    <3>2. CASE j # 1
      BY <2>3, <3>2
    <3> QED BY <3>1, <3>2
  <2>8. f[k + 1] = h[k] /\ \A j \in 0..(k + 1 - 1) : f[j] \notin E
    BY <2>3
  <2> HIDE DEF f
  <2>9. Reaches(g, M, E, m, k + 1, f)
    BY <2>3, <2>5, <2>6, <2>7, <2>8 DEF Reaches
  <2> QED BY <2>2, <2>3, <2>8, <2>9 DEF Ends
<1> QED BY <1>1, <1>2

(* Running a machine until it ends is well defined, also where it does not *)
(* end: the equation of a recursive function has a solution.               *)
RunsUntil(f, g, M, E) == f = [m \in M |-> IF m \in E THEN m ELSE f[g[m]]]

LEMMA RunDefined ==
  ASSUME NEW M, NEW E \in SUBSET M, NEW g \in [M -> M]
  PROVE  \E f : RunsUntil(f, g, M, E)
<1> DEFINE end(m) == CHOOSE e : e \in Ends(g, M, E, m)
           f == [m \in M |-> end(m)]
<1>1. ASSUME NEW m \in E PROVE end(m) = m
  BY EndsAtOnce
<1>2. ASSUME NEW m \in M \ E PROVE end(m) = end(g[m])
  <2>1. Ends(g, M, E, m) = Ends(g, M, E, g[m])
    BY EndsLater
  <2> QED BY <2>1
<1> HIDE DEF end
<1>3. f = [m \in M |-> IF m \in E THEN m ELSE f[g[m]]]
  BY <1>1, <1>2
<1> QED BY <1>3 DEF RunsUntil

LEMMA MachinesAre ==
  Meaning!Machines = [wait : States, at : Nat, pos : Nat, values : [Regs -> Values],
                      drives : Seq(Events)]
BY DEF Meaning!Machines, Meaning!States, States, Meaning!Ready, Meaning!Done, Ready, Done,
   Meaning!Blocks, Meaning!Values, Values, Meaning!Events, Events, Meaning!Ptrs, Ptrs,
   Meaning!Times, Times

(* What an instruction makes of a machine, instruction by instruction.      *)
After(I, t, S, m, n) ==
  LET M(w, b, p, x, d) == Meaning!Machine(w, b, p, x, d)
  IN /\ I.op = "prb" => n = M(Ready, m.at, m.pos + 1, [m.values EXCEPT ![I.dst] =
                                Read(S[I.ptr.sig], I.ptr)], m.drives)
     /\ I.op = "val" => n = M(Ready, m.at, m.pos + 1, [m.values EXCEPT ![I.dst] =
                                Invert(I.inv, m.values[I.src])], m.drives)
     /\ I.op = "drv" => n = M(Ready, m.at, m.pos + 1, m.values,
          Append(m.drives, Event(AfterDelay(t, I.delay), I.ptr, m.values[I.src])))
     /\ I.op = "br" => n = M(Ready, I.to, 1, m.values, m.drives)
     /\ I.op = "brcond" => n = M(Ready, IF m.values[I.src] = {} THEN I.to0 ELSE I.to1,
                                 1, m.values, m.drives)
     /\ I.op = "wait" => n = M(Wait(None, I.sigs), I.to, 1, m.values, m.drives)
     /\ I.op = "waittime" => n = M(Wait(Some(AfterDelay(t, I.delay)), I.sigs), I.to, 1,
                                   m.values, m.drives)
     /\ I.op = "halt" => n = M(Done, NoBlock, 1, m.values, m.drives)

LEMMA ContinuedBy ==
  ASSUME NEW code, NEW t, NEW S, NEW m, m.at \in DOMAIN code, m.pos \in DOMAIN code[m.at]
  PROVE  After(code[m.at][m.pos], t, S, m, Meaning!Continued(code, t, S, m))
BY DEF Meaning!Continued, Meaning!Read, Read, Meaning!Invert, Invert, Meaning!Event, Event,
   Meaning!AfterDelay, AfterDelay, Meaning!Wait, Wait, Meaning!None, None, Meaning!Some, Some,
   Meaning!Done, Done, Meaning!NoBlock, NoBlock, Meaning!Ready, Ready, After

LEMMA Operations ==
  ASSUME NEW I \in Instrs
  PROVE  I.op \in {"prb", "val", "drv", "br", "brcond", "wait", "waittime", "halt"}
BY DEF Instrs

LEMMA MachineTyped ==
  ASSUME NEW w \in States, NEW b \in Nat, NEW n \in Nat, NEW x \in [Regs -> Values],
         NEW d \in Seq(Events)
  PROVE  Meaning!Machine(w, b, n, x, d) \in Meaning!Machines
BY MachinesAre DEF Meaning!Machine

LEMMA MachineKept ==
  ASSUME NEW m \in Meaning!Machines, NEW w \in States, NEW b \in Nat, NEW n \in Nat
  PROVE  Meaning!Machine(w, b, n, m.values, m.drives) \in Meaning!Machines
<1>1. m.values \in [Regs -> Values] /\ m.drives \in Seq(Events)
  BY MachinesAre
<1> QED BY <1>1, MachineTyped

LEMMA SuspendedTyped ==
  ASSUME NEW T \in SUBSET Sigs, NEW t \in Times
  PROVE  Wait(None, T) \in States /\ Wait(Some(t), T) \in States
         /\ Ready \in States /\ Done \in States
BY DEF Wait, None, Some, States, Ready, Done

LEMMA ContinuedTyped ==
  ASSUME NEW code \in Seq(Seq(Instrs)), NEW t \in Times, NEW S \in [Sigs -> Values],
         NEW m \in Meaning!Machines
  PROVE  Meaning!Continued(code, t, S, m) \in Meaning!Machines
<1> DEFINE I == code[m.at][m.pos]
<1>1. /\ m.at \in Nat /\ m.pos \in Nat /\ m.values \in [Regs -> Values]
      /\ m.drives \in Seq(Events)
  BY MachinesAre
<1>2. CASE m.at \notin DOMAIN code \/ m.pos \notin DOMAIN code[m.at]
  <2>1. Meaning!Continued(code, t, S, m) = Meaning!Machine(Done, NoBlock, 1, m.values, m.drives)
    BY <1>2 DEF Meaning!Continued, Meaning!Done, Done, Meaning!NoBlock, NoBlock
  <2>2. Done \in States /\ NoBlock \in Nat /\ 1 \in Nat
    BY DEF Done, States, NoBlock
  <2> QED BY <2>1, <2>2, MachineKept
<1>3. CASE m.at \in DOMAIN code /\ m.pos \in DOMAIN code[m.at]
  <2>1. I \in Instrs
    BY <1>3
  <2>0. After(I, t, S, m, Meaning!Continued(code, t, S, m))
    BY <1>3, ContinuedBy
  <2> HIDE DEF I
  <2>2. m.pos + 1 \in Nat /\ Ready \in States /\ Done \in States /\ NoBlock \in Nat /\ 1 \in Nat
    BY <1>1 DEF Ready, Done, States, NoBlock
  <2>3. CASE I.op = "prb"
    <3>1. I.dst \in Regs /\ I.ptr \in Ptrs
      BY <2>1, <2>3, OperandsTyped
    <3>2. S[I.ptr.sig] \in Values
      BY <3>1 DEF Ptrs
    <3>3. Read(S[I.ptr.sig], I.ptr) \in Values
      BY <3>1, <3>2, ValuesTyped
    <3> DEFINE x == [m.values EXCEPT ![I.dst] = Read(S[I.ptr.sig], I.ptr)]
    <3>4. x \in [Regs -> Values]
      BY <1>1, <3>3
    <3>5. Meaning!Continued(code, t, S, m) = Meaning!Machine(Ready, m.at, m.pos + 1, x, m.drives)
      BY <2>0, <2>3 DEF After
    <3> HIDE DEF x
    <3> QED BY ONLY <1>1, <2>2, <3>4, <3>5, MachineTyped
  <2>4. CASE I.op = "val"
    <3>1. I.dst \in Regs /\ I.src \in Regs
      BY <2>1, <2>4, OperandsTyped
    <3>2. m.values[I.src] \in Values
      BY <1>1, <3>1
    <3>3. Invert(I.inv, m.values[I.src]) \in Values
      BY <3>2 DEF Invert, Values
    <3> DEFINE x == [m.values EXCEPT ![I.dst] = Invert(I.inv, m.values[I.src])]
    <3>4. x \in [Regs -> Values]
      BY <1>1, <3>3
    <3>5. Meaning!Continued(code, t, S, m) = Meaning!Machine(Ready, m.at, m.pos + 1, x, m.drives)
      BY <2>0, <2>4 DEF After
    <3> HIDE DEF x
    <3> QED BY ONLY <1>1, <2>2, <3>4, <3>5, MachineTyped
  <2>5. CASE I.op = "drv"
    <3>1. I.ptr \in Ptrs /\ I.src \in Regs /\ I.delay \in Times
      BY <2>1, <2>5, OperandsTyped
    <3>2. m.values[I.src] \in Values /\ AfterDelay(t, I.delay) \in Times
      BY <1>1, <3>1, DelayAhead
    <3> DEFINE e == Event(AfterDelay(t, I.delay), I.ptr, m.values[I.src])
           d == Append(m.drives, e)
    <3>3. e \in Events
      BY <3>1, <3>2, EventTyped
    <3>4. Meaning!Continued(code, t, S, m) =
            Meaning!Machine(Ready, m.at, m.pos + 1, m.values, d)
      BY <2>0, <2>5 DEF After
    <3> HIDE DEF e
    <3>5. d \in Seq(Events)
      BY <1>1, <3>3
    <3> HIDE DEF d
    <3> QED BY ONLY <1>1, <2>2, <3>4, <3>5, MachineTyped
  <2>6. CASE I.op = "br" \/ I.op = "brcond"
    <3>1. \E b \in Nat : Meaning!Continued(code, t, S, m) = Meaning!Machine(Ready, b, 1, m.values, m.drives)
      <4>1. /\ I.op = "br" => I.to \in Nat
            /\ I.op = "brcond" => I.to0 \in Nat /\ I.to1 \in Nat
        BY <2>1, OperandsTyped
      <4>2. CASE I.op = "br"
        <5>1. Meaning!Continued(code, t, S, m) = Meaning!Machine(Ready, I.to, 1, m.values, m.drives)
          BY <2>0, <4>2 DEF After
        <5> QED BY <4>1, <4>2, <5>1
      <4>3. CASE I.op = "brcond"
        <5>1. Meaning!Continued(code, t, S, m) = Meaning!Machine(Ready,
                IF m.values[I.src] = {} THEN I.to0 ELSE I.to1, 1, m.values, m.drives)
          BY <2>0, <4>3 DEF After
        <5> QED BY <4>1, <4>3, <5>1
      <4> QED BY <2>6, <4>2, <4>3
    <3> QED BY <2>2, <3>1, MachineKept
  <2>7. CASE I.op = "wait"
    <3>1. I.to \in Nat /\ I.sigs \subseteq Sigs
      BY <2>1, <2>7, OperandsTyped
    <3>2. Wait(None, I.sigs) \in States
      BY <3>1, SuspendedTyped
    <3> DEFINE w == Wait(None, I.sigs)
    <3>3. Meaning!Continued(code, t, S, m) = Meaning!Machine(w, I.to, 1, m.values, m.drives)
      BY <2>0, <2>7 DEF After
    <3>4. w \in States
      BY <3>2
    <3> HIDE DEF w
    <3> QED BY <2>2, <3>1, <3>3, <3>4, MachineKept
  <2>8. CASE I.op = "waittime"
    <3>1. I.to \in Nat /\ I.sigs \subseteq Sigs /\ I.delay \in Times
      BY <2>1, <2>8, OperandsTyped
    <3>2. AfterDelay(t, I.delay) \in Times
      BY <3>1, DelayAhead
    <3>3. Wait(Some(AfterDelay(t, I.delay)), I.sigs) \in States
      BY <3>1, <3>2, SuspendedTyped
    <3> DEFINE w == Wait(Some(AfterDelay(t, I.delay)), I.sigs)
    <3>4. Meaning!Continued(code, t, S, m) = Meaning!Machine(w, I.to, 1, m.values, m.drives)
      BY <2>0, <2>8 DEF After
    <3>5. w \in States
      BY <3>3
    <3> HIDE DEF w
    <3> QED BY <2>2, <3>1, <3>4, <3>5, MachineKept
  <2>9. CASE I.op = "halt"
    <3>1. Meaning!Continued(code, t, S, m) = Meaning!Machine(Done, NoBlock, 1, m.values, m.drives)
      BY <2>0, <2>9 DEF After
    <3> QED BY <2>2, <3>1, MachineKept
  <2> QED BY <2>1, <2>3, <2>4, <2>5, <2>6, <2>7, <2>8, <2>9, Operations
<1> QED BY <1>2, <1>3

(* What a machine ends as is what it ends as after its next instruction.   *)
LEMMA RunStep ==
  ASSUME NEW code \in Seq(Seq(Instrs)), NEW t \in Times, NEW S \in [Sigs -> Values],
         NEW m \in Meaning!Machines
  PROVE  /\ m.wait # Ready => Meaning!Run(code, t, S)[m] = m
         /\ m.wait = Ready => Meaning!Run(code, t, S)[m] =
                              Meaning!Run(code, t, S)[Meaning!Continued(code, t, S, m)]
<1> DEFINE M == Meaning!Machines
           E == {n \in M : n.wait # Ready}
           g == [n \in M |-> Meaning!Continued(code, t, S, n)]
<1>1. g \in [M -> M]
  BY ContinuedTyped
<1>2. E \in SUBSET M
  OBVIOUS
<1>3. PICK f : RunsUntil(f, g, M, E)
  <2> HIDE DEF M, E, g
  <2> QED BY <1>1, <1>2, RunDefined
<1>4. f = [n \in M |-> IF n.wait # Ready THEN n ELSE f[Meaning!Continued(code, t, S, n)]]
  BY <1>1, <1>3 DEF RunsUntil
<1>5. Meaning!Run(code, t, S) =
        CHOOSE h : h = [n \in M |-> IF n.wait # Ready THEN n
                                    ELSE h[Meaning!Continued(code, t, S, n)]]
  BY DEF Meaning!Run, Meaning!Ready, Ready
<1> DEFINE r == Meaning!Run(code, t, S)
<1>6. r = [n \in M |-> IF n.wait # Ready THEN n ELSE r[Meaning!Continued(code, t, S, n)]]
  <2> HIDE DEF M
  <2> QED BY <1>4, <1>5
<1> HIDE DEF r
<1> QED BY <1>6 DEF r

-----------------------------------------------------------------------------
(* Between two steps.                                                      *)

(* An entity that has run knows the values of what it probes.              *)
EntityFresh(i) ==
  /\ past.state[i] = Wait(None, design.ports[i])
  /\ \A k \in DOMAIN design.flows[i] :
       past.values[i][Flow(i, k).reg] = Read(past.sig[Flow(i, k).from.sig], Flow(i, k).from)

PastTyped ==
  /\ past.step \in Nat /\ past.time \in Times
  /\ past.sig \in [Sigs -> Values] /\ past.events \subseteq Events
  /\ past.state \in [Insts -> States]
  /\ past.pc \in [Insts -> [blk : Nat, pos : {1}]]
  /\ past.values \in [Insts -> [Regs -> Values]]

Rested ==
  /\ PastTyped
  /\ \A i \in Insts : past.step = 0 <=> past.state[i] = Ready
  /\ past.step > 0 => \A i \in Insts : design.kind[i] = "entity" => EntityFresh(i)
  /\ past.step > 0 /\ phase # "stopped" =>
       past.events # {} \/ \E i \in Insts : past.state[i].until # {}
  /\ phase \in {"idle", "stopped"} => past = Current

(* In a step: its drives are those due, and of them the applied ones have  *)
(* made the signals what they are.                                         *)
InStep  == phase \in {"apply", "sense", "exec"}
DuePast == {e \in past.events : e.time = past.time}
Applied == DuePast \ due

Begun ==
  /\ step = past.step + 1 /\ time = past.time
  /\ events = past.events \ DuePast
  /\ due \subseteq DuePast

On(e, s, l) == e.ptr.sig = s /\ l \in e.ptr.sel
LaneDriven(s, l) ==
  \/ \E e \in Applied : On(e, s, l) /\ (l \in sig[s] <=> l \in e.val)
  \/ /\ \A e \in Applied : ~On(e, s, l)
     /\ l \in sig[s] <=> l \in past.sig[s]
Contended(s) ==
  \E e, f \in Applied : e # f /\ \E l \in Lanes : On(e, s, l) /\ On(f, s, l)
Noticed(s) ==
  /\ sig[s] # past.sig[s] => s \in changed
  /\ s \in changed => sig[s] # past.sig[s] \/ Contended(s)
Driven == \A s \in Sigs : Noticed(s) /\ \A l \in Lanes : LaneDriven(s, l)

(* Before anybody runs.                                                    *)
TimedOut(i) == past.time \in past.state[i].until
Unrun ==
  /\ pc = past.pc /\ values = past.values
  /\ \A i \in Insts :
       state[i] = IF phase = "sense" /\ TimedOut(i) THEN Ready ELSE past.state[i]

(* Who runs, and on the way to what.                                       *)
Awake(i) == past.step = 0 \/ TimedOut(i) \/ past.state[i].sigs \cap changed # {}

Start(i)    == Meaning!Machine(Ready, past.pc[i].blk, 1, past.values[i], <<>>)
Now(i)      == Meaning!Machine(state[i], pc[i].blk, pc[i].pos, values[i], out[i])
Final(i, m) == Meaning!Run(design.code[i], past.time, sig)[m]

Asleep(i) == state[i] = past.state[i] /\ pc[i] = past.pc[i] /\ values[i] = past.values[i]
Ahead(i)  == /\ Final(i, Now(i)) = Final(i, Start(i))
             /\ state[i] # Ready => pc[i].pos = 1

Waiting(i) == /\ state[i] = Ready /\ pc[i] = past.pc[i] /\ values[i] = past.values[i]
              /\ out[i] = <<>>
Due(i) == {k \in DOMAIN design.flows[i] :
             past.step = 0 \/ Probed(i, k) # past.values[i][Flow(i, k).reg]}
Source(i, r) == {k \in DOMAIN design.flows[i] : Flow(i, k).reg = r}
Fetched(i) == [r \in Regs |-> IF Source(i, r) # {} THEN Probed(i, CHOOSE k : k \in Source(i, r))
                              ELSE past.values[i][r]]
Flowed(i) ==
  /\ state[i] = Wait(None, design.ports[i]) /\ pc[i] = past.pc[i]
  /\ values[i] = Fetched(i)
  /\ {out[i][n] : n \in DOMAIN out[i]} = {FlowEvent(i, k) : k \in Due(i)}

Underway(i) ==
  IF i \notin ready THEN Asleep(i)
  ELSE IF design.kind[i] = "process" THEN Ahead(i) ELSE Waiting(i) \/ Flowed(i)

StepInv ==
  /\ Rested
  /\ InStep => Begun /\ Driven
  /\ phase \in {"apply", "sense"} => Unrun
  /\ phase = "exec" => \A i \in Insts : (i \in ready <=> Awake(i)) /\ Underway(i)

(* What a step of the engine does not touch.                               *)
LEMMA RestedKept ==
  ASSUME Rested, past' = past, design' = design, phase # "stopped",
         phase' \in {"apply", "sense", "exec", "panic"}
  PROVE  Rested'
<1>1. \A i \in Insts : EntityFresh(i) => EntityFresh(i)'
  BY DEF EntityFresh, Flow
<1> QED BY <1>1 DEF Rested, PastTyped

LEMMA BeginKeeps ==
  ASSUME StepInv, BeginStep, past' = past
  PROVE  StepInv'
<1>1. past = Current /\ phase = "idle" /\ phase' = "apply"
  BY DEF StepInv, Rested, BeginStep
<1>2. Rested'
  BY <1>1, RestedKept DEF StepInv, BeginStep
<1>3. /\ past.step = step /\ past.time = time /\ past.sig = sig /\ past.events = events
      /\ past.state = state /\ past.pc = pc /\ past.values = values
  BY <1>1 DEF Current
<1>4. DuePast' = due' /\ Applied' = {}
  BY <1>3 DEF DuePast, Applied, BeginStep
<1>5. Begun'
  BY <1>3, <1>4 DEF Begun, BeginStep
<1>6. Driven'
  BY <1>3, <1>4 DEF Driven, Noticed, LaneDriven, BeginStep
<1>7. Unrun'
  BY <1>1, <1>3 DEF Unrun, BeginStep, insts, TimedOut
<1> QED BY <1>1, <1>2, <1>5, <1>6, <1>7 DEF StepInv

(* A drive that takes effect.                                              *)
LEMMA ApplyKeeps ==
  ASSUME StepInv, TypeOK, ApplyEvent, past' = past
  PROVE  StepInv'
<1>1. phase = "apply" /\ phase' = "apply"
  BY DEF ApplyEvent
<1>2. Rested'
  BY <1>1, RestedKept DEF StepInv, ApplyEvent
<1>3. Begun /\ Driven
  BY <1>1 DEF StepInv, InStep
<1>4. PICK e \in due :
         /\ due' = due \ {e}
         /\ sig' = [sig EXCEPT ![e.ptr.sig] = Written(sig[e.ptr.sig], e.ptr, e.val)]
         /\ changed' = IF Written(sig[e.ptr.sig], e.ptr, e.val) # sig[e.ptr.sig]
                       THEN changed \cup {e.ptr.sig} ELSE changed
  BY DEF ApplyEvent
<1> DEFINE s0  == e.ptr.sig
           new == Written(sig[s0], e.ptr, e.val)
<1>5. Begun'
  BY <1>3, <1>4 DEF Begun, ApplyEvent, queues, DuePast
<1>6. Applied' = Applied \cup {e} /\ e \notin Applied
  BY <1>3, <1>4 DEF Applied, DuePast, Begun
<1>7. \A l \in Lanes : l \in new <=> IF l \in e.ptr.sel THEN l \in e.val ELSE l \in sig[s0]
  BY DEF Written
<1>8. /\ sig \in [Sigs -> Values] /\ s0 \in Sigs /\ new \in Values
      /\ past.sig \in [Sigs -> Values]
  <2>1. e \in Events /\ sig \in [Sigs -> Values]
    BY DEF TypeOK
  <2>2. e.ptr \in Ptrs /\ e.val \in Values /\ s0 \in Sigs
    BY <2>1 DEF Events, Ptrs
  <2>3. sig[s0] \in Values
    BY <2>1, <2>2
  <2> QED BY <2>1, <2>2, <2>3, ValuesTyped DEF StepInv, Rested, PastTyped
<1>9. sig'[s0] = new /\ \A s \in Sigs \ {s0} : sig'[s] = sig[s]
  BY <1>4, <1>8
<1>10. changed' = IF new # sig[s0] THEN changed \cup {s0} ELSE changed
  BY <1>4
<1>11. \A l : On(e, s0, l) <=> l \in e.ptr.sel
  BY DEF On
<1>12. \A s, l : s # s0 => ~On(e, s, l)
  BY DEF On
<1>13. \A f, s, l : On(f, s, l)' <=> On(f, s, l)
  BY DEF On
<1> HIDE DEF new, s0
<1>14. ASSUME NEW s \in Sigs, NEW l \in Lanes PROVE LaneDriven(s, l)'
  <2>1. LaneDriven(s, l)
    BY <1>3 DEF Driven
  <2>2. CASE s # s0
    BY <1>6, <1>9, <1>12, <1>13, <2>1, <2>2 DEF LaneDriven
  <2>3. CASE s = s0 /\ l \in e.ptr.sel
    <3>1. e \in Applied' /\ On(e, s, l) /\ (l \in sig'[s] <=> l \in e.val)
      BY <1>6, <1>7, <1>9, <1>11, <2>3
    <3> QED BY <1>13, <3>1 DEF LaneDriven
  <2>4. CASE s = s0 /\ l \notin e.ptr.sel
    <3>1. (l \in sig'[s] <=> l \in sig[s]) /\ ~On(e, s, l)
      BY <1>7, <1>9, <1>11, <2>4
    <3> QED BY <1>6, <1>13, <2>1, <3>1 DEF LaneDriven
  <2> QED BY <2>2, <2>3, <2>4
<1>15. \A s \in Sigs : Contended(s) => Contended(s)'
  BY <1>6, <1>13 DEF Contended
<1>16. ASSUME NEW s \in Sigs PROVE Noticed(s)'
  <2>1. Noticed(s)
    BY <1>3 DEF Driven
  <2>2. CASE s # s0 \/ new = sig[s0]
    <3>1. sig'[s] = sig[s] /\ (s \in changed' <=> s \in changed)
      BY <1>9, <1>10, <2>2
    <3> QED BY <1>15, <2>1, <3>1 DEF Noticed
  <2>3. CASE s = s0 /\ new # sig[s0]
    <3>1. s \in changed'
      BY <1>10, <2>3
    <3>2. CASE new # past.sig[s]
      BY <1>9, <2>3, <3>1, <3>2 DEF Noticed
    <3>3. CASE new = past.sig[s]
      <4>1. PICK l \in Lanes : (l \in new) # (l \in sig[s])
        <5>1. new \in SUBSET Lanes /\ sig[s] \in SUBSET Lanes
          BY <1>8 DEF Values
        <5> QED BY <2>3, <5>1
      <4>2. On(e, s, l)
        BY <1>7, <1>11, <2>3, <4>1
      <4>3. LaneDriven(s, l)
        BY <1>3 DEF Driven
      <4>4. PICK f \in Applied : On(f, s, l)
        BY <3>3, <4>1, <4>3 DEF LaneDriven
      <4>5. Contended(s)'
        BY <1>6, <1>13, <4>2, <4>4 DEF Contended
      <4> QED BY <3>1, <4>5 DEF Noticed
    <3> QED BY <3>2, <3>3
  <2> QED BY <2>2, <2>3
<1>17. Driven'
  BY <1>14, <1>16 DEF Driven
<1>18. Unrun'
  BY <1>1 DEF StepInv, Unrun, ApplyEvent, insts, TimedOut
<1> QED BY <1>1, <1>2, <1>5, <1>17, <1>18 DEF StepInv

(* The timers and the sensitivity lists wake those whose wait is over.     *)
LEMMA TimedKeeps ==
  ASSUME StepInv, TypeOK, TimersQueued, TimersFit, WakeTimed, past' = past
  PROVE  StepInv'
<1>1. phase = "apply" /\ phase' = "sense"
  BY DEF WakeTimed
<1>2. Rested'
  BY <1>1, RestedKept DEF StepInv, WakeTimed
<1>3. Begun /\ Driven /\ Unrun
  BY <1>1 DEF StepInv, InStep
<1>4. Begun' /\ Driven'
  BY <1>3 DEF Begun, DuePast, Applied, Driven, Noticed, LaneDriven, Contended, On, WakeTimed, locals
<1>5. \A i \in Insts : state[i] = past.state[i]
  BY <1>1, <1>3 DEF Unrun
<1>6. ASSUME NEW i \in Insts PROVE i \in Expired <=> TimedOut(i)
  <2>1. i \in Expired => TimedOut(i)
    <3> SUFFICES ASSUME <<past.time, i>> \in timed PROVE past.time \in state[i].until
      BY <1>3, <1>5 DEF Expired, Begun, TimedOut
    <3> QED BY DEF TimersFit
  <2>2. TimedOut(i) => i \in Expired
    BY <1>1, <1>3, <1>5 DEF TimersQueued, TimedOut, Expired, Begun
  <2> QED BY <2>1, <2>2
<1>7. Unrun'
  <2>1. \A i \in Insts : state'[i] = IF TimedOut(i) THEN Ready ELSE past.state[i]
    BY <1>5, <1>6 DEF WakeTimed, TimedWoken
  <2> QED BY <1>1, <1>3, <2>1 DEF Unrun, WakeTimed, TimedOut
<1> QED BY <1>1, <1>2, <1>4, <1>7 DEF StepInv

LEMMA StatesAre ==
  ASSUME NEW st \in States
  PROVE  /\ st.kind = "Ready" <=> st = Ready
         /\ st.sigs # {} => st.kind = "Wait"
         /\ st.until # {} => st.kind = "Wait"
BY DEF States, Ready, Done

LEMMA SensedKeeps ==
  ASSUME StepInv, TypeOK, QueuesAhead, ReadyCollected, WakeSensed, past' = past
  PROVE  StepInv'
<1>1. phase = "sense" /\ phase' = "exec"
  BY DEF WakeSensed
<1>2. Rested /\ Rested'
  BY <1>1, RestedKept DEF StepInv, WakeSensed
<1>3. Begun /\ Driven /\ Unrun
  BY <1>1 DEF StepInv, InStep
<1>4. Begun' /\ Driven'
  BY <1>3 DEF Begun, DuePast, Applied, Driven, Noticed, LaneDriven, Contended, On, WakeSensed, queues
<1>5. /\ \A i \in Insts : state'[i] = IF Triggered(i) THEN Ready ELSE state[i]
      /\ \A i \in Insts : i \in ready' <=> state'[i].kind = "Ready"
      /\ pc' = past.pc /\ values' = past.values /\ sig' = sig /\ changed' = changed
      /\ design' = design /\ out' = out
  BY <1>3 DEF WakeSensed, Collected, Unrun
<1>6. ASSUME NEW i \in Insts
      PROVE  /\ i \in ready' <=> Awake(i)
             /\ i \in ready' => state'[i] = Ready
             /\ i \notin ready' => state'[i] = past.state[i]
  <2>1. past.state[i] \in States /\ past.step \in Nat
    BY <1>2 DEF Rested, PastTyped
  <2>2. past.state[i].kind = "Ready" <=> past.step = 0
    BY <1>2, <2>1, StatesAre DEF Rested
  <2>3. Ready.kind = "Ready" /\ Ready.sigs = {}
    BY DEF Ready
  <2>4. state[i] = IF TimedOut(i) THEN Ready ELSE past.state[i]
    BY <1>1, <1>3 DEF Unrun
  <2>5. CASE TimedOut(i)
    BY <1>5, <2>3, <2>4, <2>5 DEF Awake, Triggered
  <2>6. CASE ~TimedOut(i)
    <3>1. state[i] = past.state[i]
      BY <2>4, <2>6
    <3>2. Triggered(i) <=> past.state[i].sigs \cap changed # {}
      BY <2>1, <3>1, StatesAre DEF Triggered
    <3>3. CASE Triggered(i)
      BY <1>5, <2>3, <3>2, <3>3 DEF Awake
    <3>4. CASE ~Triggered(i)
      <4>1. state'[i] = past.state[i]
        BY <1>5, <3>1, <3>4
      <4>2. i \in ready' <=> past.step = 0
        BY <1>5, <2>2, <4>1
      <4>3. i \in ready' => past.state[i] = Ready
        BY <1>2, <4>2 DEF Rested
      <4> QED BY <2>6, <3>2, <3>4, <4>1, <4>2, <4>3 DEF Awake
    <3> QED BY <3>3, <3>4
  <2> QED BY <2>5, <2>6
<1>7. ASSUME NEW i \in Insts PROVE (i \in ready' <=> Awake(i)') /\ Underway(i)'
  <2>1. Awake(i)' <=> Awake(i)
    BY <1>5 DEF Awake, TimedOut
  <2>2. out[i] = <<>> /\ past.pc[i].pos = 1
    BY <1>1, <1>2 DEF ReadyCollected, Rested, PastTyped
  <2>3. CASE i \notin ready'
    BY <1>5, <1>6, <2>1, <2>3 DEF Underway, Asleep
  <2>4. CASE i \in ready'
    <3>1. state'[i] = Ready /\ pc'[i] = past.pc[i] /\ values'[i] = past.values[i] /\ out'[i] = <<>>
      BY <1>5, <1>6, <2>2, <2>4
    <3>2. Now(i)' = Start(i)'
      BY <2>2, <3>1 DEF Now, Start
    <3>3. Ahead(i)'
      BY <3>1, <3>2 DEF Ahead, Final
    <3>4. Waiting(i)'
      BY <3>1 DEF Waiting
    <3> QED BY <1>6, <2>1, <2>4, <3>3, <3>4 DEF Underway
  <2> QED BY <2>3, <2>4
<1> QED BY <1>1, <1>2, <1>4, <1>7 DEF StepInv

(* An instruction takes the machine of its process one step further.       *)
LEMMA NowTyped ==
  ASSUME TypeOK, NEW i \in Insts
  PROVE  /\ Now(i) \in Meaning!Machines
         /\ Now(i).wait = state[i] /\ Now(i).at = pc[i].blk /\ Now(i).pos = pc[i].pos
         /\ Now(i).values = values[i] /\ Now(i).drives = out[i]
<1>1. state[i] \in States /\ pc[i].blk \in Nat /\ pc[i].pos \in Nat
      /\ values[i] \in [Regs -> Values] /\ out[i] \in Seq(Events)
  BY DEF TypeOK
<1>2. Now(i) \in Meaning!Machines
  BY <1>1, MachineTyped DEF Now
<1> QED BY <1>2 DEF Now, Meaning!Machine

(* What the other instances notice of an execution: nothing.               *)
Untouched(i) ==
  /\ UNCHANGED <<design, step, time, sig, events, due, changed, ready>>
  /\ \A j \in Insts \ {i} : /\ state'[j] = state[j] /\ pc'[j] = pc[j]
                            /\ values'[j] = values[j] /\ out'[j] = out[j]

Suspended(i, st, b) ==
  /\ state'[i] = st /\ pc'[i] = [blk |-> b, pos |-> 1]
  /\ values'[i] = values[i] /\ out'[i] = out[i]
  /\ Untouched(i)

LEMMA SuspendDoes ==
  ASSUME TypeOK, NEW i \in Insts, NEW st, NEW b, Suspend(i, st, b)
  PROVE  Suspended(i, st, b)
BY DEF TypeOK, Suspend, Jump, Suspended, Untouched, engineVars, queues

LEMMA ExecContinues ==
  ASSUME TypeOK, NEW i \in Insts, Exec(i), ~Starve(i), ~Entity(i)
  PROVE  /\ phase = "exec" /\ phase' = "exec" /\ i \in ready /\ state[i].kind = "Ready"
         /\ design.kind[i] = "process"
         /\ Now(i)' = Meaning!Continued(design.code[i], time, sig, Now(i))
         /\ state'[i] # Ready => pc'[i].pos = 1
         /\ Untouched(i)
<1> DEFINE I == Instr(i)
           A == After(I, time, sig, Now(i), Now(i)')
           C == /\ phase = "exec" /\ phase' = "exec" /\ i \in ready /\ state[i].kind = "Ready"
                /\ design.kind[i] = "process"
           E == state'[i] # Ready => pc'[i].pos = 1
           next == Meaning!Continued(design.code[i], time, sig, Now(i))
<1>1. /\ Now(i).wait = state[i] /\ Now(i).at = pc[i].blk /\ Now(i).pos = pc[i].pos
      /\ Now(i).values = values[i] /\ Now(i).drives = out[i]
  BY NowTyped
<1>2. AtInstr(i) /\ C
  BY DEF Exec, Prb, Val, Drv, Br, BrCond, WaitSigs, WaitTime, Halt, Suspend, At, Running, engineVars
<1>3. After(I, time, sig, Now(i), next)
  BY <1>1, <1>2, ContinuedBy DEF AtInstr, Instr, Block
<1>4. state[i] = Ready
  BY <1>2, ReadyHasNoTimer
<1>5. /\ state \in [Insts -> States] /\ pc \in [Insts -> [blk : Nat, pos : Nat]]
      /\ values \in [Insts -> [Regs -> Values]] /\ out \in [Insts -> Seq(Events)]
  BY DEF TypeOK
<1>6. CASE Prb(i)
  <2>1. I.op = "prb" /\ state'[i] = Ready /\ pc'[i] = [blk |-> pc[i].blk, pos |-> pc[i].pos + 1]
        /\ values'[i] = [values[i] EXCEPT ![I.dst] = Read(sig[I.ptr.sig], I.ptr)] /\ out'[i] = out[i]
    BY <1>4, <1>5, <1>6 DEF Prb, At, Fallthrough
  <2>2. Now(i)' = next
    BY <1>1, <1>3, <2>1 DEF After, Now
  <2>3. Untouched(i)
    BY <1>5, <1>6 DEF Untouched, Prb, Fallthrough, engineVars, queues
  <2> QED BY <1>2, <2>1, <2>2, <2>3
<1>7. CASE Val(i)
  <2>1. I.op = "val" /\ state'[i] = Ready /\ pc'[i] = [blk |-> pc[i].blk, pos |-> pc[i].pos + 1]
        /\ values'[i] = [values[i] EXCEPT ![I.dst] = Invert(I.inv, values[i][I.src])] /\ out'[i] = out[i]
    BY <1>4, <1>5, <1>7 DEF Val, At, Fallthrough
  <2>2. Now(i)' = next
    BY <1>1, <1>3, <2>1 DEF After, Now
  <2>3. Untouched(i)
    BY <1>5, <1>7 DEF Untouched, Val, Fallthrough, engineVars, queues
  <2> QED BY <1>2, <2>1, <2>2, <2>3
<1>8. CASE Drv(i)
  <2>1. I.op = "drv" /\ state'[i] = Ready /\ pc'[i] = [blk |-> pc[i].blk, pos |-> pc[i].pos + 1]
        /\ values'[i] = values[i]
        /\ out'[i] = Append(out[i], Event(AfterDelay(time, I.delay), I.ptr, values[i][I.src]))
    BY <1>4, <1>5, <1>8 DEF Drv, At, Fallthrough
  <2>2. Now(i)' = next
    BY <1>1, <1>3, <2>1 DEF After, Now
  <2>3. Untouched(i)
    BY <1>5, <1>8 DEF Untouched, Drv, Fallthrough, engineVars, queues
  <2> QED BY <1>2, <2>1, <2>2, <2>3
<1>9. CASE Br(i)
  <2>1. I.op = "br" /\ state'[i] = Ready /\ pc'[i] = [blk |-> I.to, pos |-> 1]
        /\ values'[i] = values[i] /\ out'[i] = out[i]
    BY <1>4, <1>5, <1>9 DEF Br, At, Jump
  <2>2. Now(i)' = next
    BY <1>1, <1>3, <2>1 DEF After, Now
  <2>3. Untouched(i)
    BY <1>5, <1>9 DEF Untouched, Br, Jump, engineVars, queues
  <2> QED BY <1>2, <2>1, <2>2, <2>3
<1>10. CASE BrCond(i)
  <2>1. I.op = "brcond" /\ state'[i] = Ready
        /\ pc'[i] = [blk |-> IF values[i][I.src] = {} THEN I.to0 ELSE I.to1, pos |-> 1]
        /\ values'[i] = values[i] /\ out'[i] = out[i]
    BY <1>4, <1>5, <1>10 DEF BrCond, At, Jump
  <2>2. Now(i)' = next
    BY <1>1, <1>3, <2>1 DEF After, Now
  <2>3. Untouched(i)
    BY <1>5, <1>10 DEF Untouched, BrCond, Jump, engineVars, queues
  <2> QED BY <1>2, <2>1, <2>2, <2>3
<1>12. CASE WaitSigs(i)
  <2>1. I.op = "wait" /\ Suspended(i, Wait(None, I.sigs), I.to)
    BY SuspendDoes, <1>12 DEF WaitSigs, At
  <2>2. Now(i)' = next
    BY <1>1, <1>3, <2>1 DEF After, Now, Suspended
  <2> QED BY <1>2, <2>1, <2>2 DEF Suspended
<1>13. CASE WaitTime(i)
  <2>1. I.op = "waittime" /\ Suspended(i, Wait(Some(AfterDelay(time, I.delay)), I.sigs), I.to)
    BY SuspendDoes, <1>13 DEF WaitTime, At
  <2>2. Now(i)' = next
    BY <1>1, <1>3, <2>1 DEF After, Now, Suspended
  <2> QED BY <1>2, <2>1, <2>2 DEF Suspended
<1>14. CASE Halt(i)
  <2>1. I.op = "halt" /\ Suspended(i, Done, NoBlock)
    BY SuspendDoes, <1>14 DEF Halt, At
  <2>2. Now(i)' = next
    BY <1>1, <1>3, <2>1 DEF After, Now, Suspended
  <2> QED BY <1>2, <2>1, <2>2 DEF Suspended
<1> QED BY <1>6, <1>7, <1>8, <1>9, <1>10, <1>12, <1>13, <1>14 DEF Exec

LEMMA FlowsKept ==
  ASSUME NEW i, design' = design, time' = time, sig' = sig, past' = past
  PROVE  /\ Fetched(i)' = Fetched(i)
         /\ {FlowEvent(i, k)' : k \in Due(i)'} = {FlowEvent(i, k) : k \in Due(i)}
<1>1. \A k : Flow(i, k)' = Flow(i, k)
  BY DEF Flow
<1>2. \A k : Probed(i, k)' = Probed(i, k)
  BY <1>1 DEF Probed
<1>3. \A k : FlowEvent(i, k)' = FlowEvent(i, k)
  BY <1>1, <1>2 DEF FlowEvent
<1>4. Due(i)' = Due(i)
  BY <1>1, <1>2 DEF Due
<1>5. \A r : Source(i, r)' = Source(i, r)
  BY <1>1 DEF Source
<1>6. Fetched(i)' = Fetched(i)
  BY <1>2, <1>5 DEF Fetched
<1> QED BY <1>3, <1>4, <1>6

LEMMA OthersKept ==
  ASSUME NEW i, Untouched(i), past' = past, NEW j \in Insts \ {i}, Underway(j)
  PROVE  Underway(j)' /\ (Awake(j)' <=> Awake(j))
<1>1. /\ state'[j] = state[j] /\ pc'[j] = pc[j] /\ values'[j] = values[j] /\ out'[j] = out[j]
      /\ design' = design /\ step' = step /\ time' = time /\ sig' = sig
      /\ changed' = changed /\ ready' = ready
  BY DEF Untouched
<1>2. Asleep(j) => Asleep(j)'
  BY <1>1 DEF Asleep
<1>3. Ahead(j) => Ahead(j)'
  <2>1. Now(j)' = Now(j) /\ Start(j)' = Start(j)
    BY <1>1 DEF Now, Start
  <2> QED BY <1>1, <2>1 DEF Ahead, Final
<1>4. Waiting(j) => Waiting(j)'
  BY <1>1 DEF Waiting
<1>5. Flowed(j) => Flowed(j)'
  BY <1>1, FlowsKept DEF Flowed
<1>6. Awake(j)' <=> Awake(j)
  BY <1>1 DEF Awake, TimedOut
<1>7. design'.kind[j] = design.kind[j] /\ (j \in ready' <=> j \in ready)
  BY <1>1
<1>8. Underway(j)'
  BY <1>2, <1>3, <1>4, <1>5, <1>7 DEF Underway
<1> QED BY <1>6, <1>8

LEMMA StepKept ==
  ASSUME Begun, Driven, NEW i, Untouched(i), past' = past
  PROVE  Begun' /\ Driven'
BY DEF Begun, DuePast, Applied, Driven, Noticed, LaneDriven, Contended, On, Untouched

(* A process goes on.                                                      *)
LEMMA ProcessKeeps ==
  ASSUME StepInv, TypeOK, NEW i \in Insts, Exec(i), ~Starve(i), ~Entity(i), past' = past
  PROVE  StepInv'
<1>1. /\ phase = "exec" /\ phase' = "exec" /\ i \in ready /\ state[i] = Ready
      /\ design.kind[i] = "process"
      /\ Now(i)' = Meaning!Continued(design.code[i], time, sig, Now(i))
      /\ state'[i] # Ready => pc'[i].pos = 1
      /\ Untouched(i)
  BY ExecContinues, ReadyHasNoTimer
<1>2. Rested'
  BY <1>1, RestedKept DEF StepInv, Untouched
<1>3. Begun' /\ Driven' /\ time = past.time
  BY <1>1, StepKept DEF StepInv, InStep, Begun
<1>4. \A j \in Insts : (j \in ready <=> Awake(j)) /\ Underway(j)
  BY <1>1 DEF StepInv
<1>5. (Awake(i)' <=> Awake(i)) /\ design' = design /\ sig' = sig /\ ready' = ready
  BY <1>1 DEF Awake, TimedOut, Untouched
<1>6. Ahead(i)'
  <2>1. Final(i, Now(i)) = Final(i, Start(i))
    BY <1>1, <1>4 DEF Underway, Ahead
  <2>2. Final(i, Now(i)) = Meaning!Run(design.code[i], past.time, sig)[Now(i)']
    <3>1. Now(i) \in Meaning!Machines /\ Now(i).wait = Ready
      BY <1>1, NowTyped
    <3>2. design.code[i] \in Seq(Seq(Instrs)) /\ time \in Times /\ sig \in [Sigs -> Values]
      BY DesignTyped DEF TypeOK
    <3> QED BY <1>1, <1>3, <3>1, <3>2, RunStep DEF Final
  <2>3. Final(i, Now(i))' = Final(i, Now(i))
    BY <1>5, <2>2 DEF Final
  <2>4. Final(i, Start(i))' = Final(i, Start(i))
    BY <1>5 DEF Final, Start
  <2> QED BY <1>1, <2>1, <2>3, <2>4 DEF Ahead
<1>7. Underway(i)'
  BY <1>1, <1>5, <1>6 DEF Underway
<1>8. \A j \in Insts : (j \in ready <=> Awake(j))' /\ Underway(j)'
  <2> SUFFICES ASSUME NEW j \in Insts, j # i
               PROVE  (j \in ready <=> Awake(j))' /\ Underway(j)'
    BY <1>4, <1>5, <1>7
  <2> QED BY <1>1, <1>4, <1>5, OthersKept
<1> QED BY <1>1, <1>2, <1>3, <1>8 DEF StepInv

LEMMA StarveKeeps ==
  ASSUME StepInv, NEW i \in Insts, Starve(i), past' = past
  PROVE  StepInv'
<1>1. phase = "exec" /\ phase' = "panic"
  BY DEF Starve, Running
<1>2. Rested'
  BY <1>1, RestedKept DEF StepInv, Starve
<1> QED BY <1>1, <1>2 DEF StepInv, InStep

(* An order of the flows that fire names all of them.                      *)
LEMMA OrderComplete ==
  ASSUME TypeOK, NEW i \in Insts, NEW q \in Order(i)
  PROVE  {q[n] : n \in DOMAIN q} = Firing(i)
<1>1. IsFiniteSet(Firing(i))
  <2>1. DOMAIN design.flows[i] = 1..Len(design.flows[i]) /\ Len(design.flows[i]) \in Nat
    BY DesignTyped
  <2>2. IsFiniteSet(1..Len(design.flows[i]))
    BY <2>1, FS_Interval
  <2> QED BY <2>1, <2>2, FS_Subset DEF Firing
<1> DEFINE c == Cardinality(Firing(i))
<1>2. c \in Nat
  BY <1>1, FS_CardinalityType
<1>3. q \in [1..c -> Firing(i)]
  BY DEF Order
<1>4. \A a, b \in DOMAIN q : a # b => q[a] # q[b]
  <2>1. \A a, b \in DOMAIN q : a < b => IF step = 1 THEN q[a] < q[b] ELSE q[a] # q[b]
    BY DEF Order
  <2>2. \A a \in DOMAIN q : q[a] \in Int /\ a \in Int
    <3>1. Firing(i) \subseteq Int
      <4>1. DOMAIN design.flows[i] \subseteq Int
        BY DesignTyped
      <4> QED BY <4>1 DEF Firing
    <3> QED BY <1>2, <1>3, <3>1
  <2> QED BY <2>1, <2>2
<1>5. q \in Injection(1..c, Firing(i))
  BY <1>3, <1>4 DEF Injection, IsInjective
<1>6. IsFiniteSet(1..c) /\ Cardinality(1..c) = c
  BY <1>2, FS_Interval
<1>7. q \in Surjection(1..c, Firing(i))
  BY <1>1, <1>5, <1>6, FS_Injection
<1> QED BY <1>3, <1>7 DEF Surjection

(* The flows that fire are those with a new value.                         *)
LEMMA FiringDue ==
  ASSUME Rested, Begun, Driven, TypeOK, \A d \in Designs : Wired(d), phase # "stopped",
         NEW i \in Insts, design.kind[i] = "entity", values[i] = past.values[i]
  PROVE  Firing(i) = Due(i)
<1>1. step = past.step + 1 /\ past.step \in Nat
  BY DEF Begun, Rested, PastTyped
<1>2. ASSUME NEW k \in DOMAIN design.flows[i], past.step > 0,
             Probed(i, k) # past.values[i][Flow(i, k).reg]
      PROVE  Flow(i, k).from.sig \in changed
  <2>1. past.values[i][Flow(i, k).reg] = Read(past.sig[Flow(i, k).from.sig], Flow(i, k).from)
    BY <1>2 DEF Rested, EntityFresh
  <2>2. sig[Flow(i, k).from.sig] # past.sig[Flow(i, k).from.sig]
    BY <1>2, <2>1 DEF Probed
  <2>3. Flow(i, k).from.sig \in Sigs
    BY FlowTyped DEF Flows, Ptrs
  <2> QED BY <2>2, <2>3 DEF Driven, Noticed
<1>3. ASSUME NEW k \in DOMAIN design.flows[i]
      PROVE  Fires(i, k) <=> past.step = 0 \/ Probed(i, k) # past.values[i][Flow(i, k).reg]
  BY <1>1, <1>2 DEF Fires
<1> QED BY <1>3 DEF Firing, Due

(* An entity runs.                                                         *)
LEMMA EntityFlows ==
  ASSUME Rested, Begun, Driven, TypeOK, \A d \in Designs : Wired(d),
         NEW i \in Insts, Entity(i), Waiting(i)
  PROVE  /\ values'[i] = Fetched(i) /\ Untouched(i) /\ pc'[i] = pc[i]
         /\ state'[i] = Wait(None, design.ports[i])
         /\ {out'[i][n] : n \in DOMAIN out'[i]} = {FlowEvent(i, k) : k \in Due(i)}
<1>1. phase = "exec" /\ design.kind[i] = "entity" /\ values[i] = past.values[i]
  BY DEF Entity, Running, Waiting
<1>2. Firing(i) = Due(i)
  BY <1>1, FiringDue
<1>3. /\ state \in [Insts -> States] /\ values \in [Insts -> [Regs -> Values]]
      /\ out \in [Insts -> Seq(Events)]
  BY DEF TypeOK
<1>4. Untouched(i) /\ pc'[i] = pc[i] /\ state'[i] = Wait(None, design.ports[i])
  BY <1>3 DEF Entity, Untouched, engineVars, queues
<1>5. values'[i] = Fetched(i)
  <2> DEFINE fired(r) == {k \in Firing(i) : Flow(i, k).reg = r}
             new(r) == IF \E k \in Firing(i) : Flow(i, k).reg = r
                       THEN Probed(i, CHOOSE k \in Firing(i) : Flow(i, k).reg = r)
                       ELSE values[i][r]
  <2>1. values'[i] = [r \in Regs |-> new(r)]
    BY <1>3 DEF Entity
  <2>2. ASSUME NEW r \in Regs
        PROVE  new(r) = IF Source(i, r) # {} THEN Probed(i, CHOOSE k : k \in Source(i, r))
                        ELSE past.values[i][r]
    <3> DEFINE s == CHOOSE k : k \in Source(i, r)
    <3>1. CASE \E k \in Firing(i) : Flow(i, k).reg = r
      <4>1. PICK k \in Firing(i) : /\ Flow(i, k).reg = r
                                   /\ k = CHOOSE j \in Firing(i) : Flow(i, j).reg = r
        BY <3>1
      <4>2. k \in Source(i, r)
        BY <4>1 DEF Source, Firing
      <4>3. s \in Source(i, r)
        BY <4>2
      <4>4. Flow(i, s).from = Flow(i, k).from
        <5>1. Wired(design)
          BY DEF TypeOK
        <5> HIDE DEF s
        <5> QED BY <1>1, <4>2, <4>3, <5>1 DEF Wired, Source, Flow
      <4>5. Probed(i, s) = Probed(i, k)
        BY <4>4 DEF Probed
      <4> QED BY <3>1, <4>1, <4>2, <4>5
    <3>2. CASE ~\E k \in Firing(i) : Flow(i, k).reg = r
      <4>1. new(r) = past.values[i][r]
        BY <1>1, <3>2
      <4>2. ASSUME Source(i, r) # {} PROVE Probed(i, s) = past.values[i][r]
        <5>1. s \in Source(i, r)
          BY <4>2
        <5> HIDE DEF s
        <5>2. s \in DOMAIN design.flows[i] /\ Flow(i, s).reg = r
          BY <5>1 DEF Source
        <5>3. s \notin Due(i)
          BY <1>2, <3>2, <5>2
        <5> QED BY <5>2, <5>3 DEF Due
      <4> HIDE DEF new, s
      <4> QED BY <4>1, <4>2 DEF s
    <3> QED BY <3>1, <3>2
  <2> HIDE DEF new
  <2> QED BY <2>1, <2>2 DEF Fetched
<1>6. {out'[i][n] : n \in DOMAIN out'[i]} = {FlowEvent(i, k) : k \in Due(i)}
  <2>1. PICK q \in Order(i) : out' = [out EXCEPT ![i] = [n \in DOMAIN q |-> FlowEvent(i, q[n])]]
    BY DEF Entity
  <2>2. out'[i] = [n \in DOMAIN q |-> FlowEvent(i, q[n])]
    BY <1>3, <2>1
  <2>3. {q[n] : n \in DOMAIN q} = Due(i)
    BY <1>2, OrderComplete
  <2> QED BY <2>2, <2>3
<1> QED BY <1>4, <1>5, <1>6

LEMMA EntityKeeps ==
  ASSUME StepInv, TypeOK, \A d \in Designs : Wired(d), NEW i \in Insts, Entity(i), past' = past
  PROVE  StepInv'
<1>1. /\ phase = "exec" /\ phase' = "exec" /\ i \in ready /\ state[i] = Ready
      /\ design.kind[i] = "entity"
  BY ReadyHasNoTimer DEF Entity, Running, engineVars
<1>2. \A j \in Insts : (j \in ready <=> Awake(j)) /\ Underway(j)
  BY <1>1 DEF StepInv
<1>3. Rested /\ Begun /\ Driven
  BY <1>1 DEF StepInv, InStep
<1>4. Waiting(i)
  <2>1. Ready # Wait(None, design.ports[i])
    BY DEF Ready, Wait
  <2>2. Waiting(i) \/ Flowed(i)
    BY <1>1, <1>2 DEF Underway
  <2> QED BY <1>1, <2>1, <2>2 DEF Flowed
<1>5. /\ values'[i] = Fetched(i) /\ Untouched(i) /\ pc'[i] = pc[i]
      /\ state'[i] = Wait(None, design.ports[i])
      /\ {out'[i][n] : n \in DOMAIN out'[i]} = {FlowEvent(i, k) : k \in Due(i)}
  BY <1>3, <1>4, EntityFlows
<1>6. Rested'
  BY <1>1, <1>3, <1>5, RestedKept DEF Untouched
<1>7. Begun' /\ Driven'
  BY <1>3, <1>5, StepKept
<1>8. /\ design' = design /\ step' = step /\ time' = time /\ sig' = sig
      /\ changed' = changed /\ ready' = ready
  BY <1>5 DEF Untouched
<1>9. Flowed(i)'
  <2>1. Fetched(i)' = Fetched(i)
    BY <1>8, FlowsKept
  <2>2. {FlowEvent(i, k)' : k \in Due(i)'} = {FlowEvent(i, k) : k \in Due(i)}
    BY <1>8, FlowsKept
  <2>3. pc'[i] = past.pc[i]
    BY <1>4, <1>5 DEF Waiting
  <2> QED BY <1>5, <1>8, <2>1, <2>2, <2>3 DEF Flowed
<1>10. (Awake(i)' <=> Awake(i)) /\ Underway(i)'
  <2>1. Awake(i)' <=> Awake(i)
    BY <1>8 DEF Awake, TimedOut
  <2>2. Underway(i)'
    BY <1>1, <1>8, <1>9 DEF Underway
  <2> QED BY <2>1, <2>2
<1>11. \A j \in Insts : (j \in ready <=> Awake(j))' /\ Underway(j)'
  <2> SUFFICES ASSUME NEW j \in Insts, j # i
               PROVE  (j \in ready <=> Awake(j))' /\ Underway(j)'
    BY <1>2, <1>8, <1>10
  <2> QED BY <1>2, <1>5, <1>8, OthersKept
<1> QED BY <1>1, <1>6, <1>7, <1>11 DEF StepInv

(* The drives D that stand for a sequence d of drives: of those with one   *)
(* pointer and instant the last one, and perhaps others.                   *)
Stands(d, D) ==
  /\ \A e \in D : \E n \in DOMAIN d : e = d[n]
  /\ \A n \in DOMAIN d : (\A k \in DOMAIN d : k > n => ~SameSlot(d[n], d[k])) => d[n] \in D

(* The last of a sequence in one slot.                                     *)
LEMMA LastOfSlot ==
  ASSUME NEW d \in Seq(Events), NEW e, NEW n \in DOMAIN d, SameSlot(e, d[n])
  PROVE  \E m \in DOMAIN d : /\ SameSlot(e, d[m])
                             /\ \A k \in DOMAIN d : k > m => ~SameSlot(e, d[k])
<1> DEFINE T == {m \in DOMAIN d : SameSlot(e, d[m])}
<1>1. T \in SUBSET Nat /\ T # {} /\ Len(d) \in Nat /\ \A m \in T : m <= Len(d)
  OBVIOUS
<1>2. PICK m \in T : \A k \in T : k <= m
  <2> HIDE DEF T
  <2> QED BY <1>1, GreatestNumber
<1>3. \A k \in DOMAIN d : k > m => k \notin T
  <2>1. \A k \in DOMAIN d : k \in Nat
    OBVIOUS
  <2> HIDE DEF T
  <2> QED BY <1>1, <1>2, <2>1
<1> QED BY <1>2, <1>3

LEMMA StandsFor ==
  ASSUME NEW d \in Seq(Events), NEW D, Stands(d, D), NEW e
  PROVE  (\E f \in D : SameSlot(e, f)) <=> \E n \in DOMAIN d : SameSlot(e, d[n])
<1>1. ASSUME NEW n \in DOMAIN d, SameSlot(e, d[n]) PROVE \E f \in D : SameSlot(e, f)
  <2>1. PICK m \in DOMAIN d : /\ SameSlot(e, d[m])
                              /\ \A k \in DOMAIN d : k > m => ~SameSlot(e, d[k])
    BY <1>1, LastOfSlot
  <2>2. \A k \in DOMAIN d : k > m => ~SameSlot(d[m], d[k])
    BY <2>1 DEF SameSlot
  <2> QED BY <2>1, <2>2 DEF Stands
<1> QED BY <1>1 DEF Stands

LEMMA LastingStands ==
  ASSUME NEW d
  PROVE  Stands(d, Meaning!Lasting(d)) /\ Stands(d, {d[n] : n \in DOMAIN d})
BY DEF Stands, Meaning!Lasting, Meaning!SameSlot, SameSlot

(* What the engine leaves in its queue is what the instances have posted.  *)
LEMMA ScheduledPosted ==
  ASSUME TypeOK, OneValuePerSlot, NEW D, \A i \in Insts : Stands(out[i], D[i])
  PROVE  Meaning!Posted(events, D, Scheduled)
<1> DEFINE Ev(a) == out[a[1]][a[2]]
           Last == {a \in Produced :
                      \A b \in Produced : Later(b, a) => ~SameSlot(Ev(b), Ev(a))}
           Kept == {e \in events : \A a \in Produced : ~SameSlot(e, Ev(a))}
           stay == {e \in events : \A i \in Insts : ~Meaning!Overridden(e, D[i])}
           lasts == Meaning!Lasts(D)
<1>1. Scheduled = Kept \cup {Ev(a) : a \in Last}
  BY DEF Scheduled
<1>2. \A i \in Insts : \A n \in DOMAIN out[i] : <<i, n>> \in Produced /\ Ev(<<i, n>>) = out[i][n]
  BY DEF Produced
<1>3. \A a \in Produced : /\ a = <<a[1], a[2]>> /\ a[1] \in Insts /\ a[2] \in DOMAIN out[a[1]]
                          /\ a[1] \in Int /\ a[2] \in Int
  <2> SUFFICES ASSUME NEW i \in Insts, NEW n \in DOMAIN out[i]
               PROVE  i \in Int /\ n \in Int
    BY DEF Produced
  <2> QED BY NAssumption DEF Insts, TypeOK
<1>4. \A i \in Insts : out[i] \in Seq(Events)
  BY DEF TypeOK
<1>5. ASSUME NEW e, NEW i \in Insts
      PROVE  Meaning!Overridden(e, D[i]) <=> \E n \in DOMAIN out[i] : SameSlot(e, out[i][n])
  <2>1. Meaning!Overridden(e, D[i]) <=> \E f \in D[i] : SameSlot(e, f)
    BY DEF Meaning!Overridden, Meaning!SameSlot, SameSlot
  <2> QED BY <1>4, <2>1, StandsFor
<1>6. stay = Kept
  <2>1. ASSUME NEW e PROVE (\A i \in Insts : ~Meaning!Overridden(e, D[i])) <=>
                           \A a \in Produced : ~SameSlot(e, Ev(a))
    <3>0. \A a : Ev(a) = out[a[1]][a[2]]
      OBVIOUS
    <3> HIDE DEF Ev
    <3>1. (\A i \in Insts : ~Meaning!Overridden(e, D[i])) <=>
          \A i \in Insts : \A n \in DOMAIN out[i] : ~SameSlot(e, out[i][n])
      BY <1>5
    <3>2. (\A i \in Insts : \A n \in DOMAIN out[i] : ~SameSlot(e, out[i][n])) <=>
          \A a \in Produced : ~SameSlot(e, Ev(a))
      BY <1>2, <1>3, <3>0
    <3> QED BY <3>1, <3>2
  <2> QED BY <2>1
<1>7. \A e : e \in lasts <=> \E i \in Insts : e \in D[i] /\
                               \A j \in Insts : j > i => ~Meaning!Overridden(e, D[j])
  BY DEF Meaning!Lasts, Meaning!Insts, Insts
<1> HIDE DEF lasts
<1>8. ASSUME NEW a \in Last PROVE Ev(a) \in lasts
  <2>1. a \in Produced /\ \A b \in Produced : Later(b, a) => ~SameSlot(Ev(b), Ev(a))
    OBVIOUS
  <2>2. a = <<a[1], a[2]>> /\ a[1] \in Insts /\ a[2] \in DOMAIN out[a[1]] /\ a[1] \in Int
    BY <1>3, <2>1
  <2>3. Ev(a) = out[a[1]][a[2]]
    OBVIOUS
  <2> HIDE DEF Ev, Last
  <2>4. \A k \in DOMAIN out[a[1]] : k > a[2] => ~SameSlot(Ev(a), out[a[1]][k])
    <3> SUFFICES ASSUME NEW k \in DOMAIN out[a[1]], k > a[2] PROVE ~SameSlot(Ev(a), out[a[1]][k])
      OBVIOUS
    <3>1. <<a[1], k>> \in Produced /\ Ev(<<a[1], k>>) = out[a[1]][k]
      BY <1>2, <2>2
    <3>2. Later(<<a[1], k>>, a)
      BY DEF Later
    <3> QED BY <2>1, <3>1, <3>2 DEF SameSlot
  <2>5. Ev(a) \in D[a[1]]
    BY <2>2, <2>3, <2>4 DEF Stands
  <2>6. ASSUME NEW j \in Insts, j > a[1] PROVE ~Meaning!Overridden(Ev(a), D[j])
    <3> SUFFICES ASSUME NEW n \in DOMAIN out[j] PROVE ~SameSlot(Ev(a), out[j][n])
      BY <1>5
    <3>1. <<j, n>> \in Produced /\ Ev(<<j, n>>) = out[j][n]
      BY <1>2
    <3>2. Later(<<j, n>>, a)
      BY <2>6 DEF Later
    <3> QED BY <2>1, <3>1, <3>2 DEF SameSlot
  <2> QED BY <1>7, <2>2, <2>5, <2>6
<1>9. ASSUME NEW e \in lasts PROVE \E a \in Last : SameSlot(e, Ev(a))
  <2>1. PICK i \in Insts : e \in D[i] /\ \A j \in Insts : j > i => ~Meaning!Overridden(e, D[j])
    BY <1>7
  <2>2. PICK n \in DOMAIN out[i] : e = out[i][n]
    BY <2>1 DEF Stands
  <2>3. PICK m \in DOMAIN out[i] : /\ SameSlot(e, out[i][m])
                                   /\ \A k \in DOMAIN out[i] : k > m => ~SameSlot(e, out[i][k])
    <3>1. SameSlot(e, out[i][n])
      BY <2>2 DEF SameSlot
    <3> QED BY <1>4, <3>1, LastOfSlot
  <2> DEFINE a == <<i, m>>
  <2>4. a \in Produced /\ Ev(a) = out[i][m] /\ i \in Int /\ m \in Int
    BY <1>2, <1>3
  <2>5. ASSUME NEW b \in Produced, Later(b, a) PROVE ~SameSlot(Ev(b), Ev(a))
    <3>1. b[1] \in Insts /\ b[2] \in DOMAIN out[b[1]] /\ b[1] \in Int /\ b[2] \in Int
          /\ Ev(b) = out[b[1]][b[2]]
      BY <1>3
    <3>2. b[1] > i \/ (b[1] = i /\ b[2] > m)
      BY <2>5 DEF Later
    <3> HIDE DEF Ev
    <3>3. CASE b[1] > i
      <4>1. ~SameSlot(e, Ev(b))
        BY <1>5, <2>1, <3>1, <3>3
      <4> QED BY <2>3, <2>4, <4>1 DEF SameSlot
    <3>4. CASE b[1] = i /\ b[2] > m
      <4>1. ~SameSlot(e, Ev(b))
        BY <2>3, <3>1, <3>4
      <4> QED BY <2>3, <2>4, <4>1 DEF SameSlot
    <3> QED BY <3>2, <3>3, <3>4
  <2>6. a \in Last
    BY <2>4, <2>5
  <2> QED BY <2>3, <2>4, <2>6
<1>10. \A e, f \in Scheduled : SameSlot(e, f) => e = f
  BY ScheduledOnce
<1> HIDE DEF Kept, Last, Ev
<1>11. stay \subseteq Scheduled /\ Scheduled \subseteq stay \cup lasts
  BY <1>1, <1>6, <1>8
<1>12. \A e \in lasts : \E f \in Scheduled \cap lasts : SameSlot(e, f)
  BY <1>1, <1>8, <1>9
<1>13. /\ \A e \in lasts : \E f \in Scheduled \cap lasts : Meaning!SameSlot(e, f)
       /\ \A e, f \in Scheduled : Meaning!SameSlot(e, f) => e = f
  BY <1>10, <1>12 DEF SameSlot, Meaning!SameSlot
<1> QED BY <1>11, <1>13 DEF Meaning!Posted, Meaning!Insts, Insts, lasts

(* The signals are as the drives that were due want them.                  *)
LEMMA MeaningDriven ==
  ASSUME Begun, Driven, due = {}
  PROVE  /\ \A s \in Sigs : Meaning!Driven(s, sig[s])
         /\ Meaning!Changes(sig, changed)
<1>1. /\ \A s, l : Meaning!DueOn(s, l) = {e \in Applied : On(e, s, l)}
      /\ \A s : Meaning!DueOf(s) = {e \in Applied : e.ptr.sig = s}
  BY DEF Meaning!DueOn, Meaning!DueOf, Meaning!DueAt, Applied, DuePast, On
<1>2. ASSUME NEW s \in Sigs PROVE Meaning!Driven(s, sig[s])
  <2> SUFFICES ASSUME NEW l \in Lanes
               PROVE  IF Meaning!DueOn(s, l) = {} THEN l \in sig[s] <=> l \in past.sig[s]
                      ELSE \E e \in Meaning!DueOn(s, l) : l \in sig[s] <=> l \in e.val
    BY DEF Meaning!Driven
  <2>1. LaneDriven(s, l)
    BY DEF Driven
  <2> QED BY <1>1, <2>1 DEF LaneDriven
<1>3. ASSUME NEW s \in Sigs, Contended(s) PROVE Meaning!Contended(s)
  <2>1. PICK e \in Applied, f \in Applied, l \in Lanes : e # f /\ On(e, s, l) /\ On(f, s, l)
    BY <1>3 DEF Contended
  <2>2. e \in Meaning!DueOf(s) /\ f \in Meaning!DueOf(s) /\ l \in e.ptr.sel \cap f.ptr.sel
    BY <1>1, <2>1 DEF On
  <2> QED BY <2>1, <2>2 DEF Meaning!Contended
<1>4. Meaning!Changes(sig, changed)
  BY <1>3 DEF Meaning!Changes, Driven, Noticed
<1> QED BY <1>2, <1>4

(* Every instance is where the atomic step puts it, and its drives stand   *)
(* for those it has made.                                                  *)
Resumes(i, D) ==
  /\ Meaning!Resumed(i, sig, changed) = Meaning!Result(state[i], pc[i].blk, values[i], D)
  /\ Stands(out[i], D)

LEMMA WakesAwake ==
  ASSUME NEW i \in Insts, past.step \in Nat
  PROVE  Meaning!Wakes(i, changed) <=> Awake(i)
BY DEF Meaning!Wakes, Awake, TimedOut

LEMMA AsleepResumes ==
  ASSUME NEW i \in Insts, ~Meaning!Wakes(i, changed), Asleep(i), out[i] = <<>>
  PROVE  Resumes(i, {})
<1>1. Meaning!Resumed(i, sig, changed) =
        Meaning!Result(past.state[i], past.pc[i].blk, past.values[i], {})
  BY DEF Meaning!Resumed
<1>2. Stands(out[i], {})
  BY DEF Stands
<1> QED BY <1>1, <1>2 DEF Resumes, Asleep

LEMMA ProcessResumes ==
  ASSUME TypeOK, PastTyped, NEW i \in Insts, Meaning!Wakes(i, changed),
         design.kind[i] = "process", Ahead(i), state[i] # Ready
  PROVE  Resumes(i, Meaning!Lasting(out[i]))
<1>1. /\ Now(i) \in Meaning!Machines
      /\ Now(i).wait = state[i] /\ Now(i).at = pc[i].blk
      /\ Now(i).values = values[i] /\ Now(i).drives = out[i]
  BY NowTyped
<1>2. design.code[i] \in Seq(Seq(Instrs)) /\ past.time \in Times /\ sig \in [Sigs -> Values]
  BY DesignTyped DEF TypeOK, PastTyped
<1>3. Final(i, Start(i)) = Now(i)
  BY <1>1, <1>2, RunStep DEF Ahead, Final
<1>4. Meaning!Ran(i, sig) =
        Meaning!Result(Final(i, Start(i)).wait, Final(i, Start(i)).at, Final(i, Start(i)).values,
                       Meaning!Lasting(Final(i, Start(i)).drives))
  BY DEF Meaning!Ran, Final, Start, Meaning!Ready, Ready
<1>5. Meaning!Resumed(i, sig, changed) = Meaning!Ran(i, sig)
  BY DEF Meaning!Resumed
<1> QED BY <1>1, <1>3, <1>4, <1>5, LastingStands DEF Resumes

LEMMA EntityResumes ==
  ASSUME TypeOK, PastTyped, Begun, \A d \in Designs : Wired(d),
         NEW i \in Insts, Meaning!Wakes(i, changed), design.kind[i] = "entity", Flowed(i)
  PROVE  Resumes(i, {out[i][n] : n \in DOMAIN out[i]})
<1> DEFINE F == design.flows[i]
           pick(r) == CHOOSE k \in DOMAIN F : F[k].reg = r
           kept == [r \in Regs |-> IF \E k \in DOMAIN F : F[k].reg = r THEN Probed(i, pick(r))
                                   ELSE past.values[i][r]]
           fired == {k \in DOMAIN F : ~(past.step > 0) \/ Probed(i, k) # past.values[i][F[k].reg]}
<1>1. Meaning!Flowed(i, sig) =
        Meaning!Result(Wait(None, design.ports[i]), past.pc[i].blk, kept,
                       {FlowEvent(i, k) : k \in fired})
  BY ZenonT(60) DEF Meaning!Flowed, Begun, Probed, Flow, FlowEvent, Meaning!Read, Read,
     Meaning!Wait, Wait, Meaning!None, None, Meaning!Event, Event, Meaning!AfterDelay,
     AfterDelay, Meaning!Invert, Invert
<1>2. kept = Fetched(i)
  <2> SUFFICES ASSUME NEW r \in Regs
               PROVE  (IF \E k \in DOMAIN F : F[k].reg = r THEN Probed(i, pick(r))
                       ELSE past.values[i][r]) =
                      (IF Source(i, r) # {} THEN Probed(i, CHOOSE k : k \in Source(i, r))
                       ELSE past.values[i][r])
    BY DEF Fetched
  <2> DEFINE s == CHOOSE k : k \in Source(i, r)
  <2>1. Source(i, r) # {} <=> \E k \in DOMAIN F : F[k].reg = r
    BY DEF Source, Flow
  <2>2. ASSUME Source(i, r) # {} PROVE Probed(i, pick(r)) = Probed(i, s)
    <3>1. s \in Source(i, r)
      BY <2>2
    <3>2. pick(r) \in DOMAIN F /\ F[pick(r)].reg = r
      BY <2>1, <2>2
    <3>3. Wired(design)
      BY DEF TypeOK
    <3> HIDE DEF s, pick
    <3>4. Flow(i, s).from = Flow(i, pick(r)).from
      BY <3>1, <3>2, <3>3 DEF Wired, Source, Flow
    <3> QED BY <3>4 DEF Probed
  <2> HIDE DEF s, pick
  <2> QED BY <2>1, <2>2 DEF s
<1>3. fired = Due(i)
  BY DEF Due, Flow, PastTyped
<1>4. Meaning!Resumed(i, sig, changed) = Meaning!Flowed(i, sig)
  BY DEF Meaning!Resumed
<1> HIDE DEF kept, fired
<1>5. Meaning!Resumed(i, sig, changed) =
        Meaning!Result(state[i], pc[i].blk, values[i], {out[i][n] : n \in DOMAIN out[i]})
  BY <1>1, <1>2, <1>3, <1>4 DEF Flowed
<1> QED BY <1>5, LastingStands DEF Resumes

LEMMA AllResume ==
  ASSUME StepInv, TypeOK, ReadyCollected, \A d \in Designs : Wired(d),
         phase = "exec", \A i \in ready : state[i].kind # "Ready"
  PROVE  \A i \in Insts : \E D : Resumes(i, D)
<1> SUFFICES ASSUME NEW i \in Insts PROVE \E D : Resumes(i, D)
  OBVIOUS
<1>1. (i \in ready <=> Awake(i)) /\ Underway(i) /\ PastTyped /\ Begun
  BY DEF StepInv, Rested, InStep
<1>2. Meaning!Wakes(i, changed) <=> i \in ready
  BY <1>1, WakesAwake DEF PastTyped
<1>3. CASE i \notin ready
  BY <1>1, <1>2, <1>3, AsleepResumes DEF Underway, ReadyCollected
<1>4. CASE i \in ready
  <2>1. state[i] # Ready
    BY <1>4 DEF Ready
  <2>2. CASE design.kind[i] = "process"
    BY <1>1, <1>2, <1>4, <2>1, <2>2, ProcessResumes DEF Underway
  <2>3. CASE design.kind[i] # "process"
    <3>1. design.kind[i] = "entity"
      BY <2>3, DesignAssumption DEF TypeOK, DesignSpace
    <3>2. Flowed(i)
      BY <1>1, <1>4, <2>1, <2>3 DEF Underway, Waiting
    <3> QED BY <1>1, <1>2, <1>4, <3>1, <3>2, EntityResumes
  <2> QED BY <2>2, <2>3
<1> QED BY <1>3, <1>4

Procs == [i \in Insts |-> [wait |-> past.state[i], at |-> past.pc[i].blk,
                           values |-> past.values[i]]]

(* The instants that the engine has queues for are those of the meaning.   *)
Settled == TypeOK /\ TimersFit /\ TimersQueued /\ phase \in {"idle", "stopped"} /\ past = Current
SameInstants == Meaning!Instants(past.events, Procs) = Agenda(events, timed)

LEMMA AgendaInstants == Settled => SameInstants
<1> SUFFICES ASSUME Settled PROVE Meaning!Instants(past.events, Procs) = Agenda(events, timed)
  BY DEF SameInstants
<1> USE DEF Settled
<1>1. past.events = events /\ \A i \in Insts : Procs[i].wait.until = state[i].until
  BY DEF Current, Procs
<1>2. Meaning!Instants(past.events, Procs) =
        {e.time : e \in events} \cup UNION {state[i].until : i \in Insts}
  BY <1>1 DEF Meaning!Instants, Meaning!Insts, Insts
<1>3. ASSUME NEW t PROVE (t \in UNION {state[i].until : i \in Insts}) <=> t \in {w[1] : w \in timed}
  <2>1. ASSUME NEW i \in Insts, t \in state[i].until PROVE t \in {w[1] : w \in timed}
    <3>1. <<t, i>> \in timed
      BY <2>1 DEF TimersQueued
    <3> QED BY <3>1
  <2>2. ASSUME NEW w \in timed, t = w[1] PROVE \E i \in Insts : t \in state[i].until
    <3>1. w[2] \in Insts
      BY DEF TypeOK
    <3> QED BY <2>2, <3>1 DEF TimersFit
  <2> QED BY <2>1, <2>2
<1> QED BY <1>2, <1>3 DEF Agenda

LEMMA AgendaInstantsNext == Settled' => SameInstants'
BY AgendaInstants, PTL

(* Who has run in the step is at rest, and an entity knows its inputs.     *)
LEMMA EndRests ==
  ASSUME StepInv, EngineInv, TimersFit', EngineInv', \A d \in Designs : Wired(d),
         EndStep, past' = Current'
  PROVE  StepInv'
<1>1. /\ phase = "exec" /\ phase' \in {"idle", "stopped"} /\ \A i \in ready : state[i].kind # "Ready"
      /\ step' = step /\ state' = state /\ pc' = pc /\ values' = values /\ sig' = sig
      /\ design' = design /\ events' = Scheduled
  BY DEF EndStep, insts
<1>2. TypeOK /\ TypeOK' /\ ReadyCollected /\ NoneLeftReady'
  BY DEF EngineInv
<1>3. Rested /\ PastTyped /\ Begun /\ Driven
  BY <1>1 DEF StepInv, InStep, Rested
<1>4. \A i \in Insts : (i \in ready <=> Awake(i)) /\ Underway(i)
  BY <1>1 DEF StepInv
<1>5. /\ past'.step = step /\ past'.time = time' /\ past'.sig = sig /\ past'.events = events'
      /\ past'.state = state /\ past'.pc = pc /\ past'.values = values
  BY <1>1 DEF Current
<1>6. \A i \in Insts : i \in ready => state[i] # Ready
  BY <1>1 DEF Ready
<1>7. step \in Nat /\ step > 0
  BY <1>3 DEF Begun, PastTyped
<1>8. \A i \in Insts : state[i] # Ready
  BY <1>1, <1>7, <1>2 DEF NoneLeftReady, Ready
<1>9. ASSUME NEW i \in Insts PROVE pc[i].pos = 1
  <2>1. past.pc[i].pos = 1
    BY <1>3 DEF PastTyped
  <2> QED BY <1>4, <1>6, <2>1 DEF Underway, Asleep, Ahead, Waiting, Flowed
<1>10. PastTyped'
  <2>1. pc \in [Insts -> [blk : Nat, pos : {1}]]
    BY <1>2, <1>9 DEF TypeOK
  <2> QED BY <1>1, <1>2, <1>5, <2>1 DEF PastTyped, TypeOK
<1>11. ASSUME NEW i \in Insts, design.kind[i] = "entity" PROVE EntityFresh(i)'
  <2>1. Wired(design)
    BY <1>2 DEF TypeOK
  <2>2. \A k : Flow(i, k)' = Flow(i, k)
    BY <1>1 DEF Flow
  <2> SUFFICES /\ state[i] = Wait(None, design.ports[i])
               /\ \A k \in DOMAIN design.flows[i] : values[i][Flow(i, k).reg] = Probed(i, k)
    BY <1>1, <1>5, <2>2 DEF EntityFresh, Probed
  <2>3. \A k \in DOMAIN design.flows[i] : Flow(i, k).reg \in Regs /\ Flow(i, k).from.sig \in Sigs
    BY <1>2, FlowTyped DEF Flows, Ptrs
  <2>4. CASE i \in ready
    <3>1. Flowed(i)
      BY <1>4, <1>6, <1>11, <2>4 DEF Underway, Waiting
    <3>2. ASSUME NEW k \in DOMAIN design.flows[i]
          PROVE  Fetched(i)[Flow(i, k).reg] = Probed(i, k)
      <4> DEFINE s == CHOOSE j : j \in Source(i, Flow(i, k).reg)
      <4>1. k \in Source(i, Flow(i, k).reg)
        BY DEF Source
      <4>2. s \in Source(i, Flow(i, k).reg)
        BY <4>1
      <4>3. Fetched(i)[Flow(i, k).reg] = Probed(i, s)
        BY <2>3, <4>1 DEF Fetched
      <4> HIDE DEF s
      <4>4. Flow(i, s).from = Flow(i, k).from
        BY <1>11, <2>1, <4>1, <4>2 DEF Wired, Source, Flow
      <4> QED BY <4>3, <4>4 DEF Probed
    <3> QED BY <3>1, <3>2 DEF Flowed
  <2>5. CASE i \notin ready
    <3>1. Asleep(i) /\ ~Awake(i)
      BY <1>4, <2>5 DEF Underway
    <3>2. EntityFresh(i)
      BY <1>3, <1>11, <3>1 DEF Rested, Awake, PastTyped
    <3>3. past.state[i].sigs = design.ports[i]
      BY <3>2 DEF EntityFresh, Wait
    <3>4. ASSUME NEW k \in DOMAIN design.flows[i]
          PROVE  sig[Flow(i, k).from.sig] = past.sig[Flow(i, k).from.sig]
      <4>1. Flow(i, k).from.sig \in design.ports[i]
        BY <1>11, <2>1 DEF Wired, Flow
      <4>2. Flow(i, k).from.sig \notin changed
        BY <3>1, <3>3, <4>1 DEF Awake
      <4> QED BY <1>3, <2>3, <4>2 DEF Driven, Noticed
    <3> QED BY <3>1, <3>2, <3>4 DEF EntityFresh, Asleep, Probed
  <2> QED BY <2>4, <2>5
<1>12. phase' # "stopped" => events' # {} \/ \E i \in Insts : state[i].until # {}
  <2> SUFFICES ASSUME phase' # "stopped"
               PROVE  events' # {} \/ \E i \in Insts : state[i].until # {}
    OBVIOUS
  <2>1. Agenda(events', timed') # {}
    BY DEF EndStep, Earliest
  <2>2. CASE timed' # {}
    <3>1. PICK w \in timed' : TRUE
      BY <2>2
    <3>2. w[2] \in Insts /\ w[1] \in state[w[2]].until
      BY <1>1, <1>2 DEF TimersFit, TypeOK
    <3> QED BY <3>2
  <2>3. CASE timed' = {}
    BY <2>1, <2>3 DEF Agenda
  <2> QED BY <2>2, <2>3
<1>13. Rested'
  BY <1>1, <1>5, <1>7, <1>8, <1>10, <1>11, <1>12 DEF Rested
<1> QED BY <1>1, <1>13 DEF StepInv, InStep

(* The step is the one of the meaning.                                     *)
LEMMA EndIsStep ==
  ASSUME StepInv, EngineInv, EngineInv', TimersFit', \A d \in Designs : Wired(d),
         EndStep, past' = Current'
  PROVE  Meaning!Step
<1>1. /\ phase = "exec" /\ phase' \in {"idle", "stopped"} /\ \A i \in ready : state[i].kind # "Ready"
      /\ step' = step /\ state' = state /\ pc' = pc /\ values' = values /\ sig' = sig
      /\ design' = design /\ events' = Scheduled
  BY DEF EndStep, insts
<1>2. TypeOK /\ TypeOK' /\ ReadyCollected /\ OneValuePerSlot /\ TimersQueued' /\ due = {}
  BY <1>1 DEF EngineInv, QueuesAhead
<1>3. Rested /\ PastTyped /\ Begun /\ Driven
  BY <1>1 DEF StepInv, InStep, Rested
<1>4. /\ past'.step = step /\ past'.time = time' /\ past'.sig = sig /\ past'.events = events'
      /\ past'.state = state /\ past'.pc = pc /\ past'.values = values
  BY <1>1 DEF Current
<1> DEFINE res(i) == Meaning!Resumed(i, sig, changed)
           D == [i \in Insts |-> res(i).drives]
<1>5. ASSUME NEW i \in Insts
      PROVE  /\ res(i).proc = [wait |-> state[i], at |-> pc[i].blk, values |-> values[i]]
             /\ Stands(out[i], res(i).drives)
  <2>1. PICK E : Resumes(i, E)
    BY <1>1, <1>2, AllResume
  <2> QED BY <2>1 DEF Resumes, Meaning!Result
<1>6. Meaning!Posted(events, D, events')
  BY <1>1, <1>2, <1>5, ScheduledPosted
<1>7. events = past.events \ Meaning!DueAt(past.time)
  BY <1>3 DEF Begun, DuePast, Meaning!DueAt
<1>8. ~(past.step > 0) \/ Meaning!Instants(past.events, Procs) # {}
  <2> SUFFICES ASSUME past.step > 0 PROVE Meaning!Instants(past.events, Procs) # {}
    OBVIOUS
  <2>1. past.events # {} \/ \E i \in Insts : Procs[i].wait.until # {}
    BY <1>1, <1>3 DEF Rested, Procs
  <2> QED BY <2>1 DEF Meaning!Instants, Meaning!Insts, Insts
<1>9. /\ \A s \in Sigs : Meaning!Driven(s, sig[s])
      /\ Meaning!Changes(sig, changed)
  BY <1>2, <1>3, MeaningDriven
<1>10. sig \in [Sigs -> Meaning!Values] /\ changed \in SUBSET Sigs
  BY <1>2 DEF TypeOK, Meaning!Values, Values
<1>11. Meaning!Instants(events', Procs') = Agenda(events', timed')
  <2>1. Settled'
    BY <1>1, <1>2 DEF Settled
  <2>2. SameInstants'
    BY <2>1, AgendaInstantsNext
  <2> QED BY <1>4, <2>2 DEF SameInstants
<1>12. IF Meaning!Instants(events', Procs') = {} THEN time' = past.time
       ELSE Meaning!Earliest(Meaning!Instants(events', Procs'), time')
  <2>1. time = past.time
    BY <1>3 DEF Begun
  <2>2. \/ Agenda(events', timed') = {} /\ time' = time
        \/ Earliest(Agenda(events', timed'), time')
    BY DEF EndStep
  <2>3. Earliest(Agenda(events', timed'), time') <=>
        Meaning!Earliest(Agenda(events', timed'), time')
    BY DEF Earliest, Meaning!Earliest, TimeLeq, Meaning!TimeLeq, TimeLess, Meaning!TimeLess
  <2>4. Earliest(Agenda(events', timed'), time') => Agenda(events', timed') # {}
    BY DEF Earliest
  <2> QED BY <1>11, <2>1, <2>2, <2>3, <2>4
<1>13. (past.step > 0)' = TRUE
  BY <1>3, <1>4 DEF Begun, PastTyped
<1>14. Procs' = [i \in Insts |-> res(i).proc]
  BY <1>4, <1>5 DEF Procs
<1> QED
  BY <1>1, <1>4, <1>6, <1>7, <1>8, <1>9, <1>10, <1>12, <1>13, <1>14
  DEF Meaning!Step, Meaning!Insts, Insts, Procs

-----------------------------------------------------------------------------
HistoryVars == <<vars, past>>

LEMMA HistoryStart == HistoryInit => StepInv /\ Meaning!Init
<1> SUFFICES ASSUME HistoryInit PROVE StepInv /\ Meaning!Init
  OBVIOUS
<1>1. Init /\ past = Current /\ TypeOK
  BY TypeInit DEF HistoryInit
<1>2. /\ past.step = 0 /\ past.time = Zero /\ past.sig = design.init /\ past.events = {}
      /\ past.state = [i \in Insts |-> Ready]
      /\ past.pc = [i \in Insts |-> [blk |-> 1, pos |-> 1]]
      /\ past.values = [i \in Insts |-> [r \in Regs |-> {}]]
  BY <1>1 DEF Init, Current
<1>3. PastTyped
  BY <1>1, <1>2 DEF PastTyped, TypeOK, Init
<1>4. StepInv
  BY <1>1, <1>2, <1>3 DEF StepInv, Rested, InStep, Init
<1>5. Meaning!Init
  BY <1>1, <1>2 DEF Meaning!Init, Init, Zero, Meaning!Zero, Meaning!Insts, Insts, Meaning!Ready, Ready
<1> QED BY <1>4, <1>5

LEMMA HistoryStep ==
  ASSUME \A d \in Designs : Wired(d), EngineInv, EngineInv', TimersFit, TimersFit', StepInv,
         [HistoryNext]_HistoryVars
  PROVE  StepInv' /\ [Meaning!Step]_(Meaning!vars)
<1>0. TypeOK /\ TimersQueued /\ QueuesAhead /\ ReadyCollected
  BY DEF EngineInv
<1>1. CASE EndStep /\ HistoryNext
  <2>1. past' = Current'
    BY <1>1 DEF EndStep, HistoryNext
  <2> QED BY <1>1, <2>1, EndRests, EndIsStep
<1>2. CASE LimitReached /\ HistoryNext
  <2>1. past' = past /\ Current' = Current /\ phase = "idle" /\ phase' = "stopped"
    BY <1>2 DEF HistoryNext, LimitReached, Current, StepInv, Rested, queues, insts
  <2>2. \A i \in Insts : EntityFresh(i) => EntityFresh(i)'
    BY <1>2, <2>1 DEF EntityFresh, Flow, LimitReached
  <2>3. StepInv'
    BY <1>2, <2>1, <2>2 DEF StepInv, Rested, PastTyped, InStep, LimitReached
  <2>4. UNCHANGED Meaning!vars
    BY <1>2, <2>1 DEF Meaning!vars, LimitReached
  <2> QED BY <2>3, <2>4
<1>3. CASE UNCHANGED HistoryVars \/ (Over /\ HistoryNext)
  <2>1. UNCHANGED <<vars, past>>
    <3>1. CASE UNCHANGED HistoryVars
      BY <3>1 DEF HistoryVars
    <3>2. CASE Over /\ HistoryNext
      BY <3>2 DEF Over, HistoryNext, StepInv, Rested, Current, vars, queues, insts
    <3> QED BY <1>3, <3>1, <3>2
  <2>2. StepInv'
    <3>1. /\ UNCHANGED <<design, phase, step, time, sig, events, timed, past>>
          /\ UNCHANGED <<state, pc, values, due, changed, ready, out>>
      BY <2>1 DEF vars, queues, insts, locals
    <3>2. Rested'
      <4>1. \A i \in Insts : EntityFresh(i) => EntityFresh(i)'
        BY <3>1 DEF EntityFresh, Flow
      <4> QED BY <3>1, <4>1 DEF StepInv, Rested, PastTyped, Current
    <3>3. Untouched(0) /\ 0 \notin Insts
      BY <3>1 DEF Untouched, Insts
    <3>4. InStep => Begun' /\ Driven'
      BY <3>1, <3>3, StepKept DEF StepInv
    <3>5. phase \in {"apply", "sense"} => Unrun'
      BY <3>1 DEF StepInv, Unrun, TimedOut
    <3>6. phase = "exec" => \A i \in Insts : (i \in ready <=> Awake(i))' /\ Underway(i)'
      <4> SUFFICES ASSUME phase = "exec", NEW i \in Insts
                   PROVE  (i \in ready <=> Awake(i))' /\ Underway(i)'
        OBVIOUS
      <4>1. (i \in ready <=> Awake(i)) /\ Underway(i) /\ i \in Insts \ {0}
        BY <3>3 DEF StepInv
      <4>2. Underway(i)' /\ (Awake(i)' <=> Awake(i))
        BY <3>1, <3>3, <4>1, OthersKept
      <4> QED BY <3>1, <4>1, <4>2
    <3> QED BY <3>1, <3>2, <3>4, <3>5, <3>6 DEF StepInv, InStep
  <2>3. UNCHANGED Meaning!vars
    BY <2>1 DEF Meaning!vars, vars
  <2> QED BY <2>2, <2>3
<1>4. CASE HistoryNext /\ (BeginStep \/ ApplyEvent \/ WakeTimed \/ WakeSensed \/ \E i \in Insts : Exec(i))
  <2>1. phase' \notin {"idle", "stopped"} /\ design' = design
    <3>1. CASE BeginStep \/ ApplyEvent \/ WakeTimed \/ WakeSensed
      BY <3>1 DEF BeginStep, ApplyEvent, WakeTimed, WakeSensed
    <3>2. CASE \E i \in Insts : Exec(i)
      BY <1>0, <3>2, ExecEffect DEF EngineInv, Executed
    <3> QED BY <1>4, <3>1, <3>2
  <2>2. past' = past
    BY <1>4, <2>1 DEF HistoryNext
  <2>3. UNCHANGED Meaning!vars
    BY <2>1, <2>2 DEF Meaning!vars
  <2>4. StepInv'
    <3>1. CASE BeginStep
      BY <2>2, <3>1, BeginKeeps
    <3>2. CASE ApplyEvent
      BY <1>0, <2>2, <3>2, ApplyKeeps
    <3>3. CASE WakeTimed
      BY <1>0, <2>2, <3>3, TimedKeeps
    <3>4. CASE WakeSensed
      BY <1>0, <2>2, <3>4, SensedKeeps
    <3>5. ASSUME NEW i \in Insts, Exec(i) PROVE StepInv'
      <4>1. CASE Starve(i)
        BY <2>2, <4>1, StarveKeeps
      <4>2. CASE Entity(i)
        BY <1>0, <2>2, <4>2, EntityKeeps
      <4>3. CASE ~Starve(i) /\ ~Entity(i)
        BY <1>0, <2>2, <3>5, <4>3, ProcessKeeps
      <4> QED BY <4>1, <4>2, <4>3
    <3> QED BY <1>4, <3>1, <3>2, <3>3, <3>4, <3>5
  <2> QED BY <2>3, <2>4
<1> QED BY <1>1, <1>2, <1>3, <1>4 DEF HistoryNext, Next

(* Between its steps the engine does what the design means: in every order *)
(* in which the drives of an instant are applied and the ready instances   *)
(* are run (Engine::step), the step is the atomic one.                     *)
THEOREM EngineImplementsMeaning ==
  ASSUME \A d \in Designs : TimersAlone(d) /\ Wired(d)
  PROVE  HistorySpec => ImplementsMeaning
<1>1. HistoryInit => EngineInv /\ TimersFit /\ StepInv /\ Meaning!Init
  BY InvInit, FitInit, HistoryStart DEF HistoryInit
<1>2. [HistoryNext]_<<vars, past>> => [Next]_vars
  BY DEF HistoryNext
<1>3. EngineInv /\ [Next]_vars => EngineInv'
  BY InvNext
<1>4. EngineInv /\ TimersFit /\ [Next]_vars => TimersFit'
  BY FitNext DEF EngineInv
<1>5. EngineInv /\ EngineInv' /\ TimersFit /\ TimersFit' /\ StepInv /\ [HistoryNext]_<<vars, past>>
        => StepInv' /\ [Meaning!Step]_(Meaning!vars)
  BY HistoryStep DEF HistoryVars
<1> QED BY <1>1, <1>2, <1>3, <1>4, <1>5, PTL DEF HistorySpec, ImplementsMeaning, Meaning!Spec
=============================================================================
