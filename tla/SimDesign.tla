------------------------------ MODULE SimDesign ------------------------------
(***************************************************************************)
(* What llhd-sim simulates: an elaborated design (the State that           *)
(* bin/llhd-sim/builder.rs sets up) and the data the engine moves around.  *)
(*                                                                         *)
(* A value is the set of its lanes (bits, fields) that are high; a signal  *)
(* pointer selects lanes of one signal.  Pointers with several slices are  *)
(* left to a module of their own.                                          *)
(***************************************************************************)
EXTENDS SimTime, Sequences, FiniteSets

CONSTANTS
  Sigs,         \* the signals of the elaborated design
  Lanes,        \* the bits or fields of a signal
  Regs,         \* the SSA values and variables of an instance
  N,            \* the number of instances
  Designs       \* the elaborated designs to simulate

Insts  == 1..N
Values == SUBSET Lanes
Ptrs   == [sig : Sigs, sel : SUBSET Lanes]
Blocks == Nat   \* a block of a process, by position
NoBlock == 0    \* next_block = None

(* The instructions of a process that touch the engine's state.  "val"     *)
(* stands for every instruction that only computes a value (including var, *)
(* ld and st): the register dst takes src or its complement.               *)
Instrs ==
       [op : {"prb"}, dst : Regs, ptr : Ptrs]
  \cup [op : {"val"}, dst : Regs, src : Regs, inv : BOOLEAN]
  \cup [op : {"drv"}, ptr : Ptrs, src : Regs, delay : Times]
  \cup [op : {"br"}, to : Blocks]
  \cup [op : {"brcond"}, src : Regs, to0 : Blocks, to1 : Blocks]
  \cup [op : {"wait"}, to : Blocks, sigs : SUBSET Sigs]
  \cup [op : {"waittime"}, to : Blocks, delay : Times, sigs : SUBSET Sigs]
  \cup [op : {"halt"}]

(* One data flow of an entity: from is probed into the value reg, and to   *)
(* is driven with it (or its complement) whenever that value changes.      *)
Flows == [reg : Regs, from : Ptrs, inv : BOOLEAN, to : Ptrs, delay : Times]

(* A design: the signals' initial values; for each instance its kind, the  *)
(* blocks of a process, the flows and the sensitivity list of an entity.   *)
DesignSpace ==
  [ init  : [Sigs -> Values],
    kind  : [Insts -> {"process", "entity"}],
    code  : [Insts -> Seq(Seq(Instrs))],
    flows : [Insts -> Seq(Flows)],
    ports : [Insts -> SUBSET Sigs] ]

(* What the verifier has found in order before a design is elaborated: a   *)
(* process has a first block, and every block ends, and only ends, with a  *)
(* terminator, which names blocks of the process.                          *)
TerminatorOps == {"br", "brcond", "wait", "waittime", "halt"}
Targets(I) == IF I.op \in {"br", "wait", "waittime"} THEN {I.to}
              ELSE IF I.op = "brcond" THEN {I.to0, I.to1} ELSE {}
VerifiedProcess(blocks) ==
  /\ blocks # <<>>
  /\ \A b \in DOMAIN blocks :
       /\ blocks[b] # <<>>
       /\ \A n \in DOMAIN blocks[b] :
            /\ blocks[b][n].op \in TerminatorOps <=> n = Len(blocks[b])
            /\ Targets(blocks[b][n]) \subseteq DOMAIN blocks
Verified(d) == \A i \in Insts : d.kind[i] = "process" => VerifiedProcess(d.code[i])

(* No process of the design waits for a time and for signals at once.      *)
TimersAlone(d) ==
  \A i \in Insts : \A b \in DOMAIN d.code[i] : \A n \in DOMAIN d.code[i][b] :
    d.code[i][b][n].op = "waittime" => d.code[i][b][n].sigs = {}

(* The signals that an entity probes are among those it is sensitive to,   *)
(* and a value of it is the probe of one pointer.                          *)
Wired(d) ==
  \A i \in Insts : d.kind[i] = "entity" =>
    \A j, k \in DOMAIN d.flows[i] :
      /\ d.flows[i][k].from.sig \in d.ports[i]
      /\ d.flows[i][j].reg = d.flows[i][k].reg => d.flows[i][j].from = d.flows[i][k].from

ASSUME NAssumption == N \in Nat
ASSUME DesignAssumption == Designs \subseteq DesignSpace
-----------------------------------------------------------------------------
(* A drive that takes effect at a later instant (struct Event).            *)
Event(at, ptr, val) == [time |-> at, ptr |-> ptr, val |-> val]
Events == [time : Times, ptr : Ptrs, val : Values]
SameSlot(e, f) == e.time = f.time /\ e.ptr = f.ptr

(* InstanceState.  An Option is the set of what it holds.                  *)
Ready           == [kind |-> "Ready", until |-> {}, sigs |-> {}]
Done            == [kind |-> "Done", until |-> {}, sigs |-> {}]
Wait(until, S)  == [kind |-> "Wait", until |-> until, sigs |-> S]
None            == {}
Some(t)         == {t}
States == {Ready, Done} \cup [kind : {"Wait"}, until : SUBSET Times, sigs : SUBSET Sigs]

(* read_pointer and write_pointer for a pointer of one slice.              *)
Read(old, ptr)         == old \cap ptr.sel
Written(old, ptr, val) == (old \ ptr.sel) \cup (val \cap ptr.sel)
Invert(inv, v)         == IF inv THEN Lanes \ v ELSE v
=============================================================================
