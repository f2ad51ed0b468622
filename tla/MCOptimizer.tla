----------------------------- MODULE MCOptimizer ------------------------------
(* Units as a frontend writes them, and the lists of passes to run on them. *)
(* A unit has two inputs and an output; its instructions count from 4.      *)
EXTENDS Optimizer

a == 1
b == 2
q == 3
Signals == <<Ins("in", <<>>, <<>>), Ins("in", <<>>, <<>>), Ins("out", <<>>, <<>>)>>
Unit(kind, blocks) ==
  LET before(n) == FoldLeft(LAMBDA s, k : s + Len(blocks[k]), 3, [k \in 1..(n - 1) |-> k])
  IN [kind |-> kind, inst |-> Signals \o FlattenSeq(blocks),
      body |-> [n \in DOMAIN blocks |-> [k \in DOMAIN blocks[n] |-> before(n) + k]],
      order |-> [n \in DOMAIN blocks |-> n]]
Process(blocks) == Unit("process", blocks)

I(op, args) == Ins(op, args, <<>>)
Drv(v) == I("drv", <<q, v>>)
Br(t) == Ins("br", <<>>, <<t>>)
BrCond(c, f, t) == Ins("br_cond", <<c>>, <<f, t>>)
Both == <<a, b>>
Wait(t) == Ins("wait", Both, <<t>>)
Probes == <<I("prb", <<a>>), I("prb", <<b>>)>>      \* of the first block: 4 and 5
Zero == I("zero", <<>>)

-----------------------------------------------------------------------------
(* Units that every pass keeps.                                             *)

\* if a then q <= b else q <= not b, and the other way round
Choice(f, t) == Process(
  << Probes \o <<BrCond(4, f, t)>>, <<Drv(5), Br(4)>>, <<I("not", <<5>>), Drv(9), Br(4)>>, <<Wait(1)>> >>)
\* if a then q <= b
Latch == Process(<< Probes \o <<BrCond(4, 3, 2)>>, <<Drv(5), Br(3)>>, <<Wait(1)>> >>)
\* q <= 0; if a then q <= b
Preset == Process(<< Probes \o <<Zero, Drv(6), BrCond(4, 3, 2)>>, <<Drv(5), Br(3)>>, <<Wait(1)>> >>)
\* x := 0; if a then x := b; q <= x
Variable == Process(
  << Probes \o <<Zero, I("var", <<6>>), BrCond(4, 3, 2)>>,
     <<I("st", <<7, 5>>), Br(3)>>,
     <<I("ld", <<7>>), Drv(11), Wait(1)>> >>)
\* x := 0; if a then (if b then x := 1) else x := b; q <= x
Nested == Process(
  << Probes \o <<Zero, I("one", <<>>), I("var", <<6>>), BrCond(4, 2, 3)>>,
     <<I("st", <<8, 5>>), Br(5)>>,
     <<BrCond(5, 5, 4)>>,
     <<I("st", <<8, 7>>), Br(5)>>,
     <<I("ld", <<8>>), Drv(15), Wait(1)>> >>)
\* x := a; while x do x := 0; q <= x xor b
Loop == Process(
  << Probes \o <<I("var", <<4>>), Br(2)>>,
     <<I("ld", <<6>>), BrCond(8, 3, 4)>>,
     <<I("ld", <<6>>), I("xor", <<10, 5>>), Drv(11), Wait(1)>>,
     <<Zero, I("st", <<6, 14>>), Br(2)>> >>)
\* on a rising edge of a, q <= b
FlipFlop == Process(
  << <<I("prb", <<a>>), Ins("wait", <<a>>, <<2>>)>>,
     <<I("prb", <<a>>), I("not", <<4>>), I("and", <<6, 7>>), BrCond(8, 1, 3)>>,
     <<I("prb", <<b>>), Drv(10), Br(1)>> >>)
\* on a rising edge of a, q <= b; else on one of b, q <= a
Edges == Process(
  << Probes \o <<Wait(2)>>,
     Probes \o <<I("not", <<4>>), I("and", <<7, 9>>), BrCond(10, 3, 4)>>,
     <<I("not", <<5>>), I("and", <<8, 12>>), BrCond(13, 1, 5)>>,
     <<Drv(8), Br(1)>>,
     <<Drv(7), Br(1)>> >>)
\* a wait for each way, and then another one; q <= b and q <= not b in turn
TwoWaits == Process(
  << Probes \o <<BrCond(4, 2, 3)>>, <<Drv(5), Wait(4)>>, <<I("not", <<5>>), Drv(9), Wait(4)>>,
     <<I("prb", <<a>>), Drv(12), Wait(1)>> >>)
InTurn == Process(
  << <<I("prb", <<b>>), Drv(4), Wait(2)>>, <<I("prb", <<b>>), I("not", <<7>>), Drv(8), Wait(1)>> >>)
\* the same operation on either way
Common == Process(
  << Probes \o <<BrCond(4, 2, 3)>>,
     <<I("and", <<4, 5>>), Drv(7), Br(4)>>,
     <<I("and", <<4, 5>>), I("not", <<10>>), Drv(11), Br(4)>>,
     <<Wait(1)>> >>)
\* the inputs are probed once before the body, which waits for itself
AlwaysComb == Process(
  << Probes \o <<I("or", <<4, 5>>), Br(2)>>,
     Probes \o <<Zero, Drv(10), I("and", <<8, 9>>), BrCond(12, 4, 3)>>,
     <<Drv(12), Br(4)>>,
     <<Br(5)>>,
     <<Wait(2)>> >>)
\* a branch on a constant, blocks in a row
Constant == Process(
  << <<I("one", <<>>), I("prb", <<a>>), BrCond(4, 2, 3)>>,
     <<Zero, Drv(7), Br(3)>>,
     <<I("prb", <<b>>), Br(4)>>,
     <<Br(5)>>,
     <<I("and", <<5, 10>>), Drv(13), Wait(1)>> >>)
\* one block, which waits for all that it probes or not
Gates(sigs) == Process(
  << Probes \o <<I("xor", <<4, 5>>), I("xor", <<4, 5>>), I("and", <<6, 7>>), Drv(8),
                 Ins("wait", sigs, <<1>>)>> >>)
Once == Process(<< <<I("one", <<>>), Drv(4), I("halt", <<>>)>> >>)
Entity == Unit("entity",
  << Probes \o <<I("xor", <<4, 4>>), I("or", <<5, 6>>), I("prb", <<b>>), I("mux", <<7, 8, 4>>),
                 Drv(9), I("halt", <<>>)>> >>)

\* on an edge of a, q <= b
Dual == Process(
  << Probes \o <<Wait(2)>>, Probes \o <<I("xor", <<4, 7>>), I("drv_cond", <<q, 8, 9>>), Br(1)>> >>)
\* on a rising edge of a, if b then q <= not a
Gated == Process(
  << Probes \o <<I("not", <<4>>), Wait(2)>>,
     Probes \o <<I("and", <<6, 8>>), I("and", <<9, 10>>), I("not", <<8>>),
                 I("drv_cond", <<q, 12, 11>>), Br(1)>> >>)
\* on a rising edge of a or a falling edge of b, q <= b
Reset == Process(
  << Probes \o <<I("not", <<4>>), Wait(2)>>,
     Probes \o <<I("and", <<6, 8>>), I("not", <<9>>), I("and", <<5, 11>>), I("or", <<10, 12>>),
                 Zero, I("one", <<>>), I("mux", <<14, 15, 9>>), I("drv_cond", <<q, 16, 13>>),
                 Br(1)>> >>)
\* on a falling edge of a if b, on a rising edge if not b, q <= b
Weird == Process(
  << Probes \o <<I("not", <<4>>), Ins("wait", <<a>>, <<2>>)>>,
     Probes \o <<I("xor", <<6, 9>>), I("xor", <<8, 9>>), I("and", <<10, 11>>),
                 I("drv_cond", <<q, 9, 12>>), Br(1)>> >>)

Units == {Choice(2, 3), Choice(3, 2), Latch, Preset, Variable, Nested, Loop, FlipFlop, Edges,
          TwoWaits, InTurn, Common, AlwaysComb, Constant, Gates(Both), Gates(<<a>>), Once, Entity,
          Dual, Gated, Reset, Weird}

-----------------------------------------------------------------------------
(* Units that some of the passes do not keep.                               *)

\* q <= what a was before: the body follows the initial value and waits for itself
Delayed == Process(
  << <<Zero, I("var", <<4>>), Br(2)>>,
     <<I("ld", <<5>>), Drv(7), I("prb", <<a>>), I("st", <<5, 9>>), Wait(2)>> >>)
\* if a then x := b; the variable is carried over the wait
Register == Process(
  << <<Zero, I("var", <<4>>), Wait(2)>>,
     <<I("ld", <<5>>), Drv(7), I("prb", <<a>>), I("prb", <<b>>), BrCond(9, 4, 3)>>,
     <<I("st", <<5, 10>>), Br(4)>>,
     <<Wait(2)>> >>)
\* if a then (if b then q <= not b; q <= b): the second drive follows a join
AfterJoin == Process(
  << Probes \o <<BrCond(4, 5, 2)>>,
     <<BrCond(5, 4, 3)>>,
     <<I("not", <<5>>), Drv(8), Br(4)>>,
     <<Drv(5), Br(5)>>,
     <<Wait(1)>> >>)
\* q <= 0 at first; the wait is shared with the body
SharedWait == Process(
  << <<Zero, Drv(4), Br(2)>>, <<Wait(3)>>, Probes \o <<I("and", <<8, 9>>), Drv(10), Br(2)>> >>)
\* a conditional drive of values from before the wait
Late == Process(
  << Probes \o <<I("xor", <<4, 5>>), Drv(5), Wait(2)>>, <<I("drv_cond", <<q, 6, 4>>), Wait(1)>> >>)

\* whenever a signal changes, if a then q <= b
WhileHigh == Process(
  << Probes \o <<Wait(2)>>, Probes \o <<I("drv_cond", <<q, 8, 7>>), Br(1)>> >>)
\* as a flip-flop, but with the first edge of a only, or the first state of a for ever
FirstEdge(end) == Process(
  << Probes \o <<I("not", <<4>>), Wait(2)>>,
     Probes \o <<I("and", <<6, 8>>), I("drv_cond", <<q, 9, 10>>), end>> >>)
\* on a falling edge of b, q <= a, but only a change of a wakes it
Deaf == Process(
  << Probes \o <<Ins("wait", <<a>>, <<2>>)>>,
     Probes \o <<I("not", <<8>>), I("and", <<5, 9>>), I("drv_cond", <<q, 7, 10>>), Br(1)>> >>)
\* q <= x, x := x or a, from one wait to the next
Carried == Process(
  << <<Zero, I("var", <<4>>), Wait(2)>>,
     <<I("ld", <<5>>), I("prb", <<a>>), I("or", <<7, 8>>), I("st", <<5, 9>>), Drv(7), Wait(2)>> >>)
\* x := 0; if a then (if b then x := b); the inner choice joins before the outer one
Inner == Process(
  << Probes \o <<Zero, I("var", <<6>>), BrCond(4, 5, 2)>>,
     <<BrCond(5, 4, 3)>>,
     <<I("st", <<7, 5>>), Br(4)>>,
     <<Br(5)>>,
     <<I("ld", <<7>>), Drv(13), Wait(1)>> >>)
\* x := 0; if a then x := not b, which is known on that way only
Local == Process(
  << Probes \o <<Zero, I("var", <<6>>), BrCond(4, 3, 2)>>,
     <<I("not", <<5>>), I("st", <<7, 9>>), Br(3)>>,
     <<I("ld", <<7>>), Drv(12), Wait(1)>> >>)

-----------------------------------------------------------------------------
\* The list of llhd-opt --lower, and every list of two passes.
DefaultPasses == <<"cf", "vtpp", "dce", "gcse", "ecm", "tcm", "ecm", "tcm", "gcse", "tcm", "cf",
                   "ecm", "gcse", "insim", "dce", "cfs", "insim", "dce", "proclower",
                   "deseq">>
Names == Range(DefaultPasses)
Lists == {DefaultPasses} \cup Names \X Names

With(pass) == {l \in Lists : pass \in Range(l)}
\* A unit with the lists that spoil it.
Spoiled == {<<Delayed, With("dce") \cup {<<"vtpp", "cfs">>}>>, <<Register, With("vtpp")>>,
            <<AfterJoin, With("tcm")>>, <<SharedWait, With("tcm")>>, <<Late, With("ecm")>>, <<Carried, With("cfs")>>,
            <<Inner, With("cfs")>>, <<Local, {<<"vtpp", "cfs">>}>>, <<WhileHigh, With("deseq")>>,
            <<FirstEdge(I("halt", <<>>)), With("deseq")>>, <<FirstEdge(Wait(2)), With("deseq")>>,
            <<Deaf, With("deseq")>>}

MCJobs == {[unit |-> u, lists |-> Lists] : u \in Units}
            \cup {[unit |-> s[1], lists |-> Lists \ s[2]] : s \in Spoiled}
DelayedJobs == {[unit |-> Delayed, lists |-> {DefaultPasses}]}

\* Three states of the inputs, each different from the one before.
States == [{a, b} -> {0, 1}]
MCInputs == {s \in States \X States \X States : s[1] # s[2] /\ s[2] # s[3]}
=============================================================================
