----------------------------- MODULE MCSimEngine -----------------------------
(***************************************************************************)
(* Instances of SimEngine for TLC, on small designs: every way of filling  *)
(* the instances with processes and entities from a menu.  clk and q are   *)
(* the signals of the design, x and y the values of an instance (y is never *)
(* assigned and reads as all low).  Which menus the designs are built from, *)
(* and the step limit, are set in the configurations.                      *)
(***************************************************************************)
EXTENDS SimEngine

MCLanes == {1, 2}
MCSigs == {"clk", "q"}
MCRegs == {"x", "y"}

T(n)    == <<n, 0, 0>>
Delta   == <<0, 1, 0>>
Epsilon == <<0, 0, 1>>
NoDelay == <<0, 0, 0>>

Whole(s)      == [sig |-> s, sel |-> {1, 2}]
Lane(s, l)    == [sig |-> s, sel |-> {l}]
Probe(r, p)   == [op |-> "prb", dst |-> r, ptr |-> p]
Not(r, a)     == [op |-> "val", dst |-> r, src |-> a, inv |-> TRUE]
Drive(p, r, d) == [op |-> "drv", ptr |-> p, src |-> r, delay |-> d]
Goto(b)       == [op |-> "br", to |-> b]
If(r, b0, b1) == [op |-> "brcond", src |-> r, to0 |-> b0, to1 |-> b1]
WaitOn(b, S)  == [op |-> "wait", to |-> b, sigs |-> S]
WaitFor(b, d, S) == [op |-> "waittime", to |-> b, delay |-> d, sigs |-> S]
Stop          == [op |-> "halt"]

(* Processes.                                                              *)
Clock(n) == << <<Probe("x", Whole("clk")), Not("x", "x"),
                 Drive(Whole("clk"), "x", T(n)), WaitFor(1, T(n), {})>> >>
Pulse == << <<Not("x", "y"), Drive(Whole("clk"), "x", T(1)), WaitFor(2, T(2), {})>>,
            <<Drive(Whole("clk"), "y", Epsilon), Stop>> >>
Follow == << <<Probe("x", Whole("clk")), Drive(Whole("q"), "x", Delta),
               WaitOn(1, {"clk"})>> >>
Oscillate == << <<Probe("x", Whole("q")), Not("x", "x"),
                  Drive(Whole("q"), "x", Delta), WaitOn(1, {"q"})>> >>
Branch == << <<Probe("x", Whole("q")), If("x", 2, 3)>>,
             <<WaitOn(1, {"q"})>>,
             <<Drive(Whole("clk"), "x", NoDelay), Goto(4)>>,
             <<Stop>> >>
Twice == << <<Not("x", "y"), Drive(Whole("clk"), "y", T(1)),
              Drive(Whole("clk"), "x", T(1)), WaitFor(2, T(1), {})>>,
            <<Stop>> >>
Lanewise == << <<Not("x", "y"), Drive(Lane("q", 1), "x", Delta),
                 Drive(Lane("q", 2), "x", T(1)), WaitOn(1, {"clk"})>> >>
Overlap == << <<Not("x", "y"), Drive(Lane("q", 1), "x", Delta),
                Drive(Whole("q"), "y", Delta), WaitOn(1, {"clk"})>> >>

(* Processes that wait for a time and for signals at once.                 *)
TimeoutHalt == << <<WaitFor(2, T(2), {"clk"})>>, <<Stop>> >>
TimeoutWait == << <<WaitFor(2, T(2), {"clk"})>>,
                  <<WaitOn(2, {"q"})>> >>
Rearm == << <<WaitFor(1, T(2), {"clk"})>> >>

(* Entities: a pair <<flows, ports>>.                                      *)
Flow_(r, from, inv, to, d) ==
  [reg |-> r, from |-> from, inv |-> inv, to |-> to, delay |-> d]
Inverter == << <<Flow_("x", Whole("clk"), TRUE, Whole("q"), Delta)>>, {"clk", "q"} >>
Buffers  == << <<Flow_("x", Whole("clk"), FALSE, Lane("q", 1), Delta),
                 Flow_("y", Lane("clk", 2), TRUE, Lane("q", 2), T(1))>>,
               {"clk", "q"} >>
Fighting == << <<Flow_("x", Whole("clk"), FALSE, Whole("q"), Delta),
                 Flow_("y", Whole("clk"), TRUE, Whole("q"), Delta)>>,
               {"clk", "q"} >>

P(c) == [kind |-> "process", code |-> c, flows |-> <<>>, ports |-> {}]
E(e) == [kind |-> "entity", code |-> <<>>, flows |-> e[1], ports |-> e[2]]

Design(I, m) ==
  [ init  |-> [s \in MCSigs |-> {}],
    kind  |-> [i \in I |-> m[i].kind],
    code  |-> [i \in I |-> m[i].code],
    flows |-> [i \in I |-> m[i].flows],
    ports |-> [i \in I |-> m[i].ports] ]

FilledWith(I, Menus) == {Design(I, m) : m \in UNION {[I -> Menu] : Menu \in Menus}}

(* One instance from each menu.                                            *)
OneOfEach(A, B, C) == {Design(1..3, <<a, b, c>>) : a \in A, b \in B, c \in C}

(* Designs that may run for ever; designs with waits for a time and for    *)
(* signals at once; designs without, of which the last ones come to rest    *)
(* and the contenders drive the same lane twice in one instant.             *)
Endless   == {P(Clock(1)), P(Follow), P(Oscillate), P(Branch), P(Overlap),
              P(Pulse), E(Fighting), E(Buffers)}
Mixed     == {P(Pulse), P(Follow), P(TimeoutHalt), P(TimeoutWait), P(Rearm)}
Drivers   == {P(Clock(1)), P(Pulse), P(Branch), P(Twice)}
Readers   == {P(Follow), P(Oscillate), E(Inverter), E(Buffers)}
Resting   == {P(Pulse), P(Twice)}
Listeners == {P(Follow), P(Lanewise), E(Buffers)}
Contenders == {P(Overlap), E(Fighting)}

MixedDesigns == FilledWith(Insts, {Mixed})
AllDesigns   == FilledWith(Insts, {Endless, Mixed})
=============================================================================
