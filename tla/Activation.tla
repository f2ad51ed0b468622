------------------------------ MODULE Activation -----------------------------
(* What a program does, after doc/LANGUAGE.md: it runs from wait to wait,   *)
(* wakes when a signal it waits for or, as an entity, probes has changed,   *)
(* and shows its outputs. A value is a bit or None; a program that depends  *)
(* on None is lost, and so is one that does not come to a wait.             *)
EXTENDS Program

CONSTANT Fuel                   \* blocks a program may run through in one instant
ASSUME FuelAssumption == Fuel \in Nat

None == 2
Nowhere == 0

\* env: values, and the contents of variables; was: env when the block was entered;
\* out: the outputs as last driven; at, from: block and predecessor; by: the wait.
Start(p) ==
  [env |-> [i \in {Invalid} \cup DOMAIN p.inst |-> None],
   was |-> <<>>,
   out |-> [i \in {j \in DOMAIN p.inst : Op(p, j) = "out"} |-> None],
   at |-> EntryOf(p), from |-> Nowhere, by |-> 0]

\* The way of a phi by which the block was reached.
Incoming(s, i) ==
  LET ways == {k \in DOMAIN i.to : i.to[k] = s.from} IN
  IF ways = {} THEN None ELSE s.was[i.args[CHOOSE k \in ways : \A m \in ways : k <= m]]

\* What the trigger i of a register stores, or Idle.
Idle == 3
Fires(op, was, now) ==
  CASE op = "high" -> now = 1
    [] op = "rise" -> was = 0 /\ now = 1
    [] op = "fall" -> was = 1 /\ now = 0
Trigger(s, i) ==
  LET x == [k \in DOMAIN i.args |-> s.env[i.args[k]]] IN
  IF x[2] = None \/ (Len(x) = 3 /\ x[3] = None) THEN None
  ELSE IF Fires(i.op, s.was[i.args[2]], x[2]) /\ (Len(x) = 3 => x[3] = 1) THEN x[1] ELSE Idle

Strict(op, x) ==
  CASE op = "not" -> 1 - x[1]
    [] op \in Binary -> BitOp(op, x[1], x[2])
    [] op = "mux" -> IF x[3] = 0 THEN x[1] ELSE x[2]

Result(s, i, in) ==
  LET x == [k \in DOMAIN i.args |-> s.env[i.args[k]]] IN
  CASE i.op = "zero" -> 0
    [] i.op = "one" -> 1
    [] i.op = "prb" -> in[i.args[1]]
    [] i.op = "phi" -> Incoming(s, i)
    [] i.op \in {"var", "ld"} -> x[1]
    [] i.op \in {"rise", "fall", "high"} -> Trigger(s, i)
    [] OTHER -> IF \E k \in DOMAIN x : x[k] = None THEN None ELSE Strict(i.op, x)

\* "In case multiple triggers apply the left-most takes precedence."
Registered(s, i) ==
  LET fired == SelectSeq(Tail(i.args), LAMBDA v : s.env[v] # Idle) IN
  IF fired = <<>> THEN s
  ELSE IF s.env[Head(fired)] = None THEN [s EXCEPT !.at = Nowhere]
  ELSE [s EXCEPT !.out[i.args[1]] = s.env[Head(fired)]]

Driven(s, i) ==
  LET val == s.env[i.args[2]]
      cond == IF i.op = "drv" THEN 1 ELSE s.env[i.args[3]]
  IN IF cond = 0 THEN s
     ELSE IF cond = None \/ val = None THEN [s EXCEPT !.at = Nowhere]
     ELSE [s EXCEPT !.out[i.args[1]] = val]

Exec(p, in, s, k) ==
  LET i == p.inst[k] IN
  CASE i.op \in Drives -> Driven(s, i)
    [] i.op = "reg" -> Registered(s, i)
    [] i.op = "st" -> [s EXCEPT !.env[i.args[1]] = s.env[i.args[2]]]
    [] i.op \notin NoResult -> [s EXCEPT !.env[k] = Result(s, i, in)]
    [] OTHER -> s

Target(p, s) ==
  LET t == p.inst[TermOf(p, s.at)] IN
  CASE t.op = "halt" -> s.at
    [] t.op = "br_cond" -> IF s.env[t.args[1]] = None THEN Nowhere ELSE t.to[s.env[t.args[1]] + 1]
    [] OTHER -> t.to[1]

RECURSIVE Run(_, _, _, _)
Run(p, in, s, fuel) ==
  IF fuel = 0 \/ s.at = Nowhere THEN [s EXCEPT !.at = Nowhere]
  ELSE LET e == FoldLeft(LAMBDA r, k : IF r.at = Nowhere THEN r ELSE Exec(p, in, r, k),
                         [s EXCEPT !.was = s.env], p.body[s.at])
           t == TermOf(p, s.at)
       IN IF e.at = Nowhere THEN e
          ELSE LET n == [e EXCEPT !.at = Target(p, e), !.from = e.at, !.by = t]
               IN IF Op(p, t) \in Temporal THEN n ELSE Run(p, in, n, fuel - 1)

\* The signals whose changes wake the program.
Sensed(p, s) ==
  LET t == p.inst[s.by] IN
  IF p.kind = "entity" THEN {p.inst[i].args[1] : i \in {j \in Laid(p) : Op(p, j) = "prb"}}
  ELSE Range(t.args)
Wakes(p, s, changed) ==
  \/ s.by = 0
  \/ p.kind = "process" /\ Op(p, s.by) = "wait_time"
  \/ (p.kind = "entity" \/ Op(p, s.by) = "wait") /\ Sensed(p, s) \cap changed # {}

\* The outputs after each of the inputs, up to where the program is lost.
Outputs(p, inputs) ==
  LET step(acc, n) ==
        LET in == inputs[n]
            changed == IF n = 1 THEN {} ELSE {v \in DOMAIN in : in[v] # inputs[n - 1][v]}
            s == IF acc.s.at # Nowhere /\ Wakes(p, acc.s, changed)
                 THEN Run(p, in, acc.s, Fuel) ELSE acc.s
        IN [s |-> s, seen |-> IF s.at = Nowhere THEN acc.seen ELSE Append(acc.seen, s.out)]
  IN FoldLeft(step, [s |-> Start(p), seen |-> <<>>], [n \in DOMAIN inputs |-> n]).seen
=============================================================================
