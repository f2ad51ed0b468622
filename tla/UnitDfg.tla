------------------------------- MODULE UnitDfg -------------------------------
(***************************************************************************)
(* The data-flow graph of a unit (src/ir/unit.rs, src/ir/dfg.rs) and the   *)
(* operations of UnitBuilder that change it: tables of instructions,       *)
(* values and blocks whose ids are recycled, and for each value and block  *)
(* the set of the instructions that use it, which the passes rely on to    *)
(* rewrite and to delete.                                                  *)
(*                                                                         *)
(* Every operation is one step, as UnitBuilder holds the unit exclusively, *)
(* but for prune_if_unused, whose recursion is a stack of pending calls.   *)
(***************************************************************************)
EXTENDS Integers, Sequences, FiniteSets

CONSTANTS
  MaxInst, MaxValue, MaxBlock,  \* bounds: how large the tables may grow
  MaxNames,                     \* bound: how many values may have names
  NumArgs,                      \* arguments in the signature of the unit
  Shapes                        \* instructions to build: [kind, args, bbs]

Kinds == {"val", "phi", "eff", "term"}

ASSUME BoundsAssumption ==
  /\ MaxInst \in Nat /\ MaxValue \in Nat /\ MaxNames \in Nat /\ MaxBlock \in Nat \ {0}
  /\ NumArgs \in 0..MaxValue
ASSUME ShapesAssumption ==
  /\ Shapes \subseteq [kind : Kinds, args : Nat, bbs : Nat]
  /\ \A s \in Shapes : s.kind = "phi" => s.args = s.bbs

Insts   == 1..MaxInst
Values  == 1..MaxValue
Blocks  == 1..MaxBlock
Invalid == 0     \* Value::invalid() and Block::invalid(); no result

VARIABLES
  insts,       \* DataFlowGraph::insts
  results,     \* DataFlowGraph::results
  values,      \* DataFlowGraph::values
  value_uses,  \* DataFlowGraph::value_uses
  block_uses,  \* DataFlowGraph::block_uses
  names,       \* the values that have an entry in DataFlowGraph::names
  blocks,      \* ControlFlowGraph::blocks
  home,        \* FunctionLayout::inst_map: the block an instruction is in
  pruning      \* the instructions prune_if_unused has still to look at

dfg  == <<insts, results, values, value_uses, block_uses>>
vars == <<dfg, names, blocks, home, pruning>>

-----------------------------------------------------------------------------
(* What a table holds in a free slot: mem::take leaves the default.        *)
NoInst      == [kind |-> "free", args |-> <<>>, bbs |-> <<>>]
NoValueData == [kind |-> "free", inst |-> Invalid]
ArgData     == [kind |-> "arg", inst |-> Invalid]
Placeholder == [kind |-> "placeholder", inst |-> Invalid]
InstValue(i) == [kind |-> "inst", inst |-> i]

Live(i)    == insts[i].kind # "free"
LiveInsts  == {i \in Insts : Live(i)}
LiveValues == {v \in Values : values[v].kind # "free"}

IsAppended(n, Used) ==   \* mutant: the next id is the number of entries
  n = Cardinality(Used) + 1
(* PrimaryTable2::add reuses the lowest free id before it grows the table. *)
IsNext(n, Used) == n \notin Used /\ \A m \in 1..(n - 1) : m \in Used

Operands(d) == {d.args[n] : n \in DOMAIN d.args}
Targets(d)  == {d.bbs[n] : n \in DOMAIN d.bbs}
HasResult(k) == k \in {"val", "phi"}
HasUses(v)   == value_uses[v] # {}

WithFirstUses(U, D, I) ==   \* mutant: registers the first operand only
  [v \in 0..MaxValue |-> U[v] \cup {i \in I : D[i].args # <<>> /\ v = D[i].args[1]}]
(* update_uses, for all the instructions in I at once: each is entered     *)
(* with the operands and the blocks that D gives it.                       *)
WithValueUses(U, D, I) ==
  [v \in 0..MaxValue |-> U[v] \cup {i \in I : v \in Operands(D[i])}]
WithBlockUses(U, D, I) ==
  [b \in 0..MaxBlock |-> U[b] \cup {i \in I : b \in Targets(D[i])}]

(* remove_uses.                                                            *)
WithoutValueUses(U, D, I) ==
  [v \in 0..MaxValue |-> U[v] \ {i \in I : v \in Operands(D[i])}]
WithoutBlockUses(U, D, I) ==
  [b \in 0..MaxBlock |-> U[b] \ {i \in I : b \in Targets(D[i])}]

Cleared(f, S, x) == [e \in DOMAIN f |-> IF e \in S THEN x ELSE f[e]]

-----------------------------------------------------------------------------
Init ==
  /\ insts = [i \in Insts |-> NoInst]
  /\ results = [i \in Insts |-> Invalid]
  /\ values = [v \in Values |-> IF v <= NumArgs THEN ArgData ELSE NoValueData]
  /\ value_uses = [v \in 0..MaxValue |-> {}]
  /\ block_uses = [b \in 0..MaxBlock |-> {}]
  /\ names = {} /\ blocks = {} /\ home = [i \in Insts |-> Invalid]
  /\ pruning = <<>>

(* UnitBuilder::block.                                                     *)
AddBlock ==
  /\ pruning = <<>>
  /\ \E b \in Blocks : IsNext(b, blocks) /\ blocks' = blocks \cup {b}
  /\ UNCHANGED <<dfg, names, home, pruning>>

(* build_inst of data d at an insertion point in block b, with result v if *)
(* the instruction has one.                                                *)
Build(d, i, v, b) ==
  /\ pruning = <<>>
  /\ IsNext(i, LiveInsts)
  /\ insts' = [insts EXCEPT ![i] = d]
  /\ IF HasResult(d.kind)
     THEN /\ v \in Values /\ IsNext(v, LiveValues)
          /\ values' = [values EXCEPT ![v] = InstValue(i)]
          /\ results' = [results EXCEPT ![i] = v]
          /\ value_uses' = WithValueUses([value_uses EXCEPT ![v] = {}], insts', {i})
     ELSE /\ v = Invalid
          /\ value_uses' = WithValueUses(value_uses, insts', {i})
          /\ UNCHANGED <<values, results>>
  /\ block_uses' = WithBlockUses(block_uses, insts', {i})
  /\ home' = [home EXCEPT ![i] = b]
  /\ UNCHANGED <<names, blocks, pruning>>

BuildInst ==
  \E s \in Shapes : \E a \in [1..s.args -> LiveValues], t \in [1..s.bbs -> blocks] :
    \E i \in Insts, v \in 0..MaxValue, b \in blocks :
      Build([kind |-> s.kind, args |-> a, bbs |-> t], i, v, b)

AddPlaceholder ==
  /\ pruning = <<>>
  /\ \E v \in Values :
       /\ IsNext(v, LiveValues)
       /\ values' = [values EXCEPT ![v] = Placeholder]
       /\ value_uses' = [value_uses EXCEPT ![v] = {}]
  /\ UNCHANGED <<insts, results, block_uses, names, blocks, home, pruning>>

RemovePlaceholder(v) ==
  /\ pruning = <<>>
  /\ values[v] = Placeholder /\ ~HasUses(v)
  /\ values' = [values EXCEPT ![v] = NoValueData]
  /\ value_uses' = [value_uses EXCEPT ![v] = {}]
  /\ UNCHANGED <<insts, results, block_uses, names, blocks, home, pruning>>

SetName(v) ==
  /\ pruning = <<>> /\ values[v].kind # "free"
  /\ names' = names \cup {v} /\ Cardinality(names') <= MaxNames
  /\ UNCHANGED <<dfg, blocks, home, pruning>>

-----------------------------------------------------------------------------
RemoveUnchecked(i) ==   \* mutant: without the assertion
  /\ insts' = [insts EXCEPT ![i] = NoInst]
  /\ results' = [results EXCEPT ![i] = Invalid]
  /\ values' = Cleared(values, {results[i]}, NoValueData)
  /\ value_uses' = WithoutValueUses(Cleared(value_uses, {results[i]} \ {Invalid}, {}), insts, {i})
  /\ block_uses' = WithoutBlockUses(block_uses, insts, {i})
(* remove_inst_dfg of an instruction, whose result must not be in use.     *)
RemoveInstDfg(i) ==
  /\ results[i] # Invalid => ~HasUses(results[i])
  /\ insts' = [insts EXCEPT ![i] = NoInst]
  /\ results' = [results EXCEPT ![i] = Invalid]
  /\ values' = Cleared(values, {results[i]}, NoValueData)
  /\ value_uses' = WithoutValueUses(Cleared(value_uses, {results[i]} \ {Invalid}, {}), insts, {i})
  /\ block_uses' = WithoutBlockUses(block_uses, insts, {i})

DeleteInst(i) ==
  /\ pruning = <<>>
  /\ Live(i)
  /\ RemoveInstDfg(i)
  /\ home' = [home EXCEPT ![i] = Invalid]
  /\ UNCHANGED <<names, blocks, pruning>>

(* A pass calls prune_if_unused.                                           *)
StartPruning(i) ==
  /\ pruning = <<>>
  /\ Live(i)
  /\ pruning' = <<i>>
  /\ UNCHANGED <<dfg, names, blocks, home>>

(* The producers of the operands, in operand order; no instruction         *)
(* produces an argument or a placeholder.                                  *)
Producers(i) == [n \in DOMAIN insts[i].args |-> values[insts[i].args[n]].inst]

(* One call of prune_if_unused: the instruction goes if it has a result    *)
(* nobody uses, and the producers of its operands, gathered before it is   *)
(* deleted, are looked at next. An operand invalidated by delete_block is  *)
(* out of the table's range, and the program panics instead.               *)
Prune ==
  /\ pruning # <<>>
  /\ LET i == Head(pruning)
     IN IF i # Invalid /\ HasResult(insts[i].kind) /\ ~HasUses(results[i])
        THEN /\ Invalid \notin Operands(insts[i])
             /\ RemoveInstDfg(i)
             /\ home' = [home EXCEPT ![i] = Invalid]
             /\ pruning' = Producers(i) \o Tail(pruning)
        ELSE /\ pruning' = Tail(pruning)
             /\ UNCHANGED <<dfg, home>>
  /\ UNCHANGED <<names, blocks>>

-----------------------------------------------------------------------------
(* replace_value and replace_block of InstData, in each of I.              *)
Subst(s, from, to) == [n \in DOMAIN s |-> IF s[n] = from THEN to ELSE s[n]]
BothReplaced(I, from, to) ==   \* mutant: a block of that number is replaced too
  [i \in Insts |-> IF i \in I
     THEN [insts[i] EXCEPT !.args = Subst(@, from, to), !.bbs = Subst(@, from, to)]
     ELSE insts[i]]
ArgsReplaced(I, from, to) ==
  [i \in Insts |-> IF i \in I THEN [insts[i] EXCEPT !.args = Subst(@, from, to)]
                              ELSE insts[i]]
BlocksReplaced(I, from, to) ==
  [i \in Insts |-> IF i \in I THEN [insts[i] EXCEPT !.bbs = Subst(@, from, to)]
                              ELSE insts[i]]

(* replace_value_within_inst: the use of `from` is removed and the uses    *)
(* are taken anew from the new operands.                                   *)
ReplaceWithoutUpdate(from, to, I) ==   \* mutant: without update_uses
  /\ insts' = ArgsReplaced(I, from, to)
  /\ value_uses' = [value_uses EXCEPT ![from] = @ \ I]
  /\ UNCHANGED <<block_uses, results, values, names, blocks, home, pruning>>
ReplaceValue(from, to, I) ==
  /\ insts' = ArgsReplaced(I, from, to)
  /\ value_uses' = WithValueUses([value_uses EXCEPT ![from] = @ \ I], insts', I)
  /\ block_uses' = WithBlockUses(block_uses, insts', I)
  /\ UNCHANGED <<results, values, names, blocks, home, pruning>>

ReplaceUse(from, to) ==
  /\ pruning = <<>>
  /\ {from, to} \subseteq LiveValues
  /\ ReplaceValue(from, to, value_uses[from])

ReplaceValueWithinInst(from, to, i) ==
  /\ pruning = <<>>
  /\ {from, to} \subseteq LiveValues /\ Live(i)
  /\ ReplaceValue(from, to, {i})

ReplaceBlock(from, to, I) ==
  /\ insts' = BlocksReplaced(I, from, to)
  /\ block_uses' = WithBlockUses([block_uses EXCEPT ![from] = @ \ I], insts', I)
  /\ value_uses' = WithValueUses(value_uses, insts', I)
  /\ UNCHANGED <<results, values, names, blocks, home, pruning>>

ReplaceBlockUse(from, to) ==
  /\ pruning = <<>>
  /\ {from, to} \subseteq blocks
  /\ ReplaceBlock(from, to, block_uses[from])

ReplaceBlockWithinInst(from, to, i) ==
  /\ pruning = <<>>
  /\ {from, to} \subseteq blocks /\ Live(i)
  /\ ReplaceBlock(from, to, {i})

-----------------------------------------------------------------------------
(* The loop of InstData::remove_block over the ways of a phi: a hit at p   *)
(* is replaced by the last way (swap_remove) and p is not looked at again. *)
(* The k-th hit so takes the k-th way from the end, and the loop ends when *)
(* it meets the ways that have been moved: it takes the hits for which     *)
(* there is still a way at their place.                                    *)
Hits(s, b, p) == Cardinality({q \in 1..p : s[q] = b})
Taken(s, b)   == {q \in DOMAIN s : s[q] = b /\ q + Hits(s, b, q) <= Len(s) + 1}
Kept(s, b)    == Len(s) - Cardinality(Taken(s, b))
Source(s, b, p) == IF s[p] = b THEN Len(s) + 1 - Hits(s, b, p) ELSE p

DropBlocks(d, b) ==     \* mutant: keeps all the values
  [d EXCEPT !.bbs = [p \in 1..Kept(d.bbs, b) |-> d.bbs[Source(d.bbs, b, p)]]]
UnpairedDrop(d, b) ==   \* mutant: moves the last block but not its value
  [kind |-> d.kind,
   args |-> [p \in 1..Kept(d.bbs, b) |-> d.args[p]],
   bbs  |-> [p \in 1..Kept(d.bbs, b) |-> d.bbs[Source(d.bbs, b, p)]]]
DropWays(d, b) ==
  [kind |-> d.kind,
   args |-> [p \in 1..Kept(d.bbs, b) |-> d.args[Source(d.bbs, b, p)]],
   bbs  |-> [p \in 1..Kept(d.bbs, b) |-> d.bbs[Source(d.bbs, b, p)]]]

RemovedFromPhis(b, I) ==   \* mutant: leaves the terminators alone
  [i \in Insts |-> IF i \in I /\ insts[i].kind = "phi" THEN DropWays(insts[i], b)
                   ELSE insts[i]]
BlockRemoved(b, I) ==
  [i \in Insts |->
     IF i \notin I THEN insts[i]
     ELSE IF insts[i].kind = "phi" THEN DropWays(insts[i], b)
     ELSE [insts[i] EXCEPT !.bbs = Subst(@, b, Invalid)]]

(* remove_block_use: remove_block_from_inst for every user of the block.   *)
RemoveBlockUse(b) ==
  /\ pruning = <<>> /\ b \in blocks
  /\ LET I == block_uses[b]
     IN /\ insts' = BlockRemoved(b, I)
        /\ value_uses' = WithValueUses(value_uses, insts', I)
        /\ block_uses' = WithBlockUses([block_uses EXCEPT ![b] = @ \ I], insts', I)
  /\ UNCHANGED <<results, values, names, blocks, home, pruning>>

(* delete_block: the uses of the block are removed, and then, one after    *)
(* the other, its instructions, whose results become Value::invalid()      *)
(* wherever they are used.                                                 *)
UsersOfNone(U, V) == {}   \* mutant: the results are not replaced
UsersOf(U, V) == UNION {U[v] : v \in V}
Invalidated(D, I, V) ==
  [i \in Insts |->
     IF i \in I THEN [D[i] EXCEPT !.args =
       [n \in DOMAIN @ |-> IF @[n] \in V THEN Invalid ELSE @[n]]]
     ELSE D[i]]

DeleteBlock(b) ==
  /\ pruning = <<>> /\ b \in blocks
  /\ LET I  == block_uses[b]
         D1 == BlockRemoved(b, I)
         V1 == WithValueUses(value_uses, D1, I)
         B1 == WithBlockUses([block_uses EXCEPT ![b] = @ \ I], D1, I)
         G  == {i \in Insts : home[i] = b}
         R  == {results[i] : i \in G} \ {Invalid}
         J  == UsersOf(V1, R)
         D2 == Invalidated(D1, J, R)
     IN /\ insts' = Cleared(D2, G, NoInst)
        /\ results' = Cleared(results, G, Invalid)
        /\ values' = Cleared(values, R, NoValueData)
        /\ value_uses' = WithoutValueUses(WithValueUses(Cleared(V1, R, {}), D2, J), D2, G)
        /\ block_uses' = WithoutBlockUses(WithBlockUses(B1, D2, J), D2, G)
        /\ home' = Cleared(home, G, Invalid)
  /\ blocks' = blocks \ {b}
  /\ UNCHANGED <<names, pruning>>

-----------------------------------------------------------------------------
Next ==
  \/ AddBlock \/ BuildInst \/ AddPlaceholder \/ Prune
  \/ \E i \in Insts : DeleteInst(i) \/ StartPruning(i)
  \/ \E v \in Values : RemovePlaceholder(v) \/ SetName(v)
  \/ \E v, w \in Values : \/ ReplaceUse(v, w)
                          \/ \E i \in Insts : ReplaceValueWithinInst(v, w, i)
  \/ \E b, c \in Blocks : \/ ReplaceBlockUse(b, c)
                          \/ \E i \in Insts : ReplaceBlockWithinInst(b, c, i)
  \/ \E b \in Blocks : RemoveBlockUse(b) \/ DeleteBlock(b)

Spec == Init /\ [][Next]_vars

-----------------------------------------------------------------------------
(* Types of the tables of DataFlowGraph and ControlFlowGraph.              *)
TypeOK ==
  /\ insts \in [Insts -> [kind : Kinds \cup {"free"},
                          args : Seq(0..MaxValue), bbs : Seq(0..MaxBlock)]]
  /\ results \in [Insts -> 0..MaxValue]
  /\ values \in [Values -> [kind : {"free", "arg", "placeholder", "inst"},
                            inst : 0..MaxInst]]
  /\ value_uses \in [0..MaxValue -> SUBSET Insts]
  /\ block_uses \in [0..MaxBlock -> SUBSET Insts]
  /\ names \subseteq Values /\ blocks \subseteq Blocks
  /\ home \in [Insts -> 0..MaxBlock]
  /\ pruning \in Seq(0..MaxInst)

(* An instruction that reads a value or names a block is among its uses,   *)
(* or replace_use and the deletions would miss it.                         *)
UsesComplete ==
  \A i \in Insts : /\ \A v \in Operands(insts[i]) : i \in value_uses[v]
                   /\ \A b \in Targets(insts[i]) : i \in block_uses[b]

(* No instruction reads a value that has been removed, whose id may denote *)
(* another value by now.                                                   *)
NoDanglingOperand ==
  \A i \in Insts : Operands(insts[i]) \subseteq LiveValues \cup {Invalid}

(* results and values are inverse to each other: the result of a live      *)
(* instruction is a value produced by that very instruction.               *)
ResultsMatch ==
  /\ \A i \in Insts : (results[i] # Invalid) <=> HasResult(insts[i].kind)
  /\ \A i \in Insts : results[i] # Invalid => values[results[i]] = InstValue(i)
  /\ \A v \in Values : values[v].kind = "inst" =>
       \E i \in Insts : values[v] = InstValue(i) /\ results[i] = v

(* A jump or branch never aims at a block that has been deleted.           *)
JumpsLive ==
  \A i \in Insts : insts[i].kind = "term" =>
    Targets(insts[i]) \subseteq blocks \cup {Invalid}

(* The values and the blocks of a phi come in pairs.                       *)
PhisPaired ==
  \A i \in Insts : insts[i].kind = "phi" =>
    Len(insts[i].args) = Len(insts[i].bbs)

(* "Replace all uses of a value with another": after replace_use nobody    *)
(* reads the replaced value, and it has no uses left that would keep its   *)
(* instruction from being pruned.                                          *)
ReplaceUseIsTotal ==
  [][\A v, w \in Values : ReplaceUse(v, w) /\ v # w =>
       /\ value_uses'[v] = {}
       /\ \A i \in Insts : v \notin Operands(insts'[i])]_vars

(* Removing a block from a phi keeps the remaining values with their       *)
(* blocks, whatever order swap_remove leaves them in.                      *)
Ways(d) == {<<d.args[n], d.bbs[n]>> : n \in DOMAIN d.args}
WaysSurvive ==
  [][\A b \in Blocks : RemoveBlockUse(b) =>
       \A i \in Insts : insts[i].kind = "phi" =>
         {w \in Ways(insts[i]) : w[2] # b} = {w \in Ways(insts'[i]) : w[2] # b}]_vars

(* Pruning leaves no dead code behind: an instruction whose last use a     *)
(* prune removes is pruned next or waits on the stack.                     *)
PruneFollows ==
  [][Prune => \A i \in Insts :
       Live(i)' /\ results[i] # Invalid /\ HasUses(results[i]) /\ ~HasUses(results[i])'
         => \E n \in DOMAIN pruning' : pruning'[n] = i]_vars
=============================================================================
