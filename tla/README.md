# LLHD: a formal model

LLHD is an intermediate representation for digital circuits: a library that
holds modules of functions, processes and entities (`src/src/ir`), analyses and
passes over them, readers and writers, and tools, among them the optimizer
`llhd-opt` and the event-driven simulator `llhd-sim`. This directory holds TLA+
models of its parts, TLC configurations that check them on small instances, and
TLAPS proofs of the properties that matter most, for every instance.

Paths below are relative to `src/src` unless they begin with `doc/`. Source
line numbers belong to the commit in `src/`; `PROJECT.json` maps every definition
that models code to its lines.

## 1. Inventory

| Component | State | Operations | What is hard | What makes it correct | Modules |
|---|---|---|---|---|---|
| Execution engine (`bin/llhd-sim/engine.rs`, `state.rs`) | clock, signal values, event queue, wake queue, per-instance wait state and values | `step`, `step_process`, `step_entity`, `exec`, `schedule_*`, `take_next_*`, `next_time` | instances run on rayon threads; hash maps drained in arbitrary order; a wake queue beside a wait state; zero, delta and epsilon delays | the outcome of a step depends on no order; no timer, drive or change is lost; the clock is monotone | `SimEngine`, `DiscreteEvent`, `SimEngineRefinement`, `SimEngineProofs`, `SimEngineRefinementProofs` |
| Simulated time (`value/time.rs`, `time_after_delay`) | none | order, delay arithmetic | three components, of which a delay resets some | nothing is scheduled in the past | `SimTime` |
| Elaboration (`bin/llhd-sim/builder.rs`) | signals, instances, values | `instantiate`, `build`, `finish` | several values of one signal | every reader of a signal hears of its changes | initial states in `SimEngine` |
| Value pointers (`engine.rs`, `state.rs`, `value.rs`) | none | `read_pointer`, `write_pointer`, `exec_shift`, `exec_insext` | several slices of one target, clamping at both ends | what is written is read back, other bits stay | `SimPointer`, in `Datapath` |
| Trace writers (`tracer/`) | pending changes, last values | `step`, `flush` | buffering over the deltas of an instant; a flush at the next change of physical time, and at the end | a viewer sees what each instant ended with | `VcdTracer`, `VcdTracerProofs` |
| Data-flow graph of a unit (`ir/unit.rs`, `ir/dfg.rs`, `ir/inst.rs`, `table.rs`) | instructions, values, blocks, results, use lists, names | build, delete, prune, replace value or block, remove or delete a block | ids are recycled; use lists are redundant; phis keep two lists in step; recursive pruning | use lists are complete; nobody refers to what is gone | `UnitDfg`, `UnitDfgProofs`, `NatFacts` |
| Layout of a unit (`ir/layout.rs`, `ir/unit.rs`) | linked lists of blocks and instructions, `inst_map`, insertion point | append, prepend, insert, remove, swap, delete; the builder's positions | in-place relinking of neighbours and ends; a cursor into a changing list; a map beside the lists | the lists stay lists; the map agrees; the cursor stays in its place | `LinkedList`, `UnitLayout`, `UnitText`, `UnitLayoutRefinement`, `UnitLayoutProofs` |
| Types and the instruction builder (`ty.rs`, `ir/inst.rs`) | none | one constructor per instruction | where it panics, what type a result has | what the verifier accepts | `Types`, `InstTypes` |
| Constants (`value/int.rs`, the simulator's copy in `bin/llhd-sim/value.rs`) | none | fixed-width arithmetic, slicing | signs, zero divisors, two implementations | both are the arithmetic of `doc/LANGUAGE.md` | `IntValue` |
| Predecessors, dominators, temporal regions (`analysis/`) | tables per block | one fixed-point computation each | unreachable blocks, order of hash sets | the path definition of dominance; an end of the sweeps; one region per block | `ControlFlow`, `DomTree`, `TemporalRegions`, `UnitAnalyses`, `UnitAnalysesProofs` |
| Constant folding (`pass/cf.rs`) | the unit | one fold per instruction | one constant operand, wrap-around, inserted instructions | values and types stay | `ConstFold`, `UnitMeaning`, `Datapath`, `DatapathProofs` |
| The other passes (`pass/`, `opt/`) | the unit they rewrite, work lists | dce, vtpp, ecm, gcse, cfs, insim, tcm, proclower, deseq | lists made stale by their own rewriting, hash-map order, loops, joins, waits | the unit is still verified and shows the same outputs | `Program`, `Activation`, one or two passes a module, `Optimizer` |
| Verifier (`verifier.rs`) | errors | one check per instruction, terminators, definitions before uses | what it lets through | what it accepts, the other tools can process | `InstTypes`, `Datapath`, `Program` |
| Module and linking (`ir/module.rs`) | units, declarations, link table | add, remove, declare, link, look up | a cache that some operations leave in place | a lookup finds the unit of that name | not modelled |
| Assembly, MLIR, converters, `llhd-check`, command lines | none that lasts | parsing, printing, text matching | | | not modelled: text in and out; `assembly/grammar.rs` is generated |

How they interact. The readers fill a `Module` through `UnitBuilder`; passes ask
the analyses and rewrite units through `UnitBuilder`, units in parallel but each
one exclusively; `llhd-sim` links the module, elaborates it into a `State` of
signals and instances, and runs `Engine::step` until nothing is left, reporting
each step to a tracer. Only the simulator has concurrency inside an operation.
Nothing is persisted and there are no messages, so crashes, recovery and lost
deliveries are not subjects here.

The modules form four layers that meet at named ideas: the engine takes processes
as they are and asks when they run; `Datapath` takes one stretch of a process and
asks what it computes; the data-flow graph and the layout are the representation;
and `Optimizer` composes the analyses and passes over programs in that
representation, with its id recycling left out.

## 2. The simulator

**`SimTime`** is `TimeValue` with its lexicographic order and the arithmetic of
`time_after_delay`: physical time passing resets deltas and epsilons, a delta
resets epsilons. Physical time is a rational in the code and a count of a
common unit here.

**`SimDesign`** says what is simulated: `kind`, `code`, `flows` and `ports` of
every instance. A value is the set of its high lanes, a pointer selects lanes of
one signal, so partial reads and writes are there and arithmetic is not (it is in
`Datapath`): every instruction that only computes is `val`, which copies or
complements. An entity
is a list of flows, each a probe, perhaps a complement, and a drive.

**`SimEngine`** is `Engine::run` and `Engine::step`. A step is cut where another
order of the same work is possible:

| Action | Code | |
|---|---|---|
| `BeginStep`, `LimitReached` | `engine.rs:45-84` | takes the events due |
| `ApplyEvent` | `84-107` | one iteration over a `HashMap`: any event of those left |
| `WakeTimed`, `WakeSensed` | `109-140` | by deadline, then by changed signals; collects `ready_insts` |
| `Prb` `Val` `Drv` `Br` `BrCond` `WaitSigs` `WaitTime` `Halt` `Starve` `Entity` | `217-377`, `408-668` | one instruction of one instance, interleaved with the others if `Parallelize`; an entity is one action, its drives in any order after the first step |
| `EndStep` | `163-195` | last drive of a slot stays; timers of those that ran; `next_time` |

`Starve` is the panic at `engine.rs:283`.

**`DiscreteEvent`** is what a simulation means: atomic steps with no wake queue
and no order. Where two drives of one instant touch the same lane, it lets the lane be
as either wants it, and a signal that is changed and changed back be noticed or not: the
code drains a `HashMap` there (`engine.rs:84-107`). The choice is made lane by lane, which
allows more than the orders of whole drives do. **`SimEngineRefinement`** adds a history
variable that holds the state between two steps and shows that the interleaved engine
implements it.

**`VcdTracer`** is the value change dump beside it: every step hands its changes over,
they are gathered in `pending` as long as the physical time stands still, and
written under the old time stamp when it has moved on. The file is represented by
what a viewer knows after reading it: the last stamp and the value of each signal.

### Checks

| Run | Instance | Shows |
|---|---|---|
| `engine` | 3 instances from a menu of 8 processes and entities, or from one of 5 with waits for a time *and* signals, 5 steps, parallel | types, the queues, timers, wake-ups, clock and end of simulation, also where stale timers fire |
| `engine_meaning` | driver, reader, driver, or two that come to rest about one that drives a lane twice, 12 steps, parallel | the engine implements `DiscreteEvent`; wake-ups are justified, halts final; where the design comes to rest, every timed wait ends, every drive is applied and every step is finished; the dump shows what each physical time ended with |
| `engine_starve` | 2 instances, waits for a time and signals, 7 steps | finding 1 |

Bounds. The steps suffice for a clock edge, the reaction of a second process, the
reaction to that, and a timer set early to expire late; three instances suffice for two
drivers and a reader. The menus hold drives with every kind of delay, of overlapping
lanes, and several of one slot. `engine_meaning` leaves out processes that wait for a
time and for signals at once, because `WakeJustified` and `HaltIsFinal` are false with
them (finding 1). Its second and third
menu hold designs that come to rest before the twelfth step (pulses and what reacts to
them), which the liveness properties are about, the third with a process or an entity
that drives a lane twice in one instant; those of the first run into the limit, which
may cut a wait off and is no answer to one.

Fairness is weak fairness of the next-state relation: the engine is a loop without
blocking calls, on its own thread, and rayon's workers go on as long as an
instance is left to run. It is fairness of the whole engine, not of one instance;
that is enough because a step ends only when every ready instance has suspended.
`StepsEnd` needs that no process of the design loops without waiting, which holds
for the designs there.

### Proofs

`SimEngineProofs`, for every design, number of instances, step limit and mode:
`TypeCorrect`, and by the inductive invariant `EngineInv`, `NoTimerLost`,
`NothingLate`, `OnlyCollectedRun`, `StopsWhenDone`, `LastDriveWins`,
`ClockMonotone`. `EngineInv` is the conjunction of the safety invariants of
`engine`; no part is inductive alone. That
nothing is queued for the past needs that running instances hand over nothing of
the past (`ScheduleAsserts`), which needs them to be the ones collected
(`ReadyCollected`); that no timer is lost needs the same, because only the
instances that ran are entered into the wake queue; and `QuiescentAtEnd` needs
`TimersQueued`. What an instruction can do is stated once (`Executed`,
`ExecEffect`), so the queue invariants are proved for one action in place of ten.

Three more theorems are false of some designs and state which ones they are true of.
`TimersAlone` says that no process waits for a time and for signals at once; finding 1
is what happens otherwise. Under it, for every design, `WakesJustified` (nothing is
woken but by its own timer or a change of a signal it waits for) and `HaltsFinal` (what
has halted never runs again). Their invariant `TimersFit` says that a timer in the wake
queue is always one its instance still waits for, and that who waits for a time waits for
no signal and for one time only, so that nothing else can end the wait before the timer. If in
addition every block ends in a terminator whose targets exist (`Verified`, the
verifier's check), `ProcessesFed` proves that the panic of `Starve` is never reached; its
invariant `Fed` says that a process that has not halted has an instruction to go on
with, which a halted one that is woken again has not. The run `engine_starve` refutes
`NeverStarved` without the first hypothesis; `engine_meaning` checks the hypotheses of
its designs (`QuietAssumption`).

`SimEngineRefinementProofs` proves the refinement, `EngineImplementsMeaning`:
`HistorySpec => ImplementsMeaning` for every number of instances, step limit and mode,
and every design that is `TimersAlone` and `Wired`. The first hypothesis is needed: a
stale timer wakes a process at an instant that is nobody's deadline, where the meaning
has no step (finding 1). `Wired` says of an entity that the signals it probes are among
those it is sensitive to and that a value is the result of one probe, which is what the
builder constructs: inputs, outputs and the entity's own `sig`s all go on the list
(`builder.rs:98-192`). `Starve` needs no hypothesis, since it ends a process as the
meaning does.

The argument is an invariant, `StepInv`, between the engine in the middle of a step and
`past`, the state before it:

- *Between steps* (`Rested`): `past` is the current state, nobody is ready after the
  first step, the engine has something left to do unless it has stopped, and an entity
  that has run holds the values of what it probes (`EntityFresh`). Without the last part
  an entity could fail to drive what the meaning has it drive: the code compares with
  stored values only the probes of changed signals.
- *While drives are applied* (`Driven`): every lane is as one of the drives applied so
  far wants it, or untouched, and `changed` holds the signals that differ from before,
  and others only where two drives meet. So no order of
  the hash map leads out of what the meaning allows.
- *While instances run* (`Underway`): a process in the middle of its code ends, run on
  alone, where it would end from the start (`Final(i, Now(i)) = Final(i, Start(i))`), so
  what the others do in between does not matter; an entity has run or not; who is not
  ready is as before.

`DiscreteEvent`'s processes run by a recursive function over machine states, with no
bound on the number of instructions. That such a function exists (`RunDefined`) and has
the same value before and after an instruction (`RunStep`) is proved from the least number
of instructions that end the run; a process that loops without a wait has no end and keeps
the engine in its step. At the end of the step, what
`schedule_events` leaves of the drives is `Posted` (`ScheduledPosted`), the instants with
queues are those of the meaning, because the wake queue holds the deadlines of those who
wait and no others (`AgendaInstants`, from `TimersQueued` and `TimersFit`), and the step
is the atomic one (`EndIsStep`).

`VcdTracerProofs` proves `TraceFaithful`, that `ShowsEndOfTime` holds for every design
and step limit. Its inductive invariant `TraceInv` has two parts of which neither is
inductive alone. `Known`: the file together with what is pending is what the signals
are, except, while the events of a step are applied, those in `changed`; it holds
because `set_value` reports every change of a signal. `Recorded`: the file is as of the
physical time that ended last, or will be after a flush, which then is due in the step
that runs. It rests on the types in `EngineInv`, which is cited.

## 3. The data-flow graph

**`UnitDfg`** has the tables of `DataFlowGraph` as functions over ids, a free slot
holding what `mem::take` leaves. `PrimaryTable2` hands out the lowest free id,
so a reference to something removed denotes its successor; this is where most of
the hazards are. One action per operation of `UnitBuilder`: `AddBlock`,
`BuildInst`, `DeleteInst`, `AddPlaceholder`, `RemovePlaceholder`, `SetName`,
`ReplaceUse`, `ReplaceValueWithinInst`, `ReplaceBlockUse`,
`ReplaceBlockWithinInst`, `RemoveBlockUse`, `DeleteBlock`, and `StartPruning` with
`Prune`, the recursion of `prune_if_unused` as a stack of pending calls. Opcodes are
reduced to what the operations tell apart: has a result (`val`), is a phi, is a
terminator, has neither result nor blocks (`eff`). Where the program would panic
the action is disabled. Operations of one unit never overlap, because
`UnitBuilder` holds the unit by a mutable reference.

| Run | Instance | Shows |
|---|---|---|
| `dfg` | 2 instructions, 3 values, 2 blocks, 2 arguments; constants, an instruction that reads without a result, phis of two ways, jumps | use lists complete, nothing dangling, replacing is total, jumps stay live, phis stay paired, remaining ways survive |

The bounds allow an id to be freed and taken again while another instruction
refers to it, an instruction to use a value twice, and a phi to name a block
twice. Chains of instructions that one prune removes are longer than that; they are
proved (`PruningFollows`) and not run. `CHECK_DEADLOCK` is off: with all slots taken and
nothing to replace there may be no operation left.

Proofs (`UnitDfgProofs`), for every size of the tables, every number of names and
every menu of instructions in which a phi has as many values as blocks. The inductive
invariant `DfgInv` is `TypeOK`, `UsesComplete`, `NoDanglingOperand`, `ResultsMatch` and
`PhisPaired`; it gives `TypeCorrect`, `UsesAlwaysComplete`, `NeverDangling`,
`ResultsAlwaysMatch`, `PhisAlwaysPaired` and `ReplaceUseTotal`.
`NoDanglingOperand` is not inductive alone: `remove_inst_dfg` refuses to remove a
value whose use list is not empty, which protects its readers only if the list is
complete; and `delete_block` invalidates by the use list. Use lists are only
*complete*, not exact: see section 8.

- `JumpsAlwaysLive`: a jump never aims at a deleted block. It rests on the completeness
  of the uses of blocks: all jumps to the block are among the instructions that
  `delete_block` rewrites.
- `WaysAlwaysSurvive`: removing a block from a phi of any length, named in it any number
  of times, keeps each remaining value with its block. The loop of `swap_remove` is in
  the model a rearrangement in closed form (`Hits`, `Taken`, `Source`); the proof
  shows that no way is lost and none is doubled, by counting hits.
- `PruningFollows`: an instruction whose last use a prune takes away is pruned next or
  waits on the stack. An instruction that is not an operand's producer loses no use.

## 4. The layout

**`LinkedList`** has the algorithms that the list of blocks (`ir/unit.rs:1133-1283`)
and the lists of instructions (`ir/layout.rs:72-158`) share, assignment by
assignment. `IsList(l)` says that `l` represents some
sequence without repetition, in both directions. **`UnitLayout`** has the operations of
`UnitBuilder` on blocks and instructions, `inst_map`, and the insertion point
`pos` with `build_inst` and the repair in `delete_inst`. Here, too, a panic is a
disabled action, and each operation is one step.

**`UnitText`** is what the layout promises: a text of blocks and instructions with
a gap in it. **`UnitLayoutRefinement`** maps the lists to the sequences the iterators
walk over, and the position to a gap. An insertion point that names a block or an
instruction that is not in the layout stands for no gap; `build_inst` then panics.
When an instruction is taken out with `remove_inst` and put back, the gap next
to it may go with it: `UnitText` allows that and nothing more.

| Run | Instance | Shows |
|---|---|---|
| `layout` | 4 instructions, 3 blocks, symmetric | the lists are lists, the map agrees with them, and `ImplementsText` |

Three blocks allow swapped neighbours with and without another neighbour and at
either end; four instructions allow a deletion on both sides of the gap.
Instructions and blocks are only compared, and ids are chosen arbitrarily among
the free ones, so symmetry is sound; no property here is temporal beyond steps.
`TakeOutFilled` says whether `remove_block` is called for blocks with
instructions; the repository's own callers do so only within `delete_block`.

Proofs (`UnitLayoutProofs`), for any set of blocks and of instructions, under
`LayoutAssumption` (`None` is not one of them): each of the six list operations
makes a list of a list, with the nodes it should have (`PushBackIsList` to
`SwapNodesIsList`), by exhibiting the sequence. The four insertions share one lemma,
`Spliced`; the exchange rests on `LinksInverse`: the two kinds of links are
inverse to each other and no two nodes follow each other mutually, so the links
of the exchanged nodes are the exchanged links. The inductive invariant
`LayoutInv` is `TypeOK`, `ListsLinked` and `HeldIsMapped` (what a block holds is
mapped to it), without which an insertion might put in an instruction that is in
the list already: `map_inst` refuses what is mapped, not what is held. It gives
`LayoutTypeCorrect` and `ListsStayLinked`; with `MappedIsHeld`, its converse,
which `remove_block` of a block with code breaks, it gives
`InstBlockStaysRight` under `~TakeOutFilled`.

`UnitLayoutProofs` also proves the refinement, `LayoutIsText`: `Spec => ImplementsText`, for
any number of blocks and instructions, under `LayoutAssumption` and `GapAssumption` (the
mark for "no gap" is not a gap). What the iterators walk over is a recursion over the
length of the list; `WalkOf` shows that for a list it is the one sequence the links
describe, and one fact for each list operation says what that
sequence becomes. On the side of the text there are facts about gaps alone: which gap a
position stands for after a line was put in, taken out or exchanged (`GapPutIn`,
`GapTakenOut`, `GapDeleted`, `GapWritten`). Each action then has a lemma of its own that
joins the two, and the mapping needs, beside `LayoutInv`, only that the position is
well formed (`PosFormed`). The step that is hard is `delete_inst` of the instruction the
builder stands at or after: the repair of `pos` has to name the same gap by another
neighbour, or by the end of the block.

## 5. The analyses

**`ControlFlow`** has blocks with terminators and both predecessor tables, with and
without the edges of waits. **`DomTree`** is `DominatorTree::new`: the depth-first
search with its explicit stack, one action per block popped, and the sweeps over the
reverse post-order, one action per block; the sets of predecessors and successors are
iterated in any order, the same one each time. A visit panics where a predecessor has
no place in the order, or where none has a dominator yet (the `unwrap` at
`analysis/domtree.rs:79`). The two fingers that intersect predecessors climb at most
twice as many steps as there are places, which is proved to be enough where a single
head leads to the block; elsewhere an immediate dominator may lie below its block, and
were the climb to go in circles (on no instance of the runs does it) the code would not
return, where the model answers something. **`TemporalRegions`** is
`TemporalRegionGraph::new`: roots, a work list and the heads, tails and entries of the
regions. **`UnitAnalyses`** runs one after the other, as temporal code motion does.

| Run | Instance | Shows |
|---|---|---|
| `analyses` | every unit of 3 blocks and a dead one, and every unit of 4 blocks whose entry is not entered again; both tables; every hash order | `DominatorsRight` (against paths), `PanicsOnOrphans` (it fails only where a cycle is reachable from no head), `RegionsRooted`, `SingleHeadDominates`, and `SingleHeadEnds`: the sweeps reach their fixed point where a single head leads to each block |
| `analyses_end` | one process of eight blocks | finding 5 |

Four blocks hold diamonds, irreducible loops, loops through waits, several heads and
dead predecessors; a fifth adds longer versions of these. One thing they do not hold:
with six blocks and two dead heads, or eight and two waits, the sweeps may not end
(finding 5). That is why the passing run claims an end only for control flows in which
no two heads lead to one block, the case for which the algorithm was made, and why
`DominatorsRight` is about the blocks that a single head leads to. Both liveness
properties assume `WF_vars(Next)`: the analysis is a loop on one thread.
`CHECK_DEADLOCK` is off because it ends.

Proofs (`UnitAnalysesProofs`), for every number of blocks and every set of units
(`UnitsAssumption`: a unit gives each block a terminator with blocks of the unit).

- `TreesPanicOnOrphans`: the construction panics exactly if there is a cycle that no
  head leads to. Its invariant `TreeInv` says of the search (`SearchInv`) that what is
  discovered is led to by a head, that what a discovered block leads to is discovered
  or on the stack, and that a discovered block is on the stack or finished; so that an
  empty stack means that the finished blocks are those the heads lead to. Paths are
  `Reach`, which is defined by iterating; that N steps are enough is proved, by
  the least step that adds nothing. That the `unwrap` never fails rests on the order of
  the search, `OrderInv`: every finished block but a head has a predecessor that is
  finished later, so the sweep comes by that predecessor first.
- `DominatorsAlwaysRight`: for each block that a single head `h` leads to, the dominators
  found are exactly the blocks on every path from `h`, in both ways to ask. What is true
  at the end is not true during the sweeps, so the invariant `SweepInv` has three parts
  about these blocks (`Alone(h)`). `Fit`: an immediate dominator found so far leads to
  its block through places below its own alone, and lies above it, and every dominator
  of the block is at that place or higher. So the climb never passes a dominator, and
  the fingers that start at two predecessors meet, at a place above both that no common
  dominator is below (`MeetAbove`, and `NewIdomAbove` for any number of predecessors).
  `Settled`: as long as a sweep has changed nothing, the immediate dominator of each
  block it has visited is above every predecessor on the way up; a change falsifies it
  but sets `changed`, which is why the code sweeps again. And at the end the tree is
  what `doms` says. There, nothing but dominators is met on the way up (`UpDominates`:
  the blocks that a given one is not above are closed under what they lead to), and every
  dominator is met (`UpComplete`, by `Fit`).
- `RegionsAlwaysRooted`: each block of the temporal region graph is led to by the root of
  its region, inside that region and without a wait. In the invariant `RegionsInv` every
  block that has a region, whether spread from or still on the work list, has such a
  path; it is kept because a block keeps the region it was given first.
- `SingleHeadsAlwaysDominate`: the only head of a temporal region dominates the region.
  It does not follow from `DominatorsAlwaysRight`, for a region with one head may be
  led to from several. `EnclosedInv` says of *any* set of blocks that is entered at one
  block only that immediate dominators stay inside and climb towards that block, as its
  fingers do (`MeetInside`); a region with one head is such a set, since `RegionsInv`
  gives each of its blocks a temporal predecessor.

## 6. The data path

**`Types`** are the types with their queries, a value being a nested sequence of bits.
**`IntValue`** has the two copies of the integer arithmetic and the reference arithmetic
beside them. **`InstTypes`** has the builder's types and panics, and the verifier's
checks. **`ConstFold`** is `pass/cf.rs`; **`SimPointer`** the slices of the simulator.
**`UnitMeaning`** says what a stretch of code means after `doc/LANGUAGE.md`: the value
of a pointer is an arrangement of places, so that the reference has no slices and no
clamping. `Open` says which results the reference leaves open; `Specials` names, beside
these, the kinds of instruction that the verifier accepts and a tool gets wrong or does not
support. **`Datapath`** takes a unit through the tools: it is built, verified, folded
instruction by instruction, executed, and its drive applied. What may be built is a
constant of it, `Profiles`: types of arguments, constants, and for every place a menu of
opcodes with their immediate numbers (`ProfilesAssumption`: as many arguments and numbers
as the builder's methods take, types from a set that holds their components). One bound
is in the guard of `Build`: shifted and sliced *values* are integers or arrays of
integers (`Sliceable`), because the zero that folding inserts for other types is a
sequence of instructions as long as the type is deep.

| Run | Instance | Shows |
|---|---|---|
| `datapath` | seven menus: all operations on all pairs of two-bit operands, with constants on either side; chains of two; shifts; slices; aggregates; signals; structs of arrays; variables | folding keeps values and types, the simulator computes what the reference says before folding and after it, its drives change what they select and nothing else, and what the verifier accepts runs, with the exceptions below |
| `datapath_fold` | subtractions with one constant operand | finding 2 |
| `datapath_shift` | shifts and slices of values and of signals, with a hidden part wider than the base | finding 3 |

Two bits are the least width with both signs, the two extreme values, a wrap-around and
a value that is neither zero, one nor all ones, which is what the code branches on. A base of
two bits with a hidden part of four is shifted by less than the base, by as much as either
has, by an amount between, and by more.

No meaning is compared, and a panic is allowed, where the reference leaves the result
open: operators other than `eq` and `neq` on anything but `iN`, divisions by zero, shifts
by more than the hidden part has, selectors and indices out of range. Everything else that the properties of the
passing run leave out is code that is wrong or missing, and has a name:

| Left out | of | Why |
|---|---|---|
| `ZeroMinus`: a constant zero is subtracted from | `FoldKeepsMeaning`, and of folded units `SimulatesMeaning`, `DrivesExact` | finding 2; `FoldsExactly` keeps it |
| `wide`: a shift past the base, within the hidden part | `SimulatesMeaning`, `DrivesExact`, `AcceptedRuns` | finding 3; `SimulatesExactly` keeps it. Folding is right there, and `FoldKeepsMeaning` includes it |
| `negative`: a signed operation on a negative operand | `SimulatesMeaning`, `DrivesExact` | the simulator's `to_signed`, section 8; `SimulatesExactly` keeps it |
| `aggregates`: `eq` and `neq` of arrays and structs | `AcceptedRuns`, and with it `SimulatesMeaning`, `DrivesExact` | the simulator compares integers only, section 8; `SimulatesExactly` keeps it |
| `references`: signals and pointers in arrays, structs, variables, drives and comparisons | all but `FoldKeepsVerified` | the simulator's `resolve_value` has no such values, section 8; the places of the model hold bits |
| `StoresApart`: a store through a pointer with two slices of one variable | `SimulatesMeaning`, `DrivesExact` | loses an update, section 8 |

`SimulatesExactly` is false of several menus, and the run `datapath_shift` takes those in
which a shift is the only reason. With `Profiles <- MCArithmetics` in its place TLC finds a
signed operation on a negative operand, with `MCAggregates` a comparison of aggregates.
Of a drive through two slices of one signal, `DrivesExact` says that it changes no other
bit and gives no bit a value that was not meant for it; that the update of one slice may be
lost is the only thing it excuses. `CHECK_DEADLOCK` is off because a unit ends.

Proofs (`DatapathProofs`), for every set of profiles: `FoldingKeepsVerified`. Before,
during and after folding the verifier accepts the unit, and a replacement has the type of
what it replaces, so that the assertion of `run_on_inst` never fails. That the verifier
accepts the unit is not inductive. The invariant `PathInv` says that the unit is
`WellFormed`: every argument of an instruction is there and comes *before* it (`Before`),
every type is made of types (`IsTy`: it belongs to a set of types that holds the
components of all its members, of whatever depth), every instruction is one that the
builder makes of arguments with those types (`Sound`), and constants are sequences of bits
as long as their type says. Each insertion next to an instruction extends a well-formed
unit (`InsertWell`), and each fold is a chain of them: `Found` says of its result that
the unit was extended, and that the replacement, if there is one, has the right type and
comes before the folded instruction. This is what makes the last step sound, in which
all uses are replaced at once (`ReplacedWell`). The hard fold is the shift that mixes
two values (`FoundMixed`): five inserted instructions are folded in turn, with uses
replaced between the folds, and the parts that are folded later have to survive that.
What well-formed units the builder makes is `AppendWell`, by `BuiltType`. TLC cannot
evaluate `IsTy`, a quantifier over sets of types, so the runs check what follows from the
invariant and not the invariant itself. What folding *means* is not proved: the values of
an arithmetic fold would need exponents and division beyond the prover's arithmetic.

## 7. The passes

**`Program`** is a unit as the passes see it: instructions in blocks, detached ones that
are still users, deleted ones, and the operations of `UnitBuilder` that passes call,
with the verifier's checks. All values are bits, all drives have one delay, drive
targets are signals themselves; ids are not recycled (that is `UnitDfg`).
**`Activation`** says what a program shows: it runs from wait to wait, and its outputs
at each wait are compared. The passes are operators on programs, with `up` for the two
directions in which a hash table may be walked, and a panic as a result of its own:

| Module | Passes |
|---|---|
| `DeadCodeElim` | dce: trivial branches and blocks, pruning, unreachable blocks, joining |
| `VarToPhi` | vtpp: loads become the value last stored |
| `CodeMotion` | ecm, gcse, insim, and cf as far as bits go |
| `PhiToMux` | cfs: phis become multiplexers over the conditions that lead to their ways; the lookups of `BlockNumbering` (`cfs.rs:314-318`) are total here, and no unit of the runs has a block without a number |
| `TemporalMotion` | tcm: probes, waits, auxiliary blocks, pushing and coalescing drives; proclower |
| `Desequentialize` | deseq: disjunctive normal forms, triggers, registers |

The dominator tree and the regions they ask for are computed as in the code, as
functions of the layout; the run `analyses` shows that these are the right ones.
**`Optimizer`** is `llhd-opt`: the passes of a list, one an action, the unit verified in
between.

| Run | Instance | Shows |
|---|---|---|
| `passes` | 22 units as frontends write them (choices, latches, variables, loops, flip-flops, resets, several waits, an entity), through the twenty passes of `--lower` and every list of two passes; 12 more through the lists that do not trip over them | no pass panics (`PassesTotal`), the verifier accepts the unit after each (`StaysVerified`), and it shows the outputs it showed at first for all 36 sequences of three input states (`MeaningKept`) |
| `passes_phi` | a body that follows initial code and waits for itself | finding 4 |

Bounds. Three input states hold a rising edge after a falling one and the other way
round, of either of two inputs with the other one in either state. `Fuel` is the number
of blocks a program may run through in one instant; eight is more than any unit here has
on a path, the loop taken twice. Every pair of passes has each pass on what each other
one leaves; the long list is the one the tool runs. `CHECK_DEADLOCK` is off because a
list ends.

`Spoiled` in `MCOptimizer` names each of the twelve units with the lists that do not keep
it; they are excluded there and nowhere else, and section 8 says what happens to them.

## 8. Findings

1. (`engine_starve`) A wait that a signal ends early leaves its timer in the wake
   queue. The timer later resumes the process wherever it is: another wait, or
   after `halt`, where the engine panics at a place documented as unreachable
   (`bin/llhd-sim/engine.rs:110`, `283`).
2. (`datapath_fold`) `sub 0, x` is folded to `x`: subtraction is among the symmetric
   operations (`pass/cf.rs:129`).
3. (`datapath_shift`) A shift may go as far as the hidden part has bits
   (`doc/LANGUAGE.md:710`), and constant folding and its tests let it
   (`tests/opt/cf/shift.llhd:25`). The simulator clamps the amount likewise but then
   takes that many bits of the hidden part, also when the base has fewer
   (`bin/llhd-sim/engine.rs:886`): a value trips the assertion at line 819, a
   signal becomes a subsignal that is too wide, and a drive of it overwrites a neighbour.
4. (`passes_phi`) Dead code elimination joins a block that waits for itself with the
   block before it and trips over its assertion that the phi has one way
   (`pass/dce.rs:108`), in the default list of `llhd-opt`.
5. (`analyses_end`) The construction of the dominator tree need not end. A finger that
   is stuck at a root gives up, with a block that need not be above both predecessors
   (`analysis/domtree.rs:85`, `90`), so with several roots the sweeps can undo each other
   for ever. The temporal table has a root for each block entered after a wait, so it
   takes no dead code: a process with two such blocks and one iteration order of its
   hash sets is enough, and temporal code motion asks for that tree.

Noticed, without a run.

Representation. Removing a block from a phi leaves the phi in the use list of the
dropped value (`ir/unit.rs:1107`), and may keep a second way from that block, because
the loop skips what `swap_remove` moved (`ir/inst.rs:1037`). A new value may be born
with the name of a removed one (`ir/unit.rs:911`). `remove_block` leaves the
instructions of the block mapped to it (`ir/unit.rs:1215`). `insert_at_end` is
documented as "at the end of the unit" and selects the end of the *first* block
(`ir/unit.rs:806`); the comment on `set_value` (`state.rs:276`) says the opposite of
what it returns. `remove_unit`, `remove_decl` and the mutable iterators leave the link
table in place (`ir/module.rs:87`).

Analyses. The override of a region's entry in `trg.rs:69` never takes effect. With the
temporal table, the dominator tree panics on a process in which all blocks run, if a cycle
without waits is entered by a wait only; and as the verifier asks for the tree first, it
panics on a unit with an unreachable cycle (`verifier.rs:57`).

Data path. The simulator's `to_signed` is `2^w - v` for a negative value where the
library's is `v - 2^w`, so -1 is taken for 1 in `slt` and its like, `sub`, `smul`, `sdiv`,
`srem` and `smod` (`bin/llhd-sim/value.rs:182`). `doc/LANGUAGE.md:803` has `eq` and `neq` of
any type and the verifier accepts them (`verifier.rs:306-308`), but the simulator unwraps
integers and panics on aggregates (`bin/llhd-sim/engine.rs:575`). The verifier also
accepts arithmetic on `iN$`, which is not in the language, array indices out of bounds, and
signals in aggregates, on all of which the simulator panics. Of shifted arrays it demands
equal length (`verifier.rs:705`), which `doc/LANGUAGE.md:709` does not. Two slices of one signal in one pointer lose an update
(`engine.rs:84-107`). A multiplexer with a constant selector that is out of range is folded.
The simulator's `smod` truncates. `prb` of a `time$` panics.

Passes, on the units of `Spoiled`. dce: finding 4 (`Delayed`). vtpp: on the way that
keeps a variable from one wait to the next no value is found, and the phi says that it
was stored (`Register`; `vtpp.rs:120`). tcm: a drive in a join that one edge enters from
its dominator gets the condition of that edge, though the join has another way
(`AfterJoin`), and a drive of the initial code moves to the wait that the body shares
(`SharedWait`). ecm: conditional drives are not among the instructions that stay, and
move over a wait (`Late`; `ecm.rs:76`). cfs: no discriminator for a phi over a wait, on
which it panics (`Carried`), and a multiplexer of a value or condition that does not
dominate it (`Inner`, `Local`). deseq: a level-triggered register stores from the start
(`WhileHigh`), a process that acts once becomes a register for ever (`FirstEdge`), and
the sensitivity of the wait is computed and never compared (`Deaf`; `deseq.rs:60`). From
reading: `proclower` accepts `halt` without a check of the sensitivity and drops the
timer of `wait_time`; dce leaves detached phis in use lists; vtpp panics on a variable
that is loaded and never stored; ecm moves variables and calls; gcse merges probes in a
region with two roots.

Tracer. Only signals with a name are probed by the builder, and a change of another one
makes both tracers panic at the lookup (`vcd.rs:48`).

## 9. What is proved, and what is only model-checked

| Module | Proves of | Listed theorems |
|---|---|---|
| `SimEngineProofs` | `SimEngine` | types, queues, timers, clock, end; wake-ups, halts, starving |
| `SimEngineRefinementProofs` | `SimEngineRefinement`, `DiscreteEvent` | the engine implements the meaning of its design |
| `VcdTracerProofs` | `VcdTracer` | what the dump shows |
| `UnitDfgProofs` | `UnitDfg` | types, uses, operands, results, phis, jumps, replacing, removing, pruning |
| `UnitLayoutProofs` | `LinkedList`, `UnitLayout`, `UnitLayoutRefinement` | six list operations, types, lists, map; the layout implements the text |
| `UnitAnalysesProofs` | `UnitAnalyses` | panics of the tree, dominators, roots of the regions, single heads |
| `DatapathProofs` | `Datapath`, `ConstFold` | the folded unit is verified, replacements keep types |
| `NatFacts` | the natural numbers | (least and greatest numbers with a property, counting up and down, recurrences and iterations: lemmas only) |

Where a proof needs induction over data (a walk over a list, a path in a graph, a count
of hits), it takes the least counterexample: `LeastNumber` in `NatFacts` is stated of a
set of numbers, so that it needs no operator as a parameter. This reaches functions that
are defined recursively over the numbers, and nothing that is declared `RECURSIVE`.

Only model-checked are:

- Liveness under fairness: `TimedWaitEnds`, `DrivesApplied`, `StepsEnd`,
  `SingleHeadEnds`. The prover has no fairness rules for it.
- All of the data path and the passes (`FoldKeepsMeaning`, `SimulatesMeaning`,
  `DrivesExact`, `AcceptedRuns`, `PassesTotal`, `StaysVerified`, `MeaningKept`) but for
  `FoldKeepsVerified`: the passes handle programs by recursive operators, and the values of
  the data path are results of inductions over nested types and over exponents.

## 10. Not modelled

In the modelled parts: calls of functions, `reg`, `del` and `con` in entities, an
entity's own work list, the elaboration of a hierarchy; external units, location hints
and block names; the initial position of a builder for an entity; time, enum and
function types; delays and names in the passes; scopes and abbreviations of the dump.
The module and its link table: one thread, and no state over time but a table that
`link` rebuilds as a whole and only the simulator reads. The assembly reader and writer,
the MLIR writer, the converters, the checker and the command lines: text in and text
out, with no state that outlives a call. `assembly/grammar.rs`, which is generated, and
these writers are two thirds of the lines of the repository.

## 11. Plan

Left to do, in this order:

1. Proofs about values in the data path, `DrivesExact` first: what a pointer with slices
   reads and writes, by induction over the depth of a selection.
2. `reg` and `del` in the engine's entities, which `Desequentialize` produces, and with them
   the passes' outcome in the engine.
3. The entity's work list over its values (`builder.rs:176`), with `SimEngine`'s
   `Entity` as its abstract action.
