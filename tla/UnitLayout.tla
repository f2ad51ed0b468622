----------------------------- MODULE UnitLayout -----------------------------
(***************************************************************************)
(* The layout of a unit: the order of its blocks and, in each block, of    *)
(* its instructions (src/ir/layout.rs and the layout operations of         *)
(* UnitBuilder in src/ir/unit.rs), and the position at which the builder   *)
(* inserts new instructions, which refers to a block or an instruction     *)
(* and has to be kept through the changes of the layout.                   *)
(*                                                                         *)
(* Which instructions and blocks there are is kept in two sets; their data *)
(* is the subject of UnitDfg. Where the program would panic the action is  *)
(* disabled.                                                               *)
(***************************************************************************)
EXTENDS LinkedList

CONSTANTS
  Inst, Block,     \* ids of instructions and of blocks
  TakeOutFilled    \* whether remove_block is called for blocks with code

ASSUME LayoutAssumption == None \notin Inst \cup Block /\ TakeOutFilled \in BOOLEAN

VARIABLES
  blocks,    \* ControlFlowGraph::blocks
  insts,     \* the instructions in DataFlowGraph::insts
  bbs,       \* FunctionLayout: the list of blocks
  code,      \* BlockNode::layout: the list of instructions of each block in bbs
  inst_map,  \* FunctionLayout::inst_map
  pos        \* UnitBuilder::pos

vars == <<blocks, insts, bbs, code, inst_map, pos>>

NoPos      == [at |-> "none", ref |-> None]
At(a, ref) == [at |-> a, ref |-> ref]

Laid      == Nodes(bbs)           \* the blocks in the layout
Inserted  == DOMAIN inst_map      \* is_inst_inserted
Home(i)   == inst_map[i]
(* inst_block and the two lookups that follow it must not fail.            *)
Reachable(i) == i \in Inserted /\ Home(i) \in Laid /\ i \in Nodes(code[Home(i)])

Init ==
  /\ blocks = {} /\ insts = {}
  /\ bbs = EmptyList /\ code = <<>> /\ inst_map = <<>>
  /\ pos = NoPos

-----------------------------------------------------------------------------
(* Blocks.                                                                 *)

AddBlock(b) ==
  /\ b \notin blocks
  /\ blocks' = blocks \cup {b}
  /\ bbs' = PushBack(bbs, b)
  /\ code' = Put(code, b, EmptyList)
  /\ UNCHANGED <<insts, inst_map, pos>>

(* A block that was taken out comes back, without instructions.            *)
PutBack(b, list) ==
  /\ b \in blocks \ Laid
  /\ bbs' = list
  /\ code' = Put(code, b, EmptyList)
  /\ UNCHANGED <<blocks, insts, inst_map, pos>>
AppendBlock(b)          == PutBack(b, PushBack(bbs, b))
PrependBlock(b)         == PutBack(b, PushFront(bbs, b))
InsertBlockAfter(b, c)  == c \in Laid /\ PutBack(b, InsertAfter(bbs, b, c))
InsertBlockBefore(b, c) == c \in Laid /\ PutBack(b, InsertBefore(bbs, b, c))

RemoveBlock(b) ==
  /\ b \in Laid
  /\ TakeOutFilled \/ Nodes(code[b]) = {}
  /\ bbs' = Unlink(bbs, b)
  /\ code' = Without(code, b)
  /\ UNCHANGED <<blocks, insts, inst_map, pos>>

SwapBlocks(b, c) ==
  /\ {b, c} \subseteq Laid
  /\ bbs' = SwapNodes(bbs, b, c)
  /\ UNCHANGED <<blocks, insts, code, inst_map, pos>>

DeleteBlockKeepsMap(b) ==   \* mutant: without unmap_inst
  /\ b \in Laid
  /\ blocks' = blocks \ {b}
  /\ insts' = insts \ Nodes(code[b])
  /\ bbs' = Unlink(bbs, b)
  /\ code' = Without(code, b)
  /\ UNCHANGED <<inst_map, pos>>
(* delete_block, with the instructions of the block; the position stays.   *)
DeleteBlock(b) ==
  /\ b \in Laid
  /\ Nodes(code[b]) \subseteq Inserted
  /\ blocks' = blocks \ {b}
  /\ insts' = insts \ Nodes(code[b])
  /\ bbs' = Unlink(bbs, b)
  /\ code' = Without(code, b)
  /\ inst_map' = [i \in Inserted \ Nodes(code[b]) |-> Home(i)]
  /\ UNCHANGED pos

-----------------------------------------------------------------------------
(* Instructions.                                                           *)

(* map_inst panics for an instruction that is inserted already.            *)
Enter(i, b, list) ==
  /\ i \notin Inserted
  /\ code' = [code EXCEPT ![b] = list]
  /\ inst_map' = Put(inst_map, i, b)

EnterLast(i, b)      == b \in Laid /\ Enter(i, b, PushBack(code[b], i))
EnterFirst(i, b)     == b \in Laid /\ Enter(i, b, PushFront(code[b], i))
EnterAfter(i, j)     == Reachable(j) /\ Enter(i, Home(j), InsertAfter(code[Home(j)], i, j))
EnterBefore(i, j)    == Reachable(j) /\ Enter(i, Home(j), InsertBefore(code[Home(j)], i, j))

Leave(i) ==
  /\ code' = [code EXCEPT ![Home(i)] = Unlink(code[Home(i)], i)]
  /\ inst_map' = Without(inst_map, i)

Moves == UNCHANGED <<blocks, insts, bbs, pos>>
AppendInst(i, b)       == i \in insts /\ EnterLast(i, b) /\ Moves
PrependInst(i, b)      == i \in insts /\ EnterFirst(i, b) /\ Moves
InsertInstAfter(i, j)  == i \in insts /\ EnterAfter(i, j) /\ Moves
InsertInstBefore(i, j) == i \in insts /\ EnterBefore(i, j) /\ Moves
RemoveInst(i)          == Reachable(i) /\ Leave(i) /\ Moves

(* build_inst: a new instruction at the position, which moves behind it.   *)
BuildAtHead(i) ==   \* mutant: each instruction is prepended
  /\ i \notin insts
  /\ insts' = insts \cup {i}
  /\ \/ pos.at = "append" /\ EnterLast(i, pos.ref)
     \/ pos.at = "prepend" /\ EnterFirst(i, pos.ref)
     \/ pos.at = "after" /\ EnterAfter(i, pos.ref)
     \/ pos.at = "before" /\ EnterBefore(i, pos.ref)
  /\ pos' = IF pos.at = "after" THEN At("after", i) ELSE pos
  /\ UNCHANGED <<blocks, bbs>>
BuildInst(i) ==
  /\ i \notin insts
  /\ insts' = insts \cup {i}
  /\ \/ pos.at = "append" /\ EnterLast(i, pos.ref)
     \/ pos.at = "prepend" /\ EnterFirst(i, pos.ref)
     \/ pos.at = "after" /\ EnterAfter(i, pos.ref)
     \/ pos.at = "before" /\ EnterBefore(i, pos.ref)
  /\ pos' = IF pos.at \in {"prepend", "after"} THEN At("after", i) ELSE pos
  /\ UNCHANGED <<blocks, bbs>>

(* delete_inst: the position, if it refers to the instruction, is taken to *)
(* the neighbour on the other side, or else to the end of the block.       *)
PosKept(i) ==     \* mutant: delete_inst leaves the position alone
  pos
PosWithout(i) ==
  LET l == code[Home(i)]
  IN IF pos = At("after", i)
     THEN IF l.next[i] # None THEN At("before", l.next[i]) ELSE At("append", Home(i))
     ELSE IF pos = At("before", i)
     THEN IF l.prev[i] # None THEN At("after", l.prev[i]) ELSE At("prepend", Home(i))
     ELSE pos

DeleteInst(i) ==
  /\ Reachable(i)
  /\ insts' = insts \ {i}
  /\ pos' = PosWithout(i)
  /\ Leave(i)
  /\ UNCHANGED <<blocks, bbs>>

-----------------------------------------------------------------------------
(* The position.                                                           *)

SetPos(p) == pos' = p /\ UNCHANGED <<blocks, insts, bbs, code, inst_map>>
NewBuilder        == SetPos(NoPos)   \* for a function or a process
InsertAtEnd       == bbs.first # None /\ SetPos(At("append", bbs.first))
InsertAtBeginning == bbs.first # None /\ SetPos(At("prepend", bbs.first))
AppendTo(b)       == b \in blocks /\ SetPos(At("append", b))
PrependTo(b)      == b \in blocks /\ SetPos(At("prepend", b))
InsertAfterInst(i)  == i \in insts /\ SetPos(At("after", i))
InsertBeforeInst(i) == i \in insts /\ SetPos(At("before", i))

Next ==
  \/ NewBuilder \/ InsertAtEnd \/ InsertAtBeginning
  \/ \E b \in Block : \/ AddBlock(b) \/ AppendBlock(b) \/ PrependBlock(b)
                      \/ RemoveBlock(b) \/ DeleteBlock(b) \/ AppendTo(b) \/ PrependTo(b)
                      \/ \E c \in Block : \/ InsertBlockAfter(b, c) \/ InsertBlockBefore(b, c)
                                          \/ SwapBlocks(b, c)
  \/ \E i \in Inst : \/ BuildInst(i) \/ DeleteInst(i) \/ RemoveInst(i)
                     \/ InsertAfterInst(i) \/ InsertBeforeInst(i)
                     \/ \E b \in Block : AppendInst(i, b) \/ PrependInst(i, b)
                     \/ \E j \in Inst : InsertInstAfter(i, j) \/ InsertInstBefore(i, j)

Spec == Init /\ [][Next]_vars

-----------------------------------------------------------------------------
TypeOK ==
  /\ blocks \subseteq Block /\ insts \subseteq Inst
  /\ Laid \subseteq blocks /\ DOMAIN code = Laid
  /\ Inserted \subseteq insts /\ \A i \in Inserted : Home(i) \in Block
  /\ pos.at \in {"none", "append", "prepend", "after", "before"}

(* The list of blocks and the list of instructions of every block in it    *)
(* have each node once, in the same order along either kind of links.      *)
ListsLinked == IsList(bbs) /\ \A b \in Laid : IsList(code[b])

(* "Get the BB which contains inst, or None if inst is not inserted": the  *)
(* map and the lists of the blocks say the same.                           *)
InstBlockRight ==
  \A i \in Inst : /\ \A b \in Laid : i \in Nodes(code[b]) => i \in Inserted /\ Home(i) = b
                  /\ i \in Inserted => Home(i) \in Laid /\ i \in Nodes(code[Home(i)])
=============================================================================
