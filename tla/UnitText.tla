------------------------------ MODULE UnitText ------------------------------
(***************************************************************************)
(* What the layout of a unit promises: a sequence of blocks, each with a   *)
(* sequence of instructions, and a gap between two instructions at which   *)
(* new ones are written. Writing moves the gap behind what was written,    *)
(* and deleting an instruction closes up the text around the gap.          *)
(***************************************************************************)
EXTENDS LinkedList

CONSTANTS Inst, Block

VARIABLES
  made,    \* the instructions there are, in the text or taken out of it
  order,   \* the blocks
  text,    \* the instructions of each block
  gap      \* <<block, number of instructions before the gap>>, or None

tvars == <<made, order, text, gap>>

Elems(s)   == {s[n] : n \in DOMAIN s}
Written(i) == \E b \in DOMAIN text : i \in Elems(text[b])
Gaps       == {None} \cup UNION {{<<b, k>> : k \in 0..Len(text[b])} : b \in DOMAIN text}

TInit == made = {} /\ order = <<>> /\ text = <<>> /\ gap = None

(* A block appears, empty. A lost gap may come back in it: the position of  *)
(* the builder may name a block that is out of the layout, or the block    *)
(* whose id the new one takes.                                             *)
EnterBlock(b) ==
  /\ b \notin Elems(order)
  /\ \E k \in 1..(Len(order) + 1) : order' = InsertedAt(order, k, b)
  /\ text' = Put(text, b, <<>>)
  /\ gap' \in (IF gap = None THEN {None, <<b, 0>>} ELSE {gap})
  /\ UNCHANGED made

(* A block goes, with its instructions and the gap, if it is in there.     *)
LeaveBlock(b) ==
  /\ \E k \in DOMAIN order : order[k] = b /\ order' = RemovedAt(order, k)
  /\ made' \in {made, made \ Elems(text[b])}
  /\ text' = Without(text, b)
  /\ gap' = IF gap # None /\ gap[1] = b THEN None ELSE gap

ExchangeBlocks(b, c) ==
  /\ order' = Exchanged(order, b, c)
  /\ UNCHANGED <<made, text, gap>>

(* A new instruction is written at the gap.                                *)
WriteInst(i) ==
  /\ gap # None /\ i \notin made
  /\ made' = made \cup {i}
  /\ text' = [text EXCEPT ![gap[1]] = InsertedAt(@, gap[2] + 1, i)]
  /\ gap' = <<gap[1], gap[2] + 1>>
  /\ UNCHANGED order

GapWithout(b, n) ==
  IF gap # None /\ gap[1] = b /\ n <= gap[2] THEN <<b, gap[2] - 1>> ELSE gap

DeleteInstText(b, n) ==
  /\ made' = made \ {text[b][n]}
  /\ text' = [text EXCEPT ![b] = RemovedAt(@, n)]
  /\ gap' = GapWithout(b, n)
  /\ UNCHANGED order

(* An instruction is taken out to be put back elsewhere: the gap may be    *)
(* lost if it was next to the instruction.                                 *)
TakeOut(b, n) ==
  /\ text' = [text EXCEPT ![b] = RemovedAt(@, n)]
  /\ \/ gap' = GapWithout(b, n)
     \/ gap # None /\ gap[1] = b /\ gap[2] \in {n - 1, n} /\ gap' = None
  /\ UNCHANGED <<made, order>>

(* An instruction is put at the n-th place of b: a gap in that very place  *)
(* is on either side of it then, and one that was lost may be next to it.  *)
PutIn(i, b, n) ==
  /\ i \in made /\ ~Written(i)
  /\ text' = [text EXCEPT ![b] = InsertedAt(@, n, i)]
  /\ gap' \in IF gap = None THEN {None, <<b, n - 1>>, <<b, n>>}
              ELSE IF gap[1] # b \/ gap[2] < n - 1 THEN {gap}
              ELSE IF gap[2] > n - 1 THEN {<<b, gap[2] + 1>>}
              ELSE {gap, <<b, n>>}
  /\ UNCHANGED <<made, order>>

MoveGap == gap' \in Gaps /\ UNCHANGED <<made, order, text>>

TNext ==
  \/ MoveGap
  \/ \E b \in Block : EnterBlock(b) \/ LeaveBlock(b)
  \/ \E b, c \in DOMAIN text : ExchangeBlocks(b, c)
  \/ \E i \in Inst : \/ WriteInst(i)
                     \/ \E b \in DOMAIN text : \E n \in 1..(Len(text[b]) + 1) : PutIn(i, b, n)
  \/ \E b \in DOMAIN text : \E n \in DOMAIN text[b] : DeleteInstText(b, n) \/ TakeOut(b, n)

TSpec == TInit /\ [][TNext]_tvars
=============================================================================
