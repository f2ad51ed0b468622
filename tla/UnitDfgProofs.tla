---------------------------- MODULE UnitDfgProofs ----------------------------
(***************************************************************************)
(* Theorems about the data-flow graph of a unit, for every size of its     *)
(* tables and every menu of instructions.                                  *)
(***************************************************************************)
EXTENDS UnitDfg, FiniteSetTheorems, NatFacts, TLAPS

-----------------------------------------------------------------------------
(* What the tables hold, apart from the unit they belong to.               *)
InstData  == [kind : Kinds \cup {"free"}, args : Seq(0..MaxValue), bbs : Seq(0..MaxBlock)]
InstTable == [Insts -> InstData]
ValueIds  == 0..MaxValue
BlockIds  == 0..MaxBlock

LEMMA SeqElements ==
  ASSUME NEW S, NEW s \in Seq(S)
  PROVE  DOMAIN s = 1..Len(s) /\ Len(s) \in Nat /\ \A n \in 1..Len(s) : s[n] \in S
OBVIOUS

LEMMA FunctionIsSeq ==
  ASSUME NEW S, NEW k \in Nat, NEW f \in [1..k -> S]
  PROVE  f \in Seq(S) /\ Len(f) = k
OBVIOUS

LEMMA SeqOperations ==
  ASSUME NEW S, NEW s \in Seq(S), NEW t \in Seq(S)
  PROVE  s \o t \in Seq(S) /\ (s # <<>> => Head(s) \in S /\ Tail(s) \in Seq(S))
OBVIOUS

LEMMA DataTyped ==
  ASSUME NEW d \in InstData
  PROVE  /\ d.kind \in Kinds \cup {"free"}
         /\ d.args \in Seq(0..MaxValue) /\ d.bbs \in Seq(0..MaxBlock)
         /\ Operands(d) \subseteq 0..MaxValue /\ Targets(d) \subseteq 0..MaxBlock
<1>1. /\ d.kind \in Kinds \cup {"free"}
      /\ d.args \in Seq(0..MaxValue) /\ d.bbs \in Seq(0..MaxBlock)
  BY DEF InstData
<1>2. /\ \A n \in DOMAIN d.args : d.args[n] \in 0..MaxValue
      /\ \A n \in DOMAIN d.bbs : d.bbs[n] \in 0..MaxBlock
  BY <1>1, SeqElements
<1> QED BY <1>1, <1>2 DEF Operands, Targets

LEMMA NoInstTyped ==
  NoInst \in InstData /\ Operands(NoInst) = {} /\ Targets(NoInst) = {}
BY DEF NoInst, InstData, Operands, Targets

(* Substituting in a sequence.                                             *)
LEMMA SubstTyped ==
  ASSUME NEW S, NEW s \in Seq(S), NEW from, NEW to \in S
  PROVE  /\ Subst(s, from, to) \in Seq(S)
         /\ DOMAIN Subst(s, from, to) = DOMAIN s
         /\ Len(Subst(s, from, to)) = Len(s)
         /\ \A n \in DOMAIN s : /\ s[n] = from => Subst(s, from, to)[n] = to
                                /\ s[n] # from => Subst(s, from, to)[n] = s[n]
<1>1. DOMAIN s = 1..Len(s) /\ Len(s) \in Nat /\ \A n \in DOMAIN s : s[n] \in S
  OBVIOUS
<1>2. Subst(s, from, to) = [n \in 1..Len(s) |-> IF s[n] = from THEN to ELSE s[n]]
  BY <1>1 DEF Subst
<1> QED BY <1>1, <1>2

-----------------------------------------------------------------------------
(* The loop of remove_block stays within the phi.                          *)

LEMMA HitsBounded ==
  ASSUME NEW s, NEW b, NEW p \in Nat, p >= 1, s[p] = b
  PROVE  Hits(s, b, p) \in 1..p
<1> DEFINE H == {q \in 1..p : s[q] = b}
<1>1. IsFiniteSet(1..p) /\ Cardinality(1..p) = p
  BY FS_Interval
<1>2. IsFiniteSet(H) /\ Cardinality(H) <= p
  BY <1>1, FS_Subset
<1>3. p \in H
  OBVIOUS
<1>4. Cardinality(H) \in Nat /\ Cardinality(H) # 0
  <2>1. H # {}
    BY <1>3
  <2> QED BY <1>2, <2>1, FS_CardinalityType, FS_EmptySet
<1> QED BY <1>2, <1>4 DEF Hits

LEMMA KeptBounded ==
  ASSUME NEW S, NEW s \in Seq(S), NEW b
  PROVE  Kept(s, b) \in 0..Len(s)
<1>1. DOMAIN s = 1..Len(s) /\ Len(s) \in Nat
  OBVIOUS
<1>2. IsFiniteSet(1..Len(s)) /\ Cardinality(1..Len(s)) = Len(s)
  BY SMTT(30), <1>1, FS_Interval
<1>3. Taken(s, b) \subseteq 1..Len(s)
  BY <1>1 DEF Taken
<1>4. IsFiniteSet(Taken(s, b)) /\ Cardinality(Taken(s, b)) <= Len(s)
  BY <1>2, <1>3, FS_Subset
<1>5. Cardinality(Taken(s, b)) \in Nat
  BY <1>4, FS_CardinalityType
<1> QED BY <1>1, <1>4, <1>5 DEF Kept

LEMMA SourceBounded ==
  ASSUME NEW S, NEW s \in Seq(S), NEW b, NEW p \in 1..Kept(s, b)
  PROVE  Source(s, b, p) \in 1..Len(s)
<1>1. Len(s) \in Nat /\ Kept(s, b) \in 0..Len(s) /\ p \in 1..Len(s) /\ p \in Nat /\ p >= 1
  BY KeptBounded
<1>2. CASE s[p] = b
  <2>1. Hits(s, b, p) \in 1..p
    BY <1>1, <1>2, HitsBounded
  <2> QED BY <1>1, <1>2, <2>1 DEF Source
<1>3. CASE s[p] # b
  BY <1>1, <1>3 DEF Source
<1> QED BY <1>2, <1>3

(* Dropping ways leaves a phi whose ways are among the old ones.           *)
LEMMA WaysDropped ==
  ASSUME NEW d \in InstData, NEW b, Len(d.args) = Len(d.bbs)
  PROVE  /\ DropWays(d, b) \in InstData /\ DropWays(d, b).kind = d.kind
         /\ Len(DropWays(d, b).args) = Len(DropWays(d, b).bbs)
         /\ Operands(DropWays(d, b)) \subseteq Operands(d)
         /\ Targets(DropWays(d, b)) \subseteq Targets(d)
<1> DEFINE K == Kept(d.bbs, b)
           B == [p \in 1..K |-> d.bbs[Source(d.bbs, b, p)]]
           A == [p \in 1..K |-> d.args[Source(d.bbs, b, p)]]
<1>1. /\ d.kind \in Kinds \cup {"free"}
      /\ d.args \in Seq(0..MaxValue) /\ d.bbs \in Seq(0..MaxBlock)
  BY DataTyped
<1>2. K \in Nat
  BY <1>1, KeptBounded
<1>3. \A p \in 1..K : Source(d.bbs, b, p) \in 1..Len(d.bbs)
  BY <1>1, SourceBounded
<1>4. /\ DOMAIN d.args = 1..Len(d.bbs) /\ DOMAIN d.bbs = 1..Len(d.bbs)
      /\ \A n \in 1..Len(d.bbs) : d.args[n] \in 0..MaxValue /\ d.bbs[n] \in 0..MaxBlock
  BY <1>1, SeqElements
<1>5. /\ A \in Seq(0..MaxValue) /\ Len(A) = K /\ DOMAIN A = 1..K
      /\ B \in Seq(0..MaxBlock) /\ Len(B) = K /\ DOMAIN B = 1..K
  <2>1. A \in [1..K -> 0..MaxValue] /\ B \in [1..K -> 0..MaxBlock]
    BY <1>3, <1>4
  <2> HIDE DEF A, B, K
  <2>2. /\ A \in Seq(0..MaxValue) /\ Len(A) = K
        /\ B \in Seq(0..MaxBlock) /\ Len(B) = K
    BY <1>2, <2>1, FunctionIsSeq
  <2> QED BY <2>1, <2>2
<1>6. DropWays(d, b) = [kind |-> d.kind, args |-> A, bbs |-> B]
  BY DEF DropWays
<1> HIDE DEF A, B, K
<1>7. DropWays(d, b) \in InstData
  BY <1>1, <1>5, <1>6 DEF InstData
<1>8. /\ \A n \in DOMAIN A : A[n] \in Operands(d)
      /\ \A n \in DOMAIN B : B[n] \in Targets(d)
  BY <1>3, <1>4, <1>5 DEF A, B, Operands, Targets
<1> QED BY <1>5, <1>6, <1>7, <1>8 DEF Operands, Targets

-----------------------------------------------------------------------------
(* Use lists.                                                              *)

ValueTable == [0..MaxValue -> SUBSET Insts]
BlockTable == [0..MaxBlock -> SUBSET Insts]

(* The use lists U cover the instructions D.                               *)
ValuesCovered(D, U) == \A i \in Insts : \A v \in Operands(D[i]) : i \in U[v]
BlocksCovered(D, U) == \A i \in Insts : \A b \in Targets(D[i]) : i \in U[b]

(* update_uses restores the cover of the instructions it is called for.    *)
LEMMA ValueUsesRegistered ==
  ASSUME NEW D \in InstTable, NEW U \in ValueTable, NEW I \in SUBSET Insts,
         \A i \in Insts \ I : \A v \in Operands(D[i]) : i \in U[v]
  PROVE  /\ WithValueUses(U, D, I) \in ValueTable
         /\ ValuesCovered(D, WithValueUses(U, D, I))
<1>1. \A i \in Insts : Operands(D[i]) \subseteq 0..MaxValue
  BY DataTyped DEF InstTable
<1>2. WithValueUses(U, D, I) \in ValueTable
  BY DEF ValueTable, WithValueUses
<1> QED BY <1>1, <1>2 DEF ValueTable, WithValueUses, ValuesCovered

LEMMA BlockUsesRegistered ==
  ASSUME NEW D \in InstTable, NEW U \in BlockTable, NEW I \in SUBSET Insts,
         \A i \in Insts \ I : \A b \in Targets(D[i]) : i \in U[b]
  PROVE  /\ WithBlockUses(U, D, I) \in BlockTable
         /\ BlocksCovered(D, WithBlockUses(U, D, I))
<1>1. \A i \in Insts : Targets(D[i]) \subseteq 0..MaxBlock
  BY DataTyped DEF InstTable
<1>2. WithBlockUses(U, D, I) \in BlockTable
  BY DEF BlockTable, WithBlockUses
<1> QED BY <1>1, <1>2 DEF BlockTable, WithBlockUses, BlocksCovered

(* remove_uses of the instructions in I keeps the cover of all others.     *)
LEMMA UsesUnregistered ==
  ASSUME NEW D \in InstTable, NEW I \in SUBSET Insts,
         NEW U \in ValueTable, NEW W \in BlockTable,
         ValuesCovered(D, U), BlocksCovered(D, W)
  PROVE  /\ WithoutValueUses(U, D, I) \in ValueTable
         /\ WithoutBlockUses(W, D, I) \in BlockTable
         /\ \A i \in Insts \ I : /\ \A v \in Operands(D[i]) : i \in WithoutValueUses(U, D, I)[v]
                                 /\ \A b \in Targets(D[i]) : i \in WithoutBlockUses(W, D, I)[b]
<1>1. \A i \in Insts : /\ Operands(D[i]) \subseteq 0..MaxValue
                       /\ Targets(D[i]) \subseteq 0..MaxBlock
  BY DataTyped DEF InstTable
<1>2. /\ WithoutValueUses(U, D, I) \in ValueTable
      /\ WithoutBlockUses(W, D, I) \in BlockTable
  BY DEF ValueTable, BlockTable, WithoutValueUses, WithoutBlockUses
<1>3. \A i \in Insts \ I : \A v \in Operands(D[i]) : i \in WithoutValueUses(U, D, I)[v]
  BY <1>1 DEF ValueTable, WithoutValueUses, ValuesCovered
<1>4. \A i \in Insts \ I : \A b \in Targets(D[i]) : i \in WithoutBlockUses(W, D, I)[b]
  BY <1>1 DEF BlockTable, WithoutBlockUses, BlocksCovered
<1> QED BY <1>2, <1>3, <1>4

-----------------------------------------------------------------------------
(* The inductive invariant. Its parts need each other: a value may only be *)
(* removed because its use list is complete, its id may only be handed out *)
(* again because nobody reads a value that is not live, the right result   *)
(* is removed because results and values are inverse, and a way that is    *)
(* moved in a phi is there because its values and blocks are paired.       *)
DfgInv == TypeOK /\ UsesComplete /\ NoDanglingOperand /\ ResultsMatch /\ PhisPaired

LEMMA Invariants ==
  ASSUME DfgInv
  PROVE  /\ insts \in InstTable /\ value_uses \in ValueTable /\ block_uses \in BlockTable
         /\ results \in [Insts -> 0..MaxValue]
         /\ values \in [Values -> [kind : {"free", "arg", "placeholder", "inst"},
                                   inst : 0..MaxInst]]
         /\ names \subseteq Values /\ blocks \subseteq Blocks
         /\ home \in [Insts -> 0..MaxBlock] /\ pruning \in Seq(0..MaxInst)
         /\ ValuesCovered(insts, value_uses) /\ BlocksCovered(insts, block_uses)
BY DEF DfgInv, TypeOK, InstTable, InstData, ValueTable, BlockTable, UsesComplete,
       ValuesCovered, BlocksCovered

(* The same for the next state.                                            *)
LEMMA InvariantsKept ==
  ASSUME insts' \in InstTable, value_uses' \in ValueTable, block_uses' \in BlockTable,
         results' \in [Insts -> 0..MaxValue],
         values' \in [Values -> [kind : {"free", "arg", "placeholder", "inst"},
                                 inst : 0..MaxInst]],
         names' \subseteq Values, blocks' \subseteq Blocks,
         home' \in [Insts -> 0..MaxBlock], pruning' \in Seq(0..MaxInst),
         ValuesCovered(insts', value_uses'), BlocksCovered(insts', block_uses'),
         NoDanglingOperand', ResultsMatch', PhisPaired'
  PROVE  DfgInv'
BY DEF DfgInv, TypeOK, InstTable, InstData, ValueTable, BlockTable, UsesComplete,
       ValuesCovered, BlocksCovered

(* The initial tables are empty but for the arguments.                     *)
LEMMA InitInv == Init => DfgInv
<1> SUFFICES ASSUME Init PROVE DfgInv
  OBVIOUS
<1> USE BoundsAssumption
<1>1. \A i \in Insts : Operands(insts[i]) = {} /\ Targets(insts[i]) = {} /\ insts[i] = NoInst
  BY NoInstTyped DEF Init
<1>2. insts \in InstTable
  BY NoInstTyped DEF Init, InstTable
<1>3. TypeOK
  <2>1. pruning \in Seq(0..MaxInst)
    BY DEF Init
  <2>2. values \in [Values -> [kind : {"free", "arg", "placeholder", "inst"}, inst : 0..MaxInst]]
    BY DEF Init, ArgData, NoValueData, Invalid
  <2> QED BY <1>2, <2>1, <2>2 DEF Init, TypeOK, InstTable, InstData, Invalid
<1>4. UsesComplete /\ NoDanglingOperand
  BY <1>1 DEF UsesComplete, NoDanglingOperand
<1>5. ResultsMatch
  <2>1. \A i \in Insts : results[i] = Invalid /\ ~HasResult(insts[i].kind)
    BY <1>1 DEF Init, NoInst, HasResult
  <2>2. \A v \in Values : values[v].kind # "inst"
    BY DEF Init, ArgData, NoValueData
  <2> QED BY <2>1, <2>2 DEF ResultsMatch
<1>6. PhisPaired
  BY <1>1 DEF PhisPaired, NoInst
<1> QED BY <1>3, <1>4, <1>5, <1>6 DEF DfgInv

-----------------------------------------------------------------------------
(* The operations, one by one.                                             *)

(* Operations that leave the data-flow graph alone.                        *)
LEMMA OutsideInv ==
  ASSUME DfgInv, UNCHANGED dfg, names' \subseteq Values, blocks \subseteq blocks',
         blocks' \subseteq Blocks, home' = home, pruning' \in Seq(0..MaxInst)
  PROVE  DfgInv'
BY DEF dfg, DfgInv, TypeOK, UsesComplete, NoDanglingOperand, LiveValues, ResultsMatch,
       PhisPaired

LEMMA ResultsProduced ==
  ASSUME DfgInv, NEW i \in Insts, results[i] # Invalid
  PROVE  /\ results[i] \in Values /\ HasResult(insts[i].kind)
         /\ values[results[i]].kind = "inst" /\ values[results[i]].inst = i
<1>1. values[results[i]] = InstValue(i)
  BY DEF DfgInv, ResultsMatch
<1>2. InstValue(i).kind = "inst" /\ InstValue(i).inst = i
  BY DEF InstValue
<1>3. results[i] \in Values
  BY Invariants, BoundsAssumption DEF Values, Invalid
<1> QED BY <1>1, <1>2, <1>3 DEF DfgInv, ResultsMatch

(* Changing a value that is not a result, to one that is none either.      *)
LEMMA OtherValueChanged ==
  ASSUME ResultsMatch, NEW v \in Values, results \in [Insts -> 0..MaxValue],
         \A i \in Insts : results[i] # v,
         \A w \in Values \ {v} : values'[w] = values[w], values'[v].kind # "inst",
         UNCHANGED <<insts, results>>
  PROVE  ResultsMatch'
<1>1. \A i \in Insts : (results'[i] # Invalid) <=> HasResult(insts'[i].kind)
  BY DEF ResultsMatch
<1>2. \A i \in Insts : results[i] # Invalid => results[i] \in Values \ {v}
  BY BoundsAssumption DEF Values, Invalid
<1>3. \A i \in Insts : results'[i] # Invalid => values'[results'[i]] = InstValue(i)
  BY <1>2 DEF ResultsMatch
<1>4. ASSUME NEW w \in Values, values'[w].kind = "inst"
      PROVE  \E i \in Insts : values'[w] = InstValue(i) /\ results'[i] = w
  <2>1. w # v /\ values'[w] = values[w]
    BY <1>4
  <2>2. PICK i \in Insts : values[w] = InstValue(i) /\ results[i] = w
    BY <1>4, <2>1 DEF ResultsMatch
  <2> QED BY <2>1, <2>2
<1> QED BY <1>1, <1>3, <1>4 DEF ResultsMatch

(* A new placeholder: nobody reads the id it is given.                     *)
LEMMA AddPlaceholderInv ==
  ASSUME DfgInv, AddPlaceholder
  PROVE  DfgInv'
<1> USE Invariants, BoundsAssumption
<1>1. PICK v \in Values : /\ v \notin LiveValues
                          /\ values' = [values EXCEPT ![v] = Placeholder]
                          /\ value_uses' = [value_uses EXCEPT ![v] = {}]
  BY DEF AddPlaceholder, IsNext
<1>2. UNCHANGED <<insts, results, block_uses, names, blocks, home, pruning>>
  BY DEF AddPlaceholder
<1>3. v \in 0..MaxValue /\ v # Invalid /\ \A i \in Insts : v \notin Operands(insts[i])
  BY <1>1 DEF DfgInv, NoDanglingOperand, Values, Invalid
<1>4. Placeholder \in [kind : {"free", "arg", "placeholder", "inst"}, inst : 0..MaxInst]
  BY DEF Placeholder, Invalid
<1>5. values' \in [Values -> [kind : {"free", "arg", "placeholder", "inst"}, inst : 0..MaxInst]]
  BY <1>1, <1>4
<1>6. value_uses' \in ValueTable /\ ValuesCovered(insts, value_uses')
  BY <1>1, <1>3 DEF ValueTable, ValuesCovered
<1>7. LiveValues \subseteq LiveValues'
  BY <1>1 DEF LiveValues, Placeholder
<1>8. NoDanglingOperand'
  BY <1>2, <1>7 DEF DfgInv, NoDanglingOperand
<1>9. ResultsMatch'
  <2>1. values[v].kind = "free"
    BY <1>1 DEF LiveValues
  <2>2. \A i \in Insts : results[i] # v
    BY <1>3, <2>1, ResultsProduced
  <2>3. /\ \A w \in Values \ {v} : values'[w] = values[w]
        /\ values'[v].kind # "inst"
    BY <1>1 DEF Placeholder
  <2> QED BY <1>2, <2>2, <2>3, OtherValueChanged DEF DfgInv
<1>10. PhisPaired'
  BY <1>2 DEF DfgInv, PhisPaired
<1> QED BY <1>2, <1>5, <1>6, <1>8, <1>9, <1>10, InvariantsKept

(* A placeholder that goes was not read: its use list was complete.        *)
LEMMA RemovePlaceholderInv ==
  ASSUME DfgInv, NEW v \in Values, RemovePlaceholder(v)
  PROVE  DfgInv'
<1> USE Invariants, BoundsAssumption
<1>1. /\ values[v] = Placeholder /\ value_uses[v] = {}
      /\ values' = [values EXCEPT ![v] = NoValueData]
      /\ value_uses' = [value_uses EXCEPT ![v] = {}]
      /\ UNCHANGED <<insts, results, block_uses, names, blocks, home, pruning>>
  BY DEF RemovePlaceholder, HasUses
<1>2. v \in 0..MaxValue /\ v # Invalid /\ \A i \in Insts : v \notin Operands(insts[i])
  BY <1>1 DEF ValuesCovered, Values, Invalid
<1>3. NoValueData \in [kind : {"free", "arg", "placeholder", "inst"}, inst : 0..MaxInst]
  BY DEF NoValueData, Invalid
<1>4. values' \in [Values -> [kind : {"free", "arg", "placeholder", "inst"}, inst : 0..MaxInst]]
  BY <1>1, <1>3
<1>5. value_uses' \in ValueTable /\ ValuesCovered(insts, value_uses')
  BY <1>1, <1>2 DEF ValueTable, ValuesCovered
<1>6. LiveValues \ {v} \subseteq LiveValues'
  BY <1>1 DEF LiveValues
<1>7. NoDanglingOperand'
  BY <1>1, <1>2, <1>6 DEF DfgInv, NoDanglingOperand
<1>8. ResultsMatch'
  <2>1. \A i \in Insts : results[i] # v
    BY <1>1, <1>2, ResultsProduced DEF Placeholder
  <2>2. /\ \A w \in Values \ {v} : values'[w] = values[w]
        /\ values'[v].kind # "inst"
    BY <1>1 DEF NoValueData
  <2> QED BY <1>1, <2>1, <2>2, OtherValueChanged DEF DfgInv
<1>9. PhisPaired'
  BY <1>1 DEF DfgInv, PhisPaired
<1> QED BY <1>1, <1>4, <1>5, <1>7, <1>8, <1>9, InvariantsKept

(* What BuildInst may build.                                               *)
LEMMA ShapeBuilt ==
  ASSUME DfgInv, NEW s \in Shapes, NEW a \in [1..s.args -> LiveValues], NEW t \in [1..s.bbs -> blocks]
  PROVE  LET d == [kind |-> s.kind, args |-> a, bbs |-> t]
         IN  /\ d \in InstData /\ d.kind \in Kinds
             /\ Operands(d) \subseteq LiveValues
             /\ d.kind = "phi" => Len(d.args) = Len(d.bbs)
<1> DEFINE d == [kind |-> s.kind, args |-> a, bbs |-> t]
<1>1. s.kind \in Kinds /\ s.args \in Nat /\ s.bbs \in Nat /\ (s.kind = "phi" => s.args = s.bbs)
  BY ShapesAssumption
<1>2. LiveValues \subseteq 0..MaxValue /\ blocks \subseteq 0..MaxBlock
  BY Invariants, BoundsAssumption DEF LiveValues, Values, Blocks
<1>3. a \in [1..s.args -> 0..MaxValue] /\ t \in [1..s.bbs -> 0..MaxBlock]
  BY <1>2
<1>4. /\ a \in Seq(0..MaxValue) /\ Len(a) = s.args
      /\ t \in Seq(0..MaxBlock) /\ Len(t) = s.bbs
  BY <1>1, <1>3, FunctionIsSeq
<1>5. d \in InstData
  BY <1>1, <1>4 DEF InstData
<1>6. Operands(d) \subseteq LiveValues
  BY DEF Operands
<1> QED BY <1>1, <1>4, <1>5, <1>6

(* A new instruction: its id is free, and so is the id of its result,      *)
(* which therefore nobody reads and which is nobody else's result.         *)
LEMMA BuildInv ==
  ASSUME DfgInv, NEW d \in InstData, d.kind \in Kinds, Operands(d) \subseteq LiveValues,
         d.kind = "phi" => Len(d.args) = Len(d.bbs),
         NEW i \in Insts, NEW v \in 0..MaxValue, NEW b \in blocks, Build(d, i, v, b)
  PROVE  DfgInv'
<1> USE Invariants, BoundsAssumption
<1>1. /\ i \notin LiveInsts
      /\ insts' = [insts EXCEPT ![i] = d]
      /\ block_uses' = WithBlockUses(block_uses, insts', {i})
      /\ home' = [home EXCEPT ![i] = b]
      /\ UNCHANGED <<names, blocks, pruning>>
  BY DEF Build, IsNext
<1>2. insts' \in InstTable /\ \A j \in Insts \ {i} : insts'[j] = insts[j]
  BY <1>1 DEF InstTable
<1>3. insts'[i] = d
  BY <1>1 DEF InstTable
<1>4. home' \in [Insts -> 0..MaxBlock]
  BY <1>1 DEF Blocks
<1>5. block_uses' \in BlockTable /\ BlocksCovered(insts', block_uses')
  <2>1. \A j \in Insts \ {i} : \A c \in Targets(insts'[j]) : j \in block_uses[c]
    BY <1>2 DEF BlocksCovered
  <2> QED BY <1>1, <1>2, <2>1, BlockUsesRegistered
<1>6. PhisPaired'
  BY <1>2, <1>3 DEF DfgInv, PhisPaired
<1>7. insts[i].kind = "free" /\ ~HasResult(insts[i].kind)
  BY <1>1 DEF LiveInsts, Live, HasResult
<1>8. results[i] = Invalid
  BY <1>7 DEF DfgInv, ResultsMatch
<1>9. CASE HasResult(d.kind)
  <2>1. /\ v \in Values /\ v \notin LiveValues
        /\ values' = [values EXCEPT ![v] = InstValue(i)]
        /\ results' = [results EXCEPT ![i] = v]
        /\ value_uses' = WithValueUses([value_uses EXCEPT ![v] = {}], insts', {i})
    BY <1>9 DEF Build, IsNext
  <2>2. v # Invalid /\ \A j \in Insts : v \notin Operands(insts[j])
    BY <2>1 DEF DfgInv, NoDanglingOperand, Values, Invalid
  <2>3. InstValue(i) \in [kind : {"free", "arg", "placeholder", "inst"}, inst : 0..MaxInst]
    BY DEF InstValue, Insts
  <2>4. values' \in [Values -> [kind : {"free", "arg", "placeholder", "inst"}, inst : 0..MaxInst]]
    BY <2>1, <2>3
  <2>5. results' \in [Insts -> 0..MaxValue]
    BY <2>1
  <2>6. value_uses' \in ValueTable /\ ValuesCovered(insts', value_uses')
    <3> DEFINE U == [value_uses EXCEPT ![v] = {}]
    <3>1. U \in ValueTable
      BY DEF ValueTable
    <3>2. \A j \in Insts \ {i} : \A w \in Operands(insts'[j]) : w # v /\ j \in value_uses[w]
      BY <1>2, <2>2 DEF ValuesCovered
    <3>3. \A j \in Insts \ {i} : \A w \in Operands(insts'[j]) : j \in U[w]
      <4>1. \A j \in Insts : Operands(insts'[j]) \subseteq 0..MaxValue
        BY <1>2, DataTyped DEF InstTable
      <4> QED BY <3>2, <4>1 DEF ValueTable
    <3> HIDE DEF U
    <3> QED BY <1>2, <2>1, <3>1, <3>3, ValueUsesRegistered DEF U
  <2>7. LiveValues \subseteq LiveValues'
    BY <2>1 DEF LiveValues, InstValue
  <2>8. NoDanglingOperand'
    BY <1>2, <1>3, <2>7 DEF DfgInv, NoDanglingOperand
  <2>9. ResultsMatch'
    <3>1. \A w \in Values \ {v} : values'[w] = values[w]
      BY <2>1
    <3>2. values'[v] = InstValue(i) /\ results'[i] = v
      BY <2>1
    <3>3. \A j \in Insts \ {i} : results'[j] = results[j]
      BY <2>1
    <3>4. \A j \in Insts : (results'[j] # Invalid) <=> HasResult(insts'[j].kind)
      BY <1>2, <1>3, <1>9, <2>2, <3>2, <3>3 DEF DfgInv, ResultsMatch
    <3>5. \A j \in Insts : results'[j] # Invalid => values'[results'[j]] = InstValue(j)
      <4>1. ASSUME NEW j \in Insts \ {i}, results[j] # Invalid
            PROVE  values[results[j]] = InstValue(j) /\ results[j] \in Values \ {v}
        <5>1. values[v].kind = "free"
          BY <2>1 DEF LiveValues
        <5> QED BY <4>1, <5>1, ResultsProduced DEF DfgInv, ResultsMatch
      <4> QED BY <3>1, <3>2, <3>3, <4>1
    <3>6. ASSUME NEW w \in Values, values'[w].kind = "inst"
          PROVE  \E j \in Insts : values'[w] = InstValue(j) /\ results'[j] = w
      <4>1. CASE w = v
        BY <3>2, <4>1
      <4>2. CASE w # v
        <5>1. values[w] = values'[w]
          BY <3>1, <4>2
        <5>2. PICK j \in Insts : values[w] = InstValue(j) /\ results[j] = w
          BY <3>6, <5>1 DEF DfgInv, ResultsMatch
        <5>3. j # i
          BY <1>8, <5>2 DEF Values, Invalid
        <5> QED BY <3>3, <5>1, <5>2, <5>3
      <4> QED BY <4>1, <4>2
    <3> QED BY <3>4, <3>5, <3>6 DEF ResultsMatch
  <2> QED BY <1>1, <1>2, <1>4, <1>5, <1>6, <2>4, <2>5, <2>6, <2>8, <2>9, InvariantsKept
<1>10. CASE ~HasResult(d.kind)
  <2>1. /\ value_uses' = WithValueUses(value_uses, insts', {i})
        /\ UNCHANGED <<values, results>>
    BY <1>10 DEF Build
  <2>2. value_uses' \in ValueTable /\ ValuesCovered(insts', value_uses')
    <3>1. \A j \in Insts \ {i} : \A w \in Operands(insts'[j]) : j \in value_uses[w]
      BY <1>2 DEF ValuesCovered
    <3> QED BY <1>2, <2>1, <3>1, ValueUsesRegistered
  <2>3. LiveValues' = LiveValues
    BY <2>1 DEF LiveValues
  <2>4. NoDanglingOperand'
    BY <1>2, <1>3, <2>3 DEF DfgInv, NoDanglingOperand
  <2>5. ResultsMatch'
    <3>1. \A j \in Insts : HasResult(insts'[j].kind) <=> HasResult(insts[j].kind)
      BY <1>2, <1>3, <1>7, <1>10
    <3> QED BY <2>1, <3>1 DEF DfgInv, ResultsMatch
  <2> QED BY <1>1, <1>2, <1>4, <1>5, <1>6, <2>1, <2>2, <2>4, <2>5, InvariantsKept
<1> QED BY <1>9, <1>10

(* Removing an instruction whose result is not in use: as the use list is  *)
(* complete, nobody reads the result, and as results and values are        *)
(* inverse, no other instruction loses its own.                            *)
LEMMA RemoveInv ==
  ASSUME DfgInv, NEW i \in Insts, RemoveInstDfg(i),
         UNCHANGED <<names, blocks>>,
         home' \in [Insts -> 0..MaxBlock], pruning' \in Seq(0..MaxInst)
  PROVE  DfgInv'
<1> USE Invariants, BoundsAssumption
<1> DEFINE r == results[i]
           U == Cleared(value_uses, {r} \ {Invalid}, {})
<1>1. /\ r # Invalid => value_uses[r] = {}
      /\ insts' = [insts EXCEPT ![i] = NoInst]
      /\ results' = [results EXCEPT ![i] = Invalid]
      /\ values' = Cleared(values, {r}, NoValueData)
      /\ value_uses' = WithoutValueUses(U, insts, {i})
      /\ block_uses' = WithoutBlockUses(block_uses, insts, {i})
  BY DEF RemoveInstDfg, HasUses
<1>2. r \in 0..MaxValue
  OBVIOUS
<1>3. insts' \in InstTable /\ insts'[i] = NoInst /\ \A j \in Insts \ {i} : insts'[j] = insts[j]
  BY <1>1, NoInstTyped DEF InstTable
<1>4. \A j \in Insts : r = Invalid \/ r \notin Operands(insts[j])
  BY <1>1 DEF ValuesCovered
<1>5. U \in ValueTable /\ ValuesCovered(insts, U)
  <2>1. \A v \in 0..MaxValue : U[v] = IF v = r /\ r # Invalid THEN {} ELSE value_uses[v]
    BY DEF Cleared, ValueTable
  <2>2. U \in ValueTable
    BY <2>1 DEF Cleared, ValueTable
  <2>3. \A j \in Insts : Operands(insts[j]) \subseteq 0..MaxValue
    BY DataTyped DEF InstTable
  <2>4. \A j \in Insts : \A v \in Operands(insts[j]) : j \in value_uses[v]
    BY <1>1 DEF ValuesCovered
  <2> HIDE DEF U, r
  <2>5. ASSUME NEW j \in Insts, NEW v \in Operands(insts[j]) PROVE j \in U[v]
    <3>1. v \in 0..MaxValue /\ j \in value_uses[v]
      BY ONLY <2>3, <2>4, <2>5
    <3>2. ~(v = r /\ r # Invalid)
      BY ONLY <1>4, <2>5
    <3> QED BY ONLY <2>1, <3>1, <3>2
  <2> QED BY <2>2, <2>5 DEF ValuesCovered
<1> HIDE DEF U
<1>6. /\ value_uses' \in ValueTable /\ block_uses' \in BlockTable
      /\ \A j \in Insts \ {i} : /\ \A v \in Operands(insts[j]) : j \in value_uses'[v]
                              /\ \A b \in Targets(insts[j]) : j \in block_uses'[b]
  BY <1>1, <1>5, UsesUnregistered
<1>7. ValuesCovered(insts', value_uses') /\ BlocksCovered(insts', block_uses')
  <2>1. /\ \A v \in Operands(insts'[i]) : i \in value_uses'[v]
        /\ \A b \in Targets(insts'[i]) : i \in block_uses'[b]
    BY <1>3, NoInstTyped
  <2> QED BY <1>3, <1>6, <2>1 DEF ValuesCovered, BlocksCovered
<1>8. /\ results' \in [Insts -> 0..MaxValue]
      /\ values' \in [Values -> [kind : {"free", "arg", "placeholder", "inst"}, inst : 0..MaxInst]]
  <2>1. NoValueData \in [kind : {"free", "arg", "placeholder", "inst"}, inst : 0..MaxInst]
    BY DEF NoValueData, Invalid
  <2> QED BY <1>1, <2>1 DEF Cleared, Invalid
<1>9. /\ \A v \in Values \ {r} : values'[v] = values[v]
      /\ r \in Values => values'[r].kind # "inst"
  BY <1>1 DEF Cleared, NoValueData
<1>0. r = results[i]
  OBVIOUS
<1> HIDE DEF r
<1>10. NoDanglingOperand'
  <2>1. ASSUME NEW j \in Insts, NEW v \in Operands(insts'[j]) PROVE v \in LiveValues' \cup {Invalid}
    <3>1. j # i /\ insts'[j] = insts[j]
      BY <1>3, NoInstTyped
    <3>2. v \in LiveValues \cup {Invalid}
      BY <3>1 DEF DfgInv, NoDanglingOperand
    <3>3. CASE v = Invalid
      BY <3>3
    <3>4. CASE v # Invalid
      <4>1. v # r
        BY <1>4, <3>1, <3>4
      <4>2. v \in Values /\ values[v].kind # "free" /\ values'[v] = values[v]
        BY <1>9, <3>2, <3>4, <4>1 DEF LiveValues
      <4> QED BY <4>2 DEF LiveValues
    <3> QED BY <3>3, <3>4
  <2> QED BY <2>1 DEF NoDanglingOperand
<1>11. ResultsMatch'
  <2>1. results'[i] = Invalid /\ \A j \in Insts \ {i} : results'[j] = results[j]
    BY <1>1
  <2>2. \A j \in Insts : (results'[j] # Invalid) <=> HasResult(insts'[j].kind)
    <3>1. ~HasResult(insts'[i].kind)
      BY <1>3 DEF NoInst, HasResult
    <3>2. \A j \in Insts : (results[j] # Invalid) <=> HasResult(insts[j].kind)
      BY DEF DfgInv, ResultsMatch
    <3>3. ASSUME NEW j \in Insts PROVE (results'[j] # Invalid) <=> HasResult(insts'[j].kind)
      <4>1. CASE j = i
        BY ONLY <2>1, <3>1, <4>1
      <4>2. CASE j # i
        <5>1. insts'[j] = insts[j] /\ results'[j] = results[j]
          BY ONLY <1>3, <2>1, <4>2, <3>3
        <5> QED BY ONLY <3>2, <3>3, <5>1
      <4> QED BY <4>1, <4>2
    <3> QED BY <3>3
  <2>3. ASSUME NEW j \in Insts \ {i}, results[j] # Invalid
        PROVE  results[j] \in Values /\ results[j] # r /\ values[results[j]] = InstValue(j)
    <3>1. r = results[j] => j = i
      BY <1>0, <2>3, ResultsProduced
    <3> QED BY <2>3, <3>1, ResultsProduced DEF DfgInv, ResultsMatch
  <2>4. \A j \in Insts : results'[j] # Invalid => values'[results'[j]] = InstValue(j)
    <3>1. ASSUME NEW j \in Insts, results'[j] # Invalid
          PROVE  values'[results'[j]] = InstValue(j)
      <4>1. j # i /\ results'[j] = results[j] /\ results[j] # Invalid
        BY <2>1, <3>1
      <4>2. results[j] \in Values /\ results[j] # r /\ values[results[j]] = InstValue(j)
        BY <2>3, <4>1
      <4> QED BY <1>9, <4>1, <4>2
    <3> QED BY <3>1
  <2>5. ASSUME NEW w \in Values, values'[w].kind = "inst"
        PROVE  \E j \in Insts : values'[w] = InstValue(j) /\ results'[j] = w
    <3>1. w # r /\ values'[w] = values[w]
      BY <1>9, <2>5
    <3>2. PICK j \in Insts : values[w] = InstValue(j) /\ results[j] = w
      BY <2>5, <3>1 DEF DfgInv, ResultsMatch
    <3>3. j # i
      BY <1>0, <3>1, <3>2
    <3> QED BY <2>1, <3>1, <3>2, <3>3
  <2> QED BY <2>2, <2>4, <2>5 DEF ResultsMatch
<1>12. PhisPaired'
  <2>1. insts'[i].kind # "phi"
    BY <1>3 DEF NoInst
  <2> QED BY <1>3, <2>1 DEF DfgInv, PhisPaired
<1> QED BY <1>3, <1>6, <1>7, <1>8, <1>10, <1>11, <1>12, InvariantsKept

LEMMA DeleteInstInv ==
  ASSUME DfgInv, NEW i \in Insts, DeleteInst(i)
  PROVE  DfgInv'
<1>1. /\ RemoveInstDfg(i) /\ UNCHANGED <<names, blocks, pruning>>
      /\ home' = [home EXCEPT ![i] = Invalid]
  BY DEF DeleteInst
<1>2. home' \in [Insts -> 0..MaxBlock] /\ pruning' \in Seq(0..MaxInst)
  BY <1>1, Invariants, BoundsAssumption DEF Invalid
<1> QED BY <1>1, <1>2, RemoveInv

(* A call of prune_if_unused removes an instruction or does nothing.       *)
LEMMA PruneInv ==
  ASSUME DfgInv, Prune
  PROVE  DfgInv'
<1> DEFINE i == Head(pruning)
<1>1. /\ pruning \in Seq(0..MaxInst) /\ pruning # <<>>
      /\ i \in 0..MaxInst /\ Tail(pruning) \in Seq(0..MaxInst)
  <2>1. pruning \in Seq(0..MaxInst) /\ pruning # <<>>
    BY Invariants DEF Prune
  <2> QED BY <2>1, SeqOperations
<1>2. UNCHANGED <<names, blocks>>
  BY DEF Prune
<1>3. CASE i # Invalid /\ HasResult(insts[i].kind) /\ ~HasUses(results[i])
  <2>1. /\ Invalid \notin Operands(insts[i]) /\ RemoveInstDfg(i)
        /\ home' = [home EXCEPT ![i] = Invalid]
        /\ pruning' = Producers(i) \o Tail(pruning)
    BY <1>3 DEF Prune
  <2>2. i \in Insts
    BY <1>1, <1>3, BoundsAssumption DEF Insts, Invalid
  <2>3. Producers(i) \in Seq(0..MaxInst)
    <3>1. insts[i].args \in Seq(0..MaxValue)
      BY <2>2, Invariants, DataTyped DEF InstTable
    <3>2. DOMAIN insts[i].args = 1..Len(insts[i].args) /\ Len(insts[i].args) \in Nat
      BY <3>1, SeqElements
    <3>3. \A n \in DOMAIN insts[i].args : insts[i].args[n] \in Values
      <4>1. Operands(insts[i]) \subseteq LiveValues
        BY <2>1, <2>2 DEF DfgInv, NoDanglingOperand
      <4> QED BY <4>1 DEF Operands, LiveValues
    <3>4. Producers(i) \in [1..Len(insts[i].args) -> 0..MaxInst]
      BY <3>2, <3>3, Invariants DEF Producers
    <3> QED BY <3>2, <3>4, FunctionIsSeq
  <2>4. pruning' \in Seq(0..MaxInst)
    BY <1>1, <2>1, <2>3, SeqOperations
  <2> HIDE DEF i
  <2>5. home' \in [Insts -> 0..MaxBlock]
    BY <2>1, <2>2, Invariants, BoundsAssumption DEF Invalid
  <2> QED BY <1>2, <2>1, <2>2, <2>4, <2>5, RemoveInv
<1>4. CASE ~(i # Invalid /\ HasResult(insts[i].kind) /\ ~HasUses(results[i]))
  <2>1. pruning' = Tail(pruning) /\ UNCHANGED <<dfg, home>>
    BY <1>4 DEF Prune
  <2> QED BY <1>1, <1>2, <2>1, OutsideInv, Invariants
<1> QED BY <1>3, <1>4

(* An instruction with other operands, or with other blocks.               *)
ArgsSet(d, from, to) == [kind |-> d.kind, args |-> Subst(d.args, from, to), bbs |-> d.bbs]
BbsSet(d, from, to)  == [kind |-> d.kind, args |-> d.args, bbs |-> Subst(d.bbs, from, to)]

(* Instructions rewritten in place.                                        *)
LEMMA RewrittenInv ==
  ASSUME DfgInv, insts' \in InstTable, value_uses' \in ValueTable, block_uses' \in BlockTable,
         \A j \in Insts : /\ insts'[j].kind = insts[j].kind
                          /\ Operands(insts'[j]) \subseteq LiveValues \cup {Invalid},
         PhisPaired',
         ValuesCovered(insts', value_uses'), BlocksCovered(insts', block_uses'),
         UNCHANGED <<results, values, names, blocks, home, pruning>>
  PROVE  DfgInv'
<1>1. NoDanglingOperand'
  BY DEF NoDanglingOperand, LiveValues
<1>2. ResultsMatch'
  BY DEF DfgInv, ResultsMatch
<1> QED BY <1>1, <1>2, Invariants, InvariantsKept

LEMMA ArgsSubstituted ==
  ASSUME NEW d \in InstData, NEW from, NEW to \in ValueIds
  PROVE  /\ ArgsSet(d, from, to) \in InstData
         /\ ArgsSet(d, from, to).kind = d.kind
         /\ Len(ArgsSet(d, from, to).args) = Len(d.args)
         /\ Len(ArgsSet(d, from, to).bbs) = Len(d.bbs)
         /\ Targets(ArgsSet(d, from, to)) = Targets(d)
         /\ Operands(ArgsSet(d, from, to)) \subseteq Operands(d) \cup {to}
<1> DEFINE e == ArgsSet(d, from, to)
           A == Subst(d.args, from, to)
<1>1. d.kind \in Kinds \cup {"free"} /\ d.args \in Seq(0..MaxValue) /\ d.bbs \in Seq(0..MaxBlock)
  BY DataTyped
<1>2. /\ A \in Seq(0..MaxValue) /\ Len(A) = Len(d.args)
      /\ DOMAIN A = DOMAIN d.args
      /\ \A n \in DOMAIN d.args : A[n] = to \/ A[n] = d.args[n]
  <2> DEFINE s == d.args
             S == 0..MaxValue
  <2>1. s \in Seq(S) /\ to \in S
    BY <1>1 DEF ValueIds
  <2> HIDE DEF s, S
  <2>2. /\ Subst(s, from, to) \in Seq(S)
        /\ DOMAIN Subst(s, from, to) = DOMAIN s
        /\ Len(Subst(s, from, to)) = Len(s)
        /\ \A n \in DOMAIN s : /\ s[n] = from => Subst(s, from, to)[n] = to
                               /\ s[n] # from => Subst(s, from, to)[n] = s[n]
    BY <2>1, SubstTyped
  <2> QED BY <2>2 DEF s, S
<1> HIDE DEF A
<1>3. e = [kind |-> d.kind, args |-> A, bbs |-> d.bbs]
  BY DEF InstData, A, ArgsSet
<1> HIDE DEF e
<1>4. e.kind = d.kind /\ e.args = A /\ e.bbs = d.bbs
  BY <1>3
<1>5. e \in InstData
  BY <1>1, <1>2, <1>3 DEF InstData
<1>6. Targets(e) = Targets(d) /\ Operands(e) \subseteq Operands(d) \cup {to}
  BY <1>2, <1>4 DEF Targets, Operands
<1> QED BY <1>2, <1>4, <1>5, <1>6 DEF e

LEMMA BlocksSubstituted ==
  ASSUME NEW d \in InstData, NEW from, NEW to \in BlockIds
  PROVE  /\ BbsSet(d, from, to) \in InstData
         /\ BbsSet(d, from, to).kind = d.kind
         /\ Len(BbsSet(d, from, to).args) = Len(d.args)
         /\ Len(BbsSet(d, from, to).bbs) = Len(d.bbs)
         /\ Operands(BbsSet(d, from, to)) = Operands(d)
         /\ Targets(BbsSet(d, from, to)) \subseteq Targets(d) \cup {to}
<1> DEFINE e == BbsSet(d, from, to)
           B == Subst(d.bbs, from, to)
<1>1. d.kind \in Kinds \cup {"free"} /\ d.args \in Seq(0..MaxValue) /\ d.bbs \in Seq(0..MaxBlock)
  BY DataTyped
<1>2. /\ B \in Seq(0..MaxBlock) /\ Len(B) = Len(d.bbs)
      /\ DOMAIN B = DOMAIN d.bbs
      /\ \A n \in DOMAIN d.bbs : B[n] = to \/ B[n] = d.bbs[n]
  <2> DEFINE s == d.bbs
             S == 0..MaxBlock
  <2>1. s \in Seq(S) /\ to \in S
    BY <1>1 DEF BlockIds
  <2> HIDE DEF s, S
  <2>2. /\ Subst(s, from, to) \in Seq(S)
        /\ DOMAIN Subst(s, from, to) = DOMAIN s
        /\ Len(Subst(s, from, to)) = Len(s)
        /\ \A n \in DOMAIN s : /\ s[n] = from => Subst(s, from, to)[n] = to
                               /\ s[n] # from => Subst(s, from, to)[n] = s[n]
    BY <2>1, SubstTyped
  <2> QED BY <2>2 DEF s, S
<1> HIDE DEF B
<1>3. e = [kind |-> d.kind, args |-> d.args, bbs |-> B]
  BY DEF InstData, B, BbsSet
<1> HIDE DEF e
<1>4. e.kind = d.kind /\ e.bbs = B /\ e.args = d.args
  BY <1>3
<1>5. e \in InstData
  BY <1>1, <1>2, <1>3 DEF InstData
<1>6. Operands(e) = Operands(d) /\ Targets(e) \subseteq Targets(d) \cup {to}
  BY <1>2, <1>4 DEF Targets, Operands
<1> QED BY <1>2, <1>4, <1>5, <1>6 DEF e

(* Replacing a value by a live one in some instructions.                   *)
LEMMA ReplaceValueInv ==
  ASSUME DfgInv, NEW from \in LiveValues, NEW to \in LiveValues, NEW I \in SUBSET Insts,
         ReplaceValue(from, to, I)
  PROVE  DfgInv'
<1> USE Invariants, BoundsAssumption
<1>1. /\ insts' = ArgsReplaced(I, from, to)
      /\ value_uses' = WithValueUses([value_uses EXCEPT ![from] = @ \ I], insts', I)
      /\ block_uses' = WithBlockUses(block_uses, insts', I)
      /\ UNCHANGED <<results, values, names, blocks, home, pruning>>
  BY DEF ReplaceValue
<1>2. from \in ValueIds /\ to \in ValueIds
  BY DEF LiveValues, Values, ValueIds
<1>3. \A j \in Insts : insts[j] \in InstData
  BY DEF InstTable
<1>4. ASSUME NEW j \in Insts
      PROVE  /\ insts'[j] \in InstData /\ insts'[j].kind = insts[j].kind
             /\ Len(insts'[j].args) = Len(insts[j].args) /\ Len(insts'[j].bbs) = Len(insts[j].bbs)
             /\ Operands(insts'[j]) \subseteq Operands(insts[j]) \cup {to}
             /\ j \notin I => insts'[j] = insts[j]
  <2>1. CASE j \in I
    <3>1. insts'[j] = ArgsSet(insts[j], from, to)
      BY <1>1, <1>3, <2>1 DEF ArgsReplaced, InstData, ArgsSet
    <3> QED BY SMTT(30), <1>2, <1>3, <2>1, <3>1, ArgsSubstituted
  <2>2. CASE j \notin I
    <3>1. insts'[j] = insts[j]
      BY <1>1, <2>2 DEF ArgsReplaced
    <3> QED BY <1>3, <2>2, <3>1
  <2> QED BY <2>1, <2>2
<1>5. insts' \in InstTable
  <2>1. insts' = [j \in Insts |-> insts'[j]]
    BY <1>1 DEF ArgsReplaced
  <2> QED BY <1>4, <2>1 DEF InstTable
<1>6. value_uses' \in ValueTable /\ ValuesCovered(insts', value_uses')
  <2> DEFINE U == [value_uses EXCEPT ![from] = @ \ I]
  <2>1. U \in ValueTable /\ \A v \in 0..MaxValue : value_uses[v] \ I \subseteq U[v]
    BY DEF ValueTable
  <2>2. \A j \in Insts \ I : \A v \in Operands(insts'[j]) : v \in 0..MaxValue /\ j \in value_uses[v]
    BY <1>3, <1>4, DataTyped DEF ValuesCovered
  <2>3. \A j \in Insts \ I : \A v \in Operands(insts'[j]) : j \in U[v]
    BY <2>1, <2>2
  <2> HIDE DEF U
  <2> QED BY <1>1, <1>5, <2>1, <2>3, ValueUsesRegistered DEF U
<1>7. block_uses' \in BlockTable /\ BlocksCovered(insts', block_uses')
  <2>1. \A j \in Insts \ I : \A b \in Targets(insts'[j]) : j \in block_uses[b]
    BY <1>4 DEF BlocksCovered
  <2> QED BY <1>1, <1>5, <2>1, BlockUsesRegistered
<1>8. \A j \in Insts : Operands(insts'[j]) \subseteq LiveValues \cup {Invalid}
  BY <1>4 DEF DfgInv, NoDanglingOperand
<1>9. PhisPaired'
  BY <1>4 DEF DfgInv, PhisPaired
<1> QED BY <1>1, <1>4, <1>5, <1>6, <1>7, <1>8, <1>9, RewrittenInv

LEMMA ReplaceBlockInv ==
  ASSUME DfgInv, NEW from \in blocks, NEW to \in blocks, NEW I \in SUBSET Insts,
         ReplaceBlock(from, to, I)
  PROVE  DfgInv'
<1> USE Invariants, BoundsAssumption
<1>1. /\ insts' = BlocksReplaced(I, from, to)
      /\ block_uses' = WithBlockUses([block_uses EXCEPT ![from] = @ \ I], insts', I)
      /\ value_uses' = WithValueUses(value_uses, insts', I)
      /\ UNCHANGED <<results, values, names, blocks, home, pruning>>
  BY DEF ReplaceBlock
<1>2. from \in BlockIds /\ to \in BlockIds
  BY DEF Blocks, BlockIds
<1>3. \A j \in Insts : insts[j] \in InstData
  BY DEF InstTable
<1>4. ASSUME NEW j \in Insts
      PROVE  /\ insts'[j] \in InstData /\ insts'[j].kind = insts[j].kind
             /\ Len(insts'[j].args) = Len(insts[j].args) /\ Len(insts'[j].bbs) = Len(insts[j].bbs)
             /\ Operands(insts'[j]) = Operands(insts[j])
             /\ j \notin I => insts'[j] = insts[j]
  <2>1. CASE j \in I
    <3>1. insts'[j] = BbsSet(insts[j], from, to)
      BY <1>1, <1>3, <2>1 DEF BlocksReplaced, InstData, BbsSet
    <3> QED BY <1>2, <1>3, <2>1, <3>1, BlocksSubstituted
  <2>2. CASE j \notin I
    <3>1. insts'[j] = insts[j]
      BY <1>1, <2>2 DEF BlocksReplaced
    <3> QED BY <1>3, <2>2, <3>1
  <2> QED BY <2>1, <2>2
<1>5. insts' \in InstTable
  <2>1. insts' = [j \in Insts |-> insts'[j]]
    BY <1>1 DEF BlocksReplaced
  <2> QED BY <1>4, <2>1 DEF InstTable
<1>6. block_uses' \in BlockTable /\ BlocksCovered(insts', block_uses')
  <2> DEFINE U == [block_uses EXCEPT ![from] = @ \ I]
  <2>1. U \in BlockTable /\ \A b \in 0..MaxBlock : block_uses[b] \ I \subseteq U[b]
    BY DEF BlockTable
  <2>2. \A j \in Insts \ I : \A b \in Targets(insts'[j]) : b \in 0..MaxBlock /\ j \in block_uses[b]
    BY <1>3, <1>4, DataTyped DEF BlocksCovered
  <2>3. \A j \in Insts \ I : \A b \in Targets(insts'[j]) : j \in U[b]
    BY <2>1, <2>2
  <2> HIDE DEF U
  <2> QED BY <1>1, <1>5, <2>1, <2>3, BlockUsesRegistered DEF U
<1>7. value_uses' \in ValueTable /\ ValuesCovered(insts', value_uses')
  <2>1. \A j \in Insts \ I : \A v \in Operands(insts'[j]) : j \in value_uses[v]
    BY <1>4 DEF ValuesCovered
  <2> QED BY <1>1, <1>5, <2>1, ValueUsesRegistered
<1>8. \A j \in Insts : Operands(insts'[j]) \subseteq LiveValues \cup {Invalid}
  BY <1>4 DEF DfgInv, NoDanglingOperand
<1>9. PhisPaired'
  BY <1>4 DEF DfgInv, PhisPaired
<1> QED BY <1>1, <1>4, <1>5, <1>6, <1>7, <1>8, <1>9, RewrittenInv

(* Removing a block from the instructions that name it: a phi loses ways,  *)
(* any other instruction names the invalid block instead.                  *)
LEMMA BlockRemovedTyped ==
  ASSUME DfgInv, NEW b \in Blocks, NEW I \in SUBSET Insts, NEW j \in Insts
  PROVE  /\ BlockRemoved(b, I)[j] \in InstData
         /\ BlockRemoved(b, I)[j].kind = insts[j].kind
         /\ Operands(BlockRemoved(b, I)[j]) \subseteq Operands(insts[j])
         /\ j \notin I => BlockRemoved(b, I)[j] = insts[j]
         /\ insts[j].kind = "phi" =>
              Len(BlockRemoved(b, I)[j].args) = Len(BlockRemoved(b, I)[j].bbs)
<1>1. insts[j] \in InstData
  BY Invariants DEF InstTable
<1>2. insts[j].kind = "phi" => Len(insts[j].args) = Len(insts[j].bbs)
  BY DEF DfgInv, PhisPaired
<1>3. CASE j \notin I
  <2>1. BlockRemoved(b, I)[j] = insts[j]
    BY <1>3 DEF BlockRemoved
  <2> QED BY <1>1, <1>2, <2>1
<1>4. CASE j \in I /\ insts[j].kind = "phi"
  <2>1. BlockRemoved(b, I)[j] = DropWays(insts[j], b)
    BY <1>4 DEF BlockRemoved
  <2> QED BY <1>1, <1>2, <1>4, <2>1, WaysDropped
<1>5. CASE j \in I /\ insts[j].kind # "phi"
  <2>1. BlockRemoved(b, I)[j] = BbsSet(insts[j], b, Invalid)
    BY <1>1, <1>5 DEF BlockRemoved, BbsSet, InstData
  <2>2. b \in BlockIds /\ Invalid \in BlockIds
    BY BoundsAssumption DEF Blocks, BlockIds, Invalid
  <2> QED BY <1>1, <1>5, <2>1, <2>2, BlocksSubstituted
<1> QED BY <1>3, <1>4, <1>5

LEMMA BlockRemovedCovered ==
  ASSUME DfgInv, NEW b \in Blocks, NEW I \in SUBSET Insts,
         NEW D, D = BlockRemoved(b, I),
         NEW V, V = WithValueUses(value_uses, D, I),
         NEW B, B = WithBlockUses([block_uses EXCEPT ![b] = @ \ I], D, I)
  PROVE  /\ D \in InstTable /\ V \in ValueTable /\ B \in BlockTable
         /\ ValuesCovered(D, V) /\ BlocksCovered(D, B)
<1> USE Invariants, BoundsAssumption
<1>1. \A j \in Insts : D[j] \in InstData /\ (j \notin I => D[j] = insts[j])
  BY BlockRemovedTyped
<1>2. D \in InstTable
  <2>1. D = [j \in Insts |-> D[j]]
    BY DEF BlockRemoved
  <2> QED BY <1>1, <2>1 DEF InstTable
<1>3. V \in ValueTable /\ ValuesCovered(D, V)
  <2>1. \A j \in Insts \ I : \A v \in Operands(D[j]) : j \in value_uses[v]
    BY <1>1 DEF ValuesCovered
  <2> QED BY <1>2, <2>1, ValueUsesRegistered
<1>4. B \in BlockTable /\ BlocksCovered(D, B)
  <2> DEFINE U == [block_uses EXCEPT ![b] = @ \ I]
  <2>1. U \in BlockTable /\ \A c \in 0..MaxBlock : block_uses[c] \ I \subseteq U[c]
    BY DEF BlockTable
  <2>2. \A j \in Insts \ I : \A c \in Targets(D[j]) : c \in 0..MaxBlock /\ j \in block_uses[c]
    BY <1>1, DataTyped DEF BlocksCovered
  <2>3. \A j \in Insts \ I : \A c \in Targets(D[j]) : j \in U[c]
    BY <2>1, <2>2
  <2>4. B = WithBlockUses(U, D, I)
    OBVIOUS
  <2>5. U \in BlockTable
    BY <2>1
  <2> HIDE DEF U
  <2>6. WithBlockUses(U, D, I) \in BlockTable /\ BlocksCovered(D, WithBlockUses(U, D, I))
    BY ONLY <1>2, <2>3, <2>5, BlockUsesRegistered
  <2> QED BY ONLY <2>4, <2>6
<1> QED BY <1>2, <1>3, <1>4

LEMMA RemoveBlockUseInv ==
  ASSUME DfgInv, NEW b \in Blocks, RemoveBlockUse(b)
  PROVE  DfgInv'
<1> USE Invariants, BoundsAssumption
<1> DEFINE I == block_uses[b]
<1>1. /\ insts' = BlockRemoved(b, I)
      /\ value_uses' = WithValueUses(value_uses, insts', I)
      /\ block_uses' = WithBlockUses([block_uses EXCEPT ![b] = @ \ I], insts', I)
      /\ UNCHANGED <<results, values, names, blocks, home, pruning>>
  BY DEF RemoveBlockUse
<1>2. I \in SUBSET Insts
  BY DEF BlockTable, Blocks
<1> HIDE DEF I
<1>3. /\ insts' \in InstTable /\ value_uses' \in ValueTable /\ block_uses' \in BlockTable
      /\ ValuesCovered(insts', value_uses') /\ BlocksCovered(insts', block_uses')
  BY <1>1, <1>2, BlockRemovedCovered
<1>4. \A j \in Insts : /\ insts'[j].kind = insts[j].kind
                       /\ Operands(insts'[j]) \subseteq Operands(insts[j])
                       /\ insts[j].kind = "phi" => Len(insts'[j].args) = Len(insts'[j].bbs)
  BY <1>1, <1>2, BlockRemovedTyped
<1>5. \A j \in Insts : Operands(insts'[j]) \subseteq LiveValues \cup {Invalid}
  BY <1>4 DEF DfgInv, NoDanglingOperand
<1>6. PhisPaired'
  BY <1>4 DEF PhisPaired
<1> QED BY <1>1, <1>3, <1>4, <1>5, <1>6, RewrittenInv

(* Value::invalid() for the values in V, in the operands of J.             *)
LEMMA InvalidatedTyped ==
  ASSUME NEW D \in InstTable, NEW J, NEW V, NEW j \in Insts
  PROVE  /\ Invalidated(D, J, V)[j] \in InstData
         /\ Invalidated(D, J, V)[j].kind = D[j].kind
         /\ Len(Invalidated(D, J, V)[j].args) = Len(D[j].args)
         /\ Invalidated(D, J, V)[j].bbs = D[j].bbs
         /\ j \notin J => Invalidated(D, J, V)[j] = D[j]
         /\ j \in J => Operands(Invalidated(D, J, V)[j])
                         \subseteq (Operands(D[j]) \ V) \cup {Invalid}
<1>1. D[j] \in InstData
  BY DEF InstTable
<1>2. CASE j \notin J
  <2>1. Invalidated(D, J, V)[j] = D[j]
    BY <1>2 DEF Invalidated
  <2> QED BY <1>1, <1>2, <2>1
<1>3. CASE j \in J
  <2> DEFINE s == D[j].args
             A == [n \in DOMAIN s |-> IF s[n] \in V THEN Invalid ELSE s[n]]
  <2>1. s \in Seq(0..MaxValue) /\ D[j].kind \in Kinds \cup {"free"} /\ D[j].bbs \in Seq(0..MaxBlock)
    BY <1>1, DataTyped
  <2>2. Invalidated(D, J, V)[j] = [kind |-> D[j].kind, args |-> A, bbs |-> D[j].bbs]
    BY <1>1, <1>3 DEF Invalidated, InstData
  <2>3. DOMAIN s = 1..Len(s) /\ Len(s) \in Nat /\ \A n \in DOMAIN s : s[n] \in 0..MaxValue
    BY <2>1, SeqElements
  <2>4. \A n \in DOMAIN s : s[n] \in Operands(D[j])
    BY DEF Operands
  <2> HIDE DEF s
  <2>5. A \in [1..Len(s) -> 0..MaxValue] /\ DOMAIN A = DOMAIN s
    BY <2>3, BoundsAssumption DEF Invalid
  <2>6. \A n \in DOMAIN A : A[n] \in (Operands(D[j]) \ V) \cup {Invalid}
    BY <2>4
  <2> HIDE DEF A
  <2>7. A \in Seq(0..MaxValue) /\ Len(A) = Len(s)
    BY <2>3, <2>5, FunctionIsSeq
  <2>8. [kind |-> D[j].kind, args |-> A, bbs |-> D[j].bbs] \in InstData
    BY <2>1, <2>7 DEF InstData
  <2>9. /\ Invalidated(D, J, V)[j].kind = D[j].kind
        /\ Invalidated(D, J, V)[j].args = A
        /\ Invalidated(D, J, V)[j].bbs = D[j].bbs
    BY <2>2
  <2>10. Operands(Invalidated(D, J, V)[j]) \subseteq (Operands(D[j]) \ V) \cup {Invalid}
    BY <2>6, <2>9 DEF Operands
  <2> QED BY <1>3, <2>2, <2>7, <2>8, <2>9, <2>10 DEF s
<1> QED BY <1>2, <1>3

(* Deleting the instructions of a block: their results are invalidated in  *)
(* all their users before they are removed.                                *)
LEMMA ResultsInvalidated ==
  ASSUME NEW D \in InstTable, NEW V \in ValueTable, NEW B \in BlockTable,
         ValuesCovered(D, V), BlocksCovered(D, B), NEW R \in SUBSET Values,
         NEW J, J = UsersOf(V, R), NEW E, E = Invalidated(D, J, R),
         NEW V2, V2 = WithValueUses(Cleared(V, R, {}), E, J),
         NEW B2, B2 = WithBlockUses(B, E, J)
  PROVE  /\ E \in InstTable /\ V2 \in ValueTable /\ B2 \in BlockTable
         /\ ValuesCovered(E, V2) /\ BlocksCovered(E, B2)
         /\ \A j \in Insts : Operands(E[j]) \subseteq (Operands(D[j]) \ R) \cup {Invalid}
<1>0. Values \subseteq 0..MaxValue
  BY BoundsAssumption DEF Values
<1>1. J \in SUBSET Insts
  BY <1>0 DEF UsersOf, ValueTable
<1>2. \A j \in Insts \ J : E[j] = D[j]
  BY InvalidatedTyped
<1>3. E \in InstTable
  <2>1. E = [j \in Insts |-> E[j]]
    BY DEF Invalidated
  <2>2. \A j \in Insts : E[j] \in InstData
    BY InvalidatedTyped
  <2> QED BY <2>1, <2>2 DEF InstTable
<1>4. \A j \in Insts \ J : \A v \in Operands(E[j]) : v \in 0..MaxValue /\ v \notin R /\ j \in V[v]
  <2>1. ASSUME NEW j \in Insts \ J, NEW v \in Operands(E[j])
        PROVE  v \in 0..MaxValue /\ v \notin R /\ j \in V[v]
    <3>1. v \in Operands(D[j])
      BY <1>2
    <3>2. j \in V[v]
      BY <3>1 DEF ValuesCovered
    <3>3. v \notin R
      BY <3>2 DEF UsersOf
    <3>4. v \in 0..MaxValue
      BY <3>1, DataTyped DEF InstTable
    <3> QED BY <3>2, <3>3, <3>4
  <2> QED BY <2>1
<1>5. V2 \in ValueTable /\ ValuesCovered(E, V2)
  <2> DEFINE U == Cleared(V, R, {})
  <2>1. U \in ValueTable /\ \A v \in 0..MaxValue : v \notin R => U[v] = V[v]
    BY DEF Cleared, ValueTable
  <2>2. \A j \in Insts \ J : \A v \in Operands(E[j]) : j \in U[v]
    BY <1>4, <2>1
  <2>3. V2 = WithValueUses(U, E, J)
    OBVIOUS
  <2> HIDE DEF U
  <2> QED BY <1>1, <1>3, <2>1, <2>2, <2>3, ValueUsesRegistered
<1>6. B2 \in BlockTable /\ BlocksCovered(E, B2)
  <2>1. \A j \in Insts \ J : \A c \in Targets(E[j]) : j \in B[c]
    BY <1>2 DEF BlocksCovered
  <2> QED BY <1>1, <1>3, <2>1, BlockUsesRegistered
<1>7. ASSUME NEW j \in Insts PROVE Operands(E[j]) \subseteq (Operands(D[j]) \ R) \cup {Invalid}
  <2>1. CASE j \in J
    BY <2>1, InvalidatedTyped
  <2>2. CASE j \notin J
    <3>1. Operands(E[j]) = Operands(D[j]) /\ \A v \in Operands(E[j]) : v \notin R
      BY <1>2, <1>4, <2>2
    <3> QED BY <3>1
  <2> QED BY <2>1, <2>2
<1> QED BY <1>3, <1>5, <1>6, <1>7

(* Results and values stay inverse when the instructions in G go together  *)
(* with their results R.                                                   *)
LEMMA ResultsCleared ==
  ASSUME DfgInv, NEW G \in SUBSET Insts, NEW R, R = {results[i] : i \in G} \ {Invalid},
         \A j \in G : ~HasResult(insts'[j].kind),
         \A j \in Insts \ G : insts'[j].kind = insts[j].kind,
         results' = Cleared(results, G, Invalid), values' = Cleared(values, R, NoValueData)
  PROVE  ResultsMatch'
<1>1. results \in [Insts -> 0..MaxValue]
  BY Invariants
<1>2. /\ \A j \in G : results'[j] = Invalid
      /\ \A j \in Insts \ G : results'[j] = results[j]
  BY <1>1 DEF Cleared
<1>3. \A v \in Values : /\ v \notin R => values'[v] = values[v]
                        /\ v \in R => values'[v].kind = "free"
  BY Invariants DEF Cleared, NoValueData
<1>4. \A j \in Insts : (results'[j] # Invalid) <=> HasResult(insts'[j].kind)
  BY <1>2 DEF DfgInv, ResultsMatch
<1>5. ASSUME NEW j \in Insts \ G, results[j] # Invalid PROVE results[j] \in Values \ R
  <2>1. results[j] \in Values /\ values[results[j]].inst = j
    BY <1>5, ResultsProduced
  <2>2. ASSUME results[j] \in R PROVE FALSE
    <3>1. PICK g \in G : results[g] = results[j] /\ results[g] # Invalid
      BY <2>2
    <3>2. values[results[g]].inst = g
      BY <3>1, ResultsProduced
    <3> QED BY <2>1, <3>1, <3>2
  <2> QED BY <2>1, <2>2
<1>6. ASSUME NEW j \in Insts, results'[j] # Invalid
      PROVE  values'[results'[j]] = InstValue(j)
  <2>1. j \in Insts \ G /\ results'[j] = results[j] /\ results[j] # Invalid
    BY <1>2, <1>6
  <2>2. results[j] \in Values \ R /\ values[results[j]] = InstValue(j)
    BY <1>5, <2>1 DEF DfgInv, ResultsMatch
  <2> QED BY <1>3, <2>1, <2>2
<1>7. ASSUME NEW w \in Values, values'[w].kind = "inst"
      PROVE  \E j \in Insts : values'[w] = InstValue(j) /\ results'[j] = w
  <2>1. w \notin R /\ values'[w] = values[w]
    BY <1>3, <1>7
  <2>2. PICK j \in Insts : values[w] = InstValue(j) /\ results[j] = w
    BY <1>7, <2>1 DEF DfgInv, ResultsMatch
  <2>3. w # Invalid
    BY BoundsAssumption DEF Values, Invalid
  <2>4. j \notin G
    BY <2>1, <2>2, <2>3
  <2> QED BY <1>2, <2>1, <2>2, <2>4
<1> QED BY <1>4, <1>6, <1>7 DEF ResultsMatch

LEMMA DeleteBlockInv ==
  ASSUME DfgInv, NEW b \in Blocks, DeleteBlock(b)
  PROVE  DfgInv'
<1> USE Invariants, BoundsAssumption
<1> DEFINE I  == block_uses[b]
           D1 == BlockRemoved(b, I)
           V1 == WithValueUses(value_uses, D1, I)
           B1 == WithBlockUses([block_uses EXCEPT ![b] = @ \ I], D1, I)
           G  == {i \in Insts : home[i] = b}
           R  == {results[i] : i \in G} \ {Invalid}
           J  == UsersOf(V1, R)
           D2 == Invalidated(D1, J, R)
           V2 == WithValueUses(Cleared(V1, R, {}), D2, J)
           B2 == WithBlockUses(B1, D2, J)
<1>1. /\ insts' = Cleared(D2, G, NoInst)
      /\ results' = Cleared(results, G, Invalid)
      /\ values' = Cleared(values, R, NoValueData)
      /\ value_uses' = WithoutValueUses(V2, D2, G)
      /\ block_uses' = WithoutBlockUses(B2, D2, G)
      /\ home' = Cleared(home, G, Invalid)
      /\ blocks' = blocks \ {b} /\ UNCHANGED <<names, pruning>>
  BY DEF DeleteBlock
<1>2. I \in SUBSET Insts /\ G \in SUBSET Insts
  BY DEF BlockTable, Blocks
<1>3. R \in SUBSET Values
  BY DEF Invalid, Values
<1>4. /\ D1 = BlockRemoved(b, I) /\ V1 = WithValueUses(value_uses, D1, I)
      /\ B1 = WithBlockUses([block_uses EXCEPT ![b] = @ \ I], D1, I)
      /\ R = {results[i] : i \in G} \ {Invalid}
  OBVIOUS
<1>0. /\ J = UsersOf(V1, R) /\ D2 = Invalidated(D1, J, R)
      /\ V2 = WithValueUses(Cleared(V1, R, {}), D2, J) /\ B2 = WithBlockUses(B1, D2, J)
  OBVIOUS
<1> HIDE DEF I, D1, V1, B1, G, R, J, D2, V2, B2
<1>5. /\ D1 \in InstTable /\ V1 \in ValueTable /\ B1 \in BlockTable
      /\ ValuesCovered(D1, V1) /\ BlocksCovered(D1, B1)
  BY <1>2, <1>4, BlockRemovedCovered
<1>6. \A j \in Insts : /\ D1[j].kind = insts[j].kind
                       /\ Operands(D1[j]) \subseteq Operands(insts[j])
                       /\ insts[j].kind = "phi" => Len(D1[j].args) = Len(D1[j].bbs)
  BY <1>2, <1>4, BlockRemovedTyped
<1>7. /\ D2 \in InstTable /\ V2 \in ValueTable /\ B2 \in BlockTable
      /\ ValuesCovered(D2, V2) /\ BlocksCovered(D2, B2)
      /\ \A j \in Insts : Operands(D2[j]) \subseteq (Operands(D1[j]) \ R) \cup {Invalid}
  BY ONLY <1>0, <1>3, <1>5, ResultsInvalidated
<1>8. \A j \in Insts : D2[j].kind = D1[j].kind /\ Len(D2[j].args) = Len(D1[j].args)
                       /\ D2[j].bbs = D1[j].bbs
  BY <1>0, <1>5, InvalidatedTyped
<1>9. /\ insts' \in InstTable
      /\ \A j \in G : insts'[j] = NoInst
      /\ \A j \in Insts \ G : insts'[j] = D2[j]
  <2>1. DOMAIN D2 = Insts
    BY <1>7 DEF InstTable
  <2>2. /\ \A j \in G : insts'[j] = NoInst
        /\ \A j \in Insts \ G : insts'[j] = D2[j]
        /\ insts' = [j \in Insts |-> IF j \in G THEN NoInst ELSE D2[j]]
    BY <1>1, <1>2, <2>1 DEF Cleared
  <2> QED BY <1>7, <2>2, NoInstTyped DEF InstTable
<1>10. /\ value_uses' \in ValueTable /\ block_uses' \in BlockTable
       /\ \A j \in Insts \ G : /\ \A v \in Operands(D2[j]) : j \in value_uses'[v]
                               /\ \A c \in Targets(D2[j]) : j \in block_uses'[c]
  BY <1>1, <1>2, <1>7, UsesUnregistered
<1>11. ValuesCovered(insts', value_uses') /\ BlocksCovered(insts', block_uses')
  BY <1>9, <1>10, NoInstTyped DEF ValuesCovered, BlocksCovered
<1>12. /\ results' \in [Insts -> 0..MaxValue] /\ home' \in [Insts -> 0..MaxBlock]
       /\ values' \in [Values -> [kind : {"free", "arg", "placeholder", "inst"}, inst : 0..MaxInst]]
  <2>1. NoValueData \in [kind : {"free", "arg", "placeholder", "inst"}, inst : 0..MaxInst]
    BY DEF NoValueData, Invalid
  <2> QED BY <1>1, <2>1 DEF Cleared, Invalid
<1>13. NoDanglingOperand'
  <2>1. ASSUME NEW j \in Insts, NEW v \in Operands(insts'[j]), v # Invalid
        PROVE  v \in LiveValues'
    <3>1. j \in Insts \ G /\ v \in Operands(D2[j])
      BY <1>9, <2>1, NoInstTyped
    <3>2. v \in Operands(insts[j]) /\ v \notin R
      BY <1>6, <1>7, <2>1, <3>1
    <3>3. v \in Values /\ values[v].kind # "free"
      BY <2>1, <3>2 DEF DfgInv, NoDanglingOperand, LiveValues
    <3>4. values'[v] = values[v]
      BY <1>1, <3>2, <3>3 DEF Cleared
    <3> QED BY <3>3, <3>4 DEF LiveValues
  <2> QED BY <2>1 DEF NoDanglingOperand
<1>14. ResultsMatch'
  <2>1. \A j \in G : ~HasResult(insts'[j].kind)
    BY <1>9 DEF NoInst, HasResult
  <2>2. \A j \in Insts \ G : insts'[j].kind = insts[j].kind
    BY <1>6, <1>8, <1>9
  <2> QED BY <1>1, <1>2, <1>4, <2>1, <2>2, ResultsCleared
<1>15. PhisPaired'
  <2>1. \A j \in G : insts'[j].kind # "phi"
    BY <1>9 DEF NoInst
  <2>2. ASSUME NEW j \in Insts \ G, insts'[j].kind = "phi"
        PROVE  Len(insts'[j].args) = Len(insts'[j].bbs)
    <3>1. insts'[j] = D2[j] /\ D2[j].kind = D1[j].kind
      BY <1>6, <1>8, <1>9, <2>2
    <3>2. insts[j].kind = "phi" /\ Len(D1[j].args) = Len(D1[j].bbs)
      BY <1>6, <2>2, <3>1
    <3>3. Len(D2[j].args) = Len(D1[j].args) /\ D2[j].bbs = D1[j].bbs
      BY <1>8
    <3> QED BY ONLY <3>1, <3>2, <3>3
  <2> QED BY <2>1, <2>2 DEF PhisPaired
<1> QED BY <1>1, <1>9, <1>10, <1>11, <1>12, <1>13, <1>14, <1>15, InvariantsKept

-----------------------------------------------------------------------------
(* Every step of the unit preserves the invariant.                         *)
LEMMA StepInv ==
  ASSUME DfgInv, Next
  PROVE  DfgInv'
<1> USE Invariants, BoundsAssumption
<1>1. CASE AddBlock
  <2>1. /\ \E b \in Blocks : blocks' = blocks \cup {b}
        /\ UNCHANGED <<dfg, names, home, pruning>>
    BY <1>1 DEF AddBlock
  <2> QED BY <2>1, OutsideInv
<1>2. CASE BuildInst
  <2>0. PICK s \in Shapes : \E a \in [1..s.args -> LiveValues], t \in [1..s.bbs -> blocks] :
          \E i \in Insts, v \in 0..MaxValue, b \in blocks :
            Build([kind |-> s.kind, args |-> a, bbs |-> t], i, v, b)
    BY <1>2 DEF BuildInst
  <2>1. PICK a \in [1..s.args -> LiveValues], t \in [1..s.bbs -> blocks],
             i \in Insts, v \in 0..MaxValue, b \in blocks :
               Build([kind |-> s.kind, args |-> a, bbs |-> t], i, v, b)
    BY <2>0
  <2> DEFINE d == [kind |-> s.kind, args |-> a, bbs |-> t]
  <2>2. /\ d \in InstData /\ d.kind \in Kinds /\ Operands(d) \subseteq LiveValues
        /\ d.kind = "phi" => Len(d.args) = Len(d.bbs)
    <3>1. /\ DfgInv /\ s \in Shapes
          /\ a \in [1..s.args -> LiveValues] /\ t \in [1..s.bbs -> blocks]
      BY Zenon
    <3> QED BY ONLY <3>1, ShapeBuilt
  <2>3. Build(d, i, v, b)
    BY <2>1
  <2> HIDE DEF d
  <2> QED BY <2>2, <2>3, BuildInv
<1>3. CASE AddPlaceholder
  BY <1>3, AddPlaceholderInv
<1>4. CASE Prune
  BY <1>4, PruneInv
<1>5. ASSUME NEW i \in Insts, DeleteInst(i) \/ StartPruning(i) PROVE DfgInv'
  <2>1. CASE DeleteInst(i)
    BY <2>1, DeleteInstInv
  <2>2. CASE StartPruning(i)
    <3>1. pruning' = <<i>> /\ UNCHANGED <<dfg, names, blocks, home>>
      BY <2>2 DEF StartPruning
    <3>2. pruning' \in Seq(0..MaxInst)
      BY <3>1 DEF Insts
    <3> QED BY <3>1, <3>2, OutsideInv
  <2> QED BY <1>5, <2>1, <2>2
<1>6. ASSUME NEW v \in Values, RemovePlaceholder(v) \/ SetName(v) PROVE DfgInv'
  <2>1. CASE RemovePlaceholder(v)
    BY <2>1, RemovePlaceholderInv
  <2>2. CASE SetName(v)
    <3>1. names' = names \cup {v} /\ UNCHANGED <<dfg, blocks, home, pruning>>
      BY <2>2 DEF SetName
    <3> QED BY <3>1, OutsideInv
  <2> QED BY <1>6, <2>1, <2>2
<1>7. ASSUME NEW v \in Values, NEW w \in Values,
             ReplaceUse(v, w) \/ \E i \in Insts : ReplaceValueWithinInst(v, w, i)
      PROVE  DfgInv'
  <2>1. CASE ReplaceUse(v, w)
    <3>1. /\ v \in LiveValues /\ w \in LiveValues
          /\ ReplaceValue(v, w, value_uses[v])
      BY <2>1 DEF ReplaceUse
    <3>2. value_uses[v] \in SUBSET Insts
      BY DEF ValueTable, Values
    <3> QED BY <3>1, <3>2, ReplaceValueInv
  <2>2. CASE \E i \in Insts : ReplaceValueWithinInst(v, w, i)
    <3>1. PICK i \in Insts : /\ v \in LiveValues /\ w \in LiveValues
                             /\ ReplaceValue(v, w, {i})
      BY <2>2 DEF ReplaceValueWithinInst
    <3> QED BY <3>1, ReplaceValueInv
  <2> QED BY <1>7, <2>1, <2>2
<1>8. ASSUME NEW b \in Blocks, NEW c \in Blocks,
             ReplaceBlockUse(b, c) \/ \E i \in Insts : ReplaceBlockWithinInst(b, c, i)
      PROVE  DfgInv'
  <2>1. CASE ReplaceBlockUse(b, c)
    <3>1. b \in blocks /\ c \in blocks /\ ReplaceBlock(b, c, block_uses[b])
      BY <2>1 DEF ReplaceBlockUse
    <3>2. block_uses[b] \in SUBSET Insts
      BY DEF BlockTable, Blocks
    <3> QED BY <3>1, <3>2, ReplaceBlockInv
  <2>2. CASE \E i \in Insts : ReplaceBlockWithinInst(b, c, i)
    <3>1. PICK i \in Insts : b \in blocks /\ c \in blocks /\ ReplaceBlock(b, c, {i})
      BY <2>2 DEF ReplaceBlockWithinInst
    <3> QED BY <3>1, ReplaceBlockInv
  <2> QED BY <1>8, <2>1, <2>2
<1>9. ASSUME NEW b \in Blocks, RemoveBlockUse(b) \/ DeleteBlock(b) PROVE DfgInv'
  BY <1>9, RemoveBlockUseInv, DeleteBlockInv
<1> QED BY <1>1, <1>2, <1>3, <1>4, <1>5, <1>6, <1>7, <1>8, <1>9 DEF Next

(* Every unit an execution of UnitBuilder's operations reaches has the     *)
(* inductive invariant, for tables of any size and any instructions.       *)
THEOREM Invariant == Spec => []DfgInv
<1>1. ASSUME DfgInv, [Next]_vars PROVE DfgInv'
  <2>1. CASE Next
    BY <1>1, <2>1, StepInv
  <2>2. CASE UNCHANGED vars
    <3>1. UNCHANGED dfg /\ UNCHANGED <<names, blocks, home, pruning>>
      BY <2>2 DEF vars
    <3> QED BY <1>1, <3>1, OutsideInv, Invariants
  <2> QED BY <1>1, <2>1, <2>2
<1> QED BY InitInv, <1>1, PTL DEF Spec

(* The tables of DataFlowGraph keep their types.                           *)
THEOREM TypeCorrect == Spec => []TypeOK
<1>1. DfgInv => TypeOK
  BY DEF DfgInv
<1> QED BY Invariant, <1>1, PTL

(* No build, replacement or deletion drops an instruction from the uses of *)
(* a value or block that it still names.                                   *)
THEOREM UsesAlwaysComplete == Spec => []UsesComplete
<1>1. DfgInv => UsesComplete
  BY DEF DfgInv
<1> QED BY Invariant, <1>1, PTL

(* Although ids are recycled, no instruction ever reads a removed value.   *)
THEOREM NeverDangling == Spec => []NoDanglingOperand
<1>1. DfgInv => NoDanglingOperand
  BY DEF DfgInv
<1> QED BY Invariant, <1>1, PTL

(* results and values stay inverse to each other.                          *)
THEOREM ResultsAlwaysMatch == Spec => []ResultsMatch
<1>1. DfgInv => ResultsMatch
  BY DEF DfgInv
<1> QED BY Invariant, <1>1, PTL

(* The values and the blocks of every phi stay paired.                     *)
THEOREM PhisAlwaysPaired == Spec => []PhisPaired
<1>1. DfgInv => PhisPaired
  BY DEF DfgInv
<1> QED BY Invariant, <1>1, PTL

-----------------------------------------------------------------------------
(* "Replace all uses of a value with another" does: the use list names     *)
(* every reader of the value, so that after replace_use nobody reads it    *)
(* and its use list is empty.                                              *)
LEMMA SubstReplaces ==
  ASSUME NEW d \in InstData, NEW from, NEW to \in ValueIds, from # to
  PROVE  from \notin Operands(ArgsSet(d, from, to))
<1> DEFINE s == d.args
           A == Subst(s, from, to)
<1>1. ArgsSet(d, from, to).args = A
  BY DEF ArgsSet
<1> HIDE DEF s
<1>2. \A n \in DOMAIN A : A[n] # from
  BY DEF Subst
<1> HIDE DEF A
<1> QED BY <1>1, <1>2 DEF Operands

THEOREM ReplaceUseTotal == Spec => ReplaceUseIsTotal
<1> DEFINE Total(v, w) == /\ value_uses'[v] = {}
                          /\ \A i \in Insts : v \notin Operands(insts'[i])
<1>1. ASSUME DfgInv, NEW v \in Values, NEW w \in Values, ReplaceUse(v, w), v # w
      PROVE  Total(v, w)
  <2> USE Invariants, BoundsAssumption
  <2> DEFINE I == value_uses[v]
             U == [value_uses EXCEPT ![v] = @ \ I]
  <2>1. /\ insts' = ArgsReplaced(I, v, w)
        /\ value_uses' = WithValueUses(U, insts', I)
    BY <1>1 DEF ReplaceUse, ReplaceValue
  <2>2. v \in 0..MaxValue /\ w \in ValueIds
    BY DEF Values, ValueIds
  <2>3. U[v] = {}
    BY <1>1, <2>2 DEF ValueTable
  <2>4. ASSUME NEW i \in Insts PROVE v \notin Operands(insts'[i])
    <3>1. insts[i] \in InstData
      BY <1>1 DEF InstTable
    <3>2. CASE i \in I
      <4>1. insts'[i] = ArgsSet(insts[i], v, w)
        BY <2>1, <3>1, <3>2 DEF ArgsReplaced, InstData, ArgsSet
      <4> QED BY <1>1, <2>2, <3>1, <4>1, SubstReplaces
    <3>3. CASE i \notin I
      <4>1. insts'[i] = insts[i]
        BY <2>1, <3>3 DEF ArgsReplaced
      <4> QED BY <1>1, <3>3, <4>1 DEF ValuesCovered
    <3> QED BY <3>2, <3>3
  <2> HIDE DEF I, U
  <2>5. value_uses'[v] = U[v] \cup {i \in I : v \in Operands(insts'[i])}
    BY <2>1, <2>2 DEF WithValueUses
  <2>6. I \in SUBSET Insts
    BY <1>1, <2>2 DEF I, ValueTable
  <2> QED BY <2>3, <2>4, <2>5, <2>6
<1>2. DfgInv => \A v, w \in Values : ReplaceUse(v, w) /\ v # w => Total(v, w)
  BY <1>1
<1>3. DfgInv => [\A v, w \in Values : ReplaceUse(v, w) /\ v # w => Total(v, w)]_vars
  BY <1>2
<1> QED BY Invariant, <1>3, PTL DEF ReplaceUseIsTotal

-----------------------------------------------------------------------------
(* The blocks that jumps aim at. A block is only deleted after its name    *)
(* has been taken out of every instruction in its use list, and the list   *)
(* is complete.                                                            *)
LEMMA BlockRemovedTargets ==
  ASSUME DfgInv, NEW b \in Blocks, NEW j \in Insts, insts[j].kind = "term",
         NEW e, e = BlockRemoved(b, block_uses[b])[j]
  PROVE  Targets(e) \subseteq (Targets(insts[j]) \ {b}) \cup {Invalid}
<1> DEFINE I == block_uses[b]
           s == insts[j].bbs
           B == Subst(s, b, Invalid)
<1>1. insts[j] \in InstData
  BY Invariants DEF InstTable
<1>2. CASE j \in I
  <2>1. e.bbs = B
    BY <1>1, <1>2 DEF BlockRemoved, InstData
  <2>2. \A n \in DOMAIN B : n \in DOMAIN s /\ (B[n] = Invalid \/ (B[n] = s[n] /\ s[n] # b))
    BY DEF Subst
  <2>3. Targets(insts[j]) = {s[n] : n \in DOMAIN s} /\ Targets(e) = {B[n] : n \in DOMAIN B}
    BY <2>1 DEF Targets
  <2> HIDE DEF B, s
  <2> QED BY <2>2, <2>3
<1>3. CASE j \notin I
  <2>1. e = insts[j]
    BY <1>3 DEF BlockRemoved
  <2>2. b \notin Targets(insts[j])
    BY <1>3, Invariants DEF BlocksCovered
  <2> QED BY <2>1, <2>2
<1> QED BY <1>2, <1>3

(* Every step keeps the jumps aimed at live blocks.                        *)
LEMMA StepJumps ==
  ASSUME DfgInv, JumpsLive, Next
  PROVE  JumpsLive'
<1> USE Invariants, BoundsAssumption
(* An instruction whose blocks the step leaves alone.                      *)
<1>0. ASSUME blocks \subseteq blocks',
             \A j \in Insts : insts'[j].kind = "term" =>
               /\ insts[j].kind = "term"
               /\ Targets(insts'[j]) \subseteq Targets(insts[j]) \cup blocks \cup {Invalid}
      PROVE  JumpsLive'
  BY <1>0 DEF JumpsLive
<1>1. ASSUME UNCHANGED insts, blocks \subseteq blocks' PROVE JumpsLive'
  BY <1>1 DEF JumpsLive
<1>2. CASE AddBlock \/ AddPlaceholder
  BY <1>1, <1>2 DEF AddBlock, AddPlaceholder, dfg
<1>3. CASE BuildInst
  <2>0. PICK s \in Shapes : \E a \in [1..s.args -> LiveValues], t \in [1..s.bbs -> blocks] :
          \E i \in Insts, v \in 0..MaxValue, b \in blocks :
            Build([kind |-> s.kind, args |-> a, bbs |-> t], i, v, b)
    BY <1>3 DEF BuildInst
  <2>1. PICK a \in [1..s.args -> LiveValues], t \in [1..s.bbs -> blocks],
             i \in Insts, v \in 0..MaxValue, b \in blocks :
               Build([kind |-> s.kind, args |-> a, bbs |-> t], i, v, b)
    BY <2>0
  <2> DEFINE d == [kind |-> s.kind, args |-> a, bbs |-> t]
  <2>2. Targets(d) \subseteq blocks
    BY DEF Targets
  <2>3. insts' = [insts EXCEPT ![i] = d] /\ blocks' = blocks
    BY <2>1 DEF Build
  <2> HIDE DEF d
  <2> QED BY <2>2, <2>3 DEF JumpsLive, InstTable
<1>4. ASSUME NEW i \in Insts, RemoveInstDfg(i), UNCHANGED blocks PROVE JumpsLive'
  <2>1. insts' = [insts EXCEPT ![i] = NoInst]
    BY <1>4 DEF RemoveInstDfg
  <2> QED BY <1>4, <2>1 DEF JumpsLive, InstTable, NoInst
<1>5. CASE Prune
  <2>1. /\ UNCHANGED blocks
        /\ \/ UNCHANGED insts
           \/ Head(pruning) # Invalid /\ RemoveInstDfg(Head(pruning))
    BY <1>5 DEF Prune, dfg
  <2>2. Head(pruning) \in 0..MaxInst
    BY <1>5, SeqOperations DEF Prune
  <2>3. Head(pruning) # Invalid => Head(pruning) \in Insts
    BY <2>2 DEF Invalid, Insts
  <2> QED BY <1>1, <1>4, <2>1, <2>3
<1>6. ASSUME NEW i \in Insts, DeleteInst(i) \/ StartPruning(i) PROVE JumpsLive'
  BY <1>1, <1>4, <1>6 DEF DeleteInst, StartPruning, dfg
<1>7. ASSUME NEW v \in Values, RemovePlaceholder(v) \/ SetName(v) PROVE JumpsLive'
  BY <1>1, <1>7 DEF RemovePlaceholder, SetName, dfg
<1>8. ASSUME NEW from \in Values, NEW to \in Values, NEW I,
             ReplaceValue(from, to, I)
      PROVE  JumpsLive'
  <2>1. insts' = ArgsReplaced(I, from, to) /\ blocks' = blocks
    BY <1>8 DEF ReplaceValue
  <2>2. \A j \in Insts : insts'[j].kind = insts[j].kind /\ insts'[j].bbs = insts[j].bbs
    BY <2>1 DEF ArgsReplaced, InstTable, InstData
  <2> QED BY <2>1, <2>2 DEF JumpsLive, Targets
<1>9. ASSUME NEW from \in blocks, NEW to \in blocks, NEW I, ReplaceBlock(from, to, I)
      PROVE  JumpsLive'
  <2>1. insts' = BlocksReplaced(I, from, to) /\ blocks' = blocks
    BY <1>9 DEF ReplaceBlock
  <2>2. ASSUME NEW j \in Insts
        PROVE  /\ insts'[j].kind = insts[j].kind
               /\ Targets(insts'[j]) \subseteq Targets(insts[j]) \cup blocks
    <3>1. insts[j] \in InstData
      BY DEF InstTable
    <3>2. CASE j \in I
      <4>1. insts'[j] = BbsSet(insts[j], from, to)
        BY <2>1, <3>1, <3>2 DEF BlocksReplaced, InstData, BbsSet
      <4>2. to \in BlockIds
        BY DEF Blocks, BlockIds
      <4> QED BY <3>1, <4>1, <4>2, BlocksSubstituted
    <3>3. CASE j \notin I
      BY <2>1, <3>3 DEF BlocksReplaced
    <3> QED BY <3>2, <3>3
  <2> QED BY <1>0, <2>1, <2>2
<1>10. ASSUME NEW b \in Blocks, RemoveBlockUse(b) PROVE JumpsLive'
  <2>1. insts' = BlockRemoved(b, block_uses[b]) /\ blocks' = blocks
    BY <1>10 DEF RemoveBlockUse
  <2>2. block_uses[b] \in SUBSET Insts
    BY DEF BlockTable, Blocks
  <2>3. \A j \in Insts : insts'[j].kind = insts[j].kind
    BY <2>1, <2>2, BlockRemovedTyped
  <2>4. \A j \in Insts : insts[j].kind = "term" =>
          Targets(insts'[j]) \subseteq Targets(insts[j]) \cup {Invalid}
    BY <2>1, BlockRemovedTargets
  <2> QED BY <1>0, <2>1, <2>3, <2>4
<1>11. ASSUME NEW b \in Blocks, DeleteBlock(b) PROVE JumpsLive'
  <2> DEFINE I  == block_uses[b]
             D1 == BlockRemoved(b, I)
             V1 == WithValueUses(value_uses, D1, I)
             B1 == WithBlockUses([block_uses EXCEPT ![b] = @ \ I], D1, I)
             G  == {i \in Insts : home[i] = b}
             R  == {results[i] : i \in G} \ {Invalid}
             J  == UsersOf(V1, R)
             D2 == Invalidated(D1, J, R)
  <2>1. insts' = Cleared(D2, G, NoInst) /\ blocks' = blocks \ {b}
    BY <1>11 DEF DeleteBlock
  <2>2. I \in SUBSET Insts
    BY DEF BlockTable, Blocks
  <2>3. \A j \in Insts : D1[j].kind = insts[j].kind
    BY <2>2, BlockRemovedTyped
  <2>4. \A j \in Insts : insts[j].kind = "term" =>
          Targets(D1[j]) \subseteq (Targets(insts[j]) \ {b}) \cup {Invalid}
    BY BlockRemovedTargets
  <2>5. D1 \in InstTable
    <3>1. V1 = WithValueUses(value_uses, D1, I) /\ B1 = WithBlockUses([block_uses EXCEPT ![b] = @ \ I], D1, I)
      OBVIOUS
    <3> HIDE DEF V1, B1, I
    <3>2. D1 = BlockRemoved(b, I)
      OBVIOUS
    <3> HIDE DEF D1
    <3> QED BY <2>2, <3>1, <3>2, BlockRemovedCovered
  <2> HIDE DEF D1
  <2>6. \A j \in Insts : D2[j].kind = D1[j].kind /\ D2[j].bbs = D1[j].bbs
    BY <2>5, InvalidatedTyped
  <2>7. DOMAIN D2 = Insts
    BY DEF Invalidated
  <2> HIDE DEF D2
  <2>8. \A j \in Insts : insts'[j] = NoInst \/ insts'[j] = D2[j]
    BY <2>1, <2>7 DEF Cleared
  <2>9. ASSUME NEW j \in Insts, insts'[j].kind = "term"
        PROVE  Targets(insts'[j]) \subseteq (blocks \ {b}) \cup {Invalid}
    <3>1. insts'[j] = D2[j]
      BY <2>8, <2>9 DEF NoInst
    <3>2. insts[j].kind = "term" /\ Targets(insts'[j]) = Targets(D1[j])
      BY <2>3, <2>6, <2>9, <3>1 DEF Targets
    <3> QED BY <2>4, <3>2 DEF JumpsLive
  <2> QED BY <2>1, <2>9 DEF JumpsLive
<1> HIDE DEF JumpsLive
<1>12. ASSUME NEW v \in Values, NEW w \in Values,
              ReplaceUse(v, w) \/ \E i \in Insts : ReplaceValueWithinInst(v, w, i)
       PROVE  JumpsLive'
  BY <1>8, <1>12 DEF ReplaceUse, ReplaceValueWithinInst
<1>13. ASSUME NEW b \in Blocks, NEW c \in Blocks,
              ReplaceBlockUse(b, c) \/ \E i \in Insts : ReplaceBlockWithinInst(b, c, i)
       PROVE  JumpsLive'
  BY <1>9, <1>13 DEF ReplaceBlockUse, ReplaceBlockWithinInst
<1> QED BY <1>2, <1>3, <1>5, <1>6, <1>7, <1>10, <1>11, <1>12, <1>13 DEF Next

(* A jump or branch never aims at a block that has been deleted, in units  *)
(* of any size: delete_block leaves Block::invalid() behind at most.       *)
THEOREM JumpsAlwaysLive == Spec => []JumpsLive
<1>1. Init => JumpsLive
  BY DEF Init, JumpsLive, NoInst
<1>2. ASSUME DfgInv, JumpsLive, [Next]_vars PROVE JumpsLive'
  <2>1. CASE Next
    BY <1>2, <2>1, StepJumps
  <2>2. CASE UNCHANGED vars
    BY <1>2, <2>2 DEF vars, dfg, JumpsLive
  <2> QED BY <1>2, <2>1, <2>2
<1> QED BY Invariant, <1>1, <1>2, PTL DEF Spec

-----------------------------------------------------------------------------
(* Nothing but the block that is removed leaves a phi. The loop of         *)
(* remove_block moves the last ways to the places of the hits: the k-th    *)
(* hit takes the k-th way from the end.                                    *)

(* The number of hits grows by one at each of them.                        *)
LEMMA HitsCount ==
  ASSUME NEW s, NEW b, NEW q \in Nat
  PROVE  /\ Hits(s, b, 0) = 0 /\ Hits(s, b, q) \in Nat
         /\ Hits(s, b, q + 1) = Hits(s, b, q) + (IF s[q + 1] = b THEN 1 ELSE 0)
<1> DEFINE H(n) == {x \in 1..n : s[x] = b}
<1>1. \A n \in Nat : IsFiniteSet(H(n)) /\ Cardinality(H(n)) \in Nat
  <2>1. ASSUME NEW n \in Nat PROVE IsFiniteSet(H(n)) /\ Cardinality(H(n)) \in Nat
    <3>1. IsFiniteSet(1..n)
      BY FS_Interval
    <3>2. H(n) \in SUBSET (1..n)
      OBVIOUS
    <3> QED BY <3>1, <3>2, FS_Subset, FS_CardinalityType
  <2> QED BY <2>1
<1>2. H(0) = {}
  OBVIOUS
<1>3. IF s[q + 1] = b THEN H(q + 1) = H(q) \cup {q + 1} /\ q + 1 \notin H(q) ELSE H(q + 1) = H(q)
  OBVIOUS
<1>4. \A n \in Nat : Hits(s, b, n) = Cardinality(H(n))
  BY DEF Hits
<1> HIDE DEF H
<1>5. Cardinality(H(q + 1)) = Cardinality(H(q)) + (IF s[q + 1] = b THEN 1 ELSE 0)
  BY <1>1, <1>3, FS_AddElement
<1> QED BY <1>1, <1>2, <1>4, <1>5, FS_EmptySet

LEMMA HitsMonotone ==
  ASSUME NEW s, NEW b, NEW p \in Nat, NEW q \in Nat, p <= q
  PROVE  Hits(s, b, p) <= Hits(s, b, q)
<1>1. {x \in 1..p : s[x] = b} \in SUBSET {x \in 1..q : s[x] = b}
  OBVIOUS
<1>2. IsFiniteSet({x \in 1..q : s[x] = b})
  <2>1. IsFiniteSet(1..q) /\ {x \in 1..q : s[x] = b} \in SUBSET (1..q)
    BY FS_Interval
  <2> QED BY <2>1, FS_Subset
<1> QED BY <1>1, <1>2, FS_Subset DEF Hits

(* Up to the number of hits, there is a k-th one.                          *)
LEMMA HitExists ==
  ASSUME NEW s, NEW b, NEW m \in Nat, NEW k \in 1..Hits(s, b, m)
  PROVE  \E q \in 1..m : s[q] = b /\ Hits(s, b, q) = k
<1> DEFINE T == {q \in Nat : Hits(s, b, q) >= k}
<1>1. Hits(s, b, m) \in Nat /\ k \in Nat /\ k >= 1 /\ m \in T
  BY HitsCount
<1>2. PICK q \in T : \A r \in T : q <= r
  BY <1>1, LeastNumber
<1>3. q \in Nat /\ q <= m /\ Hits(s, b, q) >= k
  BY <1>1, <1>2
<1>4. q # 0
  BY <1>1, <1>3, HitsCount
<1>5. q - 1 \in Nat /\ q - 1 \notin T
  <2> HIDE DEF T
  <2> QED BY <1>2, <1>3, <1>4
<1>6. ~(Hits(s, b, q - 1) >= k) /\ Hits(s, b, q - 1) \in Nat
  BY <1>5, HitsCount
<1>7. Hits(s, b, q) = Hits(s, b, q - 1) + (IF s[q] = b THEN 1 ELSE 0)
  <2>1. (q - 1) + 1 = q
    BY <1>3
  <2> QED BY <1>5, <2>1, HitsCount
<1>8. s[q] = b /\ Hits(s, b, q) = k
  BY <1>1, <1>3, <1>6, <1>7
<1> QED BY <1>3, <1>4, <1>8

(* The hits that are taken are those up to the last one taken.             *)
LEMMA TakenIsPrefix ==
  ASSUME NEW S, NEW s \in Seq(S), NEW b, Taken(s, b) # {}
  PROVE  \E m \in 1..Len(s) : /\ s[m] = b /\ m + Hits(s, b, m) <= Len(s) + 1
                              /\ Cardinality(Taken(s, b)) = Hits(s, b, m)
<1>1. DOMAIN s = 1..Len(s) /\ Len(s) \in Nat
  OBVIOUS
<1>2. /\ Taken(s, b) \in SUBSET Nat /\ Taken(s, b) \subseteq 1..Len(s)
      /\ \A n \in Taken(s, b) : n <= Len(s)
  BY <1>1 DEF Taken
<1>3. PICK m \in Taken(s, b) : \A n \in Taken(s, b) : n <= m
  BY <1>1, <1>2, GreatestNumber
<1>4. m \in 1..Len(s) /\ s[m] = b /\ m + Hits(s, b, m) <= Len(s) + 1
  BY <1>1 DEF Taken
<1>5. ASSUME NEW n \in 1..m, s[n] = b PROVE n \in Taken(s, b)
  <2>1. n \in Nat /\ m \in Nat /\ n <= m
    BY <1>4
  <2>2. Hits(s, b, n) <= Hits(s, b, m) /\ Hits(s, b, n) \in Nat /\ Hits(s, b, m) \in Nat
    BY <2>1, HitsMonotone, HitsCount
  <2>3. n \in DOMAIN s /\ n + Hits(s, b, n) <= Len(s) + 1
    BY <1>1, <1>4, <2>1, <2>2
  <2> QED BY <1>5, <2>3 DEF Taken
<1>6. Taken(s, b) = {n \in 1..m : s[n] = b}
  <2>1. ASSUME NEW n \in Taken(s, b) PROVE n \in 1..m /\ s[n] = b
    <3>1. n <= m /\ n \in 1..Len(s)
      BY <1>2, <1>3
    <3> QED BY <1>1, <1>4, <3>1 DEF Taken
  <2> QED BY <1>5, <2>1
<1> QED BY <1>4, <1>6 DEF Hits

(* A way that is not a hit stays where it is or is moved.                  *)
LEMMA WayKept ==
  ASSUME NEW S, NEW s \in Seq(S), NEW b, NEW p \in 1..Len(s), s[p] # b
  PROVE  \E q \in 1..Kept(s, b) : Source(s, b, q) = p
<1> DEFINE L == Len(s)
           T == Cardinality(Taken(s, b))
<1>1. L \in Nat /\ p \in Nat /\ p >= 1 /\ p <= L /\ Kept(s, b) \in 0..L /\ Kept(s, b) = L - T
  BY KeptBounded DEF Kept
<1>2. CASE p <= Kept(s, b)
  <2>1. Source(s, b, p) = p /\ p \in 1..Kept(s, b)
    BY <1>1, <1>2 DEF Source
  <2> QED BY <2>1
<1>3. CASE p > Kept(s, b)
  <2>1. T # 0 /\ T \in Nat
    <3>1. IsFiniteSet(Taken(s, b))
      <4>1. IsFiniteSet(1..L)
        BY <1>1, FS_Interval
      <4>2. DOMAIN s = 1..L
        OBVIOUS
      <4>3. Taken(s, b) \in SUBSET (1..L)
        BY <4>2 DEF Taken
      <4> QED BY <4>1, <4>3, FS_Subset
    <3>2. T \in Nat
      BY <3>1, FS_CardinalityType
    <3> HIDE DEF T
    <3> QED BY <1>1, <1>3, <3>2
  <2>2. Taken(s, b) # {}
    BY <2>1, FS_EmptySet
  <2>3. PICK m \in 1..L : s[m] = b /\ m + Hits(s, b, m) <= L + 1 /\ T = Hits(s, b, m)
    BY <2>2, TakenIsPrefix
  <2> DEFINE k == L + 1 - p
  <2> HIDE DEF T, L
  <2>4. m \in Nat /\ m >= 1 /\ m <= L
    BY <1>1, <2>3
  <2>5. k \in 1..T /\ k \in 1..Hits(s, b, m)
    BY <1>1, <1>3, <2>1, <2>3
  <2>6. PICK q \in 1..m : s[q] = b /\ Hits(s, b, q) = k
    BY <2>4, <2>5, HitExists
  <2>7. q \in Nat /\ q >= 1 /\ q <= m
    BY <2>4, <2>6
  <2>8. Source(s, b, q) = p
    BY <1>1, <2>6 DEF Source, L
  <2>9. q <= L - T
    <3>1. q <= L + 1 - T
      BY SMTT(30), <1>1, <2>1, <2>3, <2>4, <2>7
    <3>2. ASSUME q = L + 1 - T PROVE FALSE
      <4>1. q = m
        BY SMTT(30), <1>1, <2>1, <2>3, <2>4, <2>7, <3>2
      <4>2. k = T /\ p = q
        BY <1>1, <2>1, <2>3, <2>6, <3>2, <4>1
      <4> QED BY <2>6, <4>2
    <3> QED BY <1>1, <2>1, <2>7, <3>1, <3>2
  <2>10. q \in 1..Kept(s, b)
    BY <1>1, <2>7, <2>9
  <2> QED BY <2>8, <2>10
<1> QED BY <1>1, <1>2, <1>3

LEMMA WaysOfDropped ==
  ASSUME NEW d \in InstData, NEW b, Len(d.args) = Len(d.bbs)
  PROVE  {w \in Ways(d) : w[2] # b} = {w \in Ways(DropWays(d, b)) : w[2] # b}
<1> DEFINE K == Kept(d.bbs, b)
           L == Len(d.bbs)
           src(q) == Source(d.bbs, b, q)
           e == DropWays(d, b)
<1>1. d.args \in Seq(0..MaxValue) /\ d.bbs \in Seq(0..MaxBlock)
  BY DataTyped
<1>2. DOMAIN d.args = 1..L /\ DOMAIN d.bbs = 1..L
  BY <1>1, SeqElements
<1>3. /\ DOMAIN e.args = 1..K
      /\ \A q \in 1..K : e.args[q] = d.args[src(q)] /\ e.bbs[q] = d.bbs[src(q)]
  BY DEF DropWays
<1>4. \A q \in 1..K : src(q) \in 1..L
  BY <1>1, SourceBounded
<1>5. \A p \in 1..L : d.bbs[p] # b => \E q \in 1..K : src(q) = p
  BY <1>1, WayKept
<1> HIDE DEF K, L, src, e
<1>6. /\ Ways(d) = {<<d.args[n], d.bbs[n]>> : n \in 1..L}
      /\ Ways(e) = {<<e.args[n], e.bbs[n]>> : n \in 1..K}
  BY <1>2, <1>3 DEF Ways
<1>7. ASSUME NEW w \in Ways(d), w[2] # b PROVE w \in Ways(e)
  <2>1. PICK p \in 1..L : w = <<d.args[p], d.bbs[p]>>
    BY <1>6
  <2>2. PICK q \in 1..K : src(q) = p
    BY <1>5, <1>7, <2>1
  <2> QED BY <1>3, <1>6, <2>1, <2>2
<1>8. ASSUME NEW w \in Ways(e) PROVE w \in Ways(d)
  <2>1. PICK q \in 1..K : w = <<e.args[q], e.bbs[q]>>
    BY <1>6
  <2> QED BY <1>3, <1>4, <1>6, <2>1
<1>9. {w \in Ways(d) : w[2] # b} = {w \in Ways(e) : w[2] # b}
  BY <1>7, <1>8
<1> QED BY <1>9 DEF e

(* Removing a block from the phis that name it keeps every other way, the  *)
(* value with its block, however many of the ways it hits and wherever     *)
(* they are.                                                               *)
THEOREM WaysAlwaysSurvive == Spec => WaysSurvive
<1> DEFINE Survive(b) == \A i \in Insts : insts[i].kind = "phi" =>
             {w \in Ways(insts[i]) : w[2] # b} = {w \in Ways(insts'[i]) : w[2] # b}
<1>1. ASSUME DfgInv, NEW b \in Blocks, RemoveBlockUse(b) PROVE Survive(b)
  <2>1. insts' = BlockRemoved(b, block_uses[b])
    BY <1>1 DEF RemoveBlockUse
  <2>2. ASSUME NEW i \in Insts, insts[i].kind = "phi"
        PROVE  {w \in Ways(insts[i]) : w[2] # b} = {w \in Ways(insts'[i]) : w[2] # b}
    <3>1. insts[i] \in InstData /\ Len(insts[i].args) = Len(insts[i].bbs)
      BY <1>1, <2>2, Invariants DEF InstTable, DfgInv, PhisPaired
    <3>2. insts'[i] = insts[i] \/ insts'[i] = DropWays(insts[i], b)
      BY <2>1, <2>2 DEF BlockRemoved
    <3> QED BY <3>1, <3>2, WaysOfDropped
  <2> QED BY <2>2
<1>2. DfgInv => \A b \in Blocks : RemoveBlockUse(b) => Survive(b)
  BY <1>1
<1>3. DfgInv => [\A b \in Blocks : RemoveBlockUse(b) => Survive(b)]_vars
  BY <1>2
<1> QED BY Invariant, <1>3, PTL DEF WaysSurvive

-----------------------------------------------------------------------------
(* Pruning leaves no dead code behind: only an operand of the instruction  *)
(* that goes can lose its last use, and what produced the operand is on    *)
(* the stack, because results and values are inverse.                      *)
THEOREM PruningFollows == Spec => PruneFollows
<1> DEFINE Orphaned(i) == Live(i)' /\ results[i] # Invalid /\ HasUses(results[i]) /\ ~HasUses(results[i])'
           Stacked(i) == \E n \in DOMAIN pruning' : pruning'[n] = i
<1>1. ASSUME DfgInv, Prune, NEW i \in Insts, Orphaned(i) PROVE Stacked(i)
  <2> USE Invariants, BoundsAssumption
  <2> DEFINE p == Head(pruning)
             r == results[i]
             U == Cleared(value_uses, {results[p]} \ {Invalid}, {})
  <2>1. /\ insts'[i].kind # "free" /\ r # Invalid /\ value_uses[r] # {}
        /\ value_uses'[results'[i]] = {}
    BY <1>1 DEF Live, HasUses
  <2>2. r \in 0..MaxValue /\ values[r] = InstValue(i)
    BY <1>1, <2>1 DEF DfgInv, ResultsMatch
  <2>3. ~UNCHANGED dfg
    BY <2>1 DEF dfg
  <2>4. /\ p # Invalid /\ ~HasUses(results[p]) /\ Invalid \notin Operands(insts[p])
        /\ RemoveInstDfg(p)
        /\ pruning' = Producers(p) \o Tail(pruning)
    BY <1>1, <2>3 DEF Prune
  <2>5. /\ pruning \in Seq(0..MaxInst) /\ pruning # <<>>
        /\ p \in 0..MaxInst /\ Tail(pruning) \in Seq(0..MaxInst)
    <3>1. pruning \in Seq(0..MaxInst) /\ pruning # <<>>
      BY <1>1 DEF Prune
    <3> QED BY <3>1, SeqOperations
  <2>6. p \in Insts
    BY <2>4, <2>5 DEF Invalid, Insts
  <2> HIDE DEF p
  <2>7. i # p /\ results'[i] = r
    <3>1. insts' = [insts EXCEPT ![p] = NoInst] /\ results' = [results EXCEPT ![p] = Invalid]
      BY <2>4 DEF RemoveInstDfg
    <3>2. i # p
      BY <1>1, <2>1, <2>6, <3>1 DEF InstTable, NoInst
    <3> QED BY <1>1, <3>1, <3>2
  <2>8. results[p] # r
    BY <2>1, <2>4 DEF HasUses
  <2>9. value_uses'[r] = value_uses[r] \ {j \in {p} : r \in Operands(insts[j])}
    <3>1. value_uses' = WithoutValueUses(U, insts, {p})
      BY <2>4 DEF RemoveInstDfg
    <3>2. U[r] = value_uses[r]
      BY <1>1, <2>2, <2>8 DEF Cleared, ValueTable
    <3> HIDE DEF U
    <3> QED BY <2>2, <3>1, <3>2 DEF WithoutValueUses
  <2>10. r \in Operands(insts[p])
    BY <2>1, <2>7, <2>9
  <2>11. PICK n \in DOMAIN insts[p].args : insts[p].args[n] = r
    BY <2>10 DEF Operands
  <2>12. Producers(p)[n] = i /\ DOMAIN Producers(p) = DOMAIN insts[p].args
    BY <2>2, <2>11 DEF Producers, InstValue
  <2>13. /\ insts[p].args \in Seq(0..MaxValue)
         /\ DOMAIN insts[p].args = 1..Len(insts[p].args) /\ Len(insts[p].args) \in Nat
    <3>1. insts[p].args \in Seq(0..MaxValue)
      BY <1>1, <2>6, DataTyped DEF InstTable
    <3> QED BY <3>1, SeqElements
  <2>14. Producers(p) \in Seq(0..MaxInst) /\ Len(Producers(p)) = Len(insts[p].args)
    <3>1. \A m \in DOMAIN insts[p].args : insts[p].args[m] \in Values
      <4>1. Operands(insts[p]) \subseteq LiveValues
        BY <1>1, <2>4, <2>6 DEF DfgInv, NoDanglingOperand
      <4> QED BY <4>1 DEF Operands, LiveValues
    <3>2. Producers(p) \in [1..Len(insts[p].args) -> 0..MaxInst]
      BY <1>1, <2>13, <3>1 DEF Producers
    <3> DEFINE P == Producers(p)
               k == Len(insts[p].args)
    <3>3. P \in [1..k -> 0..MaxInst] /\ k \in Nat
      BY <2>13, <3>2
    <3> HIDE DEF P, k
    <3>4. P \in Seq(0..MaxInst) /\ Len(P) = k
      BY <3>3, FunctionIsSeq
    <3> QED BY <3>4 DEF P, k
  <2>15. n \in DOMAIN pruning' /\ pruning'[n] = i
    <3> DEFINE P == Producers(p)
               Q == Tail(pruning)
    <3>1. /\ P \in Seq(0..MaxInst) /\ Q \in Seq(0..MaxInst) /\ n \in 1..Len(P) /\ P[n] = i
          /\ pruning' = P \o Q
      BY <2>4, <2>5, <2>11, <2>12, <2>13, <2>14
    <3> HIDE DEF P, Q
    <3>2. Len(P \o Q) = Len(P) + Len(Q) /\ (P \o Q)[n] = P[n] /\ n \in DOMAIN (P \o Q)
      BY <3>1
    <3> QED BY <3>1, <3>2
  <2> QED BY <2>15
<1>2. DfgInv => (Prune => \A i \in Insts : Orphaned(i) => Stacked(i))
  BY <1>1
<1>3. DfgInv => [Prune => \A i \in Insts : Orphaned(i) => Stacked(i)]_vars
  BY <1>2
<1> QED BY Invariant, <1>3, PTL DEF PruneFollows
=============================================================================
