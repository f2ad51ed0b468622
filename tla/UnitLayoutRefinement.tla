------------------------ MODULE UnitLayoutRefinement ------------------------
(***************************************************************************)
(* The linked lists of a unit and the position of its builder implement    *)
(* the text of UnitText: the text is what the iterators blocks() and       *)
(* insts() walk over, and the position, after or before an instruction or  *)
(* at an end of a block, stands for a gap.                                 *)
(***************************************************************************)
EXTENDS UnitLayout

ASSUME GapAssumption == None \notin Block \X Nat   \* no gap is taken for none

Place(i) == CHOOSE n \in 1..Cardinality(Nodes(code[Home(i)])) : Walk(code[Home(i)])[n] = i

PosGap ==
  CASE pos.at = "append" /\ pos.ref \in Laid -> <<pos.ref, Cardinality(Nodes(code[pos.ref]))>>
    [] pos.at = "prepend" /\ pos.ref \in Laid -> <<pos.ref, 0>>
    [] pos.at = "after" /\ Reachable(pos.ref) -> <<Home(pos.ref), Place(pos.ref)>>
    [] pos.at = "before" /\ Reachable(pos.ref) -> <<Home(pos.ref), Place(pos.ref) - 1>>
    [] OTHER -> None

Text == INSTANCE UnitText WITH made  <- insts,
                               order <- Walk(bbs),
                               text  <- [b \in Laid |-> Walk(code[b])],
                               gap   <- PosGap

(* Every operation of UnitBuilder changes the text as its name says and    *)
(* keeps the gap: what is built appears in the order it is built in, also  *)
(* when the instruction the position refers to is deleted in between.      *)
ImplementsText == Text!TSpec
=============================================================================
