CONSTANTS
  Inst = {i1, i2, i3, i4}
  Block = {b1, b2, b3}
  None = None
  TakeOutFilled = FALSE
SPECIFICATION Spec
SYMMETRY Symmetry
INVARIANTS TypeOK ListsLinked InstBlockRight
PROPERTY ImplementsText
