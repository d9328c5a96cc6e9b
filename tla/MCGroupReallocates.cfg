SPECIFICATION Spec
CONSTANTS
  Groups = {g1}
  Positions <- SixPositions
  Values = {v1, v2}
  Empty = Empty
  Erased = Erased
  Destroyed = Destroyed
  GroupSize = 32
  AllocSize = 0
  Relocatable = TRUE
  StorageFails = TRUE
  ShrinkFails = FALSE
INVARIANTS TypeOK SizeKnown
PROPERTY ImplementsCells
