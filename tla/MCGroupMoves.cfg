SPECIFICATION Spec
CONSTANTS
  Groups = {g1, g2}
  Positions <- ThreePositions
  Values = {v1, v2}
  Empty = Empty
  Erased = Erased
  Destroyed = Destroyed
  GroupSize = 64
  AllocSize = 2
  Relocatable = FALSE
  StorageFails = TRUE
  ShrinkFails = TRUE
INVARIANTS ObjectsCounted CapacityDerived
PROPERTY ImplementsCells
