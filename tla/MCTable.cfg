SPECIFICATION Spec
CONSTANTS
  Tables = {t1, t2}
  Sizes <- TableSizes
  Spaces = {s1, s2, s3, s4}
  GroupSize = 2
  Values <- TableValues
  Storable <- TableStorable
  Raw = Raw
  Empty = Empty
  Erased = Erased
  Lost = Lost
  StorageFails = TRUE
INVARIANTS TypeOK NumExact SpacesOwned IteratorValid
PROPERTIES SweepsInOrder ImplementsArrays
SYMMETRY Interchangeable
