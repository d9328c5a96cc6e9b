SPECIFICATION Spec
CONSTANTS
  Tables = {t1, t2}
  Elements <- MapElements
  Keys <- MapKeys
  KeyOf <- MapKeyOf
  Hash <- MapHash
  DefaultOf <- MapDefault
  Empty = Empty
  Erased = Erased
  MinBuckets = 4
  DefaultBuckets = 4
  BucketCounts = {4, 8}
  GroupSize = 4
  DefaultFactors <- Usual
  Factors <- UsualOnly
  Requests = {0}
  Inserts <- MapInserts
  StorageFails = FALSE
  ShrinkFails = FALSE
  AssignOntoEmptied = TRUE
  SerializeMarked = FALSE
INVARIANT CountsExact
