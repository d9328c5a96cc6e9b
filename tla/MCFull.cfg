SPECIFICATION Spec
CONSTANTS
  Tables = {t1}
  Elements <- SetKeys
  Keys <- SetKeys
  KeyOf <- SetIdentity
  Hash <- SetHash
  DefaultOf <- SetIdentity
  Empty = Empty
  Erased = Erased
  MinBuckets = 4
  DefaultBuckets = 4
  BucketCounts = {4, 8}
  GroupSize = 4
  DefaultFactors <- Usual
  Factors <- UsualAndFull
  Requests = {0}
  Inserts <- SetInserts
  StorageFails = FALSE
  ShrinkFails = FALSE
  AssignOntoEmptied = FALSE
  SerializeMarked = FALSE
INVARIANT ProbesEnd
