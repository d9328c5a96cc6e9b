SPECIFICATION FairSpec
CONSTANTS
  Tables = {t1}
  Elements <- SetKeys
  Keys <- SetKeys
  KeyOf <- SetIdentity
  Hash <- SetHash
  DefaultOf <- SetIdentity
  Empty = Empty
  Erased = Erased
  MinBuckets = 4
  DefaultBuckets = 4
  BucketCounts = {4, 8}
  GroupSize = 4
  DefaultFactors <- Usual
  Factors <- UsualAndFrozen
  Requests = {0, 3}
  Inserts <- SetInserts
  StorageFails = TRUE
  ShrinkFails = FALSE
  AssignOntoEmptied = FALSE
  SerializeMarked = TRUE
INVARIANTS ProbesEnd CountersCover
PROPERTY CallsReturn
