SPECIFICATION Spec
CONSTANTS
  Tables = {t1}
  Elements <- TrioKeys
  Keys <- TrioKeys
  KeyOf <- TrioIdentity
  Hash <- TrioHash
  DefaultOf <- TrioIdentity
  Empty = Empty
  Erased = Erased
  MinBuckets = 4
  DefaultBuckets = 4
  BucketCounts = {4, 8}
  GroupSize = 4
  DefaultFactors <- Usual
  Factors <- UsualOnly
  Requests = {0}
  Inserts <- TrioInserts
  StorageFails = FALSE
  ShrinkFails = FALSE
  AssignOntoEmptied = FALSE
  SerializeMarked = TRUE
INVARIANT EveryElementFound
