SPECIFICATION Spec
CONSTANTS
  Tables = {t1}
  Elements <- SetKeys
  Keys <- SetKeys
  KeyOf <- SetIdentity
  Hash <- SetHash
  DefaultOf <- SetIdentity
  Empty = Empty
  Erased = Erased
  MinBuckets = 2
  DefaultBuckets = 4
  BucketCounts = {2, 4, 8, 16}
  GroupSize = 4
  DefaultFactors <- Usual
  Factors <- UsualAndDense
  Requests = {0, 1, 5}
  Inserts <- SetInserts
  StorageFails = FALSE
  ShrinkFails = FALSE
  AssignOntoEmptied = FALSE
  SerializeMarked = FALSE
INVARIANTS TypeOK EveryElementFound CountsExact ProbesEnd SpotStillVacant AssertionHolds RoomToPlace
PROPERTIES ResizeActuallyResizes NoThrashing
