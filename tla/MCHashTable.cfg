SPECIFICATION Spec
CONSTANTS
  Keys <- Strings
  Class <- StringClass
  Type <- StringType
  Hash <- StringHash
  Unhashable <- Lists
  Values = {v, w}
  NoValue = NoValue
  InitBuckets = 2
  Growth = 3
  MaxCopies = 1
  MaxNest = 1
  EqMayFail = TRUE
  OutOfMemory = TRUE
INVARIANT TypeOK
INVARIANT KeysInOwnBucket
INVARIANT UniqueKeys
INVARIANT SizeCounts
INVARIANT LoadBounded
PROPERTY IterationComplete
PROPERTY ImplementsFiniteMap
