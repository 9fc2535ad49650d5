SPECIFICATION Spec
CONSTANTS
  Keys <- Strings
  Class <- StringClass
  Type <- StringType
  Hash <- StringHash
  Unhashable <- Lists
  Values = {v}
  NoValue = NoValue
  InitBuckets = 1
  Growth = 3
  MaxCopies = 2
  MaxNest = 2
  EqMayFail = FALSE
  OutOfMemory = FALSE
INVARIANT KeysInOwnBucket
