SPECIFICATION Spec
CHECK_DEADLOCK FALSE
CONSTANTS
  Objects = {1, 2, 3, 4}
  Malloc <- Lowest
  Nil = Nil
  C = C
  Address <- Addresses
  FirstBuckets = 2
  Elements <- OneElement
  SetupOrder <- Creation
  TearDownOrder <- TearDowns
  Locals = {"a", "b"}
  Repl = FALSE
INVARIANT TypeOK
INVARIANT CountsExact
INVARIANT NoDangling
INVARIANT GarbageIsCyclic
INVARIANT AllObjectsExact
INVARIANT GcFindsNoProblem
PROPERTY ShutsDown
