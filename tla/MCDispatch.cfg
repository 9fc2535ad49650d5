\* Comparing stops after a crash.
CONSTANTS
  NewIds = {A, B}
  Changeable = {A}
  Subjects = {A, B}
  Things <- MCThings
  Heap <- MCHeap
  DepthMax = 2
  MappingMax = 3
  MaxFunctions = 9
SPECIFICATION Spec
INVARIANT CastsAreSafe
INVARIANT ComparedExactly
PROPERTY DispatchEnds
CHECK_DEADLOCK FALSE
