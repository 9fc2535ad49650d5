SPECIFICATION Spec
CONSTANTS
  StackMax = 3
  MaxScopes = 4
  MaxErrors = 3
  DebugDepth = 1
  Program <- EveryStatement
  ThrowClasses = {"ValueError"}
  CatchClasses = {"Error", "ValueError", "MarkerError"}
INVARIANT TypeOK
INVARIANT StackBalanced
INVARIANT ErrIffFailing
INVARIANT NativeStackBounded
PROPERTY FirstTracebackKept
