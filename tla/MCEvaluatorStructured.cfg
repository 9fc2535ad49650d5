SPECIFICATION FairSpec
CONSTANTS
  StackMax = 4
  MaxScopes = 5
  MaxErrors = 4
  DebugDepth = 1
  Program <- Structured
  ThrowClasses = {"ValueError"}
  CatchClasses = {"ValueError"}
INVARIANT ReturnIsMine
INVARIANT ReturnFindsOwner
PROPERTY ReturnCompletes
PROPERTY ErrorsSettle
