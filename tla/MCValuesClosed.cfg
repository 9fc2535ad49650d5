SPECIFICATION Spec
CONSTANTS
  MAX = 92
  MAXDIGITS = 3
  ByteStrings = {}
  Chars <- MCChars
  White <- MCWhite
  Calls = {}
  IntegerTexts = {}
  FileKinds = {"File"}
  MaxLength = 3
  ChunkSize = 2
  MaxRead = 4
  MaxDepth = 1
INVARIANT ClosedFilesRefused
CHECK_DEADLOCK FALSE
