SPECIFICATION Spec
CONSTANTS
  MAX = 92
  MAXDIGITS = 3
  ByteStrings = {}
  Chars <- MCChars
  White <- MCWhite
  Calls = {}
  IntegerTexts <- MCIntegerTexts
  FileKinds = {}
  MaxLength = 3
  ChunkSize = 2
  MaxRead = 4
  MaxDepth = 1
INVARIANT LiteralsInRange
CHECK_DEADLOCK FALSE
