SPECIFICATION Spec
CONSTANTS
  MAX = 92
  MAXDIGITS = 3
  ByteStrings = {}
  Chars <- MCChars
  White <- MCWhite
  Calls = {}
  IntegerTexts = {}
  FileKinds = {"FakeFile"}
  MaxLength = 3
  ChunkSize = 2
  MaxRead = 4
  MaxDepth = 1
PROPERTY AsRethrows
CHECK_DEADLOCK FALSE
