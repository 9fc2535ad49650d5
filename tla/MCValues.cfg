SPECIFICATION Spec
CONSTANTS
  MAX = 92
  MAXDIGITS = 3
  ByteStrings <- MCByteStrings
  Chars <- MCChars
  White <- MCWhite
  Calls <- MCCalls
  IntegerTexts <- MCIntegerTexts
  FileKinds = {"File", "FakeFile"}
  MaxLength = 3
  ChunkSize = 2
  MaxRead = 4
  MaxDepth = 1
INVARIANT DecodedExactly
INVARIANT StringsExact
INVARIANT ReplaceFits
INVARIANT IntegersExact
INVARIANT LinesComplete
PROPERTY AsCloses
PROPERTY ImplementsByteFile
CHECK_DEADLOCK FALSE
