SPECIFICATION Spec
CONSTANTS
  MAX = 92
  MAXDIGITS = 3
  Letters <- MCLetters
  Texts <- MCTexts
  Programs <- MCPrograms
INVARIANT TokensAreTheText
 
PROPERTY ReadingEnds
CHECK_DEADLOCK FALSE
