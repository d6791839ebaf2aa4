SPECIFICATION BoundedSpec
CONSTANTS
  UseFieldWidth = TRUE
  UsePrecision = FALSE
  UseAltForm = TRUE
  UseBinary = TRUE
  UseWriteback = TRUE
  UseFloat = TRUE
  UseSmall = TRUE
  UseLarge = FALSE
  TMax <- AVR
  CBUF = 4
  FmtNumMax = 8
  PtrDigits = 3
  HexPrec = 4
  Specs <- CallSpecs
  ArgsOf <- CallArgs
  Chars <- MCChars
  Literals <- MCLiterals
  Heap <- MCHeap
  FloatTexts <- MCFloatTexts
  Garbage <- MCGarbage
  MaxItems = 4
  Cells <- MCCells
  Calls <- MCCalls
INVARIANTS
  BufferIsPrefix
  OutsideUntouched
  AlwaysTerminated
  ConformsToC11
  CountExact
PROPERTY
  KeepsContract
