SPECIFICATION Spec
CONSTANTS
  UseFieldWidth = TRUE
  UsePrecision = TRUE
  UseAltForm = TRUE
  UseBinary = TRUE
  UseWriteback = TRUE
  UseFloat = TRUE
  UseSmall = TRUE
  UseLarge = TRUE
  TMax <- LLP64
  CBUF = 4
  FmtNumMax = 8
  PtrDigits = 3
  HexPrec = 4
  Specs <- OneSpecs
  ArgsOf <- OneArgs
  Chars <- MCChars
  Literals <- MCLiterals
  Heap <- MCHeap
  FloatTexts <- MCFloatTexts
  Garbage <- MCGarbage
  MaxItems = 1
INVARIANTS
  ConformsToC11
  CountExact
  VaListInStep
  StringReadInBounds
  CbufInBounds
  LengthsFitInt
