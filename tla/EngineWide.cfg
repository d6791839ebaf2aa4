SPECIFICATION Spec
CONSTANTS
  UseFieldWidth = TRUE
  UsePrecision = TRUE
  UseAltForm = TRUE
  UseBinary = TRUE
  UseWriteback = TRUE
  UseFloat = TRUE
  UseSmall = TRUE
  UseLarge = TRUE
  TMax <- ILP32
  CBUF = 4
  FmtNumMax = 8
  PtrDigits = 3
  HexPrec = 4
  Specs <- WideSpecs
  ArgsOf <- WideArgs
  Chars <- MCChars
  Literals <- MCLiterals
  Heap <- MCHeap
  FloatTexts <- MCFloatTexts
  Garbage <- MCGarbage
  MaxItems = 4
INVARIANT
  NeverNegative
