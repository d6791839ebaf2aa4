SPECIFICATION FairSpec
CONSTANTS
  UseFieldWidth = TRUE
  UsePrecision = TRUE
  UseAltForm = TRUE
  UseBinary = TRUE
  UseWriteback = TRUE
  UseFloat = TRUE
  UseSmall = TRUE
  UseLarge = TRUE
  TMax <- LP64
  CBUF = 4
  FmtNumMax = 8
  PtrDigits = 3
  HexPrec = 4
  Specs <- SeqSpecs
  ArgsOf <- SeqArgs
  Chars <- MCChars
  Literals <- MCLiterals
  Heap <- MCHeap
  FloatTexts <- MCFloatTexts
  Garbage <- MCGarbage
  MaxItems = 3
INVARIANTS
  CountExact
  WritebackExact
  VaListInStep
  ConformsToC11
PROPERTY
  Terminates
