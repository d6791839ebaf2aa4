SPECIFICATION Spec
CONSTANTS
  Builds <- MCBuilds
  Fractions <- MCFractions
  Formats <- MCFormats
  Pow <- MCPow
INVARIANTS
  TypeOK
  ExactWhenItFits
  PathsAgreeOnDecimals
  ScalingNeverWraps
  DigitsDecimal
  NearestUnit
  WithinBuf
  ErrOnlyWhenFull
  TextDenotesDigits
  HexNearest
PROPERTY
  Descends
