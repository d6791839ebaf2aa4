SPECIFICATION Spec
CONSTANTS
  IntMax = 32767
  FmtNumMax = 8192
  FmtNumBig = 2048
  Digits = {0, 2, 4, 8}
  MaxDigits = 6
INVARIANT
  PinnedOrExact
