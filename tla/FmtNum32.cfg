SPECIFICATION Spec
CONSTANTS
  IntMax = 65535
  FmtNumMax = 255
  FmtNumBig = 4096
  Digits = {0, 2, 5, 6, 9}
  MaxDigits = 7
INVARIANTS
  PinnedOrExact
  NeverWraps
