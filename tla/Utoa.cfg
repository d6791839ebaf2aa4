SPECIFICATION Spec
CONSTANTS
  Builds <- MCBuilds
  Bases <- MCBases
  Values <- MCValues
  WordBits = 8
  Pow <- MCPow
INVARIANTS
  ReadsBack
  FitsCbuf
PROPERTY
  KeepsNumeral
