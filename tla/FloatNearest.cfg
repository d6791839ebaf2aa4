SPECIFICATION Spec
CONSTANTS
  Builds <- NearestBuilds
  Fractions <- MCFractions
  Formats <- NearestFormats
  Pow <- MCPow
INVARIANT
  NearestPrinted
