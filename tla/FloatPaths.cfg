SPECIFICATION Spec
CONSTANTS
  Builds <- PathBuilds
  Fractions <- MCFractions
  Formats <- PathFormats
  Pow <- MCPow
INVARIANT
  PathsAgree
