SPECIFICATION Spec
CONSTANTS
  Builds <- TieBuilds
  Fractions <- MCFractions
  Formats <- TieFormats
  Pow <- MCPow
INVARIANT
  TiesToEven
