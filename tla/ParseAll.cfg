SPECIFICATION FairSpec
CONSTANTS
  TMax <- MCMax
  Builds <- MCBuilds
  LeastMax <- MCLeast
  FastMax <- MCFast
  FmtNumBig = 30
  Chars <- MCChars
  Fresh <- MCFresh
  MaxLen = 6
  Garbage <- MCGarbage
INVARIANTS
  ParsesGrammar
  Tiles
  NeverPastNul
  HandsOnParsable
PROPERTY
  WalksToEnd
