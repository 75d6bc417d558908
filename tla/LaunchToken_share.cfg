CONSTANTS
  b1 = b1
  b2 = b2
  i1 = i1
  i2 = i2
  Zero = Zero
  Torn = Torn
  Beam <- MCBeam
  Image <- MCImage
  MaxLoads <- MCMaxLoads
  MaxBuilds <- MCMaxBuilds
SPECIFICATION Spec
INVARIANTS TypeOK OnlyIssuedTokens ReturnsAsEnclave SavedForNext
PROPERTIES ImplementsTokenCache
CHECK_DEADLOCK FALSE
