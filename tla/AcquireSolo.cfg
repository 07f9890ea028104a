\* One collector with two collections, upgraded and crashed at any step; what
\* a commit carries makes no difference to these properties.
CONSTANTS
  a1 = a1  a2 = a2  c1 = c1  c2 = c2  host = host
  empty = empty  x = x  d1 = d1  d2 = d2
  i1 = i1  null = null
  Contents <- OneContent  Empty = empty
  Hashes <- TwoHashes  HashOf <- HashOne
  None = null  NoBatch = null
  Acquirers <- Solo  NamesOf <- SoloNames  ScopeOf <- HostScopes
  Collections <- TwoCollections  Scopes <- HostOnly
  Decls <- TwoDecls  Boots <- OneBoot  Skews <- NoSkew
  BatchIds <- OneId  MaxGen = 2
SPECIFICATION Spec
INVARIANT TypeOK
INVARIANT AckedMeansApplied
INVARIANT EdgesComeFromAppliedReading
INVARIANT NewestAnswerDecidesStale
INVARIANT AbsentIsNeverClaimedWrongly
INVARIANT StampedDeclarationIsHeld
