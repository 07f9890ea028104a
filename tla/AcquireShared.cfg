\* Two acquirers of one collection, started in either order and finishing in
\* either order: the schedule and a watch of DESIGN 19.  What a reader of the
\* tables is promised is checked of the authority as these callers use it.
CONSTANTS
  a1 = a1  a2 = a2  c1 = c1  c2 = c2  host = host
  empty = empty  x = x  d1 = d1  d2 = d2
  i1 = i1  null = null
  Contents <- TwoContents  Empty = empty
  Hashes <- TwoHashes  HashOf <- HashTwo
  None = null  NoBatch = null
  Acquirers <- Pair  NamesOf <- SharedNames  ScopeOf <- HostScopes
  Collections <- OneCollection  Scopes <- HostOnly
  Decls <- OneDecl  Boots <- OneBoot  Skews <- NoSkew
  BatchIds <- OneId  MaxGen = 3
SPECIFICATION Spec
INVARIANT GenerationNeverReused
INVARIANT ObjectsAreNewestReading
PROPERTY AuthoritySpec
PROPERTY ViewSpec
