\* Acquisition, upgrades, silence, cuts and hub restarts around one session at
\* a time.
CONSTANTS
  c1 = c1  c2 = c2  host = host  empty = empty  x = x  y = y  d1 = d1  d2 = d2  null = null
  Collections <- TwoCollections  Scopes <- HostOnly
  Contents <- TwoContents  Empty = empty  Hashes <- TwoContents  HashOf <- Hash
  CountOf <- Count  None = null
  Decls <- TwoDecls  Boots <- OneBoot  Skews <- NoSkew  MaxGen = 2
SPECIFICATION Spec
CONSTRAINT SecondIsQuiet
INVARIANT TypeOK
INVARIANT VisibleWasApplied
INVARIANT ConnectedMeansServing
INVARIANT VisibleAxesAreHeld
PROPERTY VisibleNeverGoesBack
