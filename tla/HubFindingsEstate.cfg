\* Two hosts, so that a fold meets a host that is dark or unswept, and a
\* collector that may be replaced by one that declares a fact less.
CONSTANTS
  Hosts = {h1, h2}  Collections = {c1}  Declarations = {{f1, f2}, {f1}}
  First = {f1, f2}  Writers = {}  None = none
  MaxReadings = 2  MaxLog = 1  MaxRestarts = 1
SPECIFICATION Spec
PROPERTY ResolvedOnlyByNewerReading
SYMMETRY HostSymmetry
CONSTRAINT HostsTakeTurns
CHECK_DEADLOCK FALSE
