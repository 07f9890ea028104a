\* One host that goes on dialling.
CONSTANTS
  Hosts = {h1}  Collections = {c1}  Declarations = {{f1}}  First = {f1}
  Writers = {}  None = none
  MaxReadings = 3  MaxLog = 3  MaxRestarts = 1
SPECIFICATION FairSpec
PROPERTY ClearedFindingsClose
CHECK_DEADLOCK FALSE
