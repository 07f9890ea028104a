\* One host and an operator: the condition comes, goes and comes back.
CONSTANTS
  Hosts = {h1}  Collections = {c1}  Declarations = {{f1}}  First = {f1}
  Writers = {w1}  None = none
  MaxReadings = 3  MaxLog = 3  MaxRestarts = 1
SPECIFICATION Spec
INVARIANT TypeOK
INVARIANT AcknowledgementOutlivesOnlyARace
PROPERTY NothingClosesUnobserved
CHECK_DEADLOCK FALSE
