CONSTANTS
  Odd <- MCOdd
  AtMax = 3
  Issued <- MCIssued
  Pool <- MCPool
  Tails <- MCTails
  MaxRecords = 6
SPECIFICATION Spec
INVARIANTS TypeOK AcceptsExactlyValidStreams LossOnlyEmptiesAnAbsence
CHECK_DEADLOCK FALSE
