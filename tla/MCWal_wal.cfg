SPECIFICATION Spec
CONSTANTS
  MaxRecords = 4
INVARIANTS
  AckedRecovered
  RecoveredInOrder
