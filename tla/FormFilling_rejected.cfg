SPECIFICATION FormSpec
CONSTANTS
  Fields = {"f1"}
  MaxEssays = 1
CHECK_DEADLOCK FALSE
INVARIANT
  FailedMeansUnsent
