SPECIFICATION ArtSpec
CONSTANTS
  MaxRows = 3
  LastDay = 2
  Age = 1
CHECK_DEADLOCK FALSE
PROPERTY
  ProofIsKept
