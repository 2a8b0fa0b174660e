SPECIFICATION DocSpec
CONSTANTS
  MaxVersions = 1
  Offered <- MCOffered
  DocFaults = {}
CHECK_DEADLOCK FALSE
INVARIANT
  ResumeSentIsRecorded
