SPECIFICATION DiscSpec
CONSTANTS
  p1 = p1
  p2 = p2
  b1 = b1
  b2 = b2
  Polls <- MCPolls
  BoardOf <- MCBoardOf
  Boards <- MCBoards
  Openings = {"o1"}
  MaxCrashes = 0
CHECK_DEADLOCK FALSE
INVARIANT
  AppliedOncePerOpening
