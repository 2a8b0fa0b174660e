SPECIFICATION ShellSpec
CONSTANTS
  Starters = {"tray", "renderer"}
  MaxSpawns = 2
  MaxPolls = 1
  ShellFaults = {}
CHECK_DEADLOCK FALSE
INVARIANT
  NoDoubleBackend
