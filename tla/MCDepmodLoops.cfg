\* Three modules, of which one may need another that is in a loop.
CONSTANTS
  n_mods = 3
  MaxDeps = 2
  MaxNoMem = 0
SPECIFICATION DepsSpec
INVARIANTS LoopedAreIgnored
CHECK_DEADLOCK FALSE
