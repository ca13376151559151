\* Every array of up to two dependencies of each of four modules, itself included.
CONSTANTS
  n_mods = 4
  MaxDeps = 2
  MaxNoMem = 1
SPECIFICATION DepsSpec
INVARIANTS AssertHolds UsersFirst LoopsExact LinesExact
PROPERTIES Terminates
CHECK_DEADLOCK FALSE
