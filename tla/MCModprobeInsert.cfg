\* Three processes in seven situations: see MCModprobeInsert.tla.
CONSTANTS
  Mod <- MCMod
  Uses <- MCUses
  Deps <- MCDeps
  Pre <- PreC
  Post <- PostB
  Builtin = {"v"}
  LoadedAtFirst = {}
  Inserter = {"p1", "p2", "p3"}
  Lookup <- MCLookup
  Situations <- MCSituations
SPECIFICATION Spec
INVARIANTS InsertedAll AllTried FirstTimeOnce
PROPERTIES AllSucceed
CHECK_DEADLOCK FALSE
