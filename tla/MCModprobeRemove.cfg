\* Two processes that remove one module and all that it needs, the first of them along
\* soft dependencies with a cycle, a dry run beside them, and a remove command that
\* succeeds or is killed.
CONSTANTS
  Mod <- MCMod
  Uses <- MCUses
  Deps <- MCDeps
  Pre <- PreAD
  Post <- PostCE
  Builtin = {}
  LoadedAtFirst = {"a", "b", "c", "d", "e"}
  Remover = {"p1", "p2", "p3"}
  RemoveTarget <- Targets
  RemoveOptions <- FirstTime
  RemoveCommands = {"c"}
  RemoveEndings = {"0", "signal"}
SPECIFICATION Spec
INVARIANTS UnusedDepsGone FirstTimeRemoves
PROPERTIES RemoversReturn
CHECK_DEADLOCK FALSE
