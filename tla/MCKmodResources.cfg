\* modules.dep and two indexes, of which the second is modules.builtin.bin, and
\* two runs of depmod; eight files are more than ever exist.
CONSTANTS
  N = 3
  Builtin = {3}
  MaxInodes = 8
  MaxRuns = 2
  MaxTime = 1
  Second = 1
  Index = {2, 3}
SPECIFICATION ResourcesSpec
INVARIANTS InstalledComplete SuccessInstalls
PROPERTIES LoadedFind Converges
CHECK_DEADLOCK FALSE
