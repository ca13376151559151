\* Every call of a program with up to two references of the context, of a and of b
\* and one of c and of ax, and one failing allocation that loses references.  All
\* files are on the disk; a line fails to parse when a dependency has another path.
CONSTANTS
  Key <- MCKey
  ModOf <- MCModOf
  DepLine <- MCDepLine
  Indexed <- AllIndexed
  Files <- AllFiles
  MaxLeaked = 1
  MaxHeld <- MCMaxHeld
  MaxCtx = 2
SPECIFICATION FairSpec
INVARIANTS RefcountExact NoDangling CtxOutlivesModules NoGarbage
PROPERTIES CachedUntilFreed CallsReturn
CHECK_DEADLOCK FALSE
