\* Three configurations, in every order of readdir, with one failing allocation.
CONSTANTS
  Worlds <- MCWorlds
  MaxNoMem = 1
  Names <- MCNames
  MaxAsked = 3
SPECIFICATION Spec
INVARIANTS NodesOwned ConfigRead LookupExact
CHECK_DEADLOCK FALSE
