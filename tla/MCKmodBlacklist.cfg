\* A module is blacklisted on the kernel's command line, with a dash in its name.
CONSTANTS
  Worlds <- MCDashed
  MaxNoMem = 1
  Names <- MCNames
  MaxAsked = 2
SPECIFICATION Spec
INVARIANTS BlacklistHonoured
CHECK_DEADLOCK FALSE
