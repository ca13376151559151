\* Indexes of up to three entries of two modules.
CONSTANTS
  INDEX_CHILDMAX = 7
  Star = 1
  Quest = 2
  Open = 3
  Close = 4
  Keys <- MCKeys
  Searched <- MCSearched
  Priorities = {1, 2}
  MaxEntries = 3
SPECIFICATION Spec
INVARIANTS SearchExact WildExact DumpExact
CHECK_DEADLOCK FALSE
