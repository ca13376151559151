\* Every graph of four modules with up to two soft dependencies.
CONSTANTS
  N = 4
  MaxSoftdeps = 2
SPECIFICATION Spec
INVARIANTS DepsFirst Complete PreFirst
