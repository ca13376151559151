\* Every set of up to five of seven module files, four configurations and contents of modules.order,
\* in every order of readdir; arrays grow by one.
CONSTANTS
  Configurations <- MCConfigurations
  Disks <- MCDisks
  Arguments <- MCArguments
  Orders <- MCOrders
  Exports <- MCExports
  Needs <- MCNeeds
  KernelSymbols = {"k", "x2"}
  Step = 1
SPECIFICATION Spec
INVARIANTS ConfigExact HighestKept OrderExact DepsExact Released
CHECK_DEADLOCK FALSE
