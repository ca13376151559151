---------------------------- MODULE KernelTable ----------------------------
(***************************************************************************)
(* The kernel's table of modules, as modprobe sees and changes it: the     *)
(* system calls init_module and delete_module and the files of /sys/module.*)
(* None of this is code of kmod; it is the environment in which several    *)
(* modprobe processes meet.                                                *)
(***************************************************************************)
EXTENDS ModuleGraph

CONSTANTS
  Builtin,   \* modules that are linked into the kernel
  LoadedAtFirst   \* modules that are live at first

\* What a live module uses is there, and what is linked into the kernel uses nothing else.
ASSUME LoadedType ==
  /\ Builtin \cup LoadedAtFirst \subseteq Mod
  /\ \A m \in Builtin : Uses[m] \subseteq Builtin
  /\ \A m \in LoadedAtFirst : Uses[m] \subseteq Builtin \cup LoadedAtFirst

VARIABLE kernel   \* kernel[m]: the state of m

States == {"absent", "coming", "live", "going", "builtin"}

KernelType == kernel \in [Mod -> States]

KernelInit ==
  kernel = [m \in Mod |-> IF m \in Builtin THEN "builtin"
                          ELSE IF m \in LoadedAtFirst THEN "live" ELSE "absent"]

Loaded(m) == kernel[m] \in {"coming", "live", "going"}

\* /sys/module/<m>/refcnt, of a module that is loaded
Refcnt(m) == Cardinality({j \in Mod : Loaded(j) /\ m \in Uses[j]})

\* What reading /sys/module/<m>/initstate gives: "none" when there is no file
InitstateFile(m) == IF Loaded(m) THEN kernel[m] ELSE "none"

\* There is a directory /sys/module/<m>
ModuleDir(m) == kernel[m] # "absent"

\* init_module: refused at once, or the module's init function starts.  The
\* caller waits while a module that m uses is still coming.
InitModuleError(m) ==
  CASE kernel[m] # "absent" -> "EEXIST"
    [] \E d \in Uses[m] : kernel[d] \in {"absent", "going"} -> "ENOENT"
    [] OTHER -> "0"

InitModuleWaits(m) == kernel[m] = "absent" /\ \E d \in Uses[m] : kernel[d] = "coming"

InitModuleBegin(m) == kernel' = [kernel EXCEPT ![m] = "coming"]

\* The init function returns.
InitModuleEnd(m, ok) == kernel' = [kernel EXCEPT ![m] = IF ok THEN "live" ELSE "absent"]

\* delete_module; the only users of a module are other modules
DeleteModuleError(m) ==
  CASE ~Loaded(m)          -> "ENOENT"
    [] Refcnt(m) > 0       -> "EAGAIN"
    [] kernel[m] # "live"  -> "EBUSY"
    [] OTHER               -> "0"

DeleteModuleBegin(m) == kernel' = [kernel EXCEPT ![m] = "going"]
DeleteModuleEnd(m)   == kernel' = [kernel EXCEPT ![m] = "absent"]
=============================================================================
