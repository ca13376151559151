---------------------------- MODULE ModuleGraph ----------------------------
(***************************************************************************)
(* The modules of a kernel and how they depend on each other: what their   *)
(* symbols need, what modules.dep says of it, and the soft dependencies of *)
(* the configuration.                                                      *)
(***************************************************************************)
EXTENDS Integers, Sequences, FiniteSets

CONSTANTS
  Mod,      \* modules
  Uses,     \* Uses[m]: the modules whose symbols m uses
  Deps,     \* Deps[m]: what kmod_module_get_dependencies returns for m
  Pre,      \* Pre[m]: the modules of "softdep m pre:"
  Post      \* Post[m]: ... of "post:"

\* There are finitely many modules, so that users can be counted and probe lists end.
ASSUME ModFinite == IsFiniteSet(Mod)

ASSUME UsesType == Uses \in [Mod -> SUBSET Mod]
ASSUME SoftdepsType == Pre \in [Mod -> Seq(Mod)] /\ Post \in [Mod -> Seq(Mod)]

DepSet(m) == {Deps[m][i] : i \in 1..Len(Deps[m])}

\* depmod writes to modules.dep all that a module needs, directly or not, and
\* orders it so that libkmod's list has a module after all that it needs.  That it does,
\* when there is no loop and no lack of memory, is DepmodSortProof.ModprobeMayAssume.
ASSUME DepsClosed ==
  \A m \in Mod :
    /\ Deps[m] \in Seq(Mod)
    /\ DepSet(m) = Uses[m] \cup UNION {DepSet(d) : d \in Uses[m]}
    /\ \A i, j \in 1..Len(Deps[m]) : Deps[m][j] \in DepSet(Deps[m][i]) => j < i
=============================================================================
