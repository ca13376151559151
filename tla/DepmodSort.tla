----------------------------- MODULE DepmodSort -----------------------------
(***************************************************************************)
(* How depmod puts modules in an order: depmod_load_dependencies fills the *)
(* arrays of dependencies and counts the users of every module, and        *)
(* depmod_calculate_dependencies takes modules without users away one by   *)
(* one.  What is left is in a dependency cycle, or used by one.            *)
(*                                                                         *)
(* A module is its index in the array of modules, idx.                     *)
(***************************************************************************)
EXTENDS Integers, Sequences, FiniteSets

CONSTANTS
  n_mods,   \* number of modules
  MaxDeps   \* bound: direct dependencies of one module

\* assert(depmod->modules.count < UINT16_MAX)
ASSUME CountFits == n_mods \in Nat /\ n_mods < 65535 /\ MaxDeps \in Nat

Mod == 0 .. n_mods - 1
INT32_MAX == 2147483647

VARIABLES
  deps,    \* deps[m]: array of direct dependencies
  users,   \* users[m]: how many modules depend on m and are not sorted yet
  pc,      \* the loop that is running,
  i,       \* and its counter
  roots,   \* stack of modules without users
  src,     \* the module that is taken away
  dep_sort_idx, n_sorted, dep_loop

vars == <<deps, users, pc, i, roots, src, dep_sort_idx, n_sorted, dep_loop>>

Elements(s) == {s[k] : k \in 1..Len(s)}

Init ==
  /\ deps = [m \in Mod |-> <<>>] /\ users = [m \in Mod |-> 0]
  /\ pc = "load" /\ i = 0 /\ roots = <<>> /\ src = 0
  /\ dep_sort_idx = [m \in Mod |-> INT32_MAX] /\ n_sorted = 0 /\ dep_loop = {}

----------------------------------------------------------------------------
(* depmod_load_dependencies                                                *)

\* Module i needs a symbol that d exports: mod_add_dependency.  The array holds
\* d once.  Nothing here keeps a module from depending on itself.
AddDependency(d) ==
  /\ pc = "load" /\ i < n_mods /\ Len(deps[i]) < MaxDeps
  /\ d \notin Elements(deps[i])
  /\ deps' = [deps EXCEPT ![i] = Append(@, d)]
  /\ users' = [users EXCEPT ![d] = @ + 1]
  /\ UNCHANGED <<pc, i, roots, src, dep_sort_idx, n_sorted, dep_loop>>

LoadNext ==
  /\ pc = "load"
  /\ IF i < n_mods THEN i' = i + 1 /\ pc' = pc ELSE i' = 0 /\ pc' = "roots"
  /\ UNCHANGED <<deps, users, roots, src, dep_sort_idx, n_sorted, dep_loop>>

----------------------------------------------------------------------------
(* depmod_calculate_dependencies                                           *)

\* Mutant of FindRoot: a module with one user is taken for a root.
FindRootUsed ==
  /\ pc = "roots" /\ i < n_mods
  /\ roots' = IF users[i] <= 1 THEN Append(roots, i) ELSE roots
  /\ i' = i + 1
  /\ UNCHANGED <<deps, users, pc, src, dep_sort_idx, n_sorted, dep_loop>>

FindRoot ==
  /\ pc = "roots" /\ i < n_mods
  /\ roots' = IF users[i] = 0 THEN Append(roots, i) ELSE roots
  /\ i' = i + 1
  /\ UNCHANGED <<deps, users, pc, src, dep_sort_idx, n_sorted, dep_loop>>

RootsFound ==
  /\ pc = "roots" /\ i = n_mods
  /\ pc' = "sort"
  /\ UNCHANGED <<deps, users, i, roots, src, dep_sort_idx, n_sorted, dep_loop>>

Pop ==
  /\ pc = "sort" /\ roots # <<>>
  /\ LET m == roots[Len(roots)] IN
       /\ src' = m
       /\ dep_sort_idx' = [dep_sort_idx EXCEPT ![m] = n_sorted]
  /\ roots' = SubSeq(roots, 1, Len(roots) - 1)
  /\ n_sorted' = n_sorted + 1
  /\ pc' = "edges" /\ i' = 1
  /\ UNCHANGED <<deps, users, dep_loop>>

\* Mutant of Edge: a module is pushed while it has one more user.
EdgeEarly ==
  /\ pc = "edges" /\ i <= Len(deps[src])
  /\ LET dst == deps[src][i] IN
       /\ users' = [users EXCEPT ![dst] = @ - 1]
       /\ roots' = IF users[dst] \in {1, 2} THEN Append(roots, dst) ELSE roots
  /\ i' = i + 1
  /\ UNCHANGED <<deps, pc, src, dep_sort_idx, n_sorted, dep_loop>>

Edge ==
  /\ pc = "edges" /\ i <= Len(deps[src])
  /\ LET dst == deps[src][i] IN
       /\ users' = [users EXCEPT ![dst] = @ - 1]
       /\ roots' = IF users[dst] = 1 THEN Append(roots, dst) ELSE roots
  /\ i' = i + 1
  /\ UNCHANGED <<deps, pc, src, dep_sort_idx, n_sorted, dep_loop>>

EdgesDone ==
  /\ pc = "edges" /\ i > Len(deps[src])
  /\ pc' = "sort"
  /\ UNCHANGED <<deps, users, i, roots, src, dep_sort_idx, n_sorted, dep_loop>>

\* Mutants of MarkLoops: a module with one user is not marked; modules in cycles
\* are waited for.
MarkLoopsShared ==
  /\ pc = "sort" /\ roots = <<>>
  /\ dep_loop' = IF n_sorted < n_mods THEN {m \in Mod : users[m] > 1} ELSE {}
  /\ pc' = "order" /\ i' = 0
  /\ UNCHANGED <<deps, users, roots, src, dep_sort_idx, n_sorted>>

MarkLoopsNone ==
  /\ pc = "sort" /\ roots = <<>> /\ n_sorted = n_mods
  /\ pc' = "order" /\ i' = 0
  /\ UNCHANGED <<deps, users, roots, src, dep_sort_idx, n_sorted, dep_loop>>

\* dep_sort_idx of these modules is INT32_MAX already
MarkLoops ==
  /\ pc = "sort" /\ roots = <<>>
  /\ dep_loop' = IF n_sorted < n_mods THEN {m \in Mod : users[m] # 0} ELSE {}
  /\ pc' = "order" /\ i' = 0
  /\ UNCHANGED <<deps, users, roots, src, dep_sort_idx, n_sorted>>

\* dep_cmp(a, b) <= 0: modules in loops come last
Ordered(a, b) ==
  IF a \in dep_loop <=> b \in dep_loop THEN dep_sort_idx[a] <= dep_sort_idx[b] ELSE b \in dep_loop

\* What qsort may make of an array without duplicates
Orders(s) ==
  {t \in [1..Len(s) -> Elements(s)] :
     /\ Elements(t) = Elements(s)
     /\ \A k, l \in 1..Len(s) : (t[k] = t[l] => k = l) /\ (k < l => Ordered(t[k], t[l]))}

\* depmod_sort_dependencies, one module per step
SortDependencies ==
  /\ pc = "order" /\ i < n_mods
  /\ \E s \in Orders(deps[i]) : deps' = [deps EXCEPT ![i] = s]
  /\ i' = i + 1
  /\ UNCHANGED <<users, pc, roots, src, dep_sort_idx, n_sorted, dep_loop>>

Calculated ==
  /\ pc = "order" /\ i = n_mods
  /\ pc' = "done"
  /\ UNCHANGED <<deps, users, i, roots, src, dep_sort_idx, n_sorted, dep_loop>>

Next ==
  \/ \E d \in Mod : AddDependency(d)
  \/ LoadNext
  \/ FindRoot \/ RootsFound
  \/ Pop \/ Edge \/ EdgesDone
  \/ MarkLoops
  \/ SortDependencies \/ Calculated

\* One thread that runs.
Spec == Init /\ [][Next]_vars /\ WF_vars(Next)

----------------------------------------------------------------------------
(* Properties.                                                             *)

Sorted(m) == dep_sort_idx[m] # INT32_MAX
DependsOn(j, m) == m \in Elements(deps[j])

TypeOK ==
  /\ deps \in [Mod -> Seq(Mod)] /\ users \in [Mod -> Nat]
  /\ pc \in {"load", "roots", "sort", "edges", "order", "done"} /\ i \in Nat
  /\ roots \in Seq(Mod) /\ (pc = "edges" => src \in Mod)
  /\ dep_sort_idx \in [Mod -> 0..n_mods-1 \cup {INT32_MAX}] /\ n_sorted \in 0..n_mods
  /\ dep_loop \subseteq Mod

\* assert(users[dst_idx] > 0): no module is used less often than counted, and
\* the 16 bit counts do not wrap around.
AssertHolds ==
  pc = "edges" /\ i <= Len(deps[src]) =>
    users[deps[src][i]] > 0 /\ users[deps[src][i]] <= 65535

\* A module is sorted after everything that uses it: the order modules.dep needs.
UsersFirst ==
  \A j, m \in Mod : DependsOn(j, m) /\ Sorted(m) => Sorted(j) /\ dep_sort_idx[j] < dep_sort_idx[m]

\* A set of modules in which each has a user in the set
Supported(S) == \A m \in S : \E j \in S : DependsOn(j, m)

\* In the end every module has its own place, or is marked, and the marked ones
\* are exactly those that a cycle reaches: no module is marked for another reason,
\* and no cycle is missed.
LoopsExact ==
  pc = "done" =>
    /\ dep_loop = {m \in Mod : ~Sorted(m)}
    /\ Supported(dep_loop)
    /\ \A S \in SUBSET Mod : Supported(S) => S \subseteq dep_loop

Terminates == <>(pc = "done")
=============================================================================
