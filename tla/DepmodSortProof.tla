-------------------------- MODULE DepmodSortProof --------------------------
(***************************************************************************)
(* depmod's sort, and what it writes of it, are right for every number of  *)
(* modules and every array of dependencies, cyclic ones included: the      *)
(* assertion of the sort holds, a module is sorted after all that uses it, *)
(* what is marked as looped is exactly what a cycle reaches, and a line of *)
(* modules.dep has exactly what its module needs, in order.                *)
(*                                                                         *)
(* The argument for the sort: users[m] is exactly the number of modules    *)
(* that use m and whose edge to m was not taken away yet.  So a module     *)
(* whose count is 0 has no such user left, and one that is left over has   *)
(* one.                                                                    *)
(*                                                                         *)
(* The argument for a line: a call of the recursion that collects it has a *)
(* module more in the array than the call it is made from, so that there   *)
(* is exactly one function that the recursion defines; at the end of a     *)
(* call all that was put into the array has its dependencies there; and    *)
(* where the counting returns, it counts every module that is put in.      *)
(***************************************************************************)
EXTENDS DepmodDeps, FiniteSetTheorems, SequenceTheorems, WellFoundedInduction, TLAPS

\* The edge from j to m was not taken away yet.
Pending(j, m) ==
  ~Sorted(j) \/ (pc = "edges" /\ j = src /\ \E k \in i..Len(deps[src]) : deps[src][k] = m)

Waiting(m) == {j \in Mod : DependsOn(j, m) /\ Pending(j, m)}

Types ==
  /\ deps \in [Mod -> Seq(Mod)] /\ users \in [Mod -> Nat]
  /\ pc \in {"load", "roots", "sort", "edges", "order", "done"} /\ i \in Nat
  /\ roots \in Seq(Mod) /\ (pc = "edges" => src \in Mod)
  /\ dep_sort_idx \in [Mod -> Nat] /\ n_sorted \in Nat
  /\ dep_loop \subseteq Mod

\* An array of dependencies holds a module once.
Once == \A m \in Mod : \A k, l \in 1..Len(deps[m]) : deps[m][k] = deps[m][l] => k = l

Exact == \A m \in Mod : users[m] = Cardinality(Waiting(m))

\* Nothing is sorted before the sort, and what a loop has done so far.
Phases ==
  /\ pc \in {"load", "roots"} => i <= n_mods /\ \A m \in Mod : ~Sorted(m)
  /\ pc = "load" => roots = <<>>
  /\ pc = "roots" => \A k \in 1..Len(roots) : roots[k] < i
  /\ pc = "edges" => Sorted(src) /\ i >= 1
  /\ pc = "order" => i <= n_mods
  /\ pc \in {"order", "done"} => roots = <<>> /\ dep_loop = {m \in Mod : ~Sorted(m)}

\* The sorted modules have the places below n_sorted, and no users.
Places ==
  /\ n_sorted = Cardinality({m \in Mod : Sorted(m)})
  /\ \A m \in Mod : Sorted(m) => users[m] = 0 /\ dep_sort_idx[m] < n_sorted

\* The stack holds each module without users that is not sorted, once.
Stack ==
  /\ \A k \in 1..Len(roots) : ~Sorted(roots[k]) /\ users[roots[k]] = 0
  /\ \A k, l \in 1..Len(roots) : roots[k] = roots[l] => k = l
  /\ \A m \in Mod :
       /\ users[m] = 0 /\ ~Sorted(m)
       /\ pc \in {"sort", "edges", "order", "done"} \/ (pc = "roots" /\ m < i)
       => \E k \in 1..Len(roots) : roots[k] = m

\* Modules that support each other are never sorted.
CyclesStay == \A S \in SUBSET Mod : Supported(S) => \A m \in S : ~Sorted(m)

IInv ==
  Types /\ Once /\ Exact /\ Phases /\ Places /\ Stack /\ UsersFirst /\ CyclesStay

----------------------------------------------------------------------------
(* Lemmas about counts.                                                    *)

\* There are n_mods modules, so no set of modules is larger.
LEMMA ModFinite ==
  /\ n_mods \in Nat /\ n_mods < 65535
  /\ IsFiniteSet(Mod) /\ Cardinality(Mod) = n_mods
<1>1. n_mods \in Nat /\ n_mods < 65535
  BY CountFits
<1>2. n_mods - 1 \in Int /\ (0 > n_mods - 1 <=> n_mods = 0)
  BY <1>1
<1>. QED
  BY <1>1, <1>2, FS_Interval, 0 \in Int DEF Mod

\* A set of modules has at most n_mods elements, and that many only if it is all.
LEMMA SubsetFinite ==
  ASSUME NEW S \in SUBSET Mod
  PROVE  /\ IsFiniteSet(S) /\ Cardinality(S) \in Nat /\ Cardinality(S) <= n_mods
         /\ Cardinality(S) = n_mods => S = Mod
         /\ Cardinality(S) = 0 <=> S = {}
  BY ModFinite, FS_Subset, FS_CardinalityType, FS_EmptySet

\* An unsorted module whose count is 0 is used by sorted modules only.
LEMMA NoUserLeft ==
  ASSUME Types, Exact, NEW m \in Mod, users[m] = 0
  PROVE  \A j \in Mod : DependsOn(j, m) => ~Pending(j, m)
<1>1. Waiting(m) \in SUBSET Mod
  BY DEF Waiting
<1>2. Waiting(m) = {}
  BY <1>1, SubsetFinite DEF Exact
<1>. QED
  BY <1>2 DEF Waiting

\* A module whose count is not 0 has a user left.
LEMMA UserLeft ==
  ASSUME Types, Exact, NEW m \in Mod, users[m] # 0
  PROVE  \E j \in Mod : DependsOn(j, m) /\ Pending(j, m)
<1>1. Waiting(m) \in SUBSET Mod
  BY DEF Waiting
<1>2. Waiting(m) # {}
  BY <1>1, SubsetFinite DEF Exact
<1>. QED
  BY <1>2 DEF Waiting

----------------------------------------------------------------------------
(* The invariant.                                                          *)

\* Before anything is loaded no module has a dependency, a user or a place.
LEMMA InitInv == Init => IInv
<1>. SUFFICES ASSUME Init PROVE IInv
  OBVIOUS
<1>1. \A m \in Mod : deps[m] = <<>> /\ Elements(deps[m]) = {}
  BY DEF Init, Elements
<1>2. \A m \in Mod : ~Sorted(m) /\ Waiting(m) = {}
  BY <1>1 DEF Init, Sorted, Waiting, DependsOn
<1>3. {m \in Mod : Sorted(m)} = {}
  BY <1>2
<1>4. Types
  BY DEF Init, Types, INT32_MAX
<1>5. Once
  BY <1>1 DEF Once
<1>6. Exact
  BY <1>2, FS_EmptySet DEF Exact, Init
<1>7. Phases
  BY <1>2, ModFinite DEF Phases, Init
<1>8. Places
  BY <1>2, <1>3, FS_EmptySet DEF Places, Init
<1>9. Stack
  BY DEF Stack, Init
<1>10. UsersFirst /\ CyclesStay
  BY <1>2 DEF UsersFirst, CyclesStay
<1>. QED
  BY <1>4, <1>5, <1>6, <1>7, <1>8, <1>9, <1>10 DEF IInv

\* A new edge makes i one more module that waits to be taken from d.
LEMMA AddDependencyStep ==
  ASSUME IInv, NEW d \in Mod, AddDependency(d)
  PROVE  IInv'
<1>. USE DEF IInv
<1>0. i \in Mod
  BY ModFinite DEF AddDependency, Types, Mod
<1>1. /\ i \in Mod /\ d \notin Elements(deps[i])
      /\ deps' = [deps EXCEPT ![i] = Append(deps[i], d)]
      /\ users' = [users EXCEPT ![d] = users[d] + 1]
      /\ pc = "load" /\ roots = <<>>
      /\ UNCHANGED <<pc, i, roots, src, dep_sort_idx, n_sorted, dep_loop>>
      /\ deps[i] \in Seq(Mod)
  BY <1>0 DEF AddDependency, Types, Phases
<1>2. /\ \A m \in Mod : m # i => deps'[m] = deps[m]
      /\ deps'[i] = Append(deps[i], d) /\ Len(deps'[i]) = Len(deps[i]) + 1
      /\ \A k \in 1..Len(deps[i]) : deps'[i][k] = deps[i][k]
      /\ deps'[i][Len(deps[i]) + 1] = d
  BY <1>1 DEF Types
<1>3. Elements(deps'[i]) = Elements(deps[i]) \cup {d}
  BY <1>1, <1>2 DEF Elements
<1>4. \A m \in Mod : ~Sorted(m) /\ ~Sorted(m)'
  BY <1>1 DEF Phases, Sorted
<1>5. \A j, m \in Mod : DependsOn(j, m)' <=> DependsOn(j, m) \/ (j = i /\ m = d)
  BY <1>1, <1>2, <1>3 DEF DependsOn
<1>6. \A m \in Mod : Waiting(m)' = IF m = d THEN Waiting(m) \cup {i} ELSE Waiting(m)
  BY <1>1, <1>4, <1>5 DEF Waiting, Pending
<1>7. i \notin Waiting(d) /\ IsFiniteSet(Waiting(d))
  BY <1>1, SubsetFinite DEF Waiting, DependsOn
<1>8. Cardinality(Waiting(d)') = users[d] + 1
  BY <1>6, <1>7, FS_AddElement DEF Exact
<1>9. Types'
  BY SMTT(30), <1>1 DEF Types
<1>10. Once'
  BY SMTT(30), <1>1, <1>2 DEF Once, Elements, Types
<1>11. Exact'
  BY <1>1, <1>6, <1>8 DEF Exact, Types
<1>12. Phases' /\ UsersFirst' /\ CyclesStay'
  BY <1>1, <1>4 DEF Phases, UsersFirst, CyclesStay
<1>13. {m \in Mod : Sorted(m)}' = {m \in Mod : Sorted(m)}
  BY <1>4
<1>14. Places'
  BY <1>1, <1>4, <1>13 DEF Places
<1>15. Stack'
  BY <1>1 DEF Stack
<1>. QED
  BY <1>9, <1>10, <1>11, <1>12, <1>14, <1>15

\* A step between the loops over edges that keeps who uses whom.
LEMMA SameUses ==
  ASSUME IInv, UNCHANGED <<users, src, dep_sort_idx, n_sorted>>,
         pc # "edges", pc' # "edges",
         \A j, m \in Mod : DependsOn(j, m)' <=> DependsOn(j, m)
  PROVE  /\ Exact' /\ Places' /\ UsersFirst' /\ CyclesStay'
         /\ \A m \in Mod : Sorted(m)' <=> Sorted(m)
<1>. USE DEF IInv
<1>1. \A m \in Mod : Sorted(m)' <=> Sorted(m)
  BY DEF Sorted
<1>2. \A m \in Mod : Waiting(m)' = Waiting(m)
  BY <1>1 DEF Waiting, Pending
<1>3. Exact'
  BY <1>2 DEF Exact
<1>4. {m \in Mod : Sorted(m)}' = {m \in Mod : Sorted(m)}
  BY <1>1
<1>5. Places'
  BY <1>1, <1>4 DEF Places
<1>6. UsersFirst'
  BY <1>1 DEF UsersFirst
<1>7. ASSUME NEW S \in SUBSET Mod, Supported(S)' PROVE \A m \in S : ~Sorted(m)'
  <2>1. Supported(S)
    BY <1>7 DEF Supported
  <2>. QED
    BY <1>1, <2>1 DEF CyclesStay
<1>8. CyclesStay'
  BY <1>7 DEF CyclesStay
<1>. QED
  BY <1>1, <1>3, <1>5, <1>6, <1>8

\* A step of one of the other loops leaves the arrays and the counts alone.
LEMMA LoopStep ==
  ASSUME IInv, UNCHANGED <<deps, users, roots, src, dep_sort_idx, n_sorted>>,
         pc # "edges", pc' # "edges"
  PROVE  /\ Once' /\ Exact' /\ Places' /\ UsersFirst' /\ CyclesStay'
         /\ \A m \in Mod : Sorted(m)' <=> Sorted(m)
<1>1. \A j, m \in Mod : DependsOn(j, m)' <=> DependsOn(j, m)
  BY DEF DependsOn, Elements
<1>2. Once'
  BY DEF IInv, Once
<1>. QED
  BY <1>1, <1>2, SameUses

\* The loop goes to the next module, or is over.
LEMMA LoadNextStep ==
  ASSUME IInv, LoadNext
  PROVE  IInv'
<1>1. /\ pc = "load" /\ pc' \in {"load", "roots"} /\ i' \in 0..n_mods
      /\ pc' = "roots" => i' = 0
      /\ UNCHANGED <<deps, users, roots, src, dep_sort_idx, n_sorted, dep_loop>>
  BY ModFinite DEF LoadNext, IInv, Types
<1>2. /\ Once' /\ Exact' /\ Places' /\ UsersFirst' /\ CyclesStay'
      /\ \A m \in Mod : Sorted(m)' <=> Sorted(m)
  BY <1>1, LoopStep
<1>3. Types'
  BY <1>1 DEF IInv, Types
<1>4. Phases'
  BY <1>1, <1>2 DEF IInv, Phases
<1>5. roots' = <<>>
  BY <1>1 DEF IInv, Phases
<1>6. ~(pc' \in {"sort", "edges", "order", "done"}) /\ \A m \in Mod : ~(pc' = "roots" /\ m < i')
  BY <1>1, ModFinite DEF Mod
<1>7. Stack'
  BY <1>5, <1>6 DEF Stack
<1>. QED
  BY <1>2, <1>3, <1>4, <1>7 DEF IInv

\* All modules were looked at: the stack holds each one without users.
LEMMA RootsFoundStep ==
  ASSUME IInv, RootsFound
  PROVE  IInv'
<1>1. /\ pc = "roots" /\ i = n_mods /\ pc' = "sort"
      /\ UNCHANGED <<deps, users, i, roots, src, dep_sort_idx, n_sorted, dep_loop>>
  BY DEF RootsFound
<1>2. /\ Once' /\ Exact' /\ Places' /\ UsersFirst' /\ CyclesStay'
      /\ \A m \in Mod : Sorted(m)' <=> Sorted(m)
  BY <1>1, LoopStep
<1>3. Types'
  BY <1>1 DEF IInv, Types
<1>4. Phases'
  BY <1>1, <1>2 DEF IInv, Phases
<1>5. \A m \in Mod : m < i
  BY <1>1, ModFinite DEF Mod
<1>6. roots \in Seq(Mod)
  BY DEF IInv, Types
<1>7. Stack'
  BY <1>1, <1>2, <1>5, <1>6 DEF IInv, Stack
<1>. QED
  BY <1>2, <1>3, <1>4, <1>7 DEF IInv

\* A module without users is pushed; the others before i are on the stack already.
LEMMA FindRootStep ==
  ASSUME IInv, FindRoot
  PROVE  IInv'
<1>. USE DEF IInv
<1>1. /\ pc = "roots" /\ i \in Mod /\ i' = i + 1 /\ i' <= n_mods /\ pc' = pc
      /\ \A m \in Mod : ~Sorted(m) /\ ~Sorted(m)'
  BY ModFinite DEF FindRoot, Types, Mod, Phases, Sorted
<1>2. roots' = (IF users[i] = 0 THEN Append(roots, i) ELSE roots)
      /\ UNCHANGED <<deps, users, src, dep_sort_idx, n_sorted, dep_loop>>
  BY DEF FindRoot
<1>3. \A k \in 1..Len(roots) : roots[k] \in Mod /\ roots[k] < i
  BY <1>1 DEF Types, Phases
<1>4. \A j, m \in Mod : (DependsOn(j, m)' <=> DependsOn(j, m)) /\ Pending(j, m) /\ Pending(j, m)'
  BY <1>1, <1>2 DEF DependsOn, Elements, Pending
<1>5. Exact'
  <2>1. \A m \in Mod : Waiting(m)' = Waiting(m)
    BY <1>4 DEF Waiting
  <2>. QED
    BY <1>2, <2>1 DEF Exact
<1>6. Once' /\ UsersFirst' /\ CyclesStay'
  BY <1>1, <1>2 DEF Once, UsersFirst, CyclesStay
<1>7. Places'
  <2>1. {m \in Mod : Sorted(m)}' = {m \in Mod : Sorted(m)}
    BY <1>1
  <2>. QED
    BY <1>1, <1>2, <2>1 DEF Places
<1>8. Types'
  <2>1. roots' \in Seq(Mod)
    BY <1>1, <1>2 DEF Types
  <2>2. i' \in Nat /\ pc' = "roots"
    BY <1>1 DEF Types
  <2>. QED
    BY <1>2, <2>1, <2>2 DEF Types
<1>9. CASE users[i] = 0
  <2>1. /\ roots' \in Seq(Mod) /\ Len(roots') = Len(roots) + 1 /\ Len(roots) \in Nat
        /\ \A k \in 1..Len(roots) : roots'[k] = roots[k]
        /\ roots'[Len(roots) + 1] = i
    BY <1>1, <1>2, <1>9 DEF Types
  <2>2. Phases'
    BY <1>1, <1>3, <2>1 DEF Phases, Mod
  <2>3. \A k \in 1..Len(roots') : ~Sorted(roots[k])' /\ users'[roots'[k]] = 0
    <3>1. \A k \in 1..Len(roots') : k \in 1..Len(roots) \/ k = Len(roots) + 1
      BY <2>1
    <3>2. \A k \in 1..Len(roots') : roots'[k] \in Mod /\ users[roots'[k]] = 0
      BY <3>1, <1>1, <1>3, <1>9, <2>1 DEF Stack
    <3>. QED
      BY <3>2, <1>1, <1>2
  <2>4. \A k, l \in 1..Len(roots') : roots'[k] = roots'[l] => k = l
    BY SMTT(30), <1>3, <2>1, <1>1 DEF Stack, Mod
  <2>5. \A m \in Mod : users'[m] = 0 /\ m < i' => \E k \in 1..Len(roots') : roots'[k] = m
    <3>1. ASSUME NEW m \in Mod, users[m] = 0, m < i PROVE \E k \in 1..Len(roots') : roots'[k] = m
      <4>1. PICK k \in 1..Len(roots) : roots[k] = m
        BY <3>1, <1>1 DEF Stack
      <4>. QED
        BY <4>1, <2>1
    <3>2. \E k \in 1..Len(roots') : roots'[k] = i
      BY <2>1
    <3>3. \A m \in Mod : m < i' => m < i \/ m = i
      BY <1>1 DEF Mod
    <3>. QED
      BY <3>1, <3>2, <3>3, <1>2
  <2>6. pc' = "roots"
    BY <1>1
  <2>7. Stack'
    BY <2>3, <2>4, <2>5, <2>6 DEF Stack
  <2>. QED
    BY <1>5, <1>6, <1>7, <1>8, <2>2, <2>7
<1>10. CASE users[i] # 0
  <2>1. roots' = roots
    BY <1>2, <1>10
  <2>2. Phases'
    BY <1>1, <1>3, <2>1 DEF Phases, Mod
  <2>3. \A m \in Mod : users[m] = 0 /\ m < i' => m < i
    BY <1>1, <1>10 DEF Mod
  <2>4. Stack'
    BY <1>1, <1>2, <2>1, <2>3, <1>3 DEF Stack
  <2>. QED
    BY <1>5, <1>6, <1>7, <1>8, <2>2, <2>4
<1>. QED
  BY <1>9, <1>10

\* The module on top gets the next place.  All its users are sorted, and no edge of
\* it was taken away yet.
LEMMA PopStep ==
  ASSUME IInv, Pop
  PROVE  IInv'
<1>. USE DEF IInv
<1>0. roots \in Seq(Mod) /\ roots # <<>> /\ Len(roots) \in Nat /\ Len(roots) >= 1
  BY DEF Pop, Types
<1>m. PICK m \in Mod : m = roots[Len(roots)]
  BY <1>0
<1>1. /\ pc = "sort" /\ Len(roots) \in Nat /\ Len(roots) >= 1 /\ m \in Mod
      /\ src' = m /\ dep_sort_idx' = [dep_sort_idx EXCEPT ![m] = n_sorted]
      /\ roots' = SubSeq(roots, 1, Len(roots) - 1)
      /\ n_sorted' = n_sorted + 1 /\ pc' = "edges" /\ i' = 1
      /\ UNCHANGED <<deps, users, dep_loop>>
  BY <1>0, <1>m DEF Pop
<1>2. /\ roots' \in Seq(Mod) /\ Len(roots') = Len(roots) - 1
      /\ \A k \in 1..Len(roots') : k \in 1..Len(roots) /\ k # Len(roots) /\ roots'[k] = roots[k]
  <2>. DEFINE n == Len(roots) - 1
  <2>1. n \in Nat /\ \A k \in 1..n : k \in 1..Len(roots) /\ k # Len(roots) /\ roots[k] \in Mod
    BY <1>0
  <2>2. roots' = SubSeq(roots, 1, n)
    BY <1>1
  <2>. HIDE DEF n
  <2>3. /\ SubSeq(roots, 1, n) \in Seq(Mod)
        /\ Len(SubSeq(roots, 1, n)) = IF 1 <= n THEN n - 1 + 1 ELSE 0
        /\ \A k \in 1..(n - 1 + 1) : SubSeq(roots, 1, n)[k] = roots[1 + k - 1]
    BY <2>1, SubSeqProperties, 1 \in Int, n \in Int
  <2>4. (IF 1 <= n THEN n - 1 + 1 ELSE 0) = n /\ n - 1 + 1 = n /\ \A k \in 1..n : 1 + k - 1 = k
    BY <2>1
  <2>5. /\ roots' \in Seq(Mod) /\ Len(roots') = n /\ \A k \in 1..n : roots'[k] = roots[k]
    BY <2>2, <2>3, <2>4
  <2>. QED
    BY <2>1, <2>5 DEF n
<1>3. ~Sorted(m) /\ users[m] = 0
  BY <1>0, <1>m DEF Stack
<1>4. n_sorted < n_mods /\ n_sorted # INT32_MAX
  <2>1. {x \in Mod : Sorted(x)} \in SUBSET Mod /\ {x \in Mod : Sorted(x)} # Mod
    BY <1>1, <1>3
  <2>2. n_sorted <= n_mods /\ n_sorted # n_mods
    BY <2>1, SubsetFinite DEF Places
  <2>. QED
    BY <2>2, ModFinite DEF INT32_MAX, Types
<1>5. \A x \in Mod : /\ Sorted(x)' <=> Sorted(x) \/ x = m
                     /\ x # m => dep_sort_idx'[x] = dep_sort_idx[x]
                     /\ x = m => dep_sort_idx'[x] = n_sorted
  BY <1>1, <1>4 DEF Sorted, Types
<1>6. \A j, x \in Mod : DependsOn(j, x)' <=> DependsOn(j, x)
  BY <1>1 DEF DependsOn, Elements
<1>7. \A j \in Mod : DependsOn(j, m) => Sorted(j)
  BY <1>1, <1>3, NoUserLeft DEF Pending
<1>8. Exact'
  <2>1. \A j, x \in Mod : Pending(j, x) <=> ~Sorted(j)
    BY <1>1 DEF Pending
  <2>2. \A x \in Mod : DependsOn(m, x) => Pending(m, x)'
    <3>1. /\ deps' = deps /\ src' = m /\ i' = 1 /\ pc' = "edges"
      BY <1>1
    <3>. QED
      BY <3>1 DEF Pending, DependsOn, Elements
  <2>3. \A j, x \in Mod : j # m => (Pending(j, x)' <=> ~Sorted(j))
    BY <1>1, <1>5 DEF Pending
  <2>4. \A x \in Mod : Waiting(x)' = Waiting(x)
    BY <2>1, <2>2, <2>3, <1>3, <1>6 DEF Waiting
  <2>. QED
    BY <1>1, <2>4 DEF Exact
<1>9. Types'
  <2>1. dep_sort_idx' \in [Mod -> Nat] /\ n_sorted' \in Nat
    BY <1>1 DEF Types
  <2>. QED
    BY <1>1, <1>2, <2>1 DEF Types
<1>10. Once'
  BY <1>1 DEF Once
<1>11. Phases'
  BY <1>1, <1>5 DEF Phases
<1>12. Places'
  <2>. DEFINE S == {x \in Mod : Sorted(x)}
  <2>1. S \in SUBSET Mod /\ IsFiniteSet(S) /\ m \notin S
    BY <1>3, SubsetFinite
  <2>2. {x \in Mod : Sorted(x)}' = S \cup {m}
    BY <1>1, <1>5
  <2>. HIDE DEF S
  <2>3. Cardinality(S \cup {m}) = Cardinality(S) + 1
    BY <2>1, FS_AddElement
  <2>4. n_sorted = Cardinality(S)
    BY DEF Places, S
  <2>5. n_sorted' = Cardinality({x \in Mod : Sorted(x)}')
    BY <1>1, <2>2, <2>3, <2>4
  <2>6. \A x \in Mod : Sorted(x)' => users'[x] = 0 /\ dep_sort_idx'[x] < n_sorted'
    <3>1. n_sorted \in Nat /\ n_sorted' = n_sorted + 1 /\ users' = users
      BY <1>1 DEF Types
    <3>2. \A x \in Mod : x # m => dep_sort_idx[x] \in Nat /\ dep_sort_idx'[x] = dep_sort_idx[x]
      BY <1>5 DEF Types
    <3>3. \A x \in Mod : Sorted(x)' /\ x # m => users[x] = 0 /\ dep_sort_idx[x] < n_sorted
      BY <1>5 DEF Places
    <3>. QED
      BY <1>3, <1>5, <3>1, <3>2, <3>3
  <2>. QED
    BY <2>5, <2>6 DEF Places
<1>13. Stack'
  <2>1. \A k \in 1..Len(roots') : roots'[k] \in Mod /\ roots'[k] # m
    BY <1>0, <1>1, <1>2, <1>m DEF Stack
  <2>2. \A k \in 1..Len(roots') : ~Sorted(roots'[k]) /\ users'[roots'[k]] = 0
    BY <1>1, <1>2 DEF Stack
  <2>3. \A k, l \in 1..Len(roots') : roots'[k] = roots'[l] => k = l
    BY <1>2 DEF Stack
  <2>4. ASSUME NEW x \in Mod, users'[x] = 0, ~Sorted(x)'
        PROVE  \E k \in 1..Len(roots') : roots'[k] = x
    <3>1. users[x] = 0 /\ ~Sorted(x) /\ x # m
      BY <1>1, <1>5, <2>4
    <3>2. PICK k \in 1..Len(roots) : roots[k] = x
      BY <1>1, <3>1 DEF Stack
    <3>3. k \in 1..Len(roots')
      BY <1>1, <1>2, <1>m, <3>1, <3>2
    <3>. QED
      BY <1>2, <3>2, <3>3
  <2>5. \A k \in 1..Len(roots') : ~Sorted(roots[k])'
    BY <1>5, <2>1, <2>2
  <2>. QED
    BY <2>2, <2>3, <2>4, <2>5 DEF Stack
<1>14. UsersFirst'
  <2>1. \A j \in Mod : DependsOn(j, m) => Sorted(j) /\ dep_sort_idx[j] < n_sorted /\ j # m
    BY <1>3, <1>7 DEF Places
  <2>2. ASSUME NEW j \in Mod, NEW x \in Mod, DependsOn(j, x), Sorted(x)'
        PROVE  Sorted(j)' /\ dep_sort_idx'[j] < dep_sort_idx'[x]
    <3>1. CASE x = m
      BY <1>1, <1>5, <2>1, <2>2, <3>1
    <3>2. CASE x # m
      <4>1. Sorted(x) /\ Sorted(j) /\ dep_sort_idx[j] < dep_sort_idx[x] /\ j # m
        BY <1>3, <1>5, <2>2, <3>2 DEF UsersFirst
      <4>. QED
        BY <1>5, <3>2, <4>1
    <3>. QED
      BY <3>1, <3>2
  <2>. QED
    BY <1>6, <2>2 DEF UsersFirst
<1>15. CyclesStay'
  <2>1. ASSUME NEW S \in SUBSET Mod, Supported(S)', NEW x \in S
        PROVE  ~Sorted(x)'
    <3>1. Supported(S)
      BY <1>6, <2>1 DEF Supported
    <3>2. \A y \in S : ~Sorted(y)
      BY <3>1 DEF CyclesStay
    <3>3. m \notin S
      BY <1>7, <3>1, <3>2 DEF Supported
    <3>. QED
      BY <1>5, <3>2, <3>3
  <2>. QED
    BY <2>1 DEF CyclesStay
<1>. QED
  BY <1>8, <1>9, <1>10, <1>11, <1>12, <1>13, <1>14, <1>15

\* One edge of src is taken away: users[dst] counts one module less, and is pushed
\* when that was the last.
LEMMA EdgeStep ==
  ASSUME IInv, Edge
  PROVE  IInv'
<1>. USE DEF IInv
<1>0. /\ pc = "edges" /\ src \in Mod /\ deps[src] \in Seq(Mod)
      /\ i \in 1..Len(deps[src]) /\ Sorted(src)
  BY DEF Edge, Types, Phases
<1>d. PICK dst \in Mod : dst = deps[src][i]
  BY <1>0
<1>1. /\ pc = "edges" /\ src \in Mod /\ deps[src] \in Seq(Mod)
      /\ i \in 1..Len(deps[src]) /\ dst \in Mod /\ Sorted(src)
  BY <1>0
<1>2. /\ users' = [users EXCEPT ![dst] = users[dst] - 1]
      /\ roots' = (IF users[dst] = 1 THEN Append(roots, dst) ELSE roots)
      /\ i' = i + 1
      /\ UNCHANGED <<deps, pc, src, dep_sort_idx, n_sorted, dep_loop>>
  BY <1>d DEF Edge
<1>3. DependsOn(src, dst) /\ Pending(src, dst)
  BY <1>1, <1>d DEF DependsOn, Elements, Pending
<1>4. \A k \in (i+1)..Len(deps[src]) : k \in 1..Len(deps[src]) /\ deps[src][k] # dst
  BY <1>1, <1>d DEF Once
<1>5. i..Len(deps[src]) = {i} \cup (i+1)..Len(deps[src])
  BY <1>1
<1>6. \A x \in Mod : x # dst =>
        ((\E k \in i..Len(deps[src]) : deps[src][k] = x)
          <=> \E k \in (i+1)..Len(deps[src]) : deps[src][k] = x)
  BY <1>5, <1>d
<1>7. \A x \in Mod : Sorted(x)' <=> Sorted(x)
  BY <1>2 DEF Sorted
<1>8. \A j, x \in Mod : DependsOn(j, x)' <=> DependsOn(j, x)
  BY <1>2 DEF DependsOn, Elements
<1>9. \A j, x \in Mod : Pending(j, x)' <=> IF j = src /\ x = dst THEN FALSE ELSE Pending(j, x)
  BY <1>1, <1>2, <1>4, <1>6, <1>7 DEF Pending
<1>10. \A x \in Mod : Waiting(x)' = IF x = dst THEN Waiting(x) \ {src} ELSE Waiting(x)
  BY <1>8, <1>9 DEF Waiting
<1>11. src \in Waiting(dst) /\ IsFiniteSet(Waiting(dst))
  BY <1>1, <1>3, SubsetFinite DEF Waiting
<1>12. Cardinality(Waiting(dst) \ {src}) = users[dst] - 1 /\ users[dst] # 0
  <2>1. users[dst] = Cardinality(Waiting(dst))
    BY <1>1 DEF Exact
  <2>2. Cardinality(Waiting(dst)) # 0
    BY <1>11, FS_EmptySet
  <2>. QED
    BY <1>11, <2>1, <2>2, FS_RemoveElement
<1>13. users[dst] \in Nat /\ users[dst] >= 1 /\ ~Sorted(dst)
  <2>1. users[dst] \in Nat
    BY <1>1 DEF Types
  <2>2. ~Sorted(dst)
    BY <1>1, <1>12 DEF Places
  <2>3. users[dst] # 0
    BY <1>12
  <2>. QED
    BY <2>1, <2>2, <2>3
<1>14. \A x \in Mod : users'[x] = IF x = dst THEN users[dst] - 1 ELSE users[x]
  BY <1>1, <1>2 DEF Types
<1>15. Exact'
  BY <1>10, <1>12, <1>14 DEF Exact
<1>16. Types'
  <2>1. users' \in [Mod -> Nat]
    <3>1. users[dst] - 1 \in Nat
      BY <1>13
    <3>. QED
      BY <1>1, <1>2, <3>1 DEF Types
  <2>2. roots' \in Seq(Mod) /\ i' \in Nat
    BY <1>1, <1>2 DEF Types
  <2>. QED
    BY <1>1, <1>2, <2>1, <2>2 DEF Types
<1>17. Once' /\ Phases'
  BY <1>1, <1>2, <1>7 DEF Once, Phases
<1>18. Places'
  <2>1. {x \in Mod : Sorted(x)}' = {x \in Mod : Sorted(x)}
    BY <1>7
  <2>2. \A x \in Mod : Sorted(x) => users'[x] = 0
    BY <1>13, <1>14 DEF Places
  <2>. QED
    BY <1>2, <1>7, <2>1, <2>2 DEF Places
<1>19. UsersFirst' /\ CyclesStay'
  <2>1. UsersFirst'
    BY <1>2, <1>7, <1>8 DEF UsersFirst
  <2>2. \A S \in SUBSET Mod : Supported(S)' <=> Supported(S)
    BY <1>8 DEF Supported
  <2>. QED
    BY <1>7, <2>1, <2>2 DEF CyclesStay
<1>20. \A k \in 1..Len(roots) : roots[k] \in Mod /\ roots[k] # dst /\ users'[roots[k]] = 0
                              /\ ~Sorted(roots[k])
  <2>1. \A k \in 1..Len(roots) : roots[k] \in Mod /\ users[roots[k]] = 0 /\ ~Sorted(roots[k])
    BY DEF Stack, Types
  <2>2. users[dst] # 0
    BY <1>12
  <2>. QED
    BY <1>14, <2>1, <2>2
<1>21. Stack'
  <2>1. CASE users[dst] = 1
    <3>1. /\ Len(roots') = Len(roots) + 1 /\ Len(roots) \in Nat
          /\ \A k \in 1..Len(roots) : roots'[k] = roots[k]
          /\ roots'[Len(roots) + 1] = dst
      BY SMTT(30), <1>1, <1>2, <2>1 DEF Types
    <3>2. \A k \in 1..Len(roots') : k \in 1..Len(roots) \/ k = Len(roots) + 1
      BY <3>1
    <3>3. \A k \in 1..Len(roots') : users'[roots'[k]] = 0 /\ roots'[k] \in Mod /\ ~Sorted(roots'[k])
      BY <1>1, <1>13, <1>14, <1>20, <2>1, <3>1, <3>2
    <3>4. \A k, l \in 1..Len(roots') : roots'[k] = roots'[l] => k = l
      BY <1>20, <3>1, <3>2 DEF Stack
    <3>5. ASSUME NEW x \in Mod, users'[x] = 0, ~Sorted(x)
          PROVE  \E k \in 1..Len(roots') : roots'[k] = x
      <4>1. CASE x = dst
        BY <3>1, <4>1
      <4>2. CASE x # dst
        <5>1. PICK k \in 1..Len(roots) : roots[k] = x
          BY <1>1, <1>14, <3>5, <4>2 DEF Stack
        <5>. QED
          BY <3>1, <5>1
      <4>. QED
        BY <4>1, <4>2
    <3>6. \A k \in 1..Len(roots') : ~Sorted(roots[k])'
      BY <1>7, <3>3
    <3>. QED
      BY <1>7, <3>3, <3>4, <3>5, <3>6 DEF Stack
  <2>2. CASE users[dst] # 1
    <3>1. roots' = roots /\ users'[dst] # 0
      BY <1>1, <1>2, <1>13, <1>14, <2>2
    <3>2. \A x \in Mod : users'[x] = 0 => users[x] = 0
      BY <1>14, <3>1
    <3>3. \A k \in 1..Len(roots') : ~Sorted(roots[k])'
      BY <1>7, <1>20, <3>1
    <3>4. \A x \in Mod : users'[x] = 0 /\ ~Sorted(x) => \E k \in 1..Len(roots') : roots'[k] = x
      BY <1>1, <3>1, <3>2 DEF Stack
    <3>5. \A k, l \in 1..Len(roots') : roots'[k] = roots'[l] => k = l
      BY <3>1 DEF Stack
    <3>. QED
      BY <1>7, <1>20, <3>1, <3>3, <3>4, <3>5 DEF Stack
  <2>. QED
    BY <2>1, <2>2
<1>. QED
  BY <1>15, <1>16, <1>17, <1>18, <1>19, <1>21

\* The step that ends a module's loop over its dependencies: no edge of it is left.
LEMMA EdgesDoneStep ==
  ASSUME IInv, EdgesDone
  PROVE  IInv'
<1>. USE DEF IInv
<1>1. /\ pc = "edges" /\ pc' = "sort" /\ src \in Mod /\ Sorted(src) /\ deps[src] \in Seq(Mod)
      /\ i \in Nat /\ i > Len(deps[src])
      /\ UNCHANGED <<deps, users, i, roots, src, dep_sort_idx, n_sorted, dep_loop>>
  BY DEF EdgesDone, Types, Phases
<1>2. i..Len(deps[src]) = {}
  BY <1>1
<1>3. \A x \in Mod : Sorted(x)' <=> Sorted(x)
  BY <1>1 DEF Sorted
<1>4. \A j, x \in Mod : DependsOn(j, x)' <=> DependsOn(j, x)
  BY <1>1 DEF DependsOn, Elements
<1>5. \A j, x \in Mod : Pending(j, x)' <=> Pending(j, x)
  BY <1>1, <1>2, <1>3 DEF Pending
<1>6. \A x \in Mod : Waiting(x)' = Waiting(x)
  BY <1>4, <1>5 DEF Waiting
<1>7. Exact' /\ Once' /\ Types' /\ Phases'
  BY <1>1, <1>6 DEF Exact, Once, Types, Phases
<1>8. Places'
  <2>1. {x \in Mod : Sorted(x)}' = {x \in Mod : Sorted(x)}
    BY <1>3
  <2>. QED
    BY <1>1, <1>3, <2>1 DEF Places
<1>9. UsersFirst'
  BY <1>1, <1>3, <1>4 DEF UsersFirst
<1>10. CyclesStay'
  <2>1. \A S \in SUBSET Mod : Supported(S)' <=> Supported(S)
    BY <1>4 DEF Supported
  <2>. QED
    BY <1>3, <2>1 DEF CyclesStay
<1>11. Stack'
  <2>1. \A k \in 1..Len(roots) : roots[k] \in Mod
    BY DEF Types
  <2>. QED
    BY <1>1, <1>3, <2>1 DEF Stack
<1>. QED
  BY <1>7, <1>8, <1>9, <1>10, <1>11

\* When the stack is empty the sorted modules are exactly those without users.
LEMMA NoRoots ==
  ASSUME IInv, pc \in {"sort", "order", "done"}, roots = <<>>
  PROVE  /\ \A x \in Mod : users[x] = 0 <=> Sorted(x)
         /\ n_sorted = n_mods => \A x \in Mod : Sorted(x)
         /\ n_sorted <= n_mods
<1>. USE DEF IInv
<1>1. ~ \E k \in 1..Len(roots) : TRUE
  OBVIOUS
<1>2. \A x \in Mod : users[x] = 0 <=> Sorted(x)
  BY <1>1 DEF Stack, Places
<1>3. {x \in Mod : Sorted(x)} \in SUBSET Mod /\ n_sorted = Cardinality({x \in Mod : Sorted(x)})
  BY DEF Places
<1>4. n_sorted <= n_mods /\ (n_sorted = n_mods => {x \in Mod : Sorted(x)} = Mod)
  BY <1>3, SubsetFinite
<1>. QED
  BY <1>2, <1>4

\* The step that marks what is left.
LEMMA MarkLoopsStep ==
  ASSUME IInv, MarkLoops
  PROVE  IInv'
<1>1. /\ pc = "sort" /\ pc' = "order" /\ roots = <<>> /\ i' = 0
      /\ dep_loop' = (IF n_sorted < n_mods THEN {m \in Mod : users[m] # 0} ELSE {})
      /\ UNCHANGED <<deps, users, roots, src, dep_sort_idx, n_sorted>>
  BY DEF MarkLoops
<1>2. /\ Once' /\ Exact' /\ Places' /\ UsersFirst' /\ CyclesStay'
      /\ \A m \in Mod : Sorted(m)' <=> Sorted(m)
  BY <1>1, LoopStep
<1>3. /\ \A x \in Mod : users[x] = 0 <=> Sorted(x)
      /\ n_sorted = n_mods => \A x \in Mod : Sorted(x)
      /\ n_sorted <= n_mods
  BY <1>1, NoRoots
<1>4. n_sorted < n_mods \/ n_sorted = n_mods
  BY <1>3, ModFinite DEF IInv, Types
<1>5. dep_loop' = {m \in Mod : ~Sorted(m)}
  BY <1>1, <1>3, <1>4
<1>6. {m \in Mod : ~Sorted(m)}' = {m \in Mod : ~Sorted(m)}
  BY <1>2
<1>7. Types'
  BY <1>1, <1>5 DEF IInv, Types
<1>8. Phases'
  BY <1>1, <1>5, <1>6, ModFinite DEF IInv, Phases
<1>9. Stack'
  BY <1>1, <1>2 DEF IInv, Stack
<1>. QED
  BY <1>2, <1>7, <1>8, <1>9 DEF IInv

\* An array is permuted: who uses whom stays the same.
LEMMA SortDependenciesStep ==
  ASSUME IInv, SortDependencies
  PROVE  IInv'
<1>0. /\ pc = "order" /\ pc' = "order" /\ i \in Mod /\ i' = i + 1 /\ i' <= n_mods
      /\ UNCHANGED <<users, roots, src, dep_sort_idx, n_sorted, dep_loop>>
  BY ModFinite DEF SortDependencies, IInv, Types, Mod
<1>1. PICK s \in Orders(deps[i]) : deps' = [deps EXCEPT ![i] = s]
  BY DEF SortDependencies
<1>2. deps \in [Mod -> Seq(Mod)]
  BY DEF IInv, Types
<1>3. /\ Len(deps[i]) \in Nat /\ s \in [1..Len(deps[i]) -> Elements(deps[i])]
      /\ Elements(s) = Elements(deps[i])
      /\ \A k, l \in 1..Len(deps[i]) : s[k] = s[l] => k = l
  BY <1>0, <1>1, <1>2 DEF Orders
<1>4. Elements(deps[i]) \subseteq Mod
  BY <1>0, <1>2 DEF Elements
<1>5. s \in Seq(Mod) /\ Len(s) = Len(deps[i])
  <2>1. s \in [1..Len(deps[i]) -> Mod]
    BY <1>3, <1>4
  <2>. QED
    BY <2>1, <1>3, LenProperties, IsASeq
<1>6. /\ deps' \in [Mod -> Seq(Mod)] /\ deps'[i] = s
      /\ \A m \in Mod : m # i => deps'[m] = deps[m]
  BY <1>0, <1>1, <1>2, <1>5
<1>7. \A j, m \in Mod : DependsOn(j, m)' <=> DependsOn(j, m)
  <2>1. \A j \in Mod : Elements(deps'[j]) = Elements(deps[j])
    BY <1>3, <1>6
  <2>. QED
    BY <2>1 DEF DependsOn
<1>8. Once'
  <2>1. \A k, l \in 1..Len(s) : s[k] = s[l] => k = l
    BY <1>3, <1>5
  <2>2. \A m \in Mod : \A k, l \in 1..Len(deps'[m]) : deps'[m][k] = deps'[m][l] => k = l
    <3>1. ASSUME NEW m \in Mod, m # i
          PROVE  \A k, l \in 1..Len(deps'[m]) : deps'[m][k] = deps'[m][l] => k = l
      BY <1>6, <3>1 DEF IInv, Once
    <3>. QED
      BY <1>6, <2>1, <3>1
  <2>. QED
    BY <2>2 DEF Once
<1>9. /\ Exact' /\ Places' /\ UsersFirst' /\ CyclesStay'
      /\ \A m \in Mod : Sorted(m)' <=> Sorted(m)
  BY <1>0, <1>7, SameUses
<1>10. Types'
  BY <1>0, <1>6 DEF IInv, Types
<1>11. {m \in Mod : ~Sorted(m)}' = {m \in Mod : ~Sorted(m)}
  BY <1>9
<1>12. Phases'
  BY <1>0, <1>11 DEF IInv, Phases
<1>13. Stack'
  <2>1. roots = <<>>
    BY <1>0 DEF IInv, Phases
  <2>2. \A m \in Mod : users[m] = 0 <=> Sorted(m)
    BY <1>0, <2>1, NoRoots
  <2>3. roots' = <<>> /\ \A m \in Mod : ~(users'[m] = 0 /\ ~Sorted(m)')
    BY <1>0, <1>9, <2>1, <2>2
  <2>. QED
    BY <2>3 DEF Stack
<1>. QED
  BY <1>8, <1>9, <1>10, <1>12, <1>13 DEF IInv

\* The last array is sorted.
LEMMA CalculatedStep ==
  ASSUME IInv, Calculated
  PROVE  IInv'
<1>1. /\ pc = "order" /\ pc' = "done"
      /\ UNCHANGED <<deps, users, i, roots, src, dep_sort_idx, n_sorted, dep_loop>>
  BY DEF Calculated
<1>2. /\ Once' /\ Exact' /\ Places' /\ UsersFirst' /\ CyclesStay'
      /\ \A m \in Mod : Sorted(m)' <=> Sorted(m)
  BY <1>1, LoopStep
<1>3. Types'
  BY <1>1 DEF IInv, Types
<1>4. {m \in Mod : ~Sorted(m)}' = {m \in Mod : ~Sorted(m)}
  BY <1>2
<1>5. Phases'
  BY <1>1, <1>4 DEF IInv, Phases
<1>6. Stack'
  <2>1. roots = <<>>
    BY <1>1 DEF IInv, Phases
  <2>2. \A m \in Mod : users[m] = 0 <=> Sorted(m)
    BY <1>1, <2>1, NoRoots
  <2>3. roots' = <<>> /\ \A m \in Mod : ~(users'[m] = 0 /\ ~Sorted(m)')
    BY <1>1, <1>2, <2>1, <2>2
  <2>. QED
    BY <2>3 DEF Stack
<1>. QED
  BY <1>2, <1>3, <1>5, <1>6 DEF IInv

\* Every step, and a stutter, keeps the invariant.
LEMMA NextInv == IInv /\ [Next]_vars => IInv'
<1>. SUFFICES ASSUME IInv, [Next]_vars PROVE IInv'
  OBVIOUS
<1>1. ASSUME NEW d \in Mod, AddDependency(d) PROVE IInv'
  BY <1>1, AddDependencyStep
<1>2. CASE LoadNext
  BY <1>2, LoadNextStep
<1>3. CASE FindRoot
  BY <1>3, FindRootStep
<1>4. CASE RootsFound
  BY <1>4, RootsFoundStep
<1>5. CASE Pop
  BY <1>5, PopStep
<1>6. CASE Edge
  BY <1>6, EdgeStep
<1>7. CASE EdgesDone
  BY <1>7, EdgesDoneStep
<1>8. CASE MarkLoops
  BY <1>8, MarkLoopsStep
<1>10. CASE SortDependencies
  BY <1>10, SortDependenciesStep
<1>11. CASE Calculated
  BY <1>11, CalculatedStep
<1>9. CASE UNCHANGED vars
  <2>1. UNCHANGED <<deps, users, pc, i, roots, src, dep_sort_idx, n_sorted, dep_loop>>
    BY <1>9 DEF vars
  <2>2. Types' /\ Once'
    BY <2>1 DEF IInv, Types, Once
  <2>3. \A x \in Mod : Sorted(x)' <=> Sorted(x)
    BY <2>1 DEF Sorted
  <2>4. \A j, x \in Mod : DependsOn(j, x)' <=> DependsOn(j, x)
    BY <2>1 DEF DependsOn, Elements
  <2>5. \A x \in Mod : Waiting(x)' = Waiting(x)
    BY <2>1, <2>3, <2>4 DEF Waiting, Pending
  <2>6. Exact'
    BY <2>1, <2>5 DEF IInv, Exact
  <2>7. {x \in Mod : Sorted(x)}' = {x \in Mod : Sorted(x)}
    BY <2>3
  <2>8. Places' /\ UsersFirst'
    BY <2>1, <2>3, <2>4, <2>7 DEF IInv, Places, UsersFirst
  <2>9. Phases'
    <3>1. pc = "edges" => Sorted(src)'
      BY <2>1 DEF IInv, Phases, Sorted
    <3>. QED
      BY <2>1, <2>3, <2>7, <3>1 DEF IInv, Phases
  <2>10. Stack'
    <3>1. \A k \in 1..Len(roots) : ~Sorted(roots[k])'
      BY <2>1 DEF IInv, Stack, Sorted
    <3>. QED
      BY <2>1, <2>3, <3>1 DEF IInv, Stack
  <2>11. \A S \in SUBSET Mod : Supported(S)' <=> Supported(S)
    BY <2>4 DEF Supported
  <2>12. CyclesStay'
    BY <2>3, <2>11 DEF IInv, CyclesStay
  <2>. QED
    BY <2>2, <2>6, <2>8, <2>9, <2>10, <2>12 DEF IInv
<1>. QED
  BY <1>1, <1>2, <1>3, <1>4, <1>5, <1>6, <1>7, <1>8, <1>9, <1>10, <1>11 DEF Next

----------------------------------------------------------------------------
(* The results.                                                            *)

\* Every state of a run satisfies the invariant.
THEOREM Invariance == Spec => []IInv
  BY InitInv, NextInv, PTL DEF Spec

\* The variables have their types: in particular no module gets a place that is
\* not one of the n_mods, and none is counted twice.
THEOREM TypeCorrect == Spec => []TypeOK
<1>1. IInv => TypeOK
  <2>. SUFFICES ASSUME IInv PROVE TypeOK
    OBVIOUS
  <2>1. {x \in Mod : Sorted(x)} \in SUBSET Mod /\ n_sorted = Cardinality({x \in Mod : Sorted(x)})
    BY DEF IInv, Places
  <2>2. n_sorted \in Nat /\ n_sorted <= n_mods /\ n_mods \in Nat
    BY <2>1, SubsetFinite, ModFinite
  <2>3. \A x \in Mod : dep_sort_idx[x] \in 0..n_mods-1 \cup {INT32_MAX}
    <3>1. ASSUME NEW x \in Mod, Sorted(x) PROVE dep_sort_idx[x] \in 0..n_mods-1
      <4>1. dep_sort_idx[x] \in Nat /\ dep_sort_idx[x] < n_sorted
        BY <3>1 DEF IInv, Types, Places
      <4>. QED
        BY <2>2, <4>1
    <3>. QED
      BY <3>1 DEF Sorted
  <2>4. dep_sort_idx \in [Mod -> 0..n_mods-1 \cup {INT32_MAX}]
    BY <2>3 DEF IInv, Types
  <2>5. n_sorted \in 0..n_mods
    BY <2>2
  <2>. QED
    BY <2>4, <2>5 DEF IInv, Types, TypeOK
<1>. QED
  BY <1>1, Invariance, PTL

\* assert(users[dst_idx] > 0) never fails, and the 16 bit counts are wide enough.
THEOREM AssertionHolds == Spec => []AssertHolds
<1>1. IInv => AssertHolds
  <2>. SUFFICES ASSUME IInv, pc = "edges" /\ i <= Len(deps[src])
                PROVE  users[deps[src][i]] > 0 /\ users[deps[src][i]] <= 65535
    BY DEF AssertHolds
  <2>1. src \in Mod /\ deps[src] \in Seq(Mod) /\ i \in 1..Len(deps[src])
    BY DEF IInv, Types, Phases
  <2>2. PICK dst \in Mod : dst = deps[src][i]
    BY <2>1
  <2>3. src \in Waiting(dst) /\ Waiting(dst) \in SUBSET Mod
    BY <2>1, <2>2 DEF Waiting, DependsOn, Elements, Pending
  <2>4. Cardinality(Waiting(dst)) \in Nat /\ Cardinality(Waiting(dst)) <= n_mods
    BY <2>3, SubsetFinite
  <2>5. Cardinality(Waiting(dst)) # 0
    BY <2>3, SubsetFinite
  <2>6. users[dst] = Cardinality(Waiting(dst))
    BY DEF IInv, Exact
  <2>7. users[dst] \in Nat /\ users[dst] # 0 /\ users[dst] <= n_mods
    BY <2>4, <2>5, <2>6
  <2>8. users[dst] > 0 /\ users[dst] <= 65535
    BY <2>7, ModFinite
  <2>. QED
    BY <2>2, <2>8
<1>. QED
  BY <1>1, Invariance, PTL

\* A module has a later place than every module that uses it.
THEOREM UsersAreFirst == Spec => []UsersFirst
<1>1. IInv => UsersFirst
  BY DEF IInv
<1>. QED
  BY <1>1, Invariance, PTL

\* The marked modules are those that cannot be sorted, each of them is used by
\* another one, and every set of modules that use each other is among them.
THEOREM LoopsAreExact == Spec => []LoopsExact
<1>1. IInv => LoopsExact
  <2>. SUFFICES ASSUME IInv, pc = "done"
                PROVE  /\ dep_loop = {m \in Mod : ~Sorted(m)}
                       /\ Supported(dep_loop)
                       /\ \A S \in SUBSET Mod : Supported(S) => S \subseteq dep_loop
    BY DEF LoopsExact
  <2>1. roots = <<>> /\ dep_loop = {m \in Mod : ~Sorted(m)}
    BY DEF IInv, Phases
  <2>2. \A x \in Mod : users[x] = 0 <=> Sorted(x)
    BY <2>1, NoRoots
  <2>3. Supported(dep_loop)
    <3>1. ASSUME NEW m \in dep_loop PROVE \E j \in dep_loop : DependsOn(j, m)
      <4>1. m \in Mod /\ users[m] # 0
        BY <2>1, <2>2
      <4>2. PICK j \in Mod : DependsOn(j, m) /\ Pending(j, m)
        BY <4>1, UserLeft DEF IInv
      <4>3. ~Sorted(j)
        BY <4>2 DEF Pending
      <4>. QED
        BY <2>1, <4>2, <4>3
    <3>. QED
      BY <3>1 DEF Supported
  <2>4. \A S \in SUBSET Mod : Supported(S) => S \subseteq dep_loop
    BY <2>1 DEF IInv, CyclesStay
  <2>. QED
    BY <2>1, <2>3, <2>4
<1>. QED
  BY <1>1, Invariance, PTL

----------------------------------------------------------------------------
(* Loops.                                                                  *)

\* The rules of ProbeListProof for loops, in which its graph plays no part
PL == INSTANCE ProbeListProof WITH
        Uses <- [m \in Mod |-> {}], Deps <- [m \in Mod |-> <<>>],
        Pre <- [m \in Mod |-> <<>>], Post <- [m \in Mod |-> <<>>]

\* A graph without dependencies is one.
LEMMA GraphIs == PL!ModFinite /\ PL!UsesType /\ PL!SoftdepsType /\ PL!DepsClosed
<1>1. PL!ModFinite
  BY ModFinite DEF PL!ModFinite, PL!IsFiniteSet, IsFiniteSet
<1>2. PL!UsesType /\ PL!SoftdepsType
  BY DEF PL!UsesType, PL!SoftdepsType
<1>3. \A m \in Mod : PL!DepSet(m) = {}
  BY DEF PL!DepSet
<1>4. PL!DepsClosed
  BY <1>3 DEF PL!DepsClosed
<1> QED BY <1>1, <1>2, <1>4

\* A set of numbers has a least.
LEMMA LeastNat ==
  ASSUME NEW I, I \subseteq Nat, I # {}
  PROVE  \E x \in I : \A j \in I : x <= j
BY GraphIs, PL!LeastNat

\* Induction up to n
LEMMA UpTo ==
  ASSUME NEW n \in Nat, NEW S, 0 \in S, \A k \in 1..n : k - 1 \in S => k \in S
  PROVE  \A k \in 0..n : k \in S
BY GraphIs, PL!UpTo

\* The body of a loop takes L[j-1] to L[j], and that of another loop does the same there.
Leads(D, L, s, mods, call, other) ==
  /\ mods \in Seq(Mod) /\ call \in [D -> [Mod -> D]] /\ s \in D /\ s \in L[0]
  /\ \A j \in 1..Len(mods) : \A t \in D : t \in L[j-1] =>
       call[t][mods[j]] \in L[j] /\ other[t][mods[j]] = call[t][mods[j]]

\* Both loops end with the same value of the last L.
LEMMA LoopKeeps ==
  ASSUME NEW D, NEW L, NEW s, NEW mods, NEW call, NEW other, Leads(D, L, s, mods, call, other)
  PROVE  /\ ForEach(call, s, mods) \in D /\ ForEach(call, s, mods) \in L[Len(mods)]
         /\ ForEach(other, s, mods) = ForEach(call, s, mods)
<1>1. PL!Leads(D, L, s, mods, call, other)
  BY Zenon DEF PL!Leads, Leads
<1>2. /\ PL!ForEach(call, s, mods) \in D /\ PL!ForEach(call, s, mods) \in L[Len(mods)]
      /\ PL!ForEach(other, s, mods) = PL!ForEach(call, s, mods)
  BY <1>1, GraphIs, PL!LoopRule
<1>3. \A c : PL!ForEach(c, s, mods) = ForEach(c, s, mods)
  BY Zenon DEF PL!ForEach, ForEach
<1> QED BY <1>2, <1>3

\* The values that a loop has on its way
IsRun(r, D, s, mods, call) ==
  /\ r \in [0..Len(mods) -> D] /\ r[0] = s /\ \A j \in 1..Len(mods) : r[j] = call[r[j-1]][mods[j]]
  /\ ForEach(call, s, mods) = r[Len(mods)]

\* Every loop has some.
LEMMA LoopRuns ==
  ASSUME NEW D, NEW s, NEW mods, NEW call, s \in D /\ mods \in Seq(Mod) /\ call \in [D -> [Mod -> D]]
  PROVE  \E r : IsRun(r, D, s, mods, call)
<1> DEFINE n == Len(mods)
<1>1. n \in Nat /\ n = Len(mods) /\ \A j \in 1..n : mods[j] \in Mod
  OBVIOUS
<1> HIDE DEF n
<1>2. PICK r : PL!IsRun(r, D, n, call, s, mods)
  BY <1>1, GraphIs, PL!LoopRuns
<1>3. PL!ForEach(call, s, mods) = r[n]
  BY <1>1, <1>2, GraphIs, PL!LoopEnds
<1>4. PL!ForEach(call, s, mods) = ForEach(call, s, mods)
  BY Zenon DEF PL!ForEach, ForEach
<1>5. r \in [0..n -> D] /\ r[0] = s /\ \A j \in 1..n : r[j] = call[r[j-1]][mods[j]]
  BY <1>2 DEF PL!IsRun
<1> QED BY <1>1, <1>3, <1>4, <1>5 DEF IsRun

\* What comes of z when a step is done n times
Repeated(r, n, D, z, step) == r \in [0..n -> D] /\ r[0] = z /\ \A k \in 1..n : r[k] = step[r[k-1]]

\* A step can be done n times.
LEMMA Repeats ==
  ASSUME NEW n, NEW D, NEW z, NEW step, n \in Nat /\ z \in D /\ step \in [D -> D]
  PROVE  \E r : Repeated(r, n, D, z, step)
<1> DEFINE Is(r, k) == r \in [0..k -> D] /\ r[0] = z /\ \A l \in 1..k : r[l] = step[r[l-1]]
           S == {k \in 0..n : \E r : Is(r, k)}
<1>1. 0 \in S
  <2> DEFINE r == [l \in 0..0 |-> z]
  <2>1. Is(r, 0)
    OBVIOUS
  <2> HIDE DEF r, Is
  <2> QED BY <2>1
<1>2. ASSUME NEW k \in 1..n, k - 1 \in S PROVE k \in S
  <2>1. PICK q : Is(q, k - 1)
    BY <1>2
  <2> DEFINE r == [l \in 0..k |-> IF l = k THEN step[q[k-1]] ELSE q[l]]
  <2>2. q[k-1] \in D /\ step[q[k-1]] \in D
    BY <2>1
  <2>3. r \in [0..k -> D] /\ r[0] = z
    BY <2>1, <2>2
  <2>4. ASSUME NEW l \in 1..k PROVE r[l] = step[r[l-1]]
    <3>1. CASE l = k
      BY <3>1
    <3>2. CASE l # k
      <4>1. l \in 1..k-1 /\ l - 1 # k /\ l - 1 \in 0..k /\ l \in 0..k
        BY <3>2
      <4> QED BY <2>1, <3>2, <4>1
    <3> QED BY <3>1, <3>2
  <2>5. Is(r, k)
    <3> HIDE DEF r
    <3> QED BY <2>3, <2>4
  <2> HIDE DEF r, Is
  <2> QED BY <2>5
<1>3. \A k \in 0..n : k \in S
  <2> HIDE DEF S
  <2> QED BY <1>1, <1>2, UpTo
<1>4. n \in S
  <2> HIDE DEF S
  <2> QED BY <1>3
<1> QED BY <1>4 DEF Repeated

----------------------------------------------------------------------------
(* mod_fill_all_unique_dependencies.  A call inside another one has a      *)
(* module more in its array, so that the recursion ends.                   *)

Distinct(s) == \A k, l \in 1..Len(s) : s[k] = s[l] => k = l

\* What is appended is one more element.
LEMMA Appended ==
  ASSUME NEW s \in Seq(Mod), NEW d \in Mod
  PROVE  /\ Append(s, d) \in Seq(Mod) /\ Elements(Append(s, d)) = Elements(s) \cup {d}
         /\ Len(Append(s, d)) = Len(s) + 1 /\ Len(s) \in Nat
         /\ Distinct(s) /\ d \notin Elements(s) => Distinct(Append(s, d))
<1> DEFINE n == Len(s)
           t == Append(s, d)
<1>1. n \in Nat /\ t \in Seq(Mod) /\ Len(t) = n + 1 /\ (\A k \in 1..n : t[k] = s[k]) /\ t[n + 1] = d
  OBVIOUS
<1> HIDE DEF t
<1>2. Elements(s) = {s[k] : k \in 1..n} /\ Elements(t) = {t[k] : k \in 1..n+1}
  BY <1>1 DEF Elements
<1> HIDE DEF n
<1>3. \A k \in 1..n+1 : k \in 1..n \/ k = n + 1
  BY <1>1
<1>4. 1..n \subseteq 1..n+1 /\ n + 1 \in 1..n+1
  BY <1>1
<1>5. Elements(t) = Elements(s) \cup {d}
  BY <1>1, <1>2, <1>3, <1>4
<1>6. ASSUME Distinct(s), d \notin Elements(s) PROVE Distinct(t)
  <2> SUFFICES ASSUME NEW k \in 1..n+1, NEW l \in 1..n+1, t[k] = t[l] PROVE k = l
    BY <1>1 DEF Distinct
  <2>1. CASE k \in 1..n /\ l \in 1..n
    BY <1>1, <1>6, <2>1 DEF Distinct, n
  <2>2. CASE k = n + 1 /\ l \in 1..n
    BY <1>1, <1>2, <1>6, <2>2
  <2>3. CASE k \in 1..n /\ l = n + 1
    BY <1>1, <1>2, <1>6, <2>3
  <2> QED BY <1>3, <2>1, <2>2, <2>3
<1> QED BY <1>1, <1>5, <1>6 DEF n, t

\* The elements of an array of modules are modules.
LEMMA ElementsAre ==
  ASSUME NEW s \in Seq(Mod)
  PROVE  Elements(s) \in SUBSET Mod /\ Len(s) \in Nat /\ \A k \in 1..Len(s) : s[k] \in Mod /\ s[k] \in Elements(s)
BY DEF Elements

\* The measure of the recursion
Room(s) == Cardinality(Mod \ Elements(s))

\* Arrays that have all that s has and more
Beyond(s) == {t \in Seq(Mod) : Elements(s) \subseteq Elements(t) /\ Elements(t) # Elements(s)}

\* leave less room.
LEMMA RoomFalls ==
  ASSUME NEW s \in Seq(Mod)
  PROVE  Room(s) \in 0..n_mods /\ n_mods \in Nat /\ \A t \in Beyond(s) : Room(t) < Room(s)
<1>1. ASSUME NEW t \in Seq(Mod)
      PROVE  /\ Mod \ Elements(t) \in SUBSET Mod /\ IsFiniteSet(Mod \ Elements(t))
             /\ Room(t) \in Nat /\ Room(t) <= n_mods
  <2> DEFINE A == Mod \ Elements(t)
  <2>1. A \in SUBSET Mod
    OBVIOUS
  <2> HIDE DEF A
  <2>2. IsFiniteSet(A) /\ Cardinality(A) \in Nat /\ Cardinality(A) <= n_mods
    BY <2>1, SubsetFinite
  <2> QED BY <2>1, <2>2 DEF Room, A
<1>2. ASSUME NEW t \in Beyond(s) PROVE Room(t) < Room(s)
  <2> DEFINE A == Mod \ Elements(t)
             B == Mod \ Elements(s)
  <2>1. t \in Seq(Mod) /\ Elements(t) \in SUBSET Mod /\ Elements(s) \in SUBSET Mod
    BY ElementsAre DEF Beyond
  <2>2. A \in SUBSET B /\ A # B /\ IsFiniteSet(B)
    BY <1>1, <2>1 DEF Beyond
  <2>3. Cardinality(A) <= Cardinality(B) /\ Cardinality(A) # Cardinality(B)
    <3> HIDE DEF A, B
    <3> QED BY <2>2, FS_Subset, Zenon
  <2>4. Room(t) <= Room(s) /\ Room(t) # Room(s)
    BY <2>3 DEF Room
  <2>5. Room(t) \in Nat /\ Room(s) \in Nat
    BY <1>1, <2>1
  <2> QED BY <2>4, <2>5
<1>3. Room(s) \in Nat /\ Room(s) <= n_mods
  BY <1>1
<1> QED BY <1>2, <1>3, ModFinite

\* Of any arrays there is one beyond which there is none.
LEMMA Fullest ==
  ASSUME NEW T, T \subseteq Seq(Mod), T # {}
  PROVE  \E s \in T : \A t \in Beyond(s) : t \notin T
<1> DEFINE I == {Room(s) : s \in T}
<1>1. I \subseteq Nat /\ I # {}
  BY RoomFalls
<1>2. \E x \in I : \A j \in I : x <= j
  <2> HIDE DEF I
  <2> QED BY <1>1, LeastNat
<1>3. PICK s \in T : \A t \in T : Room(s) <= Room(t)
  BY <1>2
<1>4. ASSUME NEW t \in Beyond(s), t \in T PROVE FALSE
  <2>1. Room(t) < Room(s) /\ Room(t) \in Nat /\ Room(s) \in Nat /\ Room(s) <= Room(t)
    BY <1>3, <1>4, RoomFalls
  <2> QED BY <2>1
<1> QED BY <1>4

\* Functions that may be the recursion: they take nothing out of the array.
Fillers ==
  {f \in [Seq(Mod) -> [Mod -> Seq(Mod)]] : \A s \in Seq(Mod) : \A m \in Mod : Elements(s) \subseteq Elements(f[s][m])}

DepsAreArrays == deps \in [Mod -> Seq(Mod)]

\* The body of the loop over dependencies
Body(f) == [s \in Seq(Mod) |-> [d \in Mod |-> IF d \in Elements(s) THEN s ELSE f[Append(s, d)][d]]]

\* goes on with an array that has more, or is done with a dependency.
LEMMA BodyIs ==
  ASSUME NEW f \in Fillers
  PROVE  /\ Body(f) \in Fillers
         /\ \A s \in Seq(Mod) : \A d \in Mod :
              /\ Body(f)[s][d] = IF d \in Elements(s) THEN s ELSE f[Append(s, d)][d]
              /\ d \in Elements(Body(f)[s][d])
<1>1. \A s \in Seq(Mod) : \A d \in Mod : Body(f)[s][d] = IF d \in Elements(s) THEN s ELSE f[Append(s, d)][d]
  BY DEF Body
<1>2. ASSUME NEW s \in Seq(Mod), NEW d \in Mod
      PROVE  Body(f)[s][d] \in Seq(Mod) /\ Elements(s) \cup {d} \subseteq Elements(Body(f)[s][d])
  <2>1. Append(s, d) \in Seq(Mod) /\ Elements(Append(s, d)) = Elements(s) \cup {d}
    BY Appended
  <2>2. f[Append(s, d)][d] \in Seq(Mod) /\ Elements(s) \cup {d} \subseteq Elements(f[Append(s, d)][d])
    BY <2>1 DEF Fillers
  <2> QED BY <1>1, <2>2
<1>3. Body(f) \in [Seq(Mod) -> [Mod -> Seq(Mod)]]
  <2> DEFINE v(s, d) == IF d \in Elements(s) THEN s ELSE f[Append(s, d)][d]
  <2>1. \A s \in Seq(Mod) : \A d \in Mod : v(s, d) \in Seq(Mod)
    BY <1>1, <1>2
  <2>2. Body(f) = [s \in Seq(Mod) |-> [d \in Mod |-> v(s, d)]]
    BY Zenon DEF Body
  <2> HIDE DEF v
  <2> QED BY <2>1, <2>2
<1> QED BY <1>1, <1>2, <1>3 DEF Fillers

\* Functions that agree on all that is beyond an array
Agree(f, g, s) == \A t \in Beyond(s) : \A n \in Mod : g[t][n] = f[t][n]

\* agree on the loop for it.
LEMMA FillAgrees ==
  ASSUME DepsAreArrays, NEW f \in Fillers, NEW g, NEW s \in Seq(Mod), NEW m \in Mod, Agree(f, g, s)
  PROVE  /\ FillAllUnique(f, s, m) \in Seq(Mod) /\ Elements(s) \subseteq Elements(FillAllUnique(f, s, m))
         /\ FillAllUnique(g, s, m) = FillAllUnique(f, s, m)
<1> DEFINE D == Seq(Mod)
           X == {t \in D : Elements(s) \subseteq Elements(t)}
           L == [j \in 0..Len(deps[m]) |-> X]
<1>1. deps[m] \in Seq(Mod) /\ Len(deps[m]) \in Nat /\ \A j \in 0..Len(deps[m]) : L[j] = X
  BY DEF DepsAreArrays
<1>2. Body(f) \in [D -> [Mod -> D]] /\ s \in X
  BY BodyIs DEF Fillers
<1> HIDE DEF L
<1>3. ASSUME NEW j \in 1..Len(deps[m]), NEW t \in D, t \in L[j-1]
      PROVE  Body(f)[t][deps[m][j]] \in L[j] /\ Body(g)[t][deps[m][j]] = Body(f)[t][deps[m][j]]
  <2>1. t \in X /\ deps[m][j] \in Mod /\ L[j] = X
    BY <1>1, <1>3
  <2>2. Body(f)[t][deps[m][j]] \in X
    <3>1. t \in D /\ Elements(s) \subseteq Elements(t)
      BY <2>1
    <3>2. Body(f) \in Fillers
      BY BodyIs
    <3>3. Body(f)[t][deps[m][j]] \in D /\ Elements(t) \subseteq Elements(Body(f)[t][deps[m][j]])
      <4>1. \A u \in Seq(Mod) : \A d \in Mod :
              Body(f)[u][d] \in Seq(Mod) /\ Elements(u) \subseteq Elements(Body(f)[u][d])
        BY <3>2 DEF Fillers
      <4> QED BY <2>1, <3>1, <4>1
    <3> QED BY <3>1, <3>3
  <2>3. Body(g)[t][deps[m][j]] = IF deps[m][j] \in Elements(t) THEN t ELSE g[Append(t, deps[m][j])][deps[m][j]]
    BY <2>1 DEF Body
  <2>4. ASSUME deps[m][j] \notin Elements(t) PROVE Append(t, deps[m][j]) \in Beyond(s)
    BY <2>1, <2>4, Appended DEF Beyond
  <2> QED BY <2>1, <2>2, <2>3, <2>4, BodyIs DEF Agree
<1>4. s \in L[0] /\ L[Len(deps[m])] = X
  <2> HIDE DEF X
  <2>1. 0 \in 0..Len(deps[m]) /\ Len(deps[m]) \in 0..Len(deps[m])
    BY <1>1
  <2> QED BY <1>1, <1>2, <2>1
<1>5. /\ ForEach(Body(f), s, deps[m]) \in L[Len(deps[m])]
      /\ ForEach(Body(g), s, deps[m]) = ForEach(Body(f), s, deps[m])
  <2> HIDE DEF D, X
  <2>1. s \in D
    BY DEF D
  <2>2. Leads(D, L, s, deps[m], Body(f), Body(g))
    BY <1>1, <1>2, <1>3, <1>4, <2>1 DEF Leads, D
  <2> QED BY <2>2, LoopKeeps
<1>6. FillAllUnique(f, s, m) = ForEach(Body(f), s, deps[m]) /\ FillAllUnique(g, s, m) = ForEach(Body(g), s, deps[m])
  BY Zenon DEF FillAllUnique, Body
<1> QED BY <1>4, <1>5, <1>6

\* The equation of the recursion
IsFilled(f) == f = [s \in Seq(Mod) |-> [m \in Mod |-> FillAllUnique(f, s, m)]]

\* where there is room for fewer than k modules
Solves(f, k) ==
  f \in Fillers /\ \A s \in Seq(Mod) : Room(s) < k => \A m \in Mod : f[s][m] = FillAllUnique(f, s, m)

\* has a solution.
LEMMA FilledExists ==
  ASSUME DepsAreArrays
  PROVE  \E f \in Fillers : IsFilled(f) /\ \A s \in Seq(Mod) : \A m \in Mod : f[s][m] = FillAllUnique(f, s, m)
<1> DEFINE S == {k \in 0..n_mods+1 : \E f : Solves(f, k)}
<1>1. n_mods \in Nat /\ \A s \in Seq(Mod) : Room(s) \in 0..n_mods
  BY RoomFalls, ModFinite
<1>2. 0 \in S
  <2> DEFINE f == [s \in Seq(Mod) |-> [m \in Mod |-> s]]
  <2>1. f \in Fillers
    BY DEF Fillers
  <2>2. \A s \in Seq(Mod) : ~(Room(s) < 0)
    BY <1>1
  <2>3. Solves(f, 0)
    <3> HIDE DEF f
    <3> QED BY <2>1, <2>2 DEF Solves
  <2> HIDE DEF f
  <2> QED BY <1>1, <2>3
<1>3. ASSUME NEW k \in 1..n_mods+1, k - 1 \in S PROVE k \in S
  <2>1. PICK f : Solves(f, k - 1)
    BY <1>3
  <2> DEFINE g == [s \in Seq(Mod) |-> [m \in Mod |-> FillAllUnique(f, s, m)]]
  <2>2. \A s \in Seq(Mod) : \A m \in Mod : g[s][m] = FillAllUnique(f, s, m)
    OBVIOUS
  <2>3. f \in Fillers
    BY <2>1 DEF Solves
  <2>4. \A s \in Seq(Mod) : \A m \in Mod :
          FillAllUnique(f, s, m) \in Seq(Mod) /\ Elements(s) \subseteq Elements(FillAllUnique(f, s, m))
    <3>1. \A s : Agree(f, f, s)
      BY DEF Agree
    <3> QED BY <2>3, <3>1, FillAgrees
  <2>5. g \in Fillers
    <3>1. g \in [Seq(Mod) -> [Mod -> Seq(Mod)]]
      BY <2>4
    <3> HIDE DEF g
    <3> QED BY <2>2, <2>4, <3>1 DEF Fillers
  <2> HIDE DEF g
  <2>6. ASSUME NEW s \in Seq(Mod), Room(s) < k, NEW m \in Mod
        PROVE  g[s][m] = FillAllUnique(g, s, m)
    <3>1. ASSUME NEW t \in Beyond(s), NEW n \in Mod PROVE g[t][n] = f[t][n]
      <4>1. t \in Seq(Mod) /\ Room(t) < Room(s)
        BY RoomFalls DEF Beyond
      <4>2. Room(t) < k - 1
        BY <1>1, <2>6, <4>1
      <4> QED BY <2>1, <2>2, <4>1, <4>2 DEF Solves
    <3>2. Agree(f, g, s)
      BY <3>1 DEF Agree
    <3>3. FillAllUnique(g, s, m) = FillAllUnique(f, s, m)
      BY <2>3, <3>2, FillAgrees
    <3> QED BY <2>2, <3>3
  <2>7. Solves(g, k)
    BY <2>5, <2>6 DEF Solves
  <2> QED BY <2>7
<1>4. \A k \in 0..n_mods+1 : k \in S
  <2> HIDE DEF S
  <2> QED BY <1>1, <1>2, <1>3, UpTo
<1>5. PICK f : Solves(f, n_mods + 1)
  <2>1. n_mods + 1 \in S
    <3> HIDE DEF S
    <3> QED BY <1>1, <1>4
  <2> QED BY <2>1
<1>6. f \in Fillers /\ \A s \in Seq(Mod) : \A m \in Mod : f[s][m] = FillAllUnique(f, s, m)
  <2>1. \A s \in Seq(Mod) : Room(s) < n_mods + 1
    BY <1>1
  <2> QED BY <1>5, <2>1 DEF Solves
<1>7. IsFilled(f)
  <2> DEFINE e(s) == [m \in Mod |-> FillAllUnique(f, s, m)]
  <2>1. ASSUME NEW s \in Seq(Mod) PROVE f[s] = e(s)
    <3>1. f[s] = [m \in Mod |-> f[s][m]]
      BY <1>6 DEF Fillers
    <3> QED BY <1>6, <3>1
  <2>2. f = [s \in Seq(Mod) |-> f[s]]
    BY <1>6 DEF Fillers
  <2>3. f = [s \in Seq(Mod) |-> e(s)]
    <3> HIDE DEF e
    <3> QED BY <2>1, <2>2
  <2> QED BY <2>3, Zenon DEF IsFilled
<1> QED BY <1>6, <1>7

\* which is the only one: the recursion.
LEMMA FilledIs ==
  ASSUME DepsAreArrays
  PROVE  filled \in Fillers /\ \A s \in Seq(Mod) : \A m \in Mod : filled[s][m] = FillAllUnique(filled, s, m)
<1>1. PICK f \in Fillers : IsFilled(f) /\ \A s \in Seq(Mod) : \A m \in Mod : f[s][m] = FillAllUnique(f, s, m)
  BY FilledExists
<1>2. filled = CHOOSE g : IsFilled(g)
  BY Zenon DEF filled, IsFilled
<1>3. IsFilled(filled)
  BY <1>1, <1>2, Zenon
<1> DEFINE e(s) == [m \in Mod |-> FillAllUnique(filled, s, m)]
<1>4. filled = [s \in Seq(Mod) |-> e(s)]
  BY <1>3, Zenon DEF IsFilled
<1>5. /\ \A s \in Seq(Mod) : \A m \in Mod : filled[s][m] = FillAllUnique(filled, s, m)
      /\ \A s \in Seq(Mod) : filled[s] = [m \in Mod |-> filled[s][m]]
      /\ filled = [s \in Seq(Mod) |-> filled[s]]
  <2>1. filled = [s \in Seq(Mod) |-> filled[s]] /\ \A s \in Seq(Mod) : filled[s] = e(s)
    <3> HIDE DEF e
    <3> QED BY <1>4
  <2>2. ASSUME NEW s \in Seq(Mod)
        PROVE  filled[s] = [m \in Mod |-> filled[s][m]] /\ \A m \in Mod : filled[s][m] = FillAllUnique(filled, s, m)
    <3>1. filled[s] = [m \in Mod |-> FillAllUnique(filled, s, m)]
      BY <2>1
    <3> QED BY <3>1
  <2> QED BY <2>1, <2>2
<1> DEFINE T == {s \in Seq(Mod) : \E m \in Mod : filled[s][m] # f[s][m]}
<1>6. T = {}
  <2> SUFFICES ASSUME T # {} PROVE FALSE
    OBVIOUS
  <2>1. PICK s \in T : \A t \in Beyond(s) : t \notin T
    <3>1. T \subseteq Seq(Mod)
      OBVIOUS
    <3> HIDE DEF T
    <3> QED BY <3>1, Fullest
  <2>2. PICK m \in Mod : filled[s][m] # f[s][m]
    OBVIOUS
  <2>3. s \in Seq(Mod)
    OBVIOUS
  <2>4. Agree(f, filled, s)
    BY <2>1 DEF Agree, Beyond
  <2>5. FillAllUnique(filled, s, m) = FillAllUnique(f, s, m)
    <3> HIDE DEF T
    <3> QED BY <1>1, <2>3, <2>4, FillAgrees
  <2> QED BY <1>1, <1>5, <2>2, <2>3, <2>5
<1>7. filled = f
  <2>1. \A s \in Seq(Mod) : \A m \in Mod : filled[s][m] = f[s][m]
    BY <1>6
  <2>2. \A s \in Seq(Mod) : f[s] = [m \in Mod |-> f[s][m]]
    BY <1>1 DEF Fillers
  <2>3. f = [s \in Seq(Mod) |-> f[s]]
    BY <1>1 DEF Fillers
  <2>4. \A s \in Seq(Mod) : filled[s] = f[s]
    BY <1>5, <2>1, <2>2
  <2> QED BY <1>5, <2>3, <2>4
<1> QED BY <1>1, <1>5, <1>7

----------------------------------------------------------------------------
(* What it collects.  W are the modules that the recursion is at, whose    *)
(* dependencies may still be missing.                                      *)

\* A set that has what its modules depend on
Closed(S) == \A x \in S : Elements(deps[x]) \subseteq S

Kept(s, W, S) ==
  /\ s \in Seq(Mod) /\ Distinct(s) /\ Elements(s) \subseteq S
  /\ \A x \in Elements(s) : x \in W \/ Elements(deps[x]) \subseteq Elements(s)

\* A call for m makes t of the array s.
Right(s, m, t) ==
  \A W, S \in SUBSET Mod : Closed(S) /\ Elements(deps[m]) \subseteq S /\ Kept(s, W, S) =>
    Kept(t, W, S) /\ Elements(s) \cup Elements(deps[m]) \subseteq Elements(t)

\* A call adds what is missing of the dependencies, each with all that it needs.
LEMMA FilledRight ==
  ASSUME DepsAreArrays, NEW m \in Mod, NEW s \in Seq(Mod)
  PROVE  Right(s, m, filled[s][m])
<1> DEFINE T == {q \in Seq(Mod) : \E n \in Mod : ~Right(q, n, filled[q][n])}
<1>1. ASSUME T # {} PROVE FALSE
  <2>1. PICK a \in T : \A t \in Beyond(a) : t \notin T
    <3>1. T \subseteq Seq(Mod)
      OBVIOUS
    <3> HIDE DEF T
    <3> QED BY <1>1, <3>1, Fullest
  <2>2. a \in Seq(Mod) /\ \E n \in Mod : ~Right(a, n, filled[a][n])
    OBVIOUS
  <2>3. PICK n \in Mod : ~Right(a, n, filled[a][n])
    BY <2>2
  <2>4. \A t \in Beyond(a) : \A d \in Mod : Right(t, d, filled[t][d])
    BY <2>1 DEF Beyond
  <2> HIDE DEF T
  <2>5. PICK W \in SUBSET Mod, S \in SUBSET Mod :
          /\ Closed(S) /\ Elements(deps[n]) \subseteq S /\ Kept(a, W, S)
          /\ ~(Kept(filled[a][n], W, S) /\ Elements(a) \cup Elements(deps[n]) \subseteq Elements(filled[a][n]))
    BY <2>3 DEF Right
  <2> DEFINE D == Seq(Mod)
             mods == deps[n]
             X(j) == {t \in D : Kept(t, W, S) /\ Elements(a) \subseteq Elements(t)
                                /\ \A k \in 1..j : mods[k] \in Elements(t)}
             L == [j \in 0..Len(mods) |-> X(j)]
             call == Body(filled)
  <2>6. mods \in Seq(Mod) /\ Len(mods) \in Nat /\ Elements(mods) = {mods[k] : k \in 1..Len(mods)}
    BY DEF DepsAreArrays, Elements
  <2>7. \A j \in 0..Len(mods) : L[j] = X(j)
    OBVIOUS
  <2> HIDE DEF L
  <2>8. /\ filled \in Fillers /\ call \in [D -> [Mod -> D]]
        /\ \A t \in D : \A d \in Mod : call[t][d] = IF d \in Elements(t) THEN t ELSE filled[Append(t, d)][d]
    <3>1. filled \in Fillers
      BY FilledIs
    <3>2. /\ Body(filled) \in Fillers
          /\ \A t \in Seq(Mod) : \A d \in Mod :
               Body(filled)[t][d] = IF d \in Elements(t) THEN t ELSE filled[Append(t, d)][d]
      BY <3>1, BodyIs
    <3>3. Body(filled) \in [Seq(Mod) -> [Mod -> Seq(Mod)]]
      BY <3>2 DEF Fillers
    <3> QED BY <3>1, <3>2, <3>3
  <2>9. a \in L[0]
    <3>1. a \in X(0)
      BY <2>2, <2>5
    <3>2. 0 \in 0..Len(mods)
      BY <2>6
    <3> HIDE DEF X
    <3> QED BY <2>7, <3>1, <3>2
  <2> HIDE DEF mods, call
  <2>10. ASSUME NEW j \in 1..Len(mods), NEW t \in D, t \in L[j-1] PROVE call[t][mods[j]] \in L[j]
    <3>1. j \in 0..Len(mods) /\ j - 1 \in 0..Len(mods) /\ mods[j] \in Mod /\ mods[j] \in S
      BY <2>5, <2>6 DEF mods
    <3>2. L[j-1] = X(j-1) /\ L[j] = X(j)
      BY <2>7, <3>1
    <3>3. Kept(t, W, S) /\ Elements(a) \subseteq Elements(t) /\ \A k \in 1..j-1 : mods[k] \in Elements(t)
      BY <2>10, <3>2
    <3>4. \A k \in 1..j : k \in 1..j-1 \/ k = j
      BY <3>1
    <3> DEFINE d == mods[j]
    <3> HIDE DEF d
    <3>5. CASE d \in Elements(t)
      <4>1. call[t][d] = t
        BY <2>8, <3>1, <3>5 DEF d
      <4>2. \A k \in 1..j : mods[k] \in Elements(t)
        BY <3>3, <3>4, <3>5 DEF d
      <4>3. t \in X(j)
        BY <3>3, <4>2
      <4> QED BY <3>2, <4>1, <4>3 DEF d
    <3>6. CASE d \notin Elements(t)
      <4> DEFINE u == Append(t, d)
                 v == filled[u][d]
                 V == W \cup {d}
      <4>1. d \in Mod /\ d \in S
        BY <3>1 DEF d
      <4>2. u \in Seq(Mod) /\ Elements(u) = Elements(t) \cup {d} /\ Distinct(u)
        BY <3>3, <3>6, <4>1, Appended DEF Kept
      <4>3. call[t][d] = v
        BY <2>8, <3>6, <4>1
      <4> HIDE DEF u
      <4>4. u \in Beyond(a)
        BY <3>3, <3>6, <4>2 DEF Beyond
      <4>5. Kept(u, V, S) /\ V \in SUBSET Mod
        BY <3>3, <4>1, <4>2 DEF Kept
      <4>6. Elements(deps[d]) \subseteq S
        BY <2>5, <4>1 DEF Closed
      <4>7. v \in D
        BY <2>8, <4>1, <4>2 DEF Fillers
      <4> HIDE DEF V, v
      <4>8. Right(u, d, v)
        BY <2>4, <4>1, <4>4 DEF v
      <4>9. Kept(v, V, S) /\ Elements(u) \cup Elements(deps[d]) \subseteq Elements(v)
        BY <2>5, <4>5, <4>6, <4>8 DEF Right
      <4>10. Kept(v, W, S)
        BY <4>9 DEF Kept, V
      <4>11. Elements(a) \subseteq Elements(v) /\ \A k \in 1..j : mods[k] \in Elements(v)
        BY <3>3, <3>4, <4>2, <4>9 DEF d
      <4>12. v \in X(j)
        BY <4>7, <4>10, <4>11
      <4> QED BY <3>2, <4>3, <4>12 DEF d
    <3> QED BY <3>5, <3>6
  <2>11. ForEach(call, a, mods) \in L[Len(mods)]
    <3>1. Leads(D, L, a, mods, call, call)
      <4> HIDE DEF D, X
      <4>1. a \in D
        BY <2>2 DEF D
      <4> QED BY <2>6, <2>8, <2>9, <2>10, <4>1 DEF Leads, D
    <3> QED BY <3>1, LoopKeeps
  <2>12. filled[a][n] = ForEach(call, a, mods)
    <3>1. filled[a][n] = FillAllUnique(filled, a, n)
      BY <2>2, FilledIs
    <3>2. FillAllUnique(filled, a, n) = ForEach(call, a, mods)
      BY Zenon DEF FillAllUnique, Body, call, mods
    <3> QED BY <3>1, <3>2
  <2>13. filled[a][n] \in X(Len(mods))
    <3>1. Len(mods) \in 0..Len(mods)
      BY <2>6
    <3> HIDE DEF X
    <3> QED BY <2>7, <2>11, <2>12, <3>1
  <2>14. Elements(deps[n]) \subseteq Elements(filled[a][n])
    BY <2>6, <2>13 DEF mods
  <2> QED BY <2>5, <2>13, <2>14
<1>2. T = {}
  BY <1>1
<1> QED BY <1>2

\* What a module needs are modules: its dependencies and what they need. No smaller set
\* has them.
LEMMA NeededIs ==
  ASSUME DepsAreArrays, NEW m \in Mod
  PROVE  /\ Needed(m) \in SUBSET Mod /\ Elements(deps[m]) \subseteq Needed(m) /\ Closed(Needed(m))
         /\ \A S \in SUBSET Mod : Elements(deps[m]) \subseteq S /\ Closed(S) => Needed(m) \subseteq S
<1>1. \A x \in Mod : Elements(deps[x]) \in SUBSET Mod
  BY ElementsAre DEF DepsAreArrays
<1>2. Needed(m) \in SUBSET Mod /\ Elements(deps[m]) \subseteq Needed(m)
  BY <1>1 DEF Needed
<1>3. \A S \in SUBSET Mod : Elements(deps[m]) \subseteq S /\ Closed(S) => Needed(m) \subseteq S
  BY DEF Needed, Closed
<1>4. ASSUME NEW x \in Needed(m), NEW y \in Elements(deps[x]) PROVE y \in Needed(m)
  <2>1. x \in Mod /\ y \in Mod
    BY <1>1, <1>2
  <2>2. ASSUME NEW S \in SUBSET Mod, Elements(deps[m]) \subseteq S, \A z \in S : Elements(deps[z]) \subseteq S
        PROVE  y \in S
    <3>1. x \in S
      BY <2>2 DEF Needed
    <3> QED BY <2>2, <3>1
  <2> QED BY <2>1, <2>2 DEF Needed
<1> QED BY <1>2, <1>3, <1>4 DEF Closed

\* So all that a module needs is collected, and nothing else, and nothing twice.
LEMMA AllUniqueIs ==
  ASSUME DepsAreArrays, NEW m \in Mod
  PROVE  AllUnique(m) \in Seq(Mod) /\ Distinct(AllUnique(m)) /\ Elements(AllUnique(m)) = Needed(m)
<1> DEFINE t == AllUnique(m)
           S == Needed(m)
           W == {}
<1>1. <<>> \in Seq(Mod) /\ Distinct(<<>>) /\ Elements(<<>>) = {} /\ W \in SUBSET Mod
  BY DEF Distinct, Elements
<1>2. S \in SUBSET Mod /\ Elements(deps[m]) \subseteq S /\ Closed(S)
  BY NeededIs
<1>3. Kept(<<>>, W, S)
  BY <1>1 DEF Kept
<1>4. Right(<<>>, m, t)
  BY <1>1, FilledRight DEF AllUnique
<1> HIDE DEF t, S, W
<1>5. Kept(t, W, S) /\ Elements(deps[m]) \subseteq Elements(t)
  BY <1>1, <1>2, <1>3, <1>4 DEF Right
<1>6. Closed(Elements(t)) /\ t \in Seq(Mod) /\ Distinct(t) /\ Elements(t) \subseteq S
  BY <1>5 DEF Kept, Closed, W
<1>7. Elements(t) \in SUBSET Mod
  BY <1>6, ElementsAre
<1>8. S \subseteq Elements(t)
  BY <1>5, <1>6, <1>7, NeededIs DEF S
<1> QED BY <1>6, <1>8 DEF t, S

----------------------------------------------------------------------------
(* The room for what is collected.                                         *)

\* The modules for which no call is deeper than k are those whose dependencies are
\* such for k - 1.
LEMMA ReturnsIs ==
  /\ returns[0] = {}
  /\ \A k \in 1..n_mods : returns[k] = {m \in Mod : Elements(deps[m]) \subseteq returns[k-1]}
<1> DEFINE Is(f) == f = [k \in 0..n_mods |->
                           IF k = 0 THEN {} ELSE {m \in Mod : Elements(deps[m]) \subseteq f[k-1]}]
           step == [S \in SUBSET Mod |-> {m \in Mod : Elements(deps[m]) \subseteq S}]
<1>1. n_mods \in Nat /\ {} \in SUBSET Mod /\ step \in [SUBSET Mod -> SUBSET Mod]
  BY ModFinite
<1>2. PICK r : r \in [0..n_mods -> SUBSET Mod] /\ r[0] = {} /\ \A k \in 1..n_mods : r[k] = step[r[k-1]]
  <2> HIDE DEF step
  <2>1. \E r : Repeated(r, n_mods, SUBSET Mod, {}, step)
    BY <1>1, Repeats
  <2> QED BY <2>1 DEF Repeated
<1>3. \A k \in 0..n_mods : r[k] = IF k = 0 THEN {} ELSE {m \in Mod : Elements(deps[m]) \subseteq r[k-1]}
  <2> TAKE k \in 0..n_mods
  <2>1. CASE k = 0
    BY <1>2, <2>1
  <2>2. CASE k # 0
    <3>1. k \in 1..n_mods /\ k - 1 \in 0..n_mods
      BY <1>1, <2>2
    <3>2. r[k-1] \in SUBSET Mod /\ r[k] = step[r[k-1]]
      <4> HIDE DEF step
      <4> QED BY <1>2, <3>1
    <3> QED BY <2>2, <3>2
  <2> QED BY <2>1, <2>2
<1>4. Is(r)
  <2>1. r = [k \in 0..n_mods |-> r[k]]
    BY <1>2
  <2> QED BY <1>3, <2>1
<1>5. Is(returns)
  <2>1. returns = CHOOSE f : Is(f)
    BY Zenon DEF returns
  <2> HIDE DEF Is
  <2> QED BY <1>4, <2>1, Zenon
<1>6. \A k \in 0..n_mods : returns[k] = IF k = 0 THEN {} ELSE {m \in Mod : Elements(deps[m]) \subseteq returns[k-1]}
  BY <1>5
<1>7. 0 \in 0..n_mods /\ \A k \in 1..n_mods : k \in 0..n_mods /\ k # 0
  BY <1>1
<1> HIDE DEF Is
<1> QED BY <1>6, <1>7

\* The count of m when those of its dependencies are c
Total(c) == [m \in Mod |-> ForEach([n \in Nat |-> [d \in Mod |-> n + 1 + c[d]]], 0, deps[m])]

\* is a number.
LEMMA TotalIs ==
  ASSUME DepsAreArrays, NEW c \in [Mod -> Nat], NEW m \in Mod
  PROVE  /\ Total(c)[m] \in Nat
         /\ \E r \in [0..Len(deps[m]) -> Nat] :
              /\ r[0] = 0 /\ \A j \in 1..Len(deps[m]) : r[j] = r[j-1] + 1 + c[deps[m][j]]
              /\ Total(c)[m] = r[Len(deps[m])]
<1> DEFINE call == [n \in Nat |-> [d \in Mod |-> n + 1 + c[d]]]
<1>1. 0 \in Nat /\ call \in [Nat -> [Mod -> Nat]] /\ deps[m] \in Seq(Mod)
  BY DEF DepsAreArrays
<1>2. Len(deps[m]) \in Nat /\ \A j \in 1..Len(deps[m]) : deps[m][j] \in Mod
  BY <1>1
<1>3. Total(c)[m] = ForEach(call, 0, deps[m])
  BY DEF Total
<1>4. \A n \in Nat : \A d \in Mod : call[n][d] = n + 1 + c[d]
  OBVIOUS
<1> HIDE DEF call
<1>5. PICK r :
        /\ r \in [0..Len(deps[m]) -> Nat]
        /\ r[0] = 0 /\ \A j \in 1..Len(deps[m]) : r[j] = call[r[j-1]][deps[m][j]]
        /\ ForEach(call, 0, deps[m]) = r[Len(deps[m])]
  <2>1. \E r : IsRun(r, Nat, 0, deps[m], call)
    BY <1>1, LoopRuns
  <2> QED BY <2>1 DEF IsRun
<1>6. \A j \in 1..Len(deps[m]) : r[j] = r[j-1] + 1 + c[deps[m][j]]
  <2> TAKE j \in 1..Len(deps[m])
  <2>1. j - 1 \in 0..Len(deps[m]) /\ deps[m][j] \in Mod
    BY <1>2
  <2>2. r[j-1] \in Nat
    BY <1>5, <2>1
  <2> QED BY <1>4, <1>5, <2>1, <2>2
<1>7. r[Len(deps[m])] \in Nat
  BY <1>2, <1>5
<1> QED BY <1>3, <1>5, <1>6, <1>7

\* The counts of the recursion, level by level
LEMMA CountsIs ==
  ASSUME DepsAreArrays
  PROVE  /\ \A k \in 0..n_mods : counts[k] \in [Mod -> Nat]
         /\ \A k \in 1..n_mods : counts[k] = Total(counts[k-1])
<1> DEFINE D == [Mod -> Nat]
           zero == [m \in Mod |-> 0]
           step == [c \in D |-> Total(c)]
           of(f, k) == [m \in Mod |-> IF k = 0 THEN 0 ELSE
                          ForEach([n \in Nat |-> [d \in Mod |-> n + 1 + f[k-1][d]]], 0, deps[m])]
           Is(f) == f = [k \in 0..n_mods |-> of(f, k)]
<1>1. \A c \in D : Total(c) \in D
  <2> TAKE c \in D
  <2>1. \A m \in Mod : Total(c)[m] \in Nat
    BY TotalIs
  <2>2. Total(c) = [m \in Mod |-> Total(c)[m]]
    BY DEF Total
  <2> QED BY <2>1, <2>2
<1>2. n_mods \in Nat /\ zero \in D /\ step \in [D -> D]
  BY <1>1, ModFinite
<1>3. \A f, k : of(f, k) = IF k = 0 THEN zero ELSE Total(f[k-1])
  BY DEF Total
<1> HIDE DEF zero, of
<1>4. PICK r : r \in [0..n_mods -> D] /\ r[0] = zero /\ \A k \in 1..n_mods : r[k] = step[r[k-1]]
  <2> HIDE DEF step, D
  <2>1. \E r : Repeated(r, n_mods, D, zero, step)
    BY <1>2, Repeats
  <2> QED BY <2>1 DEF Repeated
<1>5. \A k \in 0..n_mods : r[k] = of(r, k)
  <2> TAKE k \in 0..n_mods
  <2>1. CASE k = 0
    BY <1>3, <1>4, <2>1
  <2>2. CASE k # 0
    <3>1. k \in 1..n_mods /\ k - 1 \in 0..n_mods
      BY <1>2, <2>2
    <3>2. r[k-1] \in D /\ r[k] = step[r[k-1]]
      <4> HIDE DEF step
      <4> QED BY <1>4, <3>1
    <3>3. r[k] = Total(r[k-1])
      BY <3>2
    <3> QED BY <1>3, <2>2, <3>3
  <2> QED BY <2>1, <2>2
<1>6. Is(r)
  <2>1. r = [k \in 0..n_mods |-> r[k]]
    BY <1>4
  <2> QED BY <1>5, <2>1
<1>7. Is(counts)
  <2>1. counts = CHOOSE f : Is(f)
    BY Zenon DEF counts, of
  <2> HIDE DEF Is
  <2> QED BY <1>6, <2>1, Zenon
<1>8. \A k \in 0..n_mods : counts[k] = IF k = 0 THEN zero ELSE Total(counts[k-1])
  <2>1. \A k \in 0..n_mods : counts[k] = of(counts, k)
    BY <1>7
  <2> QED BY <1>3, <2>1
<1> HIDE DEF Is
<1> DEFINE S == {k \in 0..n_mods : counts[k] \in D}
<1>9. 0 \in S
  BY <1>2, <1>8
<1>10. ASSUME NEW k \in 1..n_mods, k - 1 \in S PROVE k \in S
  <2>1. k \in 0..n_mods /\ k # 0 /\ counts[k-1] \in D
    BY <1>2, <1>10
  <2> HIDE DEF D
  <2> QED BY <1>1, <1>8, <2>1
<1>11. \A k \in 0..n_mods : k \in S
  <2> HIDE DEF S
  <2> QED BY <1>2, <1>9, <1>10, UpTo
<1>12. \A k \in 1..n_mods : k \in 0..n_mods /\ k # 0
  BY <1>2
<1> QED BY <1>8, <1>11, <1>12

\* A call adds no more entries than there are calls below it.
LEMMA FilledFits ==
  ASSUME DepsAreArrays, NEW m \in Mod, CountReturns(m)
  PROVE  Len(AllUnique(m)) <= CountAllDependencies(m)
<1> DEFINE Fits(k) == \A n \in returns[k] : n \in Mod =>
                        \A s \in Seq(Mod) : Len(filled[s][n]) <= Len(s) + counts[k][n]
           T == {k \in 0..n_mods : Fits(k)}
<1>1. n_mods \in Nat
  BY ModFinite
<1>2. 0 \in T
  BY <1>1, ReturnsIs
<1>3. ASSUME NEW k \in 1..n_mods, k - 1 \in T PROVE k \in T
  <2>0. k \in 0..n_mods /\ k - 1 \in 0..n_mods /\ Fits(k - 1)
    BY <1>1, <1>3
  <2> SUFFICES ASSUME NEW n \in returns[k], n \in Mod, NEW s \in Seq(Mod)
               PROVE  Len(filled[s][n]) <= Len(s) + counts[k][n]
    BY <2>0
  <2> DEFINE D == Seq(Mod)
             mods == deps[n]
             c == counts[k-1]
             call == Body(filled)
  <2>1. Elements(mods) \subseteq returns[k-1]
    BY ReturnsIs
  <2>2. mods \in Seq(Mod) /\ Len(mods) \in Nat /\ \A j \in 1..Len(mods) : mods[j] \in Mod /\ mods[j] \in returns[k-1]
    BY <2>1 DEF DepsAreArrays, Elements
  <2>3. c \in [Mod -> Nat] /\ counts[k] = Total(c)
    BY <2>0, CountsIs
  <2>4. PICK r \in [0..Len(mods) -> Nat] :
          /\ r[0] = 0 /\ \A j \in 1..Len(mods) : r[j] = r[j-1] + 1 + c[mods[j]]
          /\ counts[k][n] = r[Len(mods)]
    <3> HIDE DEF c
    <3> QED BY <2>3, TotalIs
  <2>5. /\ filled \in Fillers /\ call \in Fillers
        /\ \A t \in D : \A d \in Mod : call[t][d] = IF d \in Elements(t) THEN t ELSE filled[Append(t, d)][d]
    <3>1. filled \in Fillers
      BY FilledIs
    <3> QED BY <3>1, BodyIs
  <2>6. /\ filled \in [D -> [Mod -> D]] /\ call \in [D -> [Mod -> D]]
    <3> HIDE DEF call
    <3> QED BY <2>5 DEF Fillers
  <2> DEFINE X(j) == {t \in D : Len(t) <= Len(s) + r[j]}
             L == [j \in 0..Len(mods) |-> X(j)]
  <2>7. \A j \in 0..Len(mods) : L[j] = X(j)
    OBVIOUS
  <2> HIDE DEF mods, c, call, L, Fits
  <2>8. s \in L[0]
    <3>1. 0 \in 0..Len(mods) /\ Len(s) \in Nat /\ s \in X(0)
      BY <2>2, <2>4
    <3> HIDE DEF X
    <3> QED BY <2>7, <3>1
  <2>9. ASSUME NEW j \in 1..Len(mods), NEW t \in D, t \in L[j-1] PROVE call[t][mods[j]] \in L[j]
    <3>1. j \in 0..Len(mods) /\ j - 1 \in 0..Len(mods) /\ mods[j] \in Mod /\ mods[j] \in returns[k-1]
      BY <2>2
    <3>2. L[j-1] = X(j-1) /\ L[j] = X(j)
      BY <2>7, <3>1
    <3> DEFINE d == mods[j]
    <3>3. /\ Len(t) <= Len(s) + r[j-1] /\ Len(t) \in Nat /\ Len(s) \in Nat
          /\ r[j-1] \in Nat /\ r[j] \in Nat /\ c[d] \in Nat /\ r[j] = r[j-1] + 1 + c[d]
      <4>1. t \in D /\ Len(t) <= Len(s) + r[j-1]
        BY <2>9, <3>2
      <4>2. r[j-1] \in Nat /\ r[j] \in Nat /\ r[j] = r[j-1] + 1 + c[d]
        BY <2>4, <3>1
      <4>3. c[d] \in Nat
        BY <2>3, <3>1
      <4> QED BY <4>1, <4>2, <4>3
    <3> HIDE DEF d
    <3>4. d \in Mod /\ d \in returns[k-1]
      BY <3>1 DEF d
    <3>5. CASE d \in Elements(t)
      <4>1. call[t][d] = t /\ Len(t) <= Len(s) + r[j]
        BY <2>5, <3>3, <3>4, <3>5
      <4>2. t \in X(j)
        BY <4>1
      <4> QED BY <3>2, <4>1, <4>2 DEF d
    <3>6. CASE d \notin Elements(t)
      <4> DEFINE u == Append(t, d)
                 v == filled[u][d]
      <4>1. call[t][d] = v /\ u \in D /\ Len(u) = Len(t) + 1
        BY <2>5, <3>4, <3>6, Appended
      <4> HIDE DEF u
      <4>2. v \in D /\ Len(v) \in Nat
        <5>1. v \in D
          BY <2>6, <3>4, <4>1
        <5> HIDE DEF v
        <5> QED BY <5>1
      <4>3. Len(v) <= Len(u) + c[d]
        BY <2>0, <3>4, <4>1 DEF Fits, c
      <4> HIDE DEF v
      <4>4. Len(v) <= Len(s) + r[j]
        <5>1. \A p, q, x, y, z \in Nat : x <= y + p /\ z <= x + 1 + q => z <= y + (p + 1 + q)
          OBVIOUS
        <5>2. Len(v) <= Len(t) + 1 + c[d]
          BY <4>1, <4>3
        <5> QED BY <3>3, <4>2, <5>1, <5>2
      <4>5. v \in X(j)
        BY <4>2, <4>4
      <4> QED BY <3>2, <4>1, <4>5 DEF d
    <3> QED BY <3>5, <3>6
  <2>10. ForEach(call, s, mods) \in L[Len(mods)]
    <3>1. Leads(D, L, s, mods, call, call)
      <4> HIDE DEF D, X
      <4>1. s \in D
        BY DEF D
      <4> QED BY <2>2, <2>6, <2>8, <2>9, <4>1 DEF Leads, D
    <3> QED BY <3>1, LoopKeeps
  <2>11. filled[s][n] = ForEach(call, s, mods)
    <3>1. filled[s][n] = FillAllUnique(filled, s, n)
      BY FilledIs
    <3>2. FillAllUnique(filled, s, n) = ForEach(call, s, mods)
      BY Zenon DEF FillAllUnique, Body, call, mods
    <3> QED BY <3>1, <3>2
  <2>12. filled[s][n] \in X(Len(mods))
    <3>1. Len(mods) \in 0..Len(mods)
      BY <2>2
    <3> HIDE DEF X
    <3> QED BY <2>7, <2>10, <2>11, <3>1
  <2> QED BY <2>4, <2>12
<1>4. n_mods \in T
  <2>1. \A k \in 0..n_mods : k \in T
    <3> HIDE DEF T
    <3> QED BY <1>1, <1>2, <1>3, UpTo
  <2> HIDE DEF T
  <2> QED BY <1>1, <2>1
<1>5. Len(filled[<<>>][m]) <= Len(<<>>) + counts[n_mods][m]
  <2>1. <<>> \in Seq(Mod) /\ m \in returns[n_mods]
    BY DEF CountReturns
  <2> QED BY <1>4, <2>1
<1>6. counts[n_mods][m] \in Nat /\ Len(<<>>) = 0
  BY <1>1, CountsIs
<1> QED BY <1>5, <1>6 DEF AllUnique, CountAllDependencies

----------------------------------------------------------------------------
(* The order of a line.                                                    *)

\* When loops are marked the order is that of the places: those in loops have the last.
LEMMA PlacesOrder ==
  ASSUME IInv, pc \in {"order", "done"}
  PROVE  /\ \A a, b \in Mod : Ordered(a, b) <=> dep_sort_idx[a] <= dep_sort_idx[b]
         /\ \A a \in Mod : dep_sort_idx[a] \in Nat /\ (a \in dep_loop <=> ~Sorted(a))
<1> USE DEF IInv
<1>1. dep_loop = {m \in Mod : ~Sorted(m)} /\ \A a \in Mod : dep_sort_idx[a] \in Nat
  BY DEF Phases, Types
<1>2. n_sorted \in Nat /\ n_sorted < INT32_MAX
  <2>1. {x \in Mod : Sorted(x)} \in SUBSET Mod
    OBVIOUS
  <2>2. n_sorted <= n_mods
    BY <2>1, SubsetFinite DEF Places
  <2> QED BY <2>2, ModFinite DEF INT32_MAX, Types
<1>3. \A a \in Mod : Sorted(a) => dep_sort_idx[a] < INT32_MAX
  BY <1>1, <1>2 DEF Places, INT32_MAX
<1>4. \A a \in Mod : ~Sorted(a) => dep_sort_idx[a] = INT32_MAX
  BY DEF Sorted
<1>5. ASSUME NEW a \in Mod, NEW b \in Mod PROVE Ordered(a, b) <=> dep_sort_idx[a] <= dep_sort_idx[b]
  <2>1. CASE a \in dep_loop <=> b \in dep_loop
    BY <2>1 DEF Ordered
  <2>2. CASE a \in dep_loop /\ b \notin dep_loop
    <3>1. dep_sort_idx[a] = INT32_MAX /\ dep_sort_idx[b] < INT32_MAX
      BY <1>1, <1>3, <1>4, <2>2
    <3> QED BY <1>1, <2>2, <3>1 DEF Ordered, INT32_MAX
  <2>3. CASE a \notin dep_loop /\ b \in dep_loop
    <3>1. dep_sort_idx[b] = INT32_MAX /\ dep_sort_idx[a] < INT32_MAX
      BY <1>1, <1>3, <1>4, <2>3
    <3> QED BY <1>1, <2>3, <3>1 DEF Ordered, INT32_MAX
  <2> QED BY <2>1, <2>2, <2>3
<1> QED BY <1>1, <1>5

\* t lists B by places, each member once.
Lists(t, n, B) ==
  /\ t \in [1..n -> B] /\ B = {t[k] : k \in 1..n}
  /\ \A k, l \in 1..n : (t[k] = t[l] => k = l) /\ (k < l => dep_sort_idx[t[k]] <= dep_sort_idx[t[l]])

\* Every set of modules can be listed.
LEMMA CanBeListed ==
  ASSUME \A m \in Mod : dep_sort_idx[m] \in Nat, NEW A \in SUBSET Mod
  PROVE  \E t : Lists(t, Cardinality(A), A)
<1> DEFINE S == {k \in 0..n_mods : \A B \in SUBSET Mod : Cardinality(B) = k => \E t : Lists(t, k, B)}
<1>1. n_mods \in Nat
  BY ModFinite
<1>2. 0 \in S
  <2> SUFFICES ASSUME NEW B \in SUBSET Mod, Cardinality(B) = 0 PROVE \E t : Lists(t, 0, B)
    BY <1>1
  <2>1. B = {}
    BY SubsetFinite
  <2>2. Lists([k \in 1..0 |-> k], 0, B)
    BY <2>1 DEF Lists
  <2> QED BY <2>2
<1>3. ASSUME NEW k \in 1..n_mods, k - 1 \in S PROVE k \in S
  <2> SUFFICES ASSUME NEW B \in SUBSET Mod, Cardinality(B) = k PROVE \E t : Lists(t, k, B)
    BY <1>1
  <2>1. IsFiniteSet(B) /\ B # {}
    BY <1>1, SubsetFinite
  <2>2. PICK b \in B : \A x \in B : dep_sort_idx[b] <= dep_sort_idx[x]
    <3> DEFINE I == {dep_sort_idx[x] : x \in B}
    <3>1. I \subseteq Nat /\ I # {}
      BY <2>1
    <3>2. \E y \in I : \A j \in I : y <= j
      <4> HIDE DEF I
      <4> QED BY <3>1, LeastNat
    <3> QED BY <3>2
  <2> DEFINE C == B \ {b}
  <2>3. C \in SUBSET Mod /\ Cardinality(C) = k - 1
    BY <2>1, FS_RemoveElement
  <2>4. PICK u : Lists(u, k - 1, C)
    <3> HIDE DEF C
    <3> QED BY <1>3, <2>3
  <2> DEFINE t == [j \in 1..k |-> IF j = 1 THEN b ELSE u[j-1]]
  <2>5. /\ u \in [1..k-1 -> C] /\ C = {u[j] : j \in 1..k-1}
        /\ \A j, l \in 1..k-1 : (u[j] = u[l] => j = l) /\ (j < l => dep_sort_idx[u[j]] <= dep_sort_idx[u[l]])
    <3> HIDE DEF C
    <3> QED BY <2>4 DEF Lists
  <2>6. k \in Nat /\ 1 \in 1..k /\ t[1] = b /\ \A j \in 1..k : j # 1 => j - 1 \in 1..k-1 /\ t[j] = u[j-1] /\ t[j] \in C
    BY <1>1, <2>5
  <2>7. t \in [1..k -> B] /\ \A j \in 1..k : t[j] \in B
    <3>1. \A j \in 1..k : t[j] \in B
      <4> HIDE DEF t
      <4> QED BY <2>6
    <3> QED BY <3>1
  <2>8. \A x \in B : \E j \in 1..k : t[j] = x
    <3> TAKE x \in B
    <3>1. CASE x = b
      <4> HIDE DEF t
      <4> QED BY <2>6, <3>1
    <3>2. CASE x # b
      <4>1. PICK l \in 1..k-1 : u[l] = x
        BY <2>5, <3>2
      <4>2. l + 1 \in 1..k /\ l + 1 # 1 /\ (l + 1) - 1 = l
        BY <2>6
      <4> HIDE DEF t
      <4> QED BY <2>6, <4>1, <4>2
    <3> QED BY <3>1, <3>2
  <2> HIDE DEF t
  <2>9. B = {t[j] : j \in 1..k}
    BY <2>7, <2>8
  <2>10. \A j, l \in 1..k : t[j] = t[l] => j = l
    <3> TAKE j, l \in 1..k
    <3> HAVE t[j] = t[l]
    <3>1. CASE j = 1
      BY <2>6, <3>1
    <3>2. CASE l = 1
      BY <2>6, <3>2
    <3>3. CASE j # 1 /\ l # 1
      <4>1. j - 1 = l - 1
        BY <2>5, <2>6, <3>3
      <4> QED BY <2>6, <4>1
    <3> QED BY <3>1, <3>2, <3>3
  <2>11. \A j, l \in 1..k : j < l => dep_sort_idx[t[j]] <= dep_sort_idx[t[l]]
    <3> TAKE j, l \in 1..k
    <3> HAVE j < l
    <3>1. l # 1
      OBVIOUS
    <3>2. CASE j = 1
      BY <2>2, <2>6, <2>7, <3>2
    <3>3. CASE j # 1
      <4>1. j - 1 \in 1..k-1 /\ l - 1 \in 1..k-1 /\ j - 1 < l - 1 /\ t[j] = u[j-1] /\ t[l] = u[l-1]
        BY <2>6, <3>1, <3>3
      <4> QED BY <2>5, <4>1
    <3> QED BY <3>2, <3>3
  <2>12. Lists(t, k, B)
    BY <2>7, <2>9, <2>10, <2>11 DEF Lists
  <2> QED BY <2>12
<1>4. \A k \in 0..n_mods : k \in S
  <2> HIDE DEF S
  <2> QED BY <1>1, <1>2, <1>3, UpTo
<1>5. Cardinality(A) \in 0..n_mods
  BY <1>1, SubsetFinite
<1> QED BY <1>4, <1>5

Ascending(s) == \A k, l \in 1..Len(s) : k < l => dep_sort_idx[s[k]] <= dep_sort_idx[s[l]]

\* So qsort has an order to put an array in, and whichever it takes
LEMMA OrdersAre ==
  ASSUME IInv, pc \in {"order", "done"}, NEW s \in Seq(Mod), Distinct(s)
  PROVE  /\ Orders(s) # {}
         /\ \A t \in Orders(s) : t \in Seq(Mod) /\ Distinct(t) /\ Elements(t) = Elements(s) /\ Ascending(t)
<1> DEFINE A == Elements(s)
           n == Len(s)
<1>1. A \in SUBSET Mod /\ n \in Nat /\ \A k \in 1..n : s[k] \in A
  BY ElementsAre
<1>2. \A a, b \in Mod : Ordered(a, b) <=> dep_sort_idx[a] <= dep_sort_idx[b]
  BY PlacesOrder
<1>3. Cardinality(A) = n
  <2> DEFINE f == [k \in 1..n |-> s[k]]
  <2>1. f \in [1..n -> A] /\ \A k \in 1..n : f[k] = s[k]
    BY <1>1
  <2> HIDE DEF f
  <2>2. \A k, l \in 1..n : f[k] = f[l] => k = l
    BY <2>1 DEF Distinct
  <2>3. \A x \in A : \E k \in 1..n : f[k] = x
    BY <2>1 DEF Elements
  <2> HIDE DEF A, n
  <2>4. f \in Bijection(1..n, A)
    BY <2>1, <2>2, <2>3 DEF Bijection, Injection, Surjection, IsInjective
  <2>5. ExistsBijection(1..n, A)
    BY <2>4 DEF ExistsBijection
  <2> QED BY <1>1, <2>5, FS_CountingElements
<1>4. PICK t : Lists(t, n, A)
  <2>1. \A m \in Mod : dep_sort_idx[m] \in Nat
    BY PlacesOrder
  <2> HIDE DEF A, n
  <2> QED BY <1>1, <1>3, <2>1, CanBeListed
<1>5. ASSUME NEW u \in [1..n -> A] PROVE u \in Seq(Mod) /\ Len(u) = n /\ Elements(u) = {u[k] : k \in 1..n}
  <2> HIDE DEF A, n
  <2>1. u \in [1..n -> Mod] /\ DOMAIN u = 1..n
    BY <1>1
  <2>2. u \in Seq(Mod)
    BY <1>1, <2>1, IsASeq
  <2>3. Len(u) = n
    BY <1>1, <2>1, <2>2, LenProperties
  <2> QED BY <2>2, <2>3 DEF Elements
<1>6. t \in Orders(s)
  <2>1. t \in [1..n -> A] /\ A = {t[k] : k \in 1..n}
    BY <1>4 DEF Lists
  <2>2. Elements(t) = A
    <3> HIDE DEF A, n
    <3> QED BY <1>5, <2>1
  <2>3. ASSUME NEW k \in 1..n, NEW l \in 1..n
        PROVE  (t[k] = t[l] => k = l) /\ (k < l => Ordered(t[k], t[l]))
    <3>1. t[k] \in Mod /\ t[l] \in Mod
      <4> HIDE DEF A, n
      <4> QED BY <1>1, <2>1
    <3>2. (t[k] = t[l] => k = l) /\ (k < l => dep_sort_idx[t[k]] <= dep_sort_idx[t[l]])
      <4> HIDE DEF A, n
      <4> QED BY <1>4 DEF Lists
    <3> QED BY <1>2, <3>1, <3>2
  <2> QED BY <2>1, <2>2, <2>3 DEF Orders
<1>7. ASSUME NEW u \in Orders(s)
      PROVE  u \in Seq(Mod) /\ Distinct(u) /\ Elements(u) = Elements(s) /\ Ascending(u)
  <2>1. /\ u \in [1..n -> A] /\ Elements(u) = A
        /\ \A k, l \in 1..n : (u[k] = u[l] => k = l) /\ (k < l => Ordered(u[k], u[l]))
    BY DEF Orders
  <2> HIDE DEF A, n
  <2>2. u \in Seq(Mod) /\ Len(u) = n /\ \A k \in 1..n : u[k] \in Mod
    BY <1>1, <1>5, <2>1
  <2> QED BY <1>2, <2>1, <2>2 DEF Distinct, Ascending, A
<1> QED BY <1>6, <1>7

\* the array of all that a module needs is in the order of the places.
LEMMA AllSortedIs ==
  ASSUME IInv, pc = "done", NEW m \in Mod
  PROVE  LET s == AllSortedDependencies(m)
         IN  s \in Seq(Mod) /\ Distinct(s) /\ Elements(s) = Needed(m) /\ Ascending(s)
<1>1. DepsAreArrays
  BY DEF IInv, Types, DepsAreArrays
<1> DEFINE a == AllUnique(m)
           s == AllSortedDependencies(m)
<1>2. a \in Seq(Mod) /\ Distinct(a) /\ Elements(a) = Needed(m)
  BY <1>1, AllUniqueIs
<1>3. s = CHOOSE t \in Orders(a) : TRUE
  BY DEF AllSortedDependencies
<1> HIDE DEF a, s
<1>4. Orders(a) # {} /\ \A t \in Orders(a) : t \in Seq(Mod) /\ Distinct(t) /\ Elements(t) = Elements(a) /\ Ascending(t)
  BY <1>2, OrdersAre
<1>5. s \in Orders(a)
  BY <1>3, <1>4, Zenon
<1> QED BY <1>2, <1>4, <1>5 DEF s

\* A line has what is not in loops, in the same order.
LEMMA LineIs ==
  ASSUME IInv, pc = "done", NEW m \in Mod
  PROVE  LET s == Line(m)
         IN  s \in Seq(Mod) /\ Distinct(s) /\ Elements(s) = Needed(m) \ dep_loop /\ Ascending(s)
<1> DEFINE D == Seq(Mod)
           all == AllSortedDependencies(m)
           call == [s \in D |-> [d \in Mod |-> IF d \in dep_loop THEN s ELSE Append(s, d)]]
           Some(j) == {all[k] : k \in 1..j}
           X(j) == {s \in D : Distinct(s) /\ Ascending(s) /\ Elements(s) = Some(j) \ dep_loop}
           L == [j \in 0..Len(all) |-> X(j)]
<1>1. all \in Seq(Mod) /\ Distinct(all) /\ Elements(all) = Needed(m) /\ Ascending(all)
  BY AllSortedIs
<1>2. Line(m) = ForEach(call, <<>>, all)
  BY Zenon DEF Line
<1> HIDE DEF all
<1>3. Len(all) \in Nat /\ \A j \in 1..Len(all) : all[j] \in Mod
  BY <1>1
<1>4. \A s \in D : \A d \in Mod : call[s][d] = IF d \in dep_loop THEN s ELSE Append(s, d)
  OBVIOUS
<1>5. call \in [D -> [Mod -> D]] /\ <<>> \in D
  OBVIOUS
<1>6. \A j \in 0..Len(all) : L[j] = X(j)
  OBVIOUS
<1> HIDE DEF call, L
<1>7. <<>> \in L[0]
  <2>1. <<>> \in X(0)
    BY DEF Distinct, Ascending, Elements
  <2>2. 0 \in 0..Len(all)
    BY <1>3
  <2> HIDE DEF X
  <2> QED BY <1>6, <2>1, <2>2
<1>8. ASSUME NEW j \in 1..Len(all), NEW s \in D, s \in L[j-1] PROVE call[s][all[j]] \in L[j]
  <2> DEFINE d == all[j]
  <2>1. j \in 0..Len(all) /\ j - 1 \in 0..Len(all) /\ d \in Mod
    BY <1>3
  <2>2. L[j-1] = X(j-1) /\ L[j] = X(j)
    BY <1>6, <2>1
  <2>3. Distinct(s) /\ Ascending(s) /\ Elements(s) = Some(j-1) \ dep_loop /\ s \in Seq(Mod)
    BY <1>8, <2>2
  <2>4. Some(j) = Some(j-1) \cup {d}
    <3>1. \A k \in 1..j : k \in 1..j-1 \/ k = j
      BY <2>1
    <3>2. 1..j-1 \subseteq 1..j /\ j \in 1..j
      BY <2>1
    <3> QED BY <3>1, <3>2
  <2>5. \A x \in Some(j-1) : x # d /\ dep_sort_idx[x] <= dep_sort_idx[d]
    <3> TAKE x \in Some(j-1)
    <3>1. PICK k \in 1..j-1 : all[k] = x
      OBVIOUS
    <3>2. k \in 1..Len(all) /\ k < j
      BY <2>1, <3>1
    <3> QED BY <1>1, <3>1, <3>2 DEF Distinct, Ascending
  <2> HIDE DEF d, Some
  <2>6. CASE d \in dep_loop
    <3>1. call[s][d] = s
      BY <1>4, <2>1, <2>6
    <3>2. s \in X(j)
      BY <2>3, <2>4, <2>6
    <3> QED BY <2>2, <3>1, <3>2 DEF d
  <2>7. CASE d \notin dep_loop
    <3> DEFINE u == Append(s, d)
               n == Len(s)
    <3>1. call[s][d] = u
      BY <1>4, <2>1, <2>7
    <3>2. u \in D /\ Elements(u) = Elements(s) \cup {d} /\ Len(u) = n + 1 /\ n \in Nat /\ Distinct(u)
      BY <2>1, <2>3, <2>5, Appended
    <3>3. (\A k \in 1..n : u[k] = s[k] /\ s[k] \in Elements(s)) /\ u[n + 1] = d
      BY <2>1, <2>3, ElementsAre
    <3> HIDE DEF u
    <3>4. Ascending(u)
      <4> SUFFICES ASSUME NEW k \in 1..Len(u), NEW l \in 1..Len(u), k < l
                   PROVE  dep_sort_idx[u[k]] <= dep_sort_idx[u[l]]
        BY DEF Ascending
      <4>1. k \in 1..n
        BY <3>2
      <4>2. CASE l \in 1..n
        BY <2>3, <3>3, <4>1, <4>2 DEF Ascending
      <4>3. CASE l = n + 1
        BY <2>3, <2>5, <3>3, <4>1, <4>3
      <4> QED BY <3>2, <4>2, <4>3
    <3>5. u \in X(j)
      BY <2>3, <2>4, <2>7, <3>2, <3>4
    <3> QED BY <2>2, <3>1, <3>5 DEF d
  <2> QED BY <2>6, <2>7
<1>9. ForEach(call, <<>>, all) \in L[Len(all)]
  <2>1. Leads(D, L, <<>>, all, call, call)
    <3> HIDE DEF D, X
    <3> QED BY <1>1, <1>5, <1>7, <1>8 DEF Leads, D
  <2> QED BY <2>1, LoopKeeps
<1>10. Line(m) \in X(Len(all)) /\ Some(Len(all)) = Needed(m)
  <2>1. Len(all) \in 0..Len(all)
    BY <1>3
  <2>2. Some(Len(all)) = Needed(m)
    BY <1>1 DEF Elements
  <2> HIDE DEF X
  <2> QED BY <1>2, <1>6, <1>9, <2>1, <2>2
<1> QED BY <1>10

\* What a module needs has a later place than the module, if it has one.
LEMMA NeededLater ==
  ASSUME IInv, NEW m \in Mod, NEW d \in Needed(m), Sorted(d)
  PROVE  Sorted(m) /\ dep_sort_idx[m] < dep_sort_idx[d]
<1> DEFINE S == {x \in Mod : Sorted(x) => Sorted(m) /\ dep_sort_idx[m] < dep_sort_idx[x]}
<1>1. DepsAreArrays /\ \A x \in Mod : dep_sort_idx[x] \in Nat
  BY DEF IInv, Types, DepsAreArrays
<1>2. \A x \in Mod : \A y \in Elements(deps[x]) : y \in Mod
  BY <1>1, ElementsAre DEF DepsAreArrays
<1>3. \A x, y \in Mod : y \in Elements(deps[x]) /\ Sorted(y) => Sorted(x) /\ dep_sort_idx[x] < dep_sort_idx[y]
  BY DEF IInv, UsersFirst, DependsOn
<1>4. S \in SUBSET Mod /\ Elements(deps[m]) \subseteq S
  BY <1>2, <1>3
<1>5. ASSUME NEW x \in S, NEW y \in Elements(deps[x]) PROVE y \in S
  <2>1. x \in Mod /\ y \in Mod
    BY <1>2
  <2>2. ASSUME Sorted(y) PROVE Sorted(m) /\ dep_sort_idx[m] < dep_sort_idx[y]
    <3>1. Sorted(x) /\ dep_sort_idx[x] < dep_sort_idx[y]
      BY <1>3, <2>1, <2>2
    <3>2. Sorted(m) /\ dep_sort_idx[m] < dep_sort_idx[x]
      BY <3>1
    <3> QED BY <1>1, <2>1, <3>1, <3>2
  <2> QED BY <2>1, <2>2
<1>6. Closed(S)
  <2> HIDE DEF S
  <2> QED BY <1>5 DEF Closed
<1>7. d \in S
  <2> HIDE DEF S
  <2> QED BY <1>1, <1>4, <1>6, NeededIs
<1> QED BY <1>7

\* An array read from its end
LEMMA ReversedIs ==
  ASSUME NEW s \in Seq(Mod)
  PROVE  LET p == Reverse(s)
             n == Len(s)
         IN  /\ p \in Seq(Mod) /\ Len(p) = n /\ n \in Nat /\ Elements(p) = Elements(s)
             /\ \A k \in 1..n : n - k + 1 \in 1..n /\ p[k] = s[n - k + 1]
<1> DEFINE p == Reverse(s)
           n == Len(s)
<1>1. n \in Nat /\ (\A k \in 1..n : s[k] \in Mod) /\ Elements(s) = {s[k] : k \in 1..n}
  BY ElementsAre DEF Elements
<1>2. p = [k \in 1..n |-> s[(n - k) + 1]]
  BY DEF Reverse
<1> HIDE DEF p, n
<1>3. \A k \in 1..n : n - k + 1 \in 1..n /\ n - (n - k + 1) + 1 = k
  BY <1>1
<1>4. p \in [1..n -> Mod] /\ \A k \in 1..n : p[k] = s[n - k + 1]
  BY <1>1, <1>2, <1>3
<1>5. p \in Seq(Mod) /\ Len(p) = n
  <2>1. p \in Seq(Mod) /\ DOMAIN p = 1..n
    BY <1>1, <1>4, IsASeq
  <2> QED BY <1>1, <2>1, LenProperties
<1>6. Elements(p) = Elements(s)
  <2>1. Elements(p) = {p[k] : k \in 1..n}
    BY <1>5 DEF Elements
  <2>2. \A k \in 1..n : p[k] \in Elements(s) /\ s[k] \in Elements(p)
    <3> TAKE k \in 1..n
    <3>1. p[k] \in Elements(s)
      BY <1>1, <1>3, <1>4
    <3>2. p[n - k + 1] = s[k] /\ n - k + 1 \in 1..n
      BY <1>3, <1>4
    <3> QED BY <2>1, <3>1, <3>2
  <2> QED BY <1>1, <2>1, <2>2
<1> QED BY <1>1, <1>3, <1>4, <1>5, <1>6 DEF p, n

\* What libkmod reads of a line: every module after all that it needs.
LEMMA ParsedIs ==
  ASSUME IInv, pc = "done", NEW m \in Mod
  PROVE  LET p == ParsedDepline(Line(m))
         IN  /\ p \in Seq(Mod) /\ Len(p) \in Nat /\ Elements(p) = Needed(m) \ dep_loop
             /\ \A k, l \in 1..Len(p) : (p[l] \in Needed(p[k]) => l < k) /\ (p[k] = p[l] => k = l)
<1> DEFINE s == Line(m)
           p == ParsedDepline(s)
           n == Len(s)
<1>1. s \in Seq(Mod) /\ Distinct(s) /\ Elements(s) = Needed(m) \ dep_loop /\ Ascending(s)
  BY LineIs
<1>2. p = Reverse(s)
  BY DEF ParsedDepline
<1> HIDE DEF s, p
<1>3. /\ p \in Seq(Mod) /\ Len(p) = n /\ n \in Nat /\ Elements(p) = Elements(s)
      /\ \A k \in 1..n : n - k + 1 \in 1..n /\ p[k] = s[n - k + 1]
  BY <1>1, <1>2, ReversedIs
<1>4. \A k \in 1..n : s[k] \in Mod /\ Sorted(s[k]) /\ dep_sort_idx[s[k]] \in Nat
  <2>1. \A k \in 1..n : s[k] \in Mod /\ s[k] \in Elements(s)
    BY <1>1, ElementsAre
  <2>2. \A a \in Mod : dep_sort_idx[a] \in Nat /\ (a \in dep_loop <=> ~Sorted(a))
    BY PlacesOrder
  <2> QED BY <1>1, <2>1, <2>2
<1> HIDE DEF n
<1>5. ASSUME NEW k \in 1..n, NEW l \in 1..n
      PROVE  (p[l] \in Needed(p[k]) => l < k) /\ (p[k] = p[l] => k = l)
  <2> DEFINE x == n - k + 1
             y == n - l + 1
  <2>1. x \in 1..n /\ y \in 1..n /\ p[k] = s[x] /\ p[l] = s[y] /\ (x < y <=> l < k) /\ (x = y <=> k = l)
    BY <1>3
  <2> HIDE DEF x, y
  <2>2. ASSUME p[l] \in Needed(p[k]) PROVE l < k
    <3>1. dep_sort_idx[s[x]] < dep_sort_idx[s[y]]
      BY <1>4, <2>1, <2>2, NeededLater
    <3>2. ~(y < x) /\ y # x
      BY <1>1, <1>4, <2>1, <3>1 DEF Ascending, n
    <3>3. x < y
      BY <2>1, <3>2, <1>3
    <3> QED BY <2>1, <3>3
  <2>3. ASSUME p[k] = p[l] PROVE k = l
    BY <1>1, <2>1, <2>3 DEF Distinct, n
  <2> QED BY <2>2, <2>3
<1> QED BY <1>1, <1>3, <1>5 DEF p, s

----------------------------------------------------------------------------
(* The files.                                                              *)

\* The lines of a file are those of the sort, but for modules that are short of one.
Holds(file, none) == \A m \in Mod : file[m] = Lines[m] \/ (m \in short /\ file[m] = none)

\* The files are written of what was sorted, and not before.
DepsInv ==
  /\ IInv
  /\ out \in {"modules.dep", "modules.dep.bin", "killed", "written"}
  /\ out # "modules.dep" => pc = "done"
  /\ out \in {"modules.dep.bin", "written"} => Survives /\ Holds(text, <<>>)
  /\ out = "written" => Holds(bin, NoLine)

\* When all is sorted no action of the sort goes on.
LEMMA SortIsOver == ASSUME pc = "done" PROVE ~Next
BY DEF Next, AddDependency, LoadNext, FindRoot, RootsFound, Pop, Edge, EdgesDone, MarkLoops, SortDependencies,
       Calculated

\* What is written depends on the sort alone.
LEMMA SameLines ==
  ASSUME UNCHANGED vars
  PROVE  Lines' = Lines /\ Survives' = Survives
<1>1. returns' = returns /\ filled' = filled
  BY DEF vars, returns, filled, FillAllUnique, Elements
<1>2. \A s : Orders(s)' = Orders(s)
  BY DEF vars, Orders, Ordered
<1>3. \A m : AllUnique(m)' = AllUnique(m)
  BY <1>1 DEF AllUnique
<1>4. \A m : AllSortedDependencies(m)' = AllSortedDependencies(m)
  BY <1>2, <1>3 DEF AllSortedDependencies
<1>5. dep_loop' = dep_loop /\ deps' = deps /\ n_mods' = n_mods
  BY DEF vars
<1>6. \A m : Line(m)' = Line(m)
  BY <1>4, <1>5 DEF Line
<1>7. Written' = Written
  BY <1>5 DEF Written
<1>8. Lines' = Lines
  BY <1>6, <1>7 DEF Lines
<1>9. \A m : CountReturns(m)' = CountReturns(m)
  BY <1>1, <1>5 DEF CountReturns
<1> QED BY <1>5, <1>7, <1>8, <1>9 DEF Survives

\* Nothing is written before there is something to write.
LEMMA DepsInitInv == DepsInit => DepsInv
BY InitInv DEF DepsInit, DepsInv

\* Every step keeps this.
LEMMA DepsNextInv == DepsInv /\ [DepsNext]_<<vars, outs>> => DepsInv'
<1> SUFFICES ASSUME DepsInv, [DepsNext]_<<vars, outs>> PROVE DepsInv'
  OBVIOUS
<1>1. CASE Next /\ UNCHANGED outs
  <2>1. pc # "done" /\ out = "modules.dep" /\ out' = out
    BY <1>1, SortIsOver DEF DepsInv, outs
  <2>2. IInv'
    BY <1>1, NextInv DEF DepsInv
  <2> QED BY <2>1, <2>2 DEF DepsInv
<1>2. CASE UNCHANGED vars /\ pc = "done"
           /\ out' \in {"modules.dep", "modules.dep.bin", "killed", "written"}
           /\ (out' \in {"modules.dep.bin", "written"} => Survives /\ Holds(text, <<>>)')
           /\ (out' = "written" => Holds(bin, NoLine)')
  <2>1. IInv'
    BY <1>2, NextInv DEF DepsInv
  <2>2. pc' = "done"
    BY <1>2 DEF vars
  <2> QED BY <1>2, <2>1, <2>2, SameLines DEF DepsInv
<1>3. CASE OutputDeps
  <2>1. UNCHANGED vars /\ pc = "done" /\ out' \in {"modules.dep.bin", "killed"}
    BY <1>3 DEF OutputDeps
  <2>2. CASE out' = "modules.dep.bin"
    <3>1. Survives /\ \E F \in SUBSET Mod : short' = F /\ text' = [m \in Mod |-> IF m \in F THEN <<>> ELSE Lines[m]]
      BY <1>3, <2>2 DEF OutputDeps, Written
    <3>2. Lines' = Lines
      BY <2>1, SameLines
    <3>3. Holds(text, <<>>)'
      BY <2>1, <3>1, <3>2 DEF Holds, vars
    <3> QED BY <1>2, <2>1, <2>2, <3>1, <3>3
  <2> QED BY <1>2, <2>1, <2>2
<1>4. CASE OutputDepsBin
  <2>1. UNCHANGED vars /\ pc = "done" /\ out' = "written" /\ Survives /\ text' = text /\ Holds(text, <<>>)
    BY <1>4 DEF OutputDepsBin, DepsInv
  <2>2. PICK F \in SUBSET Mod : short' = short \cup F /\ bin' = [m \in Mod |-> IF m \in F THEN NoLine ELSE Lines[m]]
    BY <1>4 DEF OutputDepsBin, Written
  <2>3. Lines' = Lines
    BY <2>1, SameLines
  <2>4. Holds(text, <<>>)'
    BY <2>1, <2>2, <2>3 DEF Holds, vars
  <2>5. Holds(bin, NoLine)'
    BY <2>1, <2>2, <2>3 DEF Holds, vars, NoLine
  <2> QED BY <1>2, <2>1, <2>4, <2>5
<1>5. CASE UNCHANGED <<vars, outs>>
  <2>1. UNCHANGED vars /\ out' = out /\ text' = text /\ bin' = bin /\ short' = short /\ pc' = pc
    BY <1>5 DEF outs, vars
  <2>2. IInv'
    BY <2>1, NextInv DEF DepsInv
  <2>3. Holds(text, <<>>)' = Holds(text, <<>>) /\ Holds(bin, NoLine)' = Holds(bin, NoLine)
    BY <2>1, SameLines DEF Holds, vars, NoLine
  <2> QED BY <2>1, <2>2, <2>3, SameLines DEF DepsInv
<1> QED BY <1>1, <1>3, <1>4, <1>5 DEF DepsNext

\* The inductive invariant of the files
THEOREM FilesInvariance == DepsSpec => []DepsInv
BY DepsInitInv, DepsNextInv, PTL DEF DepsSpec

\* Of what the invariant says of the files, the lines
LEMMA InvariantLines == DepsInv => LinesExact
<1> SUFFICES ASSUME DepsInv, out = "written" PROVE LinesExact
  BY DEF LinesExact
<1>1. IInv /\ pc = "done" /\ Survives /\ Holds(text, <<>>) /\ Holds(bin, NoLine)
  BY DEF DepsInv
<1>2. DepsAreArrays
  BY <1>1 DEF IInv, Types, DepsAreArrays
<1>3. ASSUME NEW m \in Written
      PROVE  /\ RightFor(m, ParsedDepline(text[m])) \/ (m \in short /\ text[m] = <<>>)
             /\ RightFor(m, ParsedDepline(bin[m])) \/ (m \in short /\ bin[m] = NoLine)
             /\ m \notin short => bin[m] = text[m]
             /\ Len(AllUnique(m)) <= CountAllDependencies(m)
  <2>1. m \in Mod /\ Lines[m] = Line(m)
    BY DEF Written, Lines
  <2>2. Len(AllUnique(m)) <= CountAllDependencies(m)
    <3>1. CASE deps[m] # <<>>
      <4>1. CountReturns(m)
        BY <1>1, <3>1 DEF Survives
      <4> QED BY <1>2, <2>1, <4>1, FilledFits
    <3>2. CASE deps[m] = <<>>
      <4>1. AllUnique(m) \in Seq(Mod) /\ Elements(AllUnique(m)) = Needed(m)
        BY <1>2, <2>1, AllUniqueIs
      <4>2. Needed(m) = {}
        <5>1. Elements(deps[m]) = {} /\ Closed({}) /\ {} \in SUBSET Mod
          BY <3>2 DEF Elements, Closed
        <5> QED BY <1>2, <2>1, <5>1, NeededIs
      <4>3. Len(AllUnique(m)) = 0
        <5> DEFINE a == AllUnique(m)
        <5>1. a \in Seq(Mod) /\ Elements(a) = {} /\ Elements(a) = {a[k] : k \in 1..Len(a)}
          BY <4>1, <4>2 DEF Elements
        <5>2. Len(a) \in Nat
          BY <5>1, LenProperties
        <5> HIDE DEF a
        <5>3. ~(1 \in 1..Len(a))
          BY <5>1
        <5> QED BY <5>2, <5>3 DEF a
      <4>4. CountAllDependencies(m) \in Nat
        <5>1. n_mods \in Nat /\ n_mods \in 0..n_mods
          BY ModFinite
        <5> QED BY <1>2, <2>1, <5>1, CountsIs DEF CountAllDependencies
      <4> QED BY <4>3, <4>4
    <3> QED BY <3>1, <3>2
  <2>3. RightFor(m, ParsedDepline(Line(m)))
    BY <1>1, <2>1, ParsedIs DEF RightFor
  <2>4. text[m] = Line(m) \/ (m \in short /\ text[m] = <<>>)
    BY <1>1, <2>1 DEF Holds
  <2>5. bin[m] = Line(m) \/ (m \in short /\ bin[m] = NoLine)
    BY <1>1, <2>1 DEF Holds
  <2> QED BY <2>2, <2>3, <2>4, <2>5
<1> QED BY <1>1, <1>3 DEF LinesExact

\* A line of modules.dep has what its module needs, each once and in the order in which
\* libkmod expects it, unless there was no memory for this very line, and the array that
\* it is collected in is large enough.
THEOREM LinesAreExact == DepsSpec => []LinesExact
BY FilesInvariance, InvariantLines, PTL

\* The graph that libkmod reads from modules.dep.bin: what a module depends on, and its
\* line
Read == INSTANCE ModuleGraph WITH
          Uses <- [m \in Mod |-> Elements(deps[m])], Deps <- [m \in Mod |-> ParsedDepline(bin[m])],
          Pre <- [m \in Mod |-> <<>>], Post <- [m \in Mod |-> <<>>]

\* When no module is in a loop and there was memory for all lines
LEMMA ReadIsClosed ==
  DepsInv /\ out = "written" /\ dep_loop = {} /\ short = {} => Read!UsesType /\ Read!DepsClosed
<1> SUFFICES ASSUME DepsInv, out = "written", dep_loop = {}, short = {} PROVE Read!UsesType /\ Read!DepsClosed
  OBVIOUS
<1>1. IInv /\ pc = "done" /\ Holds(bin, NoLine) /\ Written = Mod
  BY DEF DepsInv, Written
<1>2. DepsAreArrays
  BY <1>1 DEF IInv, Types, DepsAreArrays
<1>3. \A m \in Mod : Elements(deps[m]) \in SUBSET Mod
  BY <1>2, ElementsAre DEF DepsAreArrays
<1>4. \A m \in Mod :
        LET p == ParsedDepline(bin[m]) IN
          /\ p \in Seq(Mod) /\ Elements(p) = Needed(m)
          /\ \A k, l \in 1..Len(p) : p[l] \in Needed(p[k]) => l < k
  <2>1. \A m \in Mod : bin[m] = Line(m)
    BY <1>1 DEF Lines, Holds
  <2> QED BY <1>1, <2>1, ParsedIs
<1>5. \A m \in Mod : Read!DepSet(m) = Needed(m)
  BY <1>4 DEF Read!DepSet, Elements
<1>6. ASSUME NEW m \in Mod
      PROVE  Needed(m) = Elements(deps[m]) \cup UNION {Needed(d) : d \in Elements(deps[m])}
  <2> DEFINE S == Elements(deps[m]) \cup UNION {Needed(d) : d \in Elements(deps[m])}
  <2>1. /\ Needed(m) \in SUBSET Mod /\ Elements(deps[m]) \subseteq Needed(m) /\ Closed(Needed(m))
    BY <1>2, NeededIs
  <2>2. ASSUME NEW d \in Elements(deps[m]) PROVE Needed(d) \subseteq Needed(m)
    <3>1. d \in Mod /\ Elements(deps[d]) \subseteq Needed(m)
      BY <1>3, <2>1 DEF Closed
    <3> QED BY <1>2, <2>1, <3>1, NeededIs
  <2>3. S \subseteq Needed(m)
    BY <2>1, <2>2
  <2>4. ASSUME NEW x \in S PROVE Elements(deps[x]) \subseteq S
    <3>1. CASE x \in Elements(deps[m])
      <4>1. x \in Mod /\ Elements(deps[x]) \subseteq Needed(x)
        BY <1>2, <1>3, <3>1, NeededIs
      <4> QED BY <3>1, <4>1
    <3>2. CASE x \notin Elements(deps[m])
      <4>1. PICK d \in Elements(deps[m]) : x \in Needed(d)
        BY <3>2
      <4>2. d \in Mod /\ Closed(Needed(d))
        BY <1>2, <1>3, NeededIs
      <4> QED BY <4>1, <4>2 DEF Closed
    <3> QED BY <3>1, <3>2
  <2>5. Closed(S) /\ S \in SUBSET Mod /\ Elements(deps[m]) \subseteq S
    <3>1. S \in SUBSET Mod /\ Elements(deps[m]) \subseteq S
      BY <2>1, <2>3
    <3> HIDE DEF S
    <3> QED BY <2>4, <3>1 DEF Closed
  <2>6. Needed(m) \subseteq S
    <3> HIDE DEF S
    <3> QED BY <1>2, <2>5, NeededIs
  <2> QED BY <2>3, <2>6
<1>7. Read!UsesType
  BY <1>3 DEF Read!UsesType
<1>8. ASSUME NEW m \in Mod
      PROVE  /\ ParsedDepline(bin[m]) \in Seq(Mod)
             /\ Read!DepSet(m) = Elements(deps[m]) \cup UNION {Read!DepSet(d) : d \in Elements(deps[m])}
             /\ \A k, l \in 1..Len(ParsedDepline(bin[m])) :
                  ParsedDepline(bin[m])[l] \in Read!DepSet(ParsedDepline(bin[m])[k]) => l < k
  <2>1. {Read!DepSet(d) : d \in Elements(deps[m])} = {Needed(d) : d \in Elements(deps[m])}
    BY <1>3, <1>5
  <2>2. \A k \in 1..Len(ParsedDepline(bin[m])) : ParsedDepline(bin[m])[k] \in Mod
    BY <1>4
  <2> QED BY <1>4, <1>5, <1>6, <2>1, <2>2
<1>9. Read!DepsClosed
  BY <1>8 DEF Read!DepsClosed
<1> QED BY <1>7, <1>9

\* If there was memory for all lines, modules.dep.bin has what the models of modprobe
\* assume of it.
THEOREM ModprobeMayAssume ==
  DepsSpec => [](out = "written" /\ dep_loop = {} /\ short = {} => Read!UsesType /\ Read!DepsClosed)
BY FilesInvariance, ReadIsClosed, PTL
=============================================================================
