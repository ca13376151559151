--------------------------- MODULE ProbeListProof ---------------------------
(***************************************************************************)
(* The recursion that builds a probe list ends, and whatever the graph of  *)
(* modules and its soft dependencies are, the list has every module after  *)
(* all that the module needs.                                              *)
(***************************************************************************)
EXTENDS ProbeList, FiniteSetTheorems, WellFoundedInduction, TLAPS

\* A set of numbers has a least.
LEMMA LeastNat ==
  ASSUME NEW I, I \subseteq Nat, I # {}
  PROVE  \E x \in I : \A j \in I : x <= j
<1> DEFINE R == OpToRel(<, Nat)
<1>1. \A x, y \in Nat : x < y => <<x, y>> \in R
  BY DEF OpToRel
<1>2. IsWellFoundedOn(R, Nat)
  BY NatLessThanWellFounded, Zenon
<1> HIDE DEF R
<1>3. PICK x \in I : \A j \in I : ~ (<<j, x>> \in R)
  BY <1>2, WFMin, ZenonT(30)
<1>4. ASSUME NEW j \in I PROVE x <= j
  <2>1. x \in Nat /\ j \in Nat /\ (j < x => <<j, x>> \in R)
    BY <1>1
  <2> QED BY <1>3, <2>1
<1> QED BY <1>4

\* Induction up to n
LEMMA UpTo ==
  ASSUME NEW n \in Nat, NEW S, 0 \in S, \A k \in 1..n : k - 1 \in S => k \in S
  PROVE  \A k \in 0..n : k \in S
<1> DEFINE I == {k \in 0..n : k \notin S}
<1> SUFFICES ASSUME I # {} PROVE FALSE
  OBVIOUS
<1>1. I \subseteq Nat
  OBVIOUS
<1>2. PICK k \in I : \A i \in I : k <= i
  <2> HIDE DEF I
  <2> QED BY <1>1, LeastNat
<1>3. k \in 0..n /\ k \notin S /\ k # 0 /\ k \in 1..n /\ k - 1 \in 0..n
  OBVIOUS
<1>4. k - 1 \in I
  BY <1>3
<1>5. k <= k - 1
  BY <1>2, <1>4
<1> QED BY <1>3, <1>5

\* The modules that are left to visit are the measure of the recursion.
Left(s) == Cardinality(Mod \ s.visited)

\* There are at most as many as there are modules,
LEMMA LeftIsNat == ASSUME NEW s PROVE Left(s) \in 0..Cardinality(Mod)
<1>1. IsFiniteSet(Mod \ s.visited) /\ Cardinality(Mod \ s.visited) <= Cardinality(Mod)
  BY ModFinite, FS_Subset
<1>2. Cardinality(Mod \ s.visited) \in Nat /\ Cardinality(Mod) \in Nat
  BY <1>1, ModFinite, FS_CardinalityType
<1> QED BY <1>1, <1>2 DEF Left

\* and they become fewer when one of them is visited.
LEMMA LeftFalls ==
  ASSUME NEW s, NEW t, NEW m \in Mod, m \notin s.visited, s.visited \cup {m} \subseteq t.visited
  PROVE  Left(t) < Left(s)
<1> DEFINE A == Mod \ t.visited
           B == Mod \ s.visited
<1>1. A \in SUBSET B /\ A # B /\ IsFiniteSet(B)
  BY ModFinite, FS_Subset
<1> HIDE DEF A, B
<1>2. Cardinality(A) <= Cardinality(B) /\ Cardinality(A) # Cardinality(B)
  BY <1>1, FS_Subset, Zenon
<1>3. Left(t) <= Left(s) /\ Left(t) # Left(s)
  BY <1>2 DEF A, B, Left
<1>4. Left(t) \in 0..Cardinality(Mod) /\ Left(s) \in 0..Cardinality(Mod) /\ Cardinality(Mod) \in Nat
  BY LeftIsNat, ModFinite, FS_CardinalityType
<1> QED BY <1>3, <1>4

\* Of states of the recursion one has visited most: in no other one it and more have been
\* visited.
LEMMA MostVisited ==
  ASSUME NEW T, T # {}
  PROVE  \E s \in T : \A m \in Mod : m \notin s.visited => \A t \in T : ~(s.visited \cup {m} \subseteq t.visited)
<1> DEFINE I == {Left(s) : s \in T}
<1>1. I \subseteq Nat /\ I # {}
  BY LeftIsNat, ModFinite, FS_CardinalityType
<1>2. \E x \in I : \A j \in I : x <= j
  <2> HIDE DEF I
  <2> QED BY <1>1, LeastNat
<1>3. PICK s \in T : \A t \in T : Left(s) <= Left(t)
  BY <1>2
<1>4. ASSUME NEW m \in Mod, m \notin s.visited, NEW t \in T, s.visited \cup {m} \subseteq t.visited
      PROVE  FALSE
  <2>1. Left(t) < Left(s)
    BY <1>4, LeftFalls
  <2>2. Left(t) \in Nat /\ Left(s) \in Nat
    BY LeftIsNat, ModFinite, FS_CardinalityType
  <2> QED BY <1>3, <2>1, <2>2
<1> QED BY <1>4

----------------------------------------------------------------------------
(* Loops.                                                                  *)

\* The values that the steps of a loop lead to
IsRun(r, D, n, call, s, mods) ==
  r \in [0..n -> D] /\ r[0] = s /\ \A i \in 1..n : r[i] = call[r[i-1]][mods[i]]

\* A loop ends with the last of its values.
LEMMA LoopEnds ==
  ASSUME NEW mods, NEW n \in Nat, n = Len(mods), NEW call, NEW s, NEW D, NEW r, IsRun(r, D, n, call, s, mods)
  PROVE  ForEach(call, s, mods) = r[n]
<1> DEFINE Is(f) == f = [i \in 0..Len(mods) |-> IF i = 0 THEN s ELSE call[f[i-1]][mods[i]]]
           a == CHOOSE f : Is(f)
<1>1. Is(r)
  <2>1. \A i \in 0..n : r[i] = IF i = 0 THEN s ELSE call[r[i-1]][mods[i]]
    BY DEF IsRun
  <2>2. r = [i \in 0..n |-> r[i]]
    BY DEF IsRun
  <2> QED BY <2>1, <2>2
<1>2. Is(a)
  <2> HIDE DEF Is
  <2> QED BY <1>1, Zenon
<1>3. ForEach(call, s, mods) = a[n]
  BY Zenon DEF ForEach
<1> HIDE DEF a
<1>4. \A i \in 0..n : a[i] = IF i = 0 THEN s ELSE call[a[i-1]][mods[i]]
  BY <1>2
<1> HIDE DEF Is
<1> DEFINE S == {k \in 0..n : a[k] = r[k]}
<1>5. 0 \in S
  BY <1>4 DEF IsRun
<1>6. \A k \in 1..n : k - 1 \in S => k \in S
  BY <1>4 DEF IsRun
<1>7. \A k \in 0..n : k \in S
  <2> HIDE DEF S
  <2> QED BY <1>5, <1>6, UpTo
<1>8. a[n] = r[n]
  BY <1>7
<1> QED BY <1>3, <1>8

\* There are such values when every step gives one.
LEMMA LoopRuns ==
  ASSUME NEW D, NEW n \in Nat, NEW mods, \A i \in 1..n : mods[i] \in Mod,
         NEW call \in [D -> [Mod -> D]], NEW s \in D
  PROVE  \E r : IsRun(r, D, n, call, s, mods)
<1> DEFINE S == {k \in 0..n : \E r : IsRun(r, D, k, call, s, mods)}
<1>1. 0 \in S
  <2> DEFINE r == [i \in 0..0 |-> s]
  <2>1. IsRun(r, D, 0, call, s, mods)
    BY DEF IsRun
  <2> HIDE DEF r
  <2> QED BY <2>1
<1>2. ASSUME NEW k \in 1..n, k - 1 \in S PROVE k \in S
  <2>1. PICK q : IsRun(q, D, k - 1, call, s, mods)
    BY <1>2
  <2> DEFINE r == [i \in 0..k |-> IF i = k THEN call[q[k-1]][mods[k]] ELSE q[i]]
  <2>2. q[k-1] \in D /\ mods[k] \in Mod /\ call[q[k-1]][mods[k]] \in D
    BY <2>1 DEF IsRun
  <2>3. r \in [0..k -> D]
    BY <2>1, <2>2 DEF IsRun
  <2>4. r[0] = s
    BY <2>1 DEF IsRun
  <2>5. ASSUME NEW i \in 1..k PROVE r[i] = call[r[i-1]][mods[i]]
    <3>1. CASE i = k
      BY <3>1
    <3>2. CASE i # k
      <4>1. i \in 1..k-1 /\ i - 1 # k /\ i - 1 \in 0..k /\ i \in 0..k
        BY <3>2
      <4> QED BY <2>1, <3>2, <4>1 DEF IsRun
    <3> QED BY <3>1, <3>2
  <2>6. IsRun(r, D, k, call, s, mods)
    <3> HIDE DEF r
    <3> QED BY <2>3, <2>4, <2>5 DEF IsRun
  <2> HIDE DEF r
  <2> QED BY <2>6
<1>3. \A k \in 0..n : k \in S
  <2> HIDE DEF S
  <2> QED BY <1>1, <1>2, UpTo
<1>4. n \in S
  <2> HIDE DEF S
  <2> QED BY <1>3
<1> QED BY <1>4, Zenon

\* The steps of a loop lead from values of L[i-1] to values of L[i], and those of another
\* loop are the same on these values.
Leads(D, L, s, mods, call, other) ==
  /\ mods \in Seq(Mod) /\ call \in [D -> [Mod -> D]] /\ s \in D /\ s \in L[0]
  /\ \A i \in 1..Len(mods) : \A t \in D : t \in L[i-1] =>
       call[t][mods[i]] \in L[i] /\ other[t][mods[i]] = call[t][mods[i]]

\* Both loops end with the same value of L[n].
LEMMA LoopRule ==
  ASSUME NEW D, NEW L, NEW s, NEW mods, NEW call, NEW other, Leads(D, L, s, mods, call, other)
  PROVE  /\ ForEach(call, s, mods) \in D /\ ForEach(call, s, mods) \in L[Len(mods)]
         /\ ForEach(other, s, mods) = ForEach(call, s, mods)
<1>0. /\ mods \in Seq(Mod) /\ call \in [D -> [Mod -> D]] /\ s \in D /\ s \in L[0]
      /\ \A i \in 1..Len(mods) : \A t \in D : t \in L[i-1] =>
           call[t][mods[i]] \in L[i] /\ other[t][mods[i]] = call[t][mods[i]]
  BY DEF Leads
<1> DEFINE n == Len(mods)
<1>1. n \in Nat /\ n = Len(mods) /\ \A i \in 1..n : mods[i] \in Mod
  BY <1>0
<1>2. PICK r : IsRun(r, D, n, call, s, mods)
  <2> HIDE DEF n
  <2> QED BY <1>0, <1>1, LoopRuns
<1> DEFINE S == {k \in 0..n : r[k] \in L[k]}
<1>3. \A k \in 0..n : k \in S
  <2>1. 0 \in S
    BY <1>0, <1>1, <1>2 DEF IsRun
  <2>2. ASSUME NEW k \in 1..n, k - 1 \in S PROVE k \in S
    <3> HIDE DEF n
    <3>1. k - 1 \in 0..n /\ k \in 0..n /\ r[k-1] \in L[k-1]
      BY <1>1, <2>2
    <3>2. r[k-1] \in D /\ r[k] = call[r[k-1]][mods[k]]
      BY <1>1, <1>2, <3>1 DEF IsRun
    <3>3. r[k] \in L[k]
      BY <1>0, <3>1, <3>2 DEF n
    <3> QED BY <3>1, <3>3
  <2> HIDE DEF S
  <2> QED BY <1>1, <2>1, <2>2, UpTo
<1>4. ForEach(call, s, mods) = r[n]
  <2> HIDE DEF n, S
  <2> QED BY <1>1, <1>2, LoopEnds
<1>5. IsRun(r, D, n, other, s, mods)
  <2> SUFFICES ASSUME NEW i \in 1..n PROVE r[i] = other[r[i-1]][mods[i]]
    BY <1>2 DEF IsRun
  <2>1. i - 1 \in S
    BY <1>1, <1>3
  <2>2. r[i-1] \in D /\ r[i-1] \in L[i-1] /\ r[i] = call[r[i-1]][mods[i]]
    BY <1>1, <1>2, <2>1 DEF IsRun
  <2> QED BY <1>0, <2>2
<1>6. ForEach(other, s, mods) = r[n]
  <2> HIDE DEF n, S
  <2> QED BY <1>1, <1>5, LoopEnds
<1>7. r[n] \in D /\ r[n] \in L[n]
  <2>1. n \in S
    <3> HIDE DEF S
    <3> QED BY <1>1, <1>3
  <2> QED BY <1>1, <1>2, <2>1 DEF IsRun
<1> QED BY <1>4, <1>6, <1>7

----------------------------------------------------------------------------
(* The recursion.                                                          *)

\* A module is visited, and is added to the list.
LEMMA Steps ==
  ASSUME NEW s \in ProbeState, NEW m \in Mod, NEW ignorecmd \in BOOLEAN
  PROVE  /\ Visit(s, m) \in ProbeState /\ Visit(s, m).visited = s.visited \cup {m} /\ Visit(s, m).list = s.list
         /\ Add(s, m, ignorecmd) \in ProbeState /\ Add(s, m, ignorecmd).visited = s.visited
         /\ Add(s, m, ignorecmd).list = Append(s.list, m)
<1>1. s.list \in Seq(Mod) /\ Append(s.list, m) \in Seq(Mod)
  BY DEF ProbeState
<1>2. Visit(s, m) \in ProbeState /\ Visit(s, m).visited = s.visited \cup {m} /\ Visit(s, m).list = s.list
  BY DEF ProbeState, Visit
<1> DEFINE i == IF ignorecmd THEN s.ignorecmd \cup {m} ELSE s.ignorecmd \ {m}
<1>3. i \in SUBSET Mod
  BY DEF ProbeState
<1>4. Add(s, m, ignorecmd) = [visited |-> s.visited, list |-> Append(s.list, m), ignorecmd |-> i]
  <2> DEFINE l == Append(s.list, m)
             t == [s EXCEPT !.list = l]
  <2>1. s = [visited |-> s.visited, list |-> s.list, ignorecmd |-> s.ignorecmd]
    BY DEF ProbeState
  <2>2. t = [visited |-> s.visited, list |-> l, ignorecmd |-> s.ignorecmd]
    <3> HIDE DEF l
    <3> QED BY <2>1
  <2>3. [t EXCEPT !.ignorecmd = i] = [visited |-> s.visited, list |-> l, ignorecmd |-> i]
    <3> HIDE DEF i, l, t
    <3> QED BY <2>2
  <2>4. Add(s, m, ignorecmd) = [t EXCEPT !.ignorecmd = i]
    BY <2>1, Zenon DEF Add
  <2> QED BY <2>3, <2>4
<1> HIDE DEF i
<1> QED BY <1>1, <1>2, <1>3, <1>4 DEF ProbeState

\* Functions that may be the recursion: they forget no module that was visited.
Getters ==
  {f \in [ProbeState -> [Mod -> ProbeState]] :
     \A s \in ProbeState : \A m \in Mod : s.visited \subseteq f[s][m].visited}

Later(V) == {t \in ProbeState : V \subseteq t.visited}

\* Two functions that are the same on states that have visited the modules of V
Agree(f, g, V) == \A t \in Later(V) : \A m \in Mod : g[t][m] = f[t][m]

\* are it in loops from such a state,
LEMMA LoopAgrees ==
  ASSUME NEW f \in Getters, NEW g, NEW V, Agree(f, g, V), NEW s \in Later(V), NEW mods \in Seq(Mod)
  PROVE  ForEach(f, s, mods) \in Later(V) /\ ForEach(g, s, mods) = ForEach(f, s, mods)
<1> DEFINE D == ProbeState
           L == [i \in 0..Len(mods) |-> Later(V)]
<1>1. f \in [D -> [Mod -> D]] /\ s \in D
  BY DEF Getters, Later
<1>2. \A i \in 0..Len(mods) : L[i] = Later(V)
  OBVIOUS
<1>3. s \in L[0] /\ L[Len(mods)] = Later(V)
  BY <1>2
<1>4. ASSUME NEW i \in 1..Len(mods), NEW t \in D, t \in L[i-1]
      PROVE  f[t][mods[i]] \in L[i] /\ g[t][mods[i]] = f[t][mods[i]]
  <2>1. mods[i] \in Mod /\ t \in Later(V) /\ i \in 0..Len(mods)
    BY <1>2, <1>4
  <2>2. f[t][mods[i]] \in Later(V)
    BY <1>1, <2>1 DEF Getters, Later
  <2> QED BY <1>2, <2>1, <2>2 DEF Agree
<1>5. Leads(D, L, s, mods, f, g)
  <2> HIDE DEF D, L
  <2> QED BY <1>1, <1>3, <1>4 DEF Leads
<1> HIDE DEF D, L
<1>6. ForEach(f, s, mods) \in L[Len(mods)] /\ ForEach(g, s, mods) = ForEach(f, s, mods)
  BY <1>5, LoopRule
<1> QED BY <1>3, <1>6

\* when a module is added with its soft dependencies,
LEMMA FillAgrees ==
  ASSUME NEW f \in Getters, NEW g, NEW V, Agree(f, g, V), NEW s \in Later(V), NEW m \in Mod
  PROVE  FillSoftdep(f, s, m) \in Later(V) /\ FillSoftdep(g, s, m) = FillSoftdep(f, s, m)
<1> DEFINE a == ForEach(f, s, Pre[m])
           b == Add(a, m, HasSoftdeps(m))
<1>1. Pre[m] \in Seq(Mod) /\ Post[m] \in Seq(Mod) /\ HasSoftdeps(m) \in BOOLEAN
  BY SoftdepsType DEF HasSoftdeps
<1>2. a \in Later(V) /\ ForEach(g, s, Pre[m]) = a
  BY <1>1, LoopAgrees
<1> HIDE DEF a
<1>3. b \in Later(V)
  BY <1>1, <1>2, Steps DEF Later
<1> HIDE DEF b
<1>4. ForEach(f, b, Post[m]) \in Later(V) /\ ForEach(g, b, Post[m]) = ForEach(f, b, Post[m])
  BY <1>1, <1>3, LoopAgrees
<1>5. FillSoftdep(f, s, m) = ForEach(f, b, Post[m]) /\ FillSoftdep(g, s, m) = ForEach(g, b, Post[m])
  BY <1>2, Zenon DEF FillSoftdep, a, b
<1> QED BY <1>4, <1>5

\* One step of the loop over the dependencies
Fill(f) == [t \in ProbeState |-> [d \in Mod |-> FillSoftdep(f, t, d)]]

\* is such a function again.
LEMMA FillGets ==
  ASSUME NEW f \in Getters
  PROVE  Fill(f) \in Getters /\ \A t \in ProbeState : \A d \in Mod : Fill(f)[t][d] = FillSoftdep(f, t, d)
<1>1. ASSUME NEW t \in ProbeState, NEW d \in Mod
      PROVE  FillSoftdep(f, t, d) \in ProbeState /\ t.visited \subseteq FillSoftdep(f, t, d).visited
  <2>1. Agree(f, f, t.visited) /\ t \in Later(t.visited)
    BY DEF Agree, Later
  <2>2. FillSoftdep(f, t, d) \in Later(t.visited)
    BY <2>1, FillAgrees
  <2> QED BY <2>2 DEF Later
<1>2. \A t \in ProbeState : \A d \in Mod : Fill(f)[t][d] = FillSoftdep(f, t, d)
  BY DEF Fill
<1>3. Fill(f) \in [ProbeState -> [Mod -> ProbeState]]
  BY <1>1 DEF Fill
<1> QED BY <1>1, <1>2, <1>3 DEF Getters

\* in the whole list of a module that was not visited,
LEMMA DependenciesAgree ==
  ASSUME NEW f \in Getters, NEW g, NEW V, Agree(f, g, V), NEW s \in Later(V), NEW m \in Mod
  PROVE  Dependencies(f, s, m) \in Later(V) /\ Dependencies(g, s, m) = Dependencies(f, s, m)
<1>1. Deps[m] \in Seq(Mod)
  BY DepsClosed
<1>2. Dependencies(f, s, m) = ForEach(Fill(f), s, Deps[m]) /\ Dependencies(g, s, m) = ForEach(Fill(g), s, Deps[m])
  BY Zenon DEF Dependencies, Fill
<1>3. Agree(Fill(f), Fill(g), V)
  <2>1. ASSUME NEW t \in Later(V), NEW d \in Mod PROVE Fill(g)[t][d] = Fill(f)[t][d]
    <3>1. FillSoftdep(g, t, d) = FillSoftdep(f, t, d)
      BY FillAgrees
    <3>2. t \in ProbeState
      BY DEF Later
    <3> QED BY <3>1, <3>2 DEF Fill
  <2> QED BY <2>1 DEF Agree
<1> QED BY <1>1, <1>2, <1>3, FillGets, LoopAgrees

\* and so in what the recursion does, one level down.
Called(f, s, m) == GetProbeList(f, s, m, FALSE)

\* What it does, if the module was visited and if it was not
LEMMA CalledIs ==
  ASSUME NEW f, NEW s, NEW m
  PROVE  Called(f, s, m) = IF m \in s.visited THEN s ELSE FillSoftdep(f, Dependencies(f, Visit(s, m), m), m)
BY DEF Called, GetProbeList

AgreeBelow(f, g, s, m) ==
  f \in Getters /\ s \in ProbeState /\ m \in Mod /\ (m \notin s.visited => Agree(f, g, s.visited \cup {m}))

\* Functions that agree below a call agree on the call.
LEMMA ListAgrees ==
  ASSUME NEW f, NEW g, NEW s, NEW m, AgreeBelow(f, g, s, m)
  PROVE  /\ Called(f, s, m) \in ProbeState /\ s.visited \subseteq Called(f, s, m).visited
         /\ Called(g, s, m) = Called(f, s, m)
<1>0. f \in Getters /\ s \in ProbeState /\ m \in Mod /\ (m \notin s.visited => Agree(f, g, s.visited \cup {m}))
  BY DEF AgreeBelow
<1>1. CASE m \in s.visited
  BY <1>0, <1>1, CalledIs
<1>2. CASE m \notin s.visited
  <2> DEFINE V == s.visited \cup {m}
             d == Dependencies(f, Visit(s, m), m)
  <2>1. Agree(f, g, V) /\ Visit(s, m) \in Later(V)
    BY <1>0, <1>2, Steps DEF Later
  <2> HIDE DEF V
  <2>2. d \in Later(V) /\ Dependencies(g, Visit(s, m), m) = d
    BY <1>0, <2>1, DependenciesAgree
  <2>3. Called(f, s, m) = FillSoftdep(f, d, m) /\ Called(g, s, m) = FillSoftdep(g, d, m)
    BY <1>2, <2>2, CalledIs
  <2> HIDE DEF d
  <2>4. FillSoftdep(f, d, m) \in Later(V) /\ FillSoftdep(g, d, m) = FillSoftdep(f, d, m)
    BY <1>0, <2>1, <2>2, FillAgrees
  <2> QED BY <2>3, <2>4 DEF Later, V
<1> QED BY <1>1, <1>2

\* The equation of the recursion
IsProbe(f) == f = [s \in ProbeState |-> [m \in Mod |-> Called(f, s, m)]]

\* What the equation says
LEMMA IsProbeMeans ==
  ASSUME NEW f, IsProbe(f)
  PROVE  /\ \A s \in ProbeState : \A m \in Mod : f[s][m] = Called(f, s, m)
         /\ \A s \in ProbeState : f[s] = [m \in Mod |-> f[s][m]]
         /\ f = [s \in ProbeState |-> f[s]]
<1> DEFINE e(s) == [m \in Mod |-> Called(f, s, m)]
<1>1. f = [s \in ProbeState |-> e(s)]
  BY Zenon DEF IsProbe
<1>2. f = [s \in ProbeState |-> f[s]] /\ \A s \in ProbeState : f[s] = e(s)
  <2> HIDE DEF e
  <2> QED BY <1>1
<1>3. ASSUME NEW s \in ProbeState
      PROVE  f[s] = [m \in Mod |-> f[s][m]] /\ \A m \in Mod : f[s][m] = Called(f, s, m)
  <2>1. f[s] = [m \in Mod |-> Called(f, s, m)]
    BY <1>2
  <2> QED BY <2>1
<1> QED BY <1>2, <1>3

\* where fewer than k modules are left to visit
Solves(f, k) ==
  f \in Getters /\ \A s \in ProbeState : Left(s) < k => \A m \in Mod : f[s][m] = Called(f, s, m)

\* has a solution, because every level of the recursion has a module less to visit,
LEMMA ProbeExists == \E f : f \in Getters /\ IsProbe(f)
<1> DEFINE N == Cardinality(Mod)
           S == {k \in 0..N+1 : \E f : Solves(f, k)}
<1>1. N \in Nat
  BY ModFinite, FS_CardinalityType
<1>2. 0 \in S
  <2> DEFINE f == [s \in ProbeState |-> [m \in Mod |-> s]]
  <2>1. f \in Getters
    BY DEF Getters
  <2>2. \A s \in ProbeState : ~(Left(s) < 0)
    BY <1>1, LeftIsNat
  <2>3. Solves(f, 0)
    <3> HIDE DEF f
    <3> QED BY <2>1, <2>2 DEF Solves
  <2> HIDE DEF f
  <2> QED BY <1>1, <2>3
<1>3. ASSUME NEW k \in 1..N+1, k - 1 \in S PROVE k \in S
  <2>1. PICK f : Solves(f, k - 1)
    BY <1>3
  <2> DEFINE g == [s \in ProbeState |-> [m \in Mod |-> Called(f, s, m)]]
  <2>2. \A s \in ProbeState : \A m \in Mod : g[s][m] = Called(f, s, m)
    OBVIOUS
  <2>3. f \in Getters
    BY <2>1 DEF Solves
  <2>4. ASSUME NEW s \in ProbeState, NEW m \in Mod
        PROVE  /\ Called(f, s, m) \in ProbeState
               /\ s.visited \subseteq Called(f, s, m).visited
    <3>1. AgreeBelow(f, f, s, m)
      BY <2>3 DEF Agree, AgreeBelow
    <3> QED BY <3>1, ListAgrees
  <2>5. g \in Getters
    <3>1. g \in [ProbeState -> [Mod -> ProbeState]]
      BY <2>4
    <3> HIDE DEF g
    <3> QED BY <2>2, <2>4, <3>1 DEF Getters
  <2> HIDE DEF g
  <2>6. ASSUME NEW s \in ProbeState, Left(s) < k, NEW m \in Mod
        PROVE  g[s][m] = Called(g, s, m)
    <3>1. ASSUME m \notin s.visited PROVE Agree(f, g, s.visited \cup {m})
      <4>1. ASSUME NEW t \in Later(s.visited \cup {m}), NEW n \in Mod PROVE g[t][n] = f[t][n]
        <5>1. t \in ProbeState /\ Left(t) < Left(s)
          BY <3>1, LeftFalls DEF Later
        <5>2. Left(t) < k - 1
          BY <1>1, <2>6, <5>1, LeftIsNat
        <5> QED BY <2>1, <2>2, <5>1, <5>2 DEF Solves
      <4> QED BY <4>1 DEF Agree
    <3>2. AgreeBelow(f, g, s, m)
      BY <2>3, <3>1 DEF AgreeBelow
    <3>3. Called(g, s, m) = Called(f, s, m)
      BY <3>2, ListAgrees
    <3> QED BY <2>2, <3>3
  <2>7. Solves(g, k)
    BY <2>5, <2>6 DEF Solves
  <2> QED BY <2>7
<1>4. \A k \in 0..N+1 : k \in S
  <2> HIDE DEF S, N
  <2> QED BY <1>1, <1>2, <1>3, UpTo
<1>5. PICK f : Solves(f, N + 1)
  <2>1. N + 1 \in S
    <3> HIDE DEF S
    <3> QED BY <1>1, <1>4
  <2> QED BY <2>1
<1>6. \A s \in ProbeState : \A m \in Mod : f[s][m] = Called(f, s, m)
  <2>1. \A s \in ProbeState : Left(s) < N + 1
    BY <1>1, LeftIsNat
  <2> QED BY <1>5, <2>1 DEF Solves
<1>7. f \in Getters
  BY <1>5 DEF Solves
<1>8. IsProbe(f)
  <2>1. \A s \in ProbeState : f[s] = [m \in Mod |-> Called(f, s, m)]
    <3> TAKE s \in ProbeState
    <3>1. f[s] = [m \in Mod |-> f[s][m]]
      BY <1>7 DEF Getters
    <3> QED BY <1>6, <3>1
  <2>2. f = [s \in ProbeState |-> f[s]]
    BY <1>7 DEF Getters
  <2> DEFINE e(s) == [m \in Mod |-> Called(f, s, m)]
  <2>3. f = [s \in ProbeState |-> e(s)]
    <3>1. \A s \in ProbeState : f[s] = e(s)
      BY <2>1
    <3> HIDE DEF e
    <3> QED BY <2>2, <3>1
  <2> QED BY <2>3, Zenon DEF IsProbe
<1> QED BY <1>7, <1>8

\* which is the recursion.
LEMMA ProbeGets ==
  /\ probe \in Getters
  /\ \A s \in ProbeState : \A m \in Mod : probe[s][m] = Called(probe, s, m)
<1>1. PICK f : f \in Getters /\ IsProbe(f)
  BY ProbeExists
<1>2. probe = CHOOSE g : IsProbe(g)
  BY Zenon DEF probe, IsProbe, Called
<1>3. IsProbe(probe)
  <2>1. \E g : IsProbe(g)
    BY <1>1
  <2> QED BY <1>2, <2>1, Zenon
<1>4. /\ \A s \in ProbeState : \A m \in Mod : probe[s][m] = Called(probe, s, m)
      /\ \A s \in ProbeState : probe[s] = [m \in Mod |-> probe[s][m]]
      /\ probe = [s \in ProbeState |-> probe[s]]
  BY <1>3, IsProbeMeans, Zenon
<1>5. \A s \in ProbeState : \A m \in Mod : f[s][m] = Called(f, s, m)
  BY <1>1, IsProbeMeans, Zenon
<1> DEFINE T == {s \in ProbeState : \E m \in Mod : probe[s][m] # f[s][m]}
<1>6. T = {}
  <2> SUFFICES ASSUME T # {} PROVE FALSE
    OBVIOUS
  <2>1. PICK s \in T : \A m \in Mod : m \notin s.visited => \A t \in T : ~(s.visited \cup {m} \subseteq t.visited)
    <3> HIDE DEF T
    <3> QED BY MostVisited
  <2>2. PICK m \in Mod : probe[s][m] # f[s][m]
    OBVIOUS
  <2>3. s \in ProbeState
    OBVIOUS
  <2>4. ASSUME m \notin s.visited PROVE Agree(f, probe, s.visited \cup {m})
    <3>1. ASSUME NEW t \in Later(s.visited \cup {m}), NEW n \in Mod PROVE probe[t][n] = f[t][n]
      <4>1. t \in ProbeState /\ t \notin T
        BY <2>1, <2>4 DEF Later
      <4> QED BY <4>1
    <3> QED BY <3>1 DEF Agree
  <2>5. AgreeBelow(f, probe, s, m)
    BY <1>1, <2>3, <2>4 DEF AgreeBelow
  <2>6. Called(probe, s, m) = Called(f, s, m)
    BY <2>5, ListAgrees
  <2> QED BY <1>4, <1>5, <2>2, <2>3, <2>6
<1>7. probe = f
  <2>1. \A s \in ProbeState : \A m \in Mod : probe[s][m] = f[s][m]
    BY <1>6
  <2>2. \A s \in ProbeState : f[s] = [m \in Mod |-> f[s][m]]
    BY <1>1 DEF Getters
  <2>3. f = [s \in ProbeState |-> f[s]]
    BY <1>1 DEF Getters
  <2>4. \A s \in ProbeState : probe[s] = f[s]
    BY <1>4, <2>1, <2>2
  <2> QED BY <1>4, <2>3, <2>4
<1> QED BY <1>1, <1>4, <1>7

----------------------------------------------------------------------------
(* Dependencies.                                                           *)

\* A module needs modules, and all that they need, but never itself.
LEMMA DepsAreModules ==
  ASSUME NEW m \in Mod
  PROVE  /\ Deps[m] \in Seq(Mod) /\ DepSet(m) \subseteq Mod /\ Uses[m] \subseteq DepSet(m)
         /\ \A d \in Uses[m] : d \in Mod /\ DepSet(d) \subseteq DepSet(m)
         /\ m \notin DepSet(m)
<1>1. Deps[m] \in Seq(Mod) /\ DepSet(m) \subseteq Mod
  BY DepsClosed DEF DepSet
<1>2. DepSet(m) = Uses[m] \cup UNION {DepSet(d) : d \in Uses[m]}
  BY DepsClosed, Zenon
<1>3. Uses[m] \subseteq DepSet(m) /\ \A d \in Uses[m] : d \in Mod /\ DepSet(d) \subseteq DepSet(m)
  <2> HIDE DEF DepSet
  <2> QED BY <1>1, <1>2
<1>4. ASSUME m \in DepSet(m) PROVE FALSE
  <2>1. PICK i \in 1..Len(Deps[m]) : Deps[m][i] = m
    BY <1>4 DEF DepSet
  <2>2. i < i
    BY <1>4, <2>1, DepsClosed, Zenon
  <2> QED BY <2>1, <2>2
<1> QED BY <1>1, <1>3, <1>4

\* Of any modules one uses no other of them.
LEMMA NoCycle ==
  ASSUME NEW T, T \subseteq Mod, T # {}
  PROVE  \E m \in T : \A d \in Uses[m] : d \notin T
<1> DEFINE Size(m) == Cardinality(DepSet(m))
           I == {Size(m) : m \in T}
<1>1. \A m \in Mod : IsFiniteSet(DepSet(m)) /\ Size(m) \in Nat
  BY DepsAreModules, ModFinite, FS_Subset, FS_CardinalityType
<1>2. \E x \in I : \A j \in I : x <= j
  <2>1. I \subseteq Nat /\ I # {}
    BY <1>1
  <2> HIDE DEF I
  <2> QED BY <2>1, LeastNat
<1>3. PICK m \in T : \A n \in T : Size(m) <= Size(n)
  BY <1>2
<1>4. ASSUME NEW d \in Uses[m], d \in T PROVE FALSE
  <2> HIDE DEF Size
  <2>1. DepSet(d) \in SUBSET DepSet(m) /\ d \in DepSet(m) /\ d \notin DepSet(d)
    BY <1>3, <1>4, DepsAreModules
  <2>2. Cardinality(DepSet(d)) <= Cardinality(DepSet(m)) /\ Cardinality(DepSet(d)) # Cardinality(DepSet(m))
    BY <1>1, <1>3, <2>1, FS_Subset, Zenon
  <2> QED BY <1>1, <1>3, <1>4, <2>2 DEF Size
<1> QED BY <1>3, <1>4

\* What is needed is needed with all that it needs.
LEMMA DepsTransitive ==
  ASSUME NEW m \in Mod, NEW d \in DepSet(m)
  PROVE  d \in Mod /\ DepSet(d) \subseteq DepSet(m)
<1> DEFINE T == {n \in Mod : \E e \in DepSet(n) : ~(DepSet(e) \subseteq DepSet(n))}
<1>1. ASSUME T # {} PROVE FALSE
  <2>1. PICK n \in T : \A u \in Uses[n] : u \notin T
    <3>1. T \subseteq Mod
      OBVIOUS
    <3> HIDE DEF T
    <3> QED BY <1>1, <3>1, NoCycle
  <2>2. PICK e \in DepSet(n) : ~(DepSet(e) \subseteq DepSet(n))
    OBVIOUS
  <2>3. n \in Mod
    OBVIOUS
  <2>4. e \notin Uses[n]
    BY <2>2, <2>3, DepsAreModules
  <2>5. PICK u \in Uses[n] : e \in DepSet(u)
    <3>1. DepSet(n) = Uses[n] \cup UNION {DepSet(u) : u \in Uses[n]}
      BY <2>3, DepsClosed, Zenon
    <3> QED BY <2>2, <2>3, <2>4, <3>1
  <2>6. u \in Mod /\ u \notin T /\ DepSet(u) \subseteq DepSet(n)
    BY <2>1, <2>3, DepsAreModules
  <2>7. DepSet(e) \subseteq DepSet(u)
    BY <2>5, <2>6
  <2> QED BY <2>2, <2>6, <2>7
<1> QED BY <1>1, DepsAreModules

\* A set that has what its modules use has all that they need.
LEMMA UsedAndNeeded ==
  ASSUME NEW S, S \subseteq Mod, \A m \in S : Uses[m] \subseteq S
  PROVE  \A m \in S : DepSet(m) \subseteq S
<1> DEFINE T == {m \in S : ~(DepSet(m) \subseteq S)}
<1>1. ASSUME T # {} PROVE FALSE
  <2>1. PICK n \in T : \A u \in Uses[n] : u \notin T
    <3>1. T \subseteq Mod
      OBVIOUS
    <3> HIDE DEF T
    <3> QED BY <1>1, <3>1, NoCycle
  <2>2. PICK e \in DepSet(n) : e \notin S
    OBVIOUS
  <2>3. n \in Mod /\ n \in S
    OBVIOUS
  <2>4. PICK u \in Uses[n] : e \in DepSet(u)
    <3>1. DepSet(n) = Uses[n] \cup UNION {DepSet(d) : d \in Uses[n]}
      BY <2>3, DepsClosed, Zenon
    <3> QED BY <2>2, <2>3, <3>1
  <2>5. u \in S /\ u \notin T
    BY <2>1, <2>3
  <2> QED BY <2>2, <2>4, <2>5
<1> QED BY <1>1

----------------------------------------------------------------------------
(* What the recursion keeps.  W are the modules that it is at, visited and *)
(* not yet in the list, and P those whose post-deps it is at; S is a set   *)
(* that the list stays in, and R an order of the modules, if there is one. *)

Listed(s) == {s.list[i] : i \in 1..Len(s.list)}

PreSet(m) == {Pre[m][i] : i \in 1..Len(Pre[m])}
PostSet(m) == {Post[m][i] : i \in 1..Len(Post[m])}

\* A set that has what its modules depend on, softly or not
Within(S) == S \subseteq Mod /\ \A m \in S : DepSet(m) \cup PreSet(m) \cup PostSet(m) \subseteq S

\* Dependencies of all kinds make no cycle.
Order(R) ==
  /\ \A m \in Mod : \A d \in DepSet(m) \cup PreSet(m) \cup PostSet(m) : <<m, d>> \in R
  /\ \A a, b, c \in Mod : <<a, b>> \in R /\ <<b, c>> \in R => <<a, c>> \in R
  /\ \A a \in Mod : <<a, a>> \notin R

\* In the list l, the modules of before[m] come before each m.
Preceded(l, i, d) == \E j \in 1..i-1 : l[j] = d
DepsBefore(l) == \A i \in 1..Len(l) : \A d \in DepSet(l[i]) : Preceded(l, i, d)
PreBefore(l) == \A i \in 1..Len(l) : \A d \in PreSet(l[i]) : Preceded(l, i, d)

Kept(s, W, P, S, R) ==
  /\ s \in ProbeState
  /\ DepsBefore(s.list)
  /\ s.visited \subseteq Listed(s) \cup W
  /\ \A x \in Listed(s) : x \notin P => PreSet(x) \cup PostSet(x) \subseteq s.visited
  /\ Listed(s) \subseteq S
  /\ Order(R) => PreBefore(s.list)

Extends(s, t) == s.visited \subseteq t.visited /\ Listed(s) \subseteq Listed(t)

\* The modules that the recursion is at come before m.
Below(m, W, R) == Order(R) => \A w \in W : <<w, m>> \in R

\* A call of the recursion does what it should.
Right(f, t, m, W, P, S, R) ==
  Kept(t, W, P, S, R) /\ m \in S /\ Below(m, W, R) =>
    Kept(f[t][m], W, P, S, R) /\ Extends(t, f[t][m]) /\ m \in f[t][m].visited

\* and so do all that have visited more than V
AllRight(f, V, S, R) ==
  \A t \in Later(V) : \A m \in Mod : \A W, P \in SUBSET Mod : Right(f, t, m, W, P, S, R)

\* The elements of a list are its prefix's and the last one.
LEMMA ListedAdd ==
  ASSUME NEW s \in ProbeState, NEW m \in Mod, NEW ignorecmd \in BOOLEAN
  PROVE  LET t == Add(s, m, ignorecmd)
         IN  /\ t \in ProbeState /\ t.visited = s.visited
             /\ Len(t.list) = Len(s.list) + 1 /\ Len(s.list) \in Nat
             /\ \A i \in 1..Len(s.list) : t.list[i] = s.list[i]
             /\ t.list[Len(s.list) + 1] = m
             /\ Listed(t) = Listed(s) \cup {m}
<1> DEFINE t == Add(s, m, ignorecmd)
           n == Len(s.list)
<1>1. t \in ProbeState /\ t.visited = s.visited /\ t.list = Append(s.list, m) /\ s.list \in Seq(Mod)
  BY Steps DEF ProbeState
<1> HIDE DEF t
<1>2. n \in Nat /\ Len(t.list) = n + 1 /\ (\A i \in 1..n : t.list[i] = s.list[i]) /\ t.list[n + 1] = m
  BY <1>1
<1> HIDE DEF n
<1>3. Listed(t) = Listed(s) \cup {m}
  <2>1. \A i \in 1..n+1 : i \in 1..n \/ i = n + 1
    BY <1>2
  <2>2. 1..n \subseteq 1..n+1 /\ n + 1 \in 1..n+1
    BY <1>2
  <2>3. Listed(t) = {t.list[i] : i \in 1..n+1} /\ Listed(s) = {s.list[i] : i \in 1..n}
    BY <1>2 DEF Listed, n
  <2> QED BY <1>2, <2>1, <2>2, <2>3
<1> QED BY <1>1, <1>2, <1>3 DEF t, n

\* What the list has before a place stays before it.
LEMMA BeforeAdd ==
  ASSUME NEW s \in ProbeState, NEW m \in Mod, NEW ignorecmd \in BOOLEAN
  PROVE  LET t == Add(s, m, ignorecmd)
         IN  /\ DepsBefore(s.list) /\ DepSet(m) \subseteq Listed(s) => DepsBefore(t.list)
             /\ PreBefore(s.list) /\ PreSet(m) \subseteq Listed(s) => PreBefore(t.list)
<1> DEFINE t == Add(s, m, ignorecmd)
           n == Len(s.list)
<1>1. /\ Len(t.list) = n + 1 /\ n \in Nat
      /\ \A i \in 1..n : t.list[i] = s.list[i]
      /\ t.list[n + 1] = m
  BY ListedAdd
<1> HIDE DEF t
<1>2. ASSUME NEW i \in 1..n, NEW d, Preceded(s.list, i, d) PROVE Preceded(t.list, i, d)
  <2>1. PICK j \in 1..i-1 : s.list[j] = d
    BY <1>2 DEF Preceded
  <2>2. j \in 1..n
    BY <1>1
  <2> QED BY <1>1, <2>1, <2>2 DEF Preceded
<1>3. ASSUME NEW d \in Listed(s) PROVE Preceded(t.list, n + 1, d)
  <2>1. PICK j \in 1..n : s.list[j] = d
    BY <1>3 DEF Listed
  <2>2. j \in 1..(n+1)-1 /\ t.list[j] = d
    BY <1>1, <2>1
  <2> QED BY <2>2 DEF Preceded
<1>4. \A i \in 1..Len(t.list) : i \in 1..n \/ i = n + 1
  BY <1>1
<1>5. ASSUME DepsBefore(s.list), DepSet(m) \subseteq Listed(s) PROVE DepsBefore(t.list)
  <2> SUFFICES ASSUME NEW i \in 1..Len(t.list), NEW d \in DepSet(t.list[i]) PROVE Preceded(t.list, i, d)
    BY DEF DepsBefore
  <2>1. CASE i \in 1..n
    BY <1>1, <1>2, <1>5, <2>1 DEF DepsBefore
  <2>2. CASE i = n + 1
    BY <1>1, <1>3, <1>5, <2>2
  <2> QED BY <1>4, <2>1, <2>2
<1>6. ASSUME PreBefore(s.list), PreSet(m) \subseteq Listed(s) PROVE PreBefore(t.list)
  <2> SUFFICES ASSUME NEW i \in 1..Len(t.list), NEW d \in PreSet(t.list[i]) PROVE Preceded(t.list, i, d)
    BY DEF PreBefore
  <2>1. CASE i \in 1..n
    BY <1>1, <1>2, <1>6, <2>1 DEF PreBefore
  <2>2. CASE i = n + 1
    BY <1>1, <1>3, <1>6, <2>2
  <2> QED BY <1>4, <2>1, <2>2
<1> QED BY <1>5, <1>6 DEF t

\* A loop of calls keeps it, and visits its modules.
LEMMA SoftdepsKeep ==
  ASSUME NEW f \in Getters, NEW V, NEW S, NEW R, AllRight(f, V, S, R),
         NEW W \in SUBSET Mod, NEW P \in SUBSET Mod, NEW s \in Later(V), Kept(s, W, P, S, R),
         NEW mods \in Seq(Mod), \A i \in 1..Len(mods) : mods[i] \in S /\ Below(mods[i], W, R)
  PROVE  LET t == ForEach(f, s, mods)
         IN  /\ Kept(t, W, P, S, R) /\ Extends(s, t) /\ t \in Later(V)
             /\ \A i \in 1..Len(mods) : mods[i] \in t.visited
<1> DEFINE D == ProbeState
           X(i) == {t \in Later(V) : Kept(t, W, P, S, R) /\ Extends(s, t) /\ \A j \in 1..i : mods[j] \in t.visited}
           L == [i \in 0..Len(mods) |-> X(i)]
<1>1. f \in [D -> [Mod -> D]] /\ s \in D
  BY DEF Getters, Later
<1>2. Len(mods) \in Nat /\ \A i \in 0..Len(mods) : L[i] = X(i)
  OBVIOUS
<1> HIDE DEF L
<1>3. s \in L[0]
  BY <1>2 DEF Extends
<1>4. ASSUME NEW i \in 1..Len(mods), NEW t \in D, t \in L[i-1]
      PROVE  f[t][mods[i]] \in L[i] /\ f[t][mods[i]] = f[t][mods[i]]
  <2> DEFINE u == f[t][mods[i]]
  <2>1. mods[i] \in Mod /\ i \in 0..Len(mods) /\ i - 1 \in 0..Len(mods)
    BY <1>2
  <2>2. t \in X(i-1)
    BY <1>2, <1>4, <2>1
  <2>3. t \in Later(V) /\ Kept(t, W, P, S, R) /\ Extends(s, t) /\ \A j \in 1..i-1 : mods[j] \in t.visited
    BY <2>2
  <2>4. mods[i] \in S /\ Below(mods[i], W, R)
    OBVIOUS
  <2>5. Right(f, t, mods[i], W, P, S, R)
    BY <2>1, <2>3 DEF AllRight
  <2>6. Kept(u, W, P, S, R) /\ Extends(t, u) /\ mods[i] \in u.visited
    BY <2>3, <2>4, <2>5 DEF Right
  <2>7. u \in Later(V)
    <3>1. u \in ProbeState /\ t.visited \subseteq u.visited
      BY <1>1, <2>1, <2>6 DEF Extends
    <3> HIDE DEF u
    <3> QED BY <2>3, <3>1 DEF Later
  <2> HIDE DEF u
  <2>8. Extends(s, u) /\ \A j \in 1..i : mods[j] \in u.visited
    <3>1. \A j \in 1..i : j \in 1..i-1 \/ j = i
      OBVIOUS
    <3> QED BY <2>3, <2>6, <3>1 DEF Extends
  <2>9. u \in X(i)
    BY <2>6, <2>7, <2>8
  <2> QED BY <1>2, <2>1, <2>9 DEF u
<1>5. Leads(D, L, s, mods, f, f)
  <2> HIDE DEF D, X
  <2> QED BY <1>1, <1>3, <1>4 DEF Leads
<1>6. ForEach(f, s, mods) \in L[Len(mods)]
  <2> HIDE DEF D, X
  <2> QED BY <1>5, LoopRule
<1>7. ForEach(f, s, mods) \in X(Len(mods))
  <2>1. Len(mods) \in 0..Len(mods)
    BY <1>2
  <2> QED BY <1>2, <1>6, <2>1
<1> QED BY <1>7

\* More may be in the list, and more visited; the parts that do not change stay true.
LEMMA FillKeeps ==
  ASSUME NEW f \in Getters, NEW V, NEW S, NEW R, Within(S), AllRight(f, V, S, R),
         NEW W \in SUBSET Mod, NEW P \in SUBSET Mod, NEW s \in Later(V), Kept(s, W, P, S, R),
         NEW m \in S, DepSet(m) \subseteq Listed(s), \A p \in PreSet(m) \cup PostSet(m) : Below(p, W, R)
  PROVE  LET u == FillSoftdep(f, s, m)
         IN  Kept(u, W, P, S, R) /\ Extends(s, u) /\ u \in Later(V) /\ m \in Listed(u)
<1> DEFINE a == ForEach(f, s, Pre[m])
           b == Add(a, m, HasSoftdeps(m))
           c == ForEach(f, b, Post[m])
           Q == P \cup {m}
<1>1. /\ m \in Mod /\ Pre[m] \in Seq(Mod) /\ Post[m] \in Seq(Mod) /\ HasSoftdeps(m) \in BOOLEAN
      /\ \A i \in 1..Len(Pre[m]) : Pre[m][i] \in PreSet(m)
      /\ \A i \in 1..Len(Post[m]) : Post[m][i] \in PostSet(m)
      /\ PreSet(m) \cup PostSet(m) \subseteq S
  BY SoftdepsType DEF HasSoftdeps, Within, PreSet, PostSet
<1>2. \A i \in 1..Len(Pre[m]) : Pre[m][i] \in S /\ Below(Pre[m][i], W, R)
  BY <1>1
<1>3. Kept(a, W, P, S, R) /\ Extends(s, a) /\ a \in Later(V) /\ \A i \in 1..Len(Pre[m]) : Pre[m][i] \in a.visited
  BY <1>1, <1>2, SoftdepsKeep
<1> HIDE DEF a
<1>4. PreSet(m) \subseteq a.visited
  BY <1>3 DEF PreSet
<1>5. a \in ProbeState
  BY <1>3 DEF Later
<1>6. /\ b \in ProbeState /\ b.visited = a.visited /\ Listed(b) = Listed(a) \cup {m}
      /\ DepsBefore(a.list) /\ DepSet(m) \subseteq Listed(a) => DepsBefore(b.list)
      /\ PreBefore(a.list) /\ PreSet(m) \subseteq Listed(a) => PreBefore(b.list)
  BY <1>1, <1>5, ListedAdd, BeforeAdd
<1> HIDE DEF b
<1>7. DepsBefore(b.list)
  BY <1>3, <1>6 DEF Kept, Extends
<1>8. ASSUME Order(R) PROVE PreBefore(b.list)
  <2>1. ASSUME NEW p \in PreSet(m) PROVE p \in Listed(a)
    <3>1. p \in Listed(a) \cup W
      BY <1>3, <1>4 DEF Kept
    <3>2. p \in Mod /\ <<p, p>> \notin R
      BY <1>1, <1>8 DEF Within, Order
    <3>3. p \notin W
      BY <1>8, <3>2 DEF Below
    <3> QED BY <3>1, <3>3
  <2> QED BY <1>3, <1>6, <1>8, <2>1 DEF Kept
<1>9. Kept(b, W, Q, S, R)
  BY <1>3, <1>6, <1>7, <1>8 DEF Kept
<1>10. b \in Later(V)
  BY <1>3, <1>6 DEF Later
<1>11. \A i \in 1..Len(Post[m]) : Post[m][i] \in S /\ Below(Post[m][i], W, R)
  BY <1>1
<1>12. Kept(c, W, Q, S, R) /\ Extends(b, c) /\ c \in Later(V) /\ \A i \in 1..Len(Post[m]) : Post[m][i] \in c.visited
  <2>1. Q \in SUBSET Mod
    BY <1>1
  <2> HIDE DEF Q
  <2> QED BY <1>1, <1>9, <1>10, <1>11, <2>1, SoftdepsKeep
<1> HIDE DEF c
<1>13. PreSet(m) \cup PostSet(m) \subseteq c.visited
  BY <1>4, <1>6, <1>12 DEF Extends, PostSet
<1>14. Kept(c, W, P, S, R)
  BY <1>12, <1>13 DEF Kept
<1>15. Extends(s, c) /\ m \in Listed(c)
  BY <1>3, <1>6, <1>12 DEF Extends
<1>16. FillSoftdep(f, s, m) = c
  BY Zenon DEF FillSoftdep, a, b, c
<1> QED BY <1>12, <1>14, <1>15, <1>16

\* Everything that a module needs is added, each after what it needs itself.
LEMMA DependenciesKeep ==
  ASSUME NEW f \in Getters, NEW V, NEW S, NEW R, Within(S), AllRight(f, V, S, R),
         NEW W \in SUBSET Mod, NEW P \in SUBSET Mod, NEW s \in Later(V), Kept(s, W, P, S, R),
         NEW m \in Mod, DepSet(m) \subseteq S,
         \A d \in DepSet(m) : \A p \in PreSet(d) \cup PostSet(d) : Below(p, W, R)
  PROVE  LET t == Dependencies(f, s, m)
         IN  Kept(t, W, P, S, R) /\ Extends(s, t) /\ t \in Later(V) /\ DepSet(m) \subseteq Listed(t)
<1> DEFINE D == ProbeState
           mods == Deps[m]
           X(i) == {t \in Later(V) : Kept(t, W, P, S, R) /\ Extends(s, t) /\ \A j \in 1..i : mods[j] \in Listed(t)}
           L == [i \in 0..Len(mods) |-> X(i)]
<1>1. /\ mods \in Seq(Mod) /\ Len(mods) \in Nat /\ DepSet(m) = {mods[i] : i \in 1..Len(mods)}
      /\ \A i, j \in 1..Len(mods) : mods[j] \in DepSet(mods[i]) => j < i
  BY DepsClosed DEF DepSet
<1> HIDE DEF mods
<1>2. \A i \in 0..Len(mods) : L[i] = X(i)
  OBVIOUS
<1> HIDE DEF L
<1>3. s \in L[0]
  BY <1>1, <1>2 DEF Extends
<1>4. Fill(f) \in [D -> [Mod -> D]] /\ s \in D /\ \A t \in D : \A d \in Mod : Fill(f)[t][d] = FillSoftdep(f, t, d)
  BY FillGets DEF Getters, Later
<1>5. ASSUME NEW i \in 1..Len(mods), NEW t \in D, t \in L[i-1]
      PROVE  Fill(f)[t][mods[i]] \in L[i] /\ Fill(f)[t][mods[i]] = Fill(f)[t][mods[i]]
  <2> DEFINE d == mods[i]
             u == FillSoftdep(f, t, d)
  <2>1. d \in DepSet(m) /\ i \in 0..Len(mods) /\ i - 1 \in 0..Len(mods)
    BY <1>1
  <2>2. d \in Mod /\ d \in S /\ DepSet(d) \subseteq DepSet(m)
    BY <2>1, DepsTransitive
  <2>3. t \in X(i-1)
    BY <1>2, <1>5, <2>1
  <2>4. t \in Later(V) /\ Kept(t, W, P, S, R) /\ Extends(s, t) /\ \A j \in 1..i-1 : mods[j] \in Listed(t)
    BY <2>3
  <2>5. ASSUME NEW e \in DepSet(d) PROVE e \in Listed(t)
    <3>1. PICK j \in 1..Len(mods) : mods[j] = e
      BY <1>1, <2>2
    <3>2. j < i
      BY <1>1, <3>1
    <3>3. j \in 1..i-1
      BY <1>1, <3>2
    <3> QED BY <2>4, <3>1, <3>3
  <2>6. \A p \in PreSet(d) \cup PostSet(d) : Below(p, W, R)
    BY <2>1
  <2> HIDE DEF d
  <2>7. Kept(u, W, P, S, R) /\ Extends(t, u) /\ u \in Later(V) /\ d \in Listed(u)
    BY <2>2, <2>4, <2>5, <2>6, FillKeeps
  <2> HIDE DEF u
  <2>8. Extends(s, u) /\ \A j \in 1..i : mods[j] \in Listed(u)
    <3>1. \A j \in 1..i : j \in 1..i-1 \/ j = i
      BY <1>1
    <3> QED BY <2>4, <2>7, <3>1 DEF Extends, d
  <2>9. u \in X(i)
    BY <2>7, <2>8
  <2>10. Fill(f)[t][d] = u
    BY <1>4, <2>2 DEF u
  <2> QED BY <1>2, <2>1, <2>9, <2>10 DEF d
<1>6. Leads(D, L, s, mods, Fill(f), Fill(f))
  <2> HIDE DEF D, X
  <2> QED BY <1>1, <1>3, <1>4, <1>5 DEF Leads
<1>7. ForEach(Fill(f), s, mods) \in L[Len(mods)]
  <2> HIDE DEF D, X
  <2> QED BY <1>6, LoopRule
<1> DEFINE t == ForEach(Fill(f), s, mods)
<1>8. t \in X(Len(mods))
  <2>1. Len(mods) \in 0..Len(mods)
    BY <1>1
  <2> QED BY <1>2, <1>7, <2>1
<1>9. Dependencies(f, s, m) = t
  BY Zenon DEF Dependencies, Fill, mods
<1> HIDE DEF t
<1>10. DepSet(m) \subseteq Listed(t)
  BY <1>1, <1>8
<1> QED BY <1>8, <1>9, <1>10

\* The order of the soft dependencies of what m needs
LEMMA BelowDeps ==
  ASSUME NEW R, NEW W \in SUBSET Mod, NEW m \in Mod, Below(m, W, R), NEW S, Within(S), DepSet(m) \subseteq S,
         NEW V, V = W \cup {m}
  PROVE  /\ \A d \in DepSet(m) : \A p \in PreSet(d) \cup PostSet(d) : Below(p, V, R)
         /\ m \in S => \A p \in PreSet(m) \cup PostSet(m) : Below(p, V, R)
<1>1. ASSUME Order(R), NEW w \in V, NEW d \in DepSet(m), NEW p \in PreSet(d) \cup PostSet(d)
      PROVE  <<w, p>> \in R
  <2>1. w \in Mod /\ d \in Mod /\ p \in Mod
    BY <1>1 DEF Within
  <2>2. <<m, d>> \in R /\ <<d, p>> \in R
    BY <1>1, <2>1 DEF Order
  <2>3. <<m, p>> \in R
    BY <1>1, <2>1, <2>2 DEF Order
  <2>4. w # m => <<w, m>> \in R
    BY <1>1 DEF Below
  <2>5. w # m => <<w, p>> \in R
    BY <1>1, <2>1, <2>3, <2>4 DEF Order
  <2> QED BY <2>3, <2>5
<1>2. ASSUME Order(R), NEW w \in V, m \in S, NEW p \in PreSet(m) \cup PostSet(m)
      PROVE  <<w, p>> \in R
  <2>1. w \in Mod /\ p \in Mod
    BY <1>2 DEF Within
  <2>2. <<m, p>> \in R
    BY <1>2, <2>1 DEF Order
  <2>3. w # m => <<w, m>> \in R
    BY <1>2 DEF Below
  <2>4. w # m => <<w, p>> \in R
    BY <1>2, <2>1, <2>2, <2>3 DEF Order
  <2> QED BY <2>2, <2>4
<1> QED BY <1>1, <1>2 DEF Below

\* What is added first when m is visited
LEMMA VisitKeeps ==
  ASSUME NEW f \in Getters, NEW S, NEW R, Within(S),
         NEW s \in ProbeState, NEW m \in Mod, m \notin s.visited, AllRight(f, s.visited \cup {m}, S, R),
         NEW W \in SUBSET Mod, NEW P \in SUBSET Mod, Kept(s, W, P, S, R), DepSet(m) \subseteq S, Below(m, W, R)
  PROVE  LET t == Dependencies(f, Visit(s, m), m)
         IN  /\ Kept(t, W \cup {m}, P, S, R) /\ Extends(s, t) /\ t \in Later(s.visited \cup {m})
             /\ DepSet(m) \subseteq Listed(t)
<1> DEFINE v == Visit(s, m)
           Q == W \cup {m}
           V == s.visited \cup {m}
           t == Dependencies(f, v, m)
<1>1. v \in ProbeState /\ v.visited = V /\ v.list = s.list /\ Listed(v) = Listed(s)
  <2>1. v \in ProbeState /\ v.visited = V /\ v.list = s.list
    BY Steps
  <2> QED BY <2>1 DEF Listed
<1> HIDE DEF v
<1>2. v \in Later(V)
  BY <1>1 DEF Later
<1>3. Kept(v, Q, P, S, R)
  BY <1>1 DEF Kept
<1>4. Extends(s, v)
  BY <1>1 DEF Extends
<1>5. Q \in SUBSET Mod /\ AllRight(f, V, S, R) /\ \A d \in DepSet(m) : \A p \in PreSet(d) \cup PostSet(d) : Below(p, Q, R)
  BY BelowDeps
<1> HIDE DEF V, Q
<1>6. Kept(t, Q, P, S, R) /\ Extends(v, t) /\ t \in Later(V) /\ DepSet(m) \subseteq Listed(t)
  BY <1>2, <1>3, <1>5, DependenciesKeep
<1> HIDE DEF t
<1>7. Extends(s, t)
  BY <1>4, <1>6 DEF Extends
<1> QED BY <1>6, <1>7 DEF t, v, V, Q

\* A call is right when those below it are.
LEMMA CallRight ==
  ASSUME NEW f \in Getters, NEW S, NEW R, Within(S),
         NEW s \in ProbeState, NEW m \in Mod, m \notin s.visited, AllRight(f, s.visited \cup {m}, S, R),
         NEW W \in SUBSET Mod, NEW P \in SUBSET Mod, Kept(s, W, P, S, R), m \in S, Below(m, W, R)
  PROVE  LET t == Called(f, s, m)
         IN  Kept(t, W, P, S, R) /\ Extends(s, t) /\ m \in t.visited
<1> DEFINE Q == W \cup {m}
           V == s.visited \cup {m}
           d == Dependencies(f, Visit(s, m), m)
           t == FillSoftdep(f, d, m)
<1>1. DepSet(m) \subseteq S /\ Q \in SUBSET Mod /\ AllRight(f, V, S, R)
  BY DEF Within
<1>2. Kept(d, Q, P, S, R) /\ Extends(s, d) /\ d \in Later(V) /\ DepSet(m) \subseteq Listed(d)
  BY <1>1, VisitKeeps
<1>3. \A p \in PreSet(m) \cup PostSet(m) : Below(p, Q, R)
  BY <1>1, BelowDeps
<1>4. Called(f, s, m) = t
  BY CalledIs
<1>5. Q = W \cup {m} /\ V = s.visited \cup {m}
  OBVIOUS
<1> HIDE DEF d, Q, V
<1>6. Kept(t, Q, P, S, R) /\ Extends(d, t) /\ t \in Later(V) /\ m \in Listed(t)
  BY <1>1, <1>2, <1>3, FillKeeps
<1> HIDE DEF t
<1>7. Kept(t, W, P, S, R)
  BY <1>5, <1>6 DEF Kept
<1>8. Extends(s, t) /\ m \in t.visited
  BY <1>2, <1>5, <1>6 DEF Extends, Later
<1> QED BY <1>4, <1>7, <1>8

\* So all calls of the recursion are right.
LEMMA ProbeRight == ASSUME NEW S, NEW R, Within(S), NEW V PROVE AllRight(probe, V, S, R)
<1> DEFINE Ok(s) == \A m \in Mod : \A W, P \in SUBSET Mod : Right(probe, s, m, W, P, S, R)
           T == {s \in ProbeState : ~Ok(s)}
<1>1. ASSUME T # {} PROVE FALSE
  <2>1. PICK s \in T : \A m \in Mod : m \notin s.visited => \A t \in T : ~(s.visited \cup {m} \subseteq t.visited)
    <3> HIDE DEF T
    <3> QED BY <1>1, MostVisited
  <2>2. s \in ProbeState /\ ~Ok(s)
    OBVIOUS
  <2>3. PICK m \in Mod, W \in SUBSET Mod, P \in SUBSET Mod : ~Right(probe, s, m, W, P, S, R)
    BY <2>2
  <2>4. Kept(s, W, P, S, R) /\ m \in S /\ Below(m, W, R) /\ probe \in Getters /\ probe[s][m] = Called(probe, s, m)
    BY <2>2, <2>3, ProbeGets DEF Right
  <2>5. CASE m \in s.visited
    <3>1. probe[s][m] = s
      BY <2>4, <2>5, CalledIs
    <3> QED BY <2>3, <2>4, <2>5, <3>1 DEF Right, Extends
  <2>6. CASE m \notin s.visited
    <3>1. AllRight(probe, s.visited \cup {m}, S, R)
      <4>1. ASSUME NEW t \in Later(s.visited \cup {m}) PROVE Ok(t)
        <5>1. t \in ProbeState /\ t \notin T
          BY <2>1, <2>6 DEF Later
        <5> QED BY <5>1
      <4> QED BY <4>1 DEF AllRight
    <3>2. Kept(probe[s][m], W, P, S, R) /\ Extends(s, probe[s][m]) /\ m \in probe[s][m].visited
      BY <2>2, <2>4, <2>6, <3>1, CallRight
    <3> QED BY <2>3, <3>2 DEF Right
  <2> QED BY <2>5, <2>6
<1>2. \A s \in ProbeState : Ok(s)
  BY <1>1
<1> QED BY <1>2 DEF AllRight, Later

----------------------------------------------------------------------------
(* The lists.                                                              *)

LEMMA StartKept == ASSUME NEW W, NEW P, NEW S, NEW R PROVE Kept(Start, W, P, S, R) /\ Start \in ProbeState
<1>1. Start.list = <<>> /\ Start.visited = {} /\ Start.ignorecmd = {} /\ Start \in ProbeState
  BY DEF Start, ProbeState
<1>2. Len(Start.list) = 0 /\ Listed(Start) = {}
  BY <1>1 DEF Listed
<1> QED BY <1>1, <1>2 DEF Kept, DepsBefore, PreBefore

\* The list of a module and of all that it depends on,
LEMMA FullList ==
  ASSUME NEW m \in Mod, NEW S, NEW R, Within(S), m \in S
  PROVE  LET t == ProbeListOf(m, FALSE) IN Kept(t, {}, {}, S, R) /\ m \in Listed(t)
<1> DEFINE t == ProbeListOf(m, FALSE)
<1>1. Kept(Start, {}, {}, S, R) /\ Start \in ProbeState /\ m \notin Start.visited
  BY StartKept DEF Start
<1>2. AllRight(probe, Start.visited \cup {m}, S, R) /\ probe \in Getters /\ Below(m, {}, R)
  BY ProbeRight, ProbeGets DEF Below
<1>3. {} \in SUBSET Mod
  OBVIOUS
<1>4. Kept(Called(probe, Start, m), {}, {}, S, R) /\ m \in Called(probe, Start, m).visited
  BY <1>1, <1>2, <1>3, CallRight
<1>5. t = Called(probe, Start, m)
  BY Zenon DEF ProbeListOf, Called
<1> HIDE DEF t
<1>6. m \in Listed(t)
  BY <1>4, <1>5 DEF Kept
<1> QED BY <1>4, <1>5, <1>6 DEF t

\* and without the module's own soft dependencies.
LEMMA BareList ==
  ASSUME NEW m \in Mod, NEW S, NEW R, Within(S), DepSet(m) \subseteq S
  PROVE  \E d \in ProbeState : /\ ProbeListOf(m, TRUE) = Add(d, m, TRUE)
                               /\ Kept(d, {m}, {}, S, R)
                               /\ DepSet(m) \subseteq Listed(d)
<1> DEFINE d == Dependencies(probe, Visit(Start, m), m)
<1>1. Kept(Start, {}, {}, S, R) /\ Start \in ProbeState /\ m \notin Start.visited
  BY StartKept DEF Start
<1>2. AllRight(probe, Start.visited \cup {m}, S, R) /\ probe \in Getters /\ Below(m, {}, R)
  BY ProbeRight, ProbeGets DEF Below
<1>3. {} \in SUBSET Mod /\ {} \cup {m} = {m}
  OBVIOUS
<1>4. Kept(d, {} \cup {m}, {}, S, R) /\ d \in Later(Start.visited \cup {m}) /\ DepSet(m) \subseteq Listed(d)
  BY <1>1, <1>2, <1>3, VisitKeeps
<1>5. ProbeListOf(m, TRUE) = Add(d, m, TRUE)
  BY <1>1, Zenon DEF ProbeListOf, GetProbeList
<1> HIDE DEF d
<1>6. d \in ProbeState /\ Kept(d, {m}, {}, S, R)
  BY <1>3, <1>4 DEF Later
<1> QED BY <1>4, <1>5, <1>6

\* Every list of kmod_module_get_probe_list is
\* a list of modules that has the module and all that it needs, and has each of its modules
\* only after all that this one needs.
ListSound(m, ignorecmd) ==
  LET t == ProbeListOf(m, ignorecmd)
  IN  t \in ProbeState /\ DepsBefore(t.list) /\ {m} \cup DepSet(m) \subseteq Listed(t)

\* It is so for every module, whether or not its install command is ignored.
THEOREM ListsAreSound == \A m \in Mod : ListSound(m, FALSE) /\ ListSound(m, TRUE)
<1> TAKE m \in Mod
<1>1. Within(Mod) /\ DepSet(m) \subseteq Mod
  <2>1. \A d \in Mod : DepSet(d) \cup PreSet(d) \cup PostSet(d) \subseteq Mod
    BY DepsAreModules, SoftdepsType DEF PreSet, PostSet
  <2> QED BY <2>1 DEF Within
<1>2. ListSound(m, FALSE)
  <2> DEFINE t == ProbeListOf(m, FALSE)
  <2>1. Kept(t, {}, {}, Mod, {}) /\ m \in Listed(t)
    BY <1>1, FullList
  <2> HIDE DEF t
  <2>2. t \in ProbeState /\ DepsBefore(t.list)
    BY <2>1 DEF Kept
  <2>3. ASSUME NEW e \in DepSet(m) PROVE e \in Listed(t)
    <3>1. PICK i \in 1..Len(t.list) : t.list[i] = m
      BY <2>1 DEF Listed
    <3>2. PICK j \in 1..i-1 : t.list[j] = e
      BY <2>2, <3>1 DEF DepsBefore, Preceded
    <3>3. t.list \in Seq(Mod) /\ j \in 1..Len(t.list)
      BY <2>2 DEF ProbeState
    <3> QED BY <3>2, <3>3 DEF Listed
  <2> QED BY <2>1, <2>2, <2>3 DEF ListSound, t
<1>3. ListSound(m, TRUE)
  <2> DEFINE t == ProbeListOf(m, TRUE)
  <2>1. PICK d \in ProbeState : t = Add(d, m, TRUE) /\ Kept(d, {m}, {}, Mod, {}) /\ DepSet(m) \subseteq Listed(d)
    BY <1>1, BareList
  <2>2. /\ t \in ProbeState /\ Listed(t) = Listed(d) \cup {m}
        /\ DepsBefore(d.list) /\ DepSet(m) \subseteq Listed(d) => DepsBefore(t.list)
    <3>1. LET u == Add(d, m, TRUE) IN
          /\ u \in ProbeState /\ Listed(u) = Listed(d) \cup {m}
          /\ DepsBefore(d.list) /\ DepSet(m) \subseteq Listed(d) => DepsBefore(u.list)
      BY ListedAdd, BeforeAdd, Zenon
    <3> HIDE DEF t
    <3> QED BY <2>1, <3>1
  <2>3. DepsBefore(d.list)
    BY <2>1 DEF Kept
  <2> HIDE DEF t
  <2> QED BY <2>1, <2>2, <2>3 DEF ListSound, t
<1> QED BY <1>2, <1>3
=============================================================================
