-------------------------- MODULE ProbeOrderProof --------------------------
(***************************************************************************)
(* The probe list of every module of every graph, whatever its size and    *)
(* its soft dependencies: it is complete, and each module comes after what *)
(* it needs.                                                               *)
(***************************************************************************)
EXTENDS ProbeOrder, FiniteSetTheorems, WellFoundedInduction, TLAPS

\* What is proved of probe lists, for the graph of this module
PL == INSTANCE ProbeListProof WITH
        Uses <- uses, Deps <- deps,
        Pre <- [m \in Mod |-> Ordered(pre[m])], Post <- [m \in Mod |-> Ordered(post[m])]

\* The lists are those of ProbeListProof.
LEMMA SameList ==
  ASSUME NEW m, NEW ignore
  PROVE  P!ProbeListOf(m, ignore) = PL!ProbeListOf(m, ignore)
BY Zenon DEF P!ProbeListOf, P!GetProbeList, P!Start, P!Visit, P!Dependencies, P!FillSoftdep, P!ForEach,
       P!Add, P!HasSoftdeps, P!probe, P!ProbeState,
       PL!ProbeListOf, PL!GetProbeList, PL!Start, PL!Visit, PL!Dependencies, PL!FillSoftdep, PL!ForEach,
       PL!Add, PL!HasSoftdeps, PL!probe, PL!ProbeState

\* Induction up to n
LEMMA UpTo ==
  ASSUME NEW n \in Nat, NEW S, 0 \in S, \A k \in 1..n : k - 1 \in S => k \in S
  PROVE  \A k \in 0..n : k \in S
<1> DEFINE R == OpToRel(<, Nat)
           I == {k \in 0..n : k \notin S}
<1>1. \A x, y \in Nat : x < y => <<x, y>> \in R
  BY DEF OpToRel
<1>2. IsWellFoundedOn(R, Nat)
  BY NatLessThanWellFounded, Zenon
<1>3. I \subseteq Nat
  OBVIOUS
<1>4. ASSUME NEW x \in I PROVE \E j \in I : <<j, x>> \in R
  <2>1. x \in 1..n /\ x - 1 \in 0..n /\ x - 1 \notin S /\ x - 1 < x
    BY <1>4
  <2> HIDE DEF R
  <2>2. x - 1 \in I /\ <<x - 1, x>> \in R
    BY <1>1, <2>1
  <2> QED BY <2>2
<1>5. I = {}
  <2> HIDE DEF R, I
  <2> QED BY <1>2, <1>3, <1>4, WFMin, ZenonT(30)
<1> QED BY <1>5

----------------------------------------------------------------------------
(* What is reached from a module.                                          *)

\* e gives each module others; those that are reached from m are in every set that has
\* what e gives m and all that e gives its members.
Closed(e, S) == \A x \in S : e[x] \subseteq S
Reach(e, m) == {d \in Mod : \A S \in SUBSET Mod : e[m] \subseteq S /\ Closed(e, S) => d \in S}

\* They are such a set themselves.
LEMMA ReachClosed ==
  ASSUME NEW e \in [Mod -> SUBSET Mod], NEW m \in Mod
  PROVE  Reach(e, m) \subseteq Mod /\ e[m] \subseteq Reach(e, m) /\ Closed(e, Reach(e, m))
<1>1. Reach(e, m) \subseteq Mod /\ e[m] \subseteq Reach(e, m)
  BY DEF Reach
<1>2. ASSUME NEW x \in Reach(e, m), NEW d \in e[x] PROVE d \in Reach(e, m)
  <2>1. x \in Mod /\ d \in Mod
    BY <1>2 DEF Reach
  <2>2. ASSUME NEW S \in SUBSET Mod, e[m] \subseteq S, Closed(e, S) PROVE d \in S
    BY <1>2, <2>2 DEF Reach, Closed
  <2> QED BY <2>1, <2>2 DEF Reach
<1> QED BY <1>1, <1>2 DEF Closed

\* Any such set has them,
LEMMA ReachLeast ==
  ASSUME NEW e \in [Mod -> SUBSET Mod], NEW m \in Mod, NEW S, S \subseteq Mod, e[m] \subseteq S, Closed(e, S)
  PROVE  Reach(e, m) \subseteq S
BY DEF Reach

\* and they are what e gives m, and what is reached from there.
LEMMA ReachStep ==
  ASSUME NEW e \in [Mod -> SUBSET Mod], NEW m \in Mod
  PROVE  /\ Reach(e, m) = e[m] \cup UNION {Reach(e, d) : d \in e[m]}
         /\ \A d \in Reach(e, m) : Reach(e, d) \subseteq Reach(e, m)
<1> DEFINE T == e[m] \cup UNION {Reach(e, d) : d \in e[m]}
<1>1. ASSUME NEW d \in Reach(e, m) PROVE d \in Mod /\ Reach(e, d) \subseteq Reach(e, m)
  <2>1. d \in Mod /\ e[d] \subseteq Reach(e, m) /\ Reach(e, m) \subseteq Mod /\ Closed(e, Reach(e, m))
    BY <1>1, ReachClosed DEF Closed
  <2> QED BY <2>1, ReachLeast
<1>2. T \subseteq Reach(e, m)
  BY <1>1, ReachClosed
<1>3. Closed(e, T)
  <2>1. ASSUME NEW x \in T PROVE e[x] \subseteq T
    <3>1. CASE x \in e[m]
      BY <3>1, ReachClosed
    <3>2. CASE x \notin e[m]
      <4>1. PICK d \in e[m] : x \in Reach(e, d)
        BY <3>2
      <4>2. e[x] \subseteq Reach(e, d)
        BY <4>1, ReachClosed DEF Closed
      <4> QED BY <4>1, <4>2
    <3> QED BY <3>1, <3>2
  <2> QED BY <2>1 DEF Closed
<1>4. T \subseteq Mod /\ e[m] \subseteq T
  BY <1>2, ReachClosed
<1> HIDE DEF T
<1>5. Reach(e, m) \subseteq T
  BY <1>3, <1>4, ReachLeast
<1>6. T = e[m] \cup UNION {Reach(e, d) : d \in e[m]}
  BY DEF T
<1> QED BY <1>1, <1>2, <1>5, <1>6

\* Modules each of which has another one of them after it
Loops(e) == \E S \in SUBSET Mod : S # {} /\ \A m \in S : \E d \in S : d \in e[m]

\* Without a loop nothing is reached from itself.
LEMMA NoLoop ==
  ASSUME NEW e \in [Mod -> SUBSET Mod], ~Loops(e), NEW m \in Mod
  PROVE  m \notin Reach(e, m)
<1> DEFINE S == {x \in Mod : m \in Reach(e, x)}
<1> SUFFICES ASSUME m \in Reach(e, m) PROVE FALSE
  OBVIOUS
<1>1. ASSUME NEW x \in S PROVE \E d \in S : d \in e[x]
  <2>1. m \in e[x] \/ \E d \in e[x] : m \in Reach(e, d)
    BY ReachStep
  <2>2. e[x] \subseteq Mod
    OBVIOUS
  <2> QED BY <2>1, <2>2
<1>2. S \in SUBSET Mod /\ m \in S
  OBVIOUS
<1> HIDE DEF S
<1> QED BY <1>1, <1>2 DEF Loops

----------------------------------------------------------------------------
(* The graph.                                                              *)

Graphs == {u \in [Mod -> SUBSET Mod] : \A m \in Mod : \A d \in u[m] : d < m}

ProperGraph == uses \in Graphs /\ pre \in [Mod -> SUBSET Mod] /\ post \in [Mod -> SUBSET Mod]

\* What is reached through hard dependencies has smaller numbers.
LEMMA ReachBelow ==
  ASSUME NEW u \in Graphs, NEW m \in Mod
  PROVE  Reach(u, m) \subseteq 1..m-1
<1> DEFINE S == 1..m-1
<1>1. N \in Nat /\ u \in [Mod -> SUBSET Mod] /\ \A x \in Mod : \A d \in u[x] : d \in Mod /\ d < x
  BY BoundsType DEF Graphs
<1>2. S \subseteq Mod /\ u[m] \subseteq S /\ \A x \in S : u[x] \subseteq S
  BY <1>1 DEF Mod
<1> HIDE DEF S
<1>3. Reach(u, m) \subseteq S
  BY <1>1, <1>2, ReachLeast DEF Closed
<1> QED BY <1>3 DEF S

\* The recursion of Closure gives what is reached.
LEMMA ClosureIs ==
  ASSUME uses \in Graphs, NEW m \in Mod
  PROVE  Closure(m) = Reach(uses, m)
<1> DEFINE Is(f) == f = [n \in Mod |-> uses[n] \cup UNION {f[d] : d \in uses[n]}]
           r == [n \in Mod |-> Reach(uses, n)]
           c == CHOOSE f : Is(f)
<1>0. uses \in [Mod -> SUBSET Mod] /\ \A n \in Mod : \A d \in uses[n] : d \in Mod /\ d < n
  BY DEF Graphs
<1>1. Is(r)
  <2>1. ASSUME NEW n \in Mod PROVE r[n] = uses[n] \cup UNION {r[d] : d \in uses[n]}
    <3>1. r[n] = uses[n] \cup UNION {Reach(uses, d) : d \in uses[n]}
      BY <1>0, ReachStep
    <3>2. \A d \in uses[n] : r[d] = Reach(uses, d)
      BY <1>0
    <3> QED BY <3>1, <3>2
  <2>2. r = [n \in Mod |-> r[n]]
    OBVIOUS
  <2> HIDE DEF r
  <2> QED BY <2>1, <2>2
<1>2. Is(c)
  <2> HIDE DEF Is, r
  <2> QED BY <1>1, Zenon
<1>3. Closure(m) = c[m]
  BY Zenon DEF Closure
<1> HIDE DEF c
<1>4. \A n \in Mod : c[n] = uses[n] \cup UNION {c[d] : d \in uses[n]}
  BY <1>2
<1>5. \A n \in Mod : Reach(uses, n) = uses[n] \cup UNION {Reach(uses, d) : d \in uses[n]}
  BY <1>0, ReachStep
<1> HIDE DEF Is, r
<1> DEFINE S == {k \in 0..N : \A n \in Mod : n <= k => c[n] = Reach(uses, n)}
<1>6. N \in Nat /\ 0 \in S
  BY BoundsType DEF Mod
<1>7. ASSUME NEW k \in 1..N, k - 1 \in S PROVE k \in S
  <2>1. \A n \in Mod : n <= k - 1 => c[n] = Reach(uses, n)
    BY <1>7
  <2>2. k \in Mod
    BY DEF Mod
  <2>3. \A d \in uses[k] : c[d] = Reach(uses, d)
    <3>1. \A d \in uses[k] : d \in Mod /\ d <= k - 1
      BY <1>0, <2>2 DEF Mod
    <3> QED BY <2>1, <3>1
  <2>4. c[k] = Reach(uses, k)
    <3>1. {c[d] : d \in uses[k]} = {Reach(uses, d) : d \in uses[k]}
      BY <2>3, Zenon
    <3> QED BY <1>4, <1>5, <2>2, <3>1, Zenon
  <2>5. \A n \in Mod : n <= k => n = k \/ n <= k - 1
    BY DEF Mod
  <2> QED BY <2>1, <2>4, <2>5
<1>8. \A k \in 0..N : k \in S
  <2> HIDE DEF S
  <2> QED BY <1>6, <1>7, UpTo
<1>9. m \in 0..N /\ m <= m
  BY <1>6 DEF Mod
<1>10. c[m] = Reach(uses, m)
  BY <1>8, <1>9
<1> QED BY <1>3, <1>10

----------------------------------------------------------------------------
(* Sets in the order of their numbers.                                     *)

Below(S, m) == {x \in S : x < m}
Rank(S, m) == Cardinality(Below(S, m))

\* Sets of modules are finite.
LEMMA Finite ==
  ASSUME NEW S, S \subseteq Mod
  PROVE  IsFiniteSet(S) /\ Cardinality(S) \in Nat
<1>1. IsFiniteSet(Mod)
  BY BoundsType, FS_Interval DEF Mod
<1> QED BY <1>1, FS_Subset, FS_CardinalityType

\* The elements below a greater element are more,
LEMMA RankGrows ==
  ASSUME NEW S, S \subseteq Mod, NEW a \in S, NEW b \in S, a < b
  PROVE  Rank(S, a) + 1 <= Rank(S, b)
<1> DEFINE A == Below(S, a)
           B == Below(S, b)
<1>1. a \in Int /\ b \in Int /\ \A x \in S : x \in Int
  BY BoundsType DEF Mod
<1>2. A \cup {a} \subseteq B /\ a \notin A /\ A \subseteq Mod /\ B \subseteq Mod /\ A \cup {a} \subseteq Mod
  <2>1. \A x : (x \in A <=> x \in S /\ x < a) /\ (x \in B <=> x \in S /\ x < b)
    BY DEF Below
  <2> HIDE DEF A, B
  <2>2. a \in Mod /\ \A x \in S : x < a => x < b
    BY <1>1
  <2>3. ~(a < a)
    BY <1>1
  <2> QED BY <2>1, <2>2, <2>3
<1> HIDE DEF A, B
<1>3. Cardinality(A \cup {a}) = Cardinality(A) + 1
  BY <1>2, Finite, FS_AddElement
<1>4. Cardinality(A \cup {a}) <= Cardinality(B)
  BY <1>2, Finite, FS_Subset
<1> QED BY <1>3, <1>4 DEF Rank, A, B

\* all of them but the element itself.
LEMMA RankBound ==
  ASSUME NEW S, S \subseteq Mod, NEW a \in S
  PROVE  Rank(S, a) + 1 \in 1..Cardinality(S)
<1> DEFINE A == Below(S, a)
<1>1. a \in Int /\ \A x \in S : x \in Int
  BY BoundsType DEF Mod
<1>2. A \cup {a} \subseteq S /\ a \notin A /\ A \subseteq Mod
  <2>1. \A x : x \in A <=> x \in S /\ x < a
    BY DEF Below
  <2> HIDE DEF A
  <2>2. ~(a < a)
    BY <1>1
  <2> QED BY <2>1, <2>2
<1> HIDE DEF A
<1>3. Cardinality(A \cup {a}) = Cardinality(A) + 1
  BY <1>2, Finite, FS_AddElement
<1>4. Cardinality(A \cup {a}) <= Cardinality(S)
  BY <1>2, Finite, FS_Subset
<1>5. Cardinality(A) \in Nat /\ Cardinality(S) \in Nat
  BY <1>2, Finite
<1> QED BY <1>3, <1>4, <1>5 DEF Rank, A

\* Each rank is that of an element.
LEMMA RankMet ==
  ASSUME NEW S, S \subseteq Mod, NEW i \in 1..Cardinality(S)
  PROVE  \E a \in S : Rank(S, a) = i - 1
<1> DEFINE Size(k) == Cardinality(Below(S, k + 1))
           T == {k \in 0..N : \A j \in 1..Size(k) : \E a \in S : Rank(S, a) = j - 1}
<1>1. N \in Nat /\ \A x \in S : x \in 1..N /\ x \in Int
  BY BoundsType DEF Mod
<1>2. \A k \in 0..N : Below(S, k + 1) \subseteq Mod /\ Size(k) \in Nat
  BY Finite DEF Below
<1>3. 0 \in T
  <2>1. Below(S, 0 + 1) = {}
    BY <1>1 DEF Below
  <2>2. Size(0) = 0
    BY <2>1, FS_EmptySet
  <2> QED BY <1>1, <2>2
<1>4. ASSUME NEW k \in 1..N, k - 1 \in T PROVE k \in T
  <2>1. Below(S, (k - 1) + 1) = Below(S, k) /\ k - 1 \in 0..N /\ k \in 0..N
    BY <1>1
  <2>2. \A j \in 1..Rank(S, k) : \E a \in S : Rank(S, a) = j - 1
    BY <1>4, <2>1 DEF Rank
  <2>3. CASE k \in S
    <3>1. Below(S, k + 1) = Below(S, k) \cup {k} /\ k \notin Below(S, k) /\ Below(S, k) \subseteq Mod
      <4>1. \A x : (x \in Below(S, k) <=> x \in S /\ x < k) /\ (x \in Below(S, k + 1) <=> x \in S /\ x < k + 1)
        BY DEF Below
      <4>2. ~(k < k) /\ \A x \in S : x < k + 1 <=> x < k \/ x = k
        BY <1>1
      <4> QED BY <2>3, <4>1, <4>2
    <3>2. Size(k) = Rank(S, k) + 1 /\ Rank(S, k) \in Nat
      BY <3>1, Finite, FS_AddElement DEF Rank
    <3> HIDE DEF Size
    <3>3. \A j \in 1..Size(k) : j = Rank(S, k) + 1 \/ j \in 1..Rank(S, k)
      BY <3>2
    <3>4. (Rank(S, k) + 1) - 1 = Rank(S, k)
      BY <3>2
    <3> QED BY <2>1, <2>2, <2>3, <3>3, <3>4
  <2>4. CASE k \notin S
    <3>1. Below(S, k + 1) = Below(S, k)
      BY <1>1, <2>4 DEF Below
    <3>2. Size(k) = Rank(S, k)
      BY <3>1 DEF Rank
    <3> HIDE DEF Size
    <3> QED BY <2>1, <2>2, <3>2
  <2> QED BY <2>3, <2>4
<1>5. \A k \in 0..N : k \in T
  <2> HIDE DEF T
  <2> QED BY <1>1, <1>3, <1>4, UpTo
<1>6. Below(S, N + 1) = S
  BY <1>1 DEF Below
<1>7. Size(N) = Cardinality(S) /\ N \in 0..N
  BY <1>1, <1>6
<1> HIDE DEF Size
<1> QED BY <1>5, <1>7

\* A set of modules by increasing number: it has all of the set, and a smaller module earlier.
LEMMA OrderedIs ==
  ASSUME NEW S, S \subseteq Mod
  PROVE  LET o == Ordered(S)
         IN  /\ o \in Seq(Mod) /\ {o[i] : i \in 1..Len(o)} = S
             /\ \A i, j \in 1..Len(o) : o[j] < o[i] => j < i
<1> DEFINE n == Cardinality(S)
           o == Ordered(S)
<1>1. n \in Nat
  BY Finite
<1>2. o = [i \in 1..n |-> CHOOSE m \in S : Rank(S, m) = i - 1]
  BY Zenon DEF Ordered, Rank, Below
<1>3. ASSUME NEW i \in 1..n PROVE o[i] \in S /\ Rank(S, o[i]) = i - 1
  <2>1. \E m \in S : Rank(S, m) = i - 1
    BY RankMet
  <2>2. o[i] = CHOOSE m \in S : Rank(S, m) = i - 1
    BY <1>2
  <2> QED BY <2>1, <2>2
<1> HIDE DEF o
<1>4. o \in [1..n -> Mod]
  <2>1. \A i \in 1..n : o[i] \in Mod
    BY <1>3
  <2>2. o = [i \in 1..n |-> o[i]]
    BY <1>2
  <2> HIDE DEF n
  <2> QED BY <2>1, <2>2
<1>5. o \in Seq(Mod) /\ Len(o) = n
  BY <1>1, <1>4
<1>6. ASSUME NEW m \in S PROVE \E i \in 1..n : o[i] = m
  <2> DEFINE i == Rank(S, m) + 1
  <2>1. i \in 1..n /\ i - 1 = Rank(S, m)
    <3>1. i \in 1..n /\ Rank(S, m) \in Nat
      BY RankBound, Finite DEF Rank, Below
    <3> QED BY <3>1
  <2> HIDE DEF i, n
  <2>2. o[i] \in S /\ Rank(S, o[i]) = Rank(S, m)
    BY <1>3, <2>1
  <2>3. Rank(S, m) \in Nat /\ m \in Int /\ o[i] \in Int
    <3>1. Below(S, m) \subseteq Mod
      BY DEF Below
    <3>2. \A x \in S : x \in Int
      BY BoundsType DEF Mod
    <3> QED BY <2>2, <3>1, <3>2, Finite DEF Rank
  <2>4. ~(m < o[i]) /\ ~(o[i] < m)
    <3>1. m < o[i] => Rank(S, m) + 1 <= Rank(S, o[i])
      BY <2>2, RankGrows
    <3>2. o[i] < m => Rank(S, o[i]) + 1 <= Rank(S, m)
      BY <2>2, RankGrows
    <3> QED BY <2>2, <2>3, <3>1, <3>2
  <2> QED BY <2>1, <2>3, <2>4
<1>7. ASSUME NEW i \in 1..n, NEW j \in 1..n, o[j] < o[i] PROVE j < i
  <2>1. Rank(S, o[j]) + 1 <= Rank(S, o[i])
    BY <1>3, <1>7, RankGrows
  <2>2. Rank(S, o[j]) = j - 1 /\ Rank(S, o[i]) = i - 1
    BY <1>3
  <2> QED BY <1>1, <2>1, <2>2
<1> HIDE DEF n
<1>8. {o[i] : i \in 1..n} = S
  BY <1>3, <1>6
<1> QED BY <1>5, <1>7, <1>8 DEF o

----------------------------------------------------------------------------
(* The graph is one of those that ProbeListProof is about.                 *)

\* depmod's order of what a module needs is as it should be,
LEMMA DepsAre ==
  ASSUME ProperGraph, NEW m \in Mod
  PROVE  /\ deps[m] \in Seq(Mod) /\ PL!DepSet(m) = Reach(uses, m)
         /\ \A i, j \in 1..Len(deps[m]) : deps[m][j] < deps[m][i] => j < i
<1>1. uses \in Graphs /\ uses \in [Mod -> SUBSET Mod]
  BY DEF ProperGraph, Graphs
<1>2. deps[m] = Ordered(Reach(uses, m)) /\ Reach(uses, m) \subseteq Mod
  BY <1>1, ClosureIs, ReachClosed DEF deps
<1> DEFINE o == Ordered(Reach(uses, m))
<1>3. /\ o \in Seq(Mod) /\ {o[i] : i \in 1..Len(o)} = Reach(uses, m)
      /\ \A i, j \in 1..Len(o) : o[j] < o[i] => j < i
  BY <1>2, OrderedIs
<1> HIDE DEF o
<1>4. deps[m] = o
  BY <1>2 DEF o
<1> QED BY <1>3, <1>4 DEF PL!DepSet

\* and so are the soft dependencies.
LEMMA SoftdepsAre ==
  ASSUME ProperGraph, NEW m \in Mod
  PROVE  /\ [n \in Mod |-> Ordered(pre[n])][m] \in Seq(Mod) /\ PL!PreSet(m) = pre[m]
         /\ [n \in Mod |-> Ordered(post[n])][m] \in Seq(Mod) /\ PL!PostSet(m) = post[m]
<1>1. pre[m] \subseteq Mod /\ post[m] \subseteq Mod
  BY DEF ProperGraph
<1> DEFINE a == Ordered(pre[m])
           b == Ordered(post[m])
<1>2. a \in Seq(Mod) /\ {a[i] : i \in 1..Len(a)} = pre[m]
      /\ b \in Seq(Mod) /\ {b[i] : i \in 1..Len(b)} = post[m]
  BY <1>1, OrderedIs
<1> HIDE DEF a, b
<1>3. [n \in Mod |-> Ordered(pre[n])][m] = a /\ [n \in Mod |-> Ordered(post[n])][m] = b
  BY DEF a, b
<1> QED BY <1>2, <1>3 DEF PL!PreSet, PL!PostSet

\* The assumptions of ProbeListProof
LEMMA GraphIs ==
  ASSUME ProperGraph
  PROVE  PL!ModFinite /\ PL!UsesType /\ PL!SoftdepsType /\ PL!DepsClosed
<1>1. PL!ModFinite
  <2>1. IsFiniteSet(Mod)
    BY Finite
  <2> QED BY <2>1 DEF PL!ModFinite, PL!IsFiniteSet, IsFiniteSet
<1>2. PL!UsesType
  BY DEF ProperGraph, Graphs, PL!UsesType
<1>3. PL!SoftdepsType
  BY SoftdepsAre DEF PL!SoftdepsType
<1>4. ASSUME NEW m \in Mod
      PROVE  /\ deps[m] \in Seq(Mod)
             /\ PL!DepSet(m) = uses[m] \cup UNION {PL!DepSet(d) : d \in uses[m]}
             /\ \A i, j \in 1..Len(deps[m]) : deps[m][j] \in PL!DepSet(deps[m][i]) => j < i
  <2>1. uses \in Graphs /\ uses \in [Mod -> SUBSET Mod] /\ \A d \in uses[m] : d \in Mod
    BY DEF ProperGraph, Graphs
  <2>2. {PL!DepSet(d) : d \in uses[m]} = {Reach(uses, d) : d \in uses[m]}
    BY <2>1, DepsAre, Zenon
  <2>3. PL!DepSet(m) = uses[m] \cup UNION {PL!DepSet(d) : d \in uses[m]}
    <3>1. PL!DepSet(m) = Reach(uses, m)
      BY DepsAre
    <3>2. Reach(uses, m) = uses[m] \cup UNION {Reach(uses, d) : d \in uses[m]}
      BY <2>1, ReachStep
    <3> QED BY <2>2, <3>1, <3>2, Zenon
  <2>4. ASSUME NEW i \in 1..Len(deps[m]), NEW j \in 1..Len(deps[m]), deps[m][j] \in PL!DepSet(deps[m][i])
        PROVE  j < i
    <3>1. deps[m][i] \in Mod /\ deps[m][j] \in Mod
      BY DepsAre
    <3>2. deps[m][j] \in Reach(uses, deps[m][i])
      BY <2>4, <3>1, DepsAre
    <3>3. deps[m][j] \in 1..deps[m][i]-1
      BY <2>1, <3>1, <3>2, ReachBelow
    <3>4. deps[m][j] < deps[m][i]
      BY <3>1, <3>3 DEF Mod
    <3> QED BY <3>4, DepsAre
  <2> QED BY <2>3, <2>4, DepsAre
<1>5. PL!DepsClosed
  BY <1>4 DEF PL!DepsClosed
<1> QED BY <1>1, <1>2, <1>3, <1>5

----------------------------------------------------------------------------
(* A list of the graph, with the graph as a parameter: u, p and q are its  *)
(* hard dependencies and its soft ones before and after.                   *)

Edges(u, p, q) == [m \in Mod |-> u[m] \cup p[m] \cup q[m]]

NeededBy(u, p, q, m) == Reach(u, m) \cup p[m] \cup q[m]
Includes(u, p, q, S) == \A m \in S : NeededBy(u, p, q, m) \subseteq S
LeastOf(u, p, q, seed) == {m \in Mod : \A S \in SUBSET Mod : seed \subseteq S /\ Includes(u, p, q, S) => m \in S}

Elements(l) == {l[i] : i \in 1..Len(l)}
Earlier(l, i, d) == \E j \in 1..i-1 : l[j] = d

DepsEarlier(u, l) == \A i \in 1..Len(l) : \A d \in Reach(u, l[i]) : Earlier(l, i, d)

AllListed(u, p, q, m, ignore, l) ==
  (ignore => ~Loops(Edges(u, p, q))) =>
    Elements(l) = IF ignore THEN {m} \cup LeastOf(u, p, q, Reach(u, m)) ELSE LeastOf(u, p, q, {m})

PreEarlier(u, p, q, m, ignore, l) ==
  ~Loops(Edges(u, p, q)) =>
    \A i \in 1..Len(l) : l[i] # m \/ ~ignore => \A d \in p[l[i]] : Earlier(l, i, d)

ListGood(u, p, q, m, ignore, l) ==
  /\ l \in Seq(Mod)
  /\ DepsEarlier(u, l) /\ AllListed(u, p, q, m, ignore, l) /\ PreEarlier(u, p, q, m, ignore, l)

\* Dependencies of all kinds, and the least set that has seed and what its modules need
All == Edges(uses, pre, post)
Least(seed) == LeastOf(uses, pre, post, seed)

\* The graph's parts are sets of modules.
LEMMA AllIs ==
  ASSUME ProperGraph
  PROVE  /\ uses \in [Mod -> SUBSET Mod] /\ All \in [Mod -> SUBSET Mod]
         /\ \A m \in Mod : /\ pre[m] \subseteq Mod /\ post[m] \subseteq Mod
                           /\ All[m] = uses[m] \cup pre[m] \cup post[m]
<1>1. uses \in [Mod -> SUBSET Mod] /\ pre \in [Mod -> SUBSET Mod] /\ post \in [Mod -> SUBSET Mod]
  BY DEF ProperGraph, Graphs
<1> QED BY <1>1 DEF All, Edges

\* A set that is closed under all kinds of dependencies has what its modules need.
LEMMA ClosedIncludes ==
  ASSUME ProperGraph, NEW S, S \subseteq Mod, Closed(All, S)
  PROVE  Includes(uses, pre, post, S)
<1> SUFFICES ASSUME NEW m \in S PROVE NeededBy(uses, pre, post, m) \subseteq S
  BY DEF Includes
<1>1. All[m] = uses[m] \cup pre[m] \cup post[m] /\ All[m] \subseteq S
  BY AllIs DEF Closed
<1>2. Closed(uses, S)
  BY AllIs DEF Closed
<1>3. Reach(uses, m) \subseteq S
  BY <1>1, <1>2, AllIs, ReachLeast
<1> QED BY <1>1, <1>3 DEF NeededBy

\* The least set with a seed is one that ProbeListProof calls closed.
LEMMA LeastIs ==
  ASSUME ProperGraph, NEW seed, seed \subseteq Mod
  PROVE  Least(seed) \subseteq Mod /\ seed \subseteq Least(seed) /\ PL!Within(Least(seed))
<1> DEFINE L == Least(seed)
<1>1. L \subseteq Mod /\ seed \subseteq L
  BY DEF Least, LeastOf
<1>2. ASSUME NEW m \in L, NEW d \in NeededBy(uses, pre, post, m) PROVE d \in L
  <2>1. m \in Mod
    BY <1>1
  <2>2. d \in Mod
    BY <2>1, AllIs, ReachClosed DEF NeededBy
  <2>3. ASSUME NEW S \in SUBSET Mod, seed \subseteq S, Includes(uses, pre, post, S) PROVE d \in S
    <3>1. m \in S
      BY <2>3 DEF Least, LeastOf
    <3> QED BY <2>3, <3>1 DEF Includes
  <2> QED BY <2>2, <2>3 DEF Least, LeastOf
<1> HIDE DEF L
<1>3. ASSUME NEW m \in L PROVE PL!DepSet(m) \cup PL!PreSet(m) \cup PL!PostSet(m) \subseteq L
  <2>1. m \in Mod
    BY <1>1
  <2>2. PL!DepSet(m) = Reach(uses, m) /\ PL!PreSet(m) = pre[m] /\ PL!PostSet(m) = post[m]
    BY <2>1, DepsAre, SoftdepsAre
  <2> QED BY <1>2, <2>2 DEF NeededBy
<1>4. PL!Within(L)
  BY <1>1, <1>3 DEF PL!Within
<1> QED BY <1>1, <1>4 DEF L

\* Any such set has it.
LEMMA LeastLeast ==
  ASSUME NEW seed, NEW S, S \subseteq Mod, seed \subseteq S, Includes(uses, pre, post, S)
  PROVE  Least(seed) \subseteq S
BY DEF Least, LeastOf

\* Without a loop, dependencies of all kinds order the modules.
Reached == {e \in Mod \X Mod : e[2] \in Reach(All, e[1])}

\* "Is reached from" is then such an order as ProbeListProof asks for.
LEMMA ReachedOrders ==
  ASSUME ProperGraph, ~Loops(All)
  PROVE  PL!Order(Reached)
<1>0. \A a, b \in Mod : <<a, b>> \in Reached <=> b \in Reach(All, a)
  BY DEF Reached
<1>1. ASSUME NEW m \in Mod, NEW d \in PL!DepSet(m) \cup PL!PreSet(m) \cup PL!PostSet(m)
      PROVE  <<m, d>> \in Reached
  <2>1. d \in Reach(uses, m) \/ d \in pre[m] \/ d \in post[m]
    BY DepsAre, SoftdepsAre
  <2>2. Reach(All, m) \subseteq Mod /\ All[m] \subseteq Reach(All, m) /\ Closed(All, Reach(All, m))
    BY AllIs, ReachClosed
  <2>3. Closed(uses, Reach(All, m)) /\ uses[m] \subseteq Reach(All, m)
    BY <2>2, AllIs DEF Closed
  <2>4. Reach(uses, m) \subseteq Reach(All, m)
    BY <2>2, <2>3, AllIs, ReachLeast
  <2>5. d \in Reach(All, m) /\ d \in Mod
    BY <2>1, <2>2, <2>4, AllIs
  <2> QED BY <1>0, <2>5
<1>2. ASSUME NEW a \in Mod, NEW b \in Mod, NEW c \in Mod, <<a, b>> \in Reached, <<b, c>> \in Reached
      PROVE  <<a, c>> \in Reached
  BY <1>0, <1>2, AllIs, ReachStep
<1>3. ASSUME NEW a \in Mod PROVE <<a, a>> \notin Reached
  BY <1>0, AllIs, NoLoop
<1> QED BY <1>1, <1>2, <1>3 DEF PL!Order

\* In terms of the graph: what is kept in a list
LEMMA KeptIs ==
  ASSUME ProperGraph, NEW t, NEW W, NEW S, S \subseteq Mod, NEW R, PL!Kept(t, W, {}, S, R)
  PROVE  /\ t \in PL!ProbeState /\ t.list \in Seq(Mod)
         /\ Elements(t.list) \subseteq S /\ PL!Listed(t) = Elements(t.list)
         /\ DepsEarlier(uses, t.list)
         /\ PL!Order(R) => \A i \in 1..Len(t.list) : \A d \in pre[t.list[i]] : Earlier(t.list, i, d)
         /\ \A x \in Elements(t.list) :
              Reach(uses, x) \subseteq Elements(t.list) /\ pre[x] \cup post[x] \subseteq Elements(t.list) \cup W
<1> DEFINE l == t.list
<1>1. /\ t \in PL!ProbeState /\ PL!DepsBefore(l) /\ PL!Listed(t) \subseteq S
      /\ t.visited \subseteq PL!Listed(t) \cup W
      /\ \A x \in PL!Listed(t) : PL!PreSet(x) \cup PL!PostSet(x) \subseteq t.visited
      /\ PL!Order(R) => PL!PreBefore(l)
  BY DEF PL!Kept
<1>2. l \in Seq(Mod) /\ PL!Listed(t) = Elements(l)
  BY <1>1 DEF PL!ProbeState, PL!Listed, Elements
<1> HIDE DEF l
<1>3. \A i \in 1..Len(l) : l[i] \in Mod /\ l[i] \in Elements(l)
  BY <1>2 DEF Elements
<1>4. DepsEarlier(uses, l)
  <2>1. ASSUME NEW i \in 1..Len(l), NEW d \in Reach(uses, l[i]) PROVE Earlier(l, i, d)
    <3>1. d \in PL!DepSet(l[i])
      BY <1>3, <2>1, DepsAre
    <3> QED BY <1>1, <3>1 DEF PL!DepsBefore, PL!Preceded, Earlier, l
  <2> QED BY <2>1 DEF DepsEarlier
<1>5. ASSUME PL!Order(R), NEW i \in 1..Len(l), NEW d \in pre[l[i]] PROVE Earlier(l, i, d)
  <2>1. d \in PL!PreSet(l[i])
    BY <1>3, <1>5, SoftdepsAre
  <2> QED BY <1>1, <1>5, <2>1 DEF PL!PreBefore, PL!Preceded, Earlier, l
<1>6. ASSUME NEW x \in Elements(l)
      PROVE  Reach(uses, x) \subseteq Elements(l) /\ pre[x] \cup post[x] \subseteq Elements(l) \cup W
  <2>1. x \in Mod
    BY <1>1, <1>2
  <2>2. pre[x] \cup post[x] \subseteq Elements(l) \cup W
    BY <1>1, <1>2, <2>1, SoftdepsAre
  <2>3. ASSUME NEW d \in Reach(uses, x) PROVE d \in Elements(l)
    <3>1. PICK i \in 1..Len(l) : l[i] = x
      BY DEF Elements
    <3>2. PICK j \in 1..i-1 : l[j] = d
      BY <1>4, <2>3, <3>1 DEF DepsEarlier, Earlier
    <3>3. j \in 1..Len(l)
      BY <1>2, <3>1, <3>2
    <3> QED BY <3>2, <3>3 DEF Elements
  <2> QED BY <2>2, <2>3
<1> QED BY <1>1, <1>2, <1>4, <1>5, <1>6 DEF l

\* The list of a module,
LEMMA FullGood ==
  ASSUME ProperGraph, NEW m \in Mod
  PROVE  ListGood(uses, pre, post, m, FALSE, PL!ProbeListOf(m, FALSE).list)
<1> DEFINE t == PL!ProbeListOf(m, FALSE)
           l == t.list
           S == Least({m})
<1>1. S \subseteq Mod /\ m \in S /\ PL!Within(S)
  BY LeastIs
<1> HIDE DEF S
<1>2. PL!Kept(t, {}, {}, S, Reached) /\ m \in PL!Listed(t)
  BY <1>1, GraphIs, PL!FullList DEF PL!ModFinite, PL!UsesType, PL!SoftdepsType, PL!DepsClosed
<1> HIDE DEF t
<1>3. /\ l \in Seq(Mod) /\ Elements(l) \subseteq S /\ m \in Elements(l) /\ DepsEarlier(uses, l)
      /\ PL!Order(Reached) => \A i \in 1..Len(l) : \A d \in pre[l[i]] : Earlier(l, i, d)
      /\ \A x \in Elements(l) : Reach(uses, x) \cup pre[x] \cup post[x] \subseteq Elements(l)
  <2>1. /\ l \in Seq(Mod) /\ Elements(l) \subseteq S /\ PL!Listed(t) = Elements(l)
        /\ DepsEarlier(uses, l)
        /\ PL!Order(Reached) => \A i \in 1..Len(l) : \A d \in pre[l[i]] : Earlier(l, i, d)
        /\ \A x \in Elements(l) :
             Reach(uses, x) \subseteq Elements(l) /\ pre[x] \cup post[x] \subseteq Elements(l) \cup {}
    BY <1>1, <1>2, KeptIs, Zenon
  <2> HIDE DEF l
  <2>2. \A x \in Elements(l) : Reach(uses, x) \cup pre[x] \cup post[x] \subseteq Elements(l)
    BY <2>1
  <2> QED BY <1>2, <2>1, <2>2, Zenon
<1> HIDE DEF l
<1>4. Includes(uses, pre, post, Elements(l))
  BY <1>3 DEF Includes, NeededBy
<1>5. Least({m}) \subseteq Elements(l)
  <2>1. Elements(l) \subseteq Mod /\ {m} \subseteq Elements(l)
    BY <1>1, <1>3
  <2> QED BY <1>4, <2>1, LeastLeast
<1>6. Elements(l) = LeastOf(uses, pre, post, {m})
  BY <1>3, <1>5 DEF S, Least
<1>7. AllListed(uses, pre, post, m, FALSE, l)
  BY <1>6, Zenon DEF AllListed
<1>8. PreEarlier(uses, pre, post, m, FALSE, l)
  BY <1>3, ReachedOrders DEF PreEarlier, All
<1> QED BY <1>3, <1>7, <1>8 DEF ListGood, t, l

\* and the one of a module whose command is ignored: without its own soft dependencies.
LEMMA BareGood ==
  ASSUME ProperGraph, NEW m \in Mod
  PROVE  ListGood(uses, pre, post, m, TRUE, PL!ProbeListOf(m, TRUE).list)
<1> DEFINE t == PL!ProbeListOf(m, TRUE)
           l == t.list
           seed == Reach(uses, m)
           S == Least(seed)
<1>1. seed \subseteq Mod /\ S \subseteq Mod /\ seed \subseteq S /\ PL!Within(S) /\ PL!DepSet(m) = seed
  <2>1. seed \subseteq Mod
    BY AllIs, ReachClosed
  <2> HIDE DEF seed
  <2>2. PL!DepSet(m) = seed
    BY DepsAre DEF seed
  <2> QED BY <2>1, <2>2, LeastIs
<1> HIDE DEF S, seed
<1>2. PICK d \in PL!ProbeState :
        t = PL!Add(d, m, TRUE) /\ PL!Kept(d, {m}, {}, S, Reached) /\ PL!DepSet(m) \subseteq PL!Listed(d)
  BY <1>1, GraphIs, PL!BareList DEF PL!ModFinite, PL!UsesType, PL!SoftdepsType, PL!DepsClosed
<1> HIDE DEF t
<1> DEFINE k == d.list
           n == Len(k)
           D == Elements(k)
<1>3. /\ k \in Seq(Mod) /\ D \subseteq S /\ DepsEarlier(uses, k) /\ seed \subseteq D
      /\ PL!Order(Reached) => \A i \in 1..n : \A x \in pre[k[i]] : Earlier(k, i, x)
      /\ \A x \in D : Reach(uses, x) \subseteq D /\ pre[x] \cup post[x] \subseteq D \cup {m}
  <2>1. /\ k \in Seq(Mod) /\ D \subseteq S /\ PL!Listed(d) = D /\ DepsEarlier(uses, k)
        /\ PL!Order(Reached) => \A i \in 1..n : \A x \in pre[k[i]] : Earlier(k, i, x)
        /\ \A x \in D : Reach(uses, x) \subseteq D /\ pre[x] \cup post[x] \subseteq D \cup {m}
    BY <1>1, <1>2, KeptIs, Zenon
  <2>2. seed \subseteq D
    BY <1>1, <1>2, <2>1, Zenon
  <2> QED BY <2>1, <2>2, Zenon
<1>4. l = Append(k, m)
  <2>1. DOMAIN d = {"visited", "list", "ignorecmd"}
    BY DEF PL!ProbeState
  <2> QED BY <1>2, <2>1 DEF PL!Add
<1> HIDE DEF k, l
<1>5. n \in Nat /\ Len(l) = n + 1 /\ l[n + 1] = m /\ \A i \in 1..n : l[i] = k[i]
  BY <1>3, <1>4
<1>6. Elements(l) = D \cup {m}
  <2>1. \A i \in 1..Len(l) : i = n + 1 \/ i \in 1..n
    BY <1>5
  <2>2. n + 1 \in 1..Len(l) /\ \A i \in 1..n : i \in 1..Len(l)
    BY <1>5
  <2> HIDE DEF n
  <2>3. ASSUME NEW x \in Elements(l) PROVE x \in D \cup {m}
    BY <1>5, <2>1 DEF Elements, n
  <2>4. ASSUME NEW x \in D PROVE x \in Elements(l)
    BY <1>5, <2>2 DEF Elements, n
  <2>5. m \in Elements(l)
    BY <1>5, <2>2 DEF Elements
  <2> QED BY <2>3, <2>4, <2>5
<1> HIDE DEF D
<1>7. \A i \in 1..n : \A x : Earlier(k, i, x) => Earlier(l, i, x)
  BY <1>5 DEF Earlier
<1>8. \A x \in D : Earlier(l, n + 1, x)
  <2>1. \A j \in 1..n : j \in 1..(n + 1) - 1
    BY <1>5
  <2> QED BY <1>5, <2>1 DEF Earlier, D, Elements
<1>9. DepsEarlier(uses, l)
  <2> SUFFICES ASSUME NEW i \in 1..Len(l), NEW x \in Reach(uses, l[i]) PROVE Earlier(l, i, x)
    BY DEF DepsEarlier
  <2>1. CASE i \in 1..n
    BY <1>3, <1>5, <1>7, <2>1 DEF DepsEarlier
  <2>2. CASE i = n + 1
    BY <1>3, <1>5, <1>8, <2>2 DEF seed
  <2> QED BY <1>5, <2>1, <2>2
<1>10. AllListed(uses, pre, post, m, TRUE, l)
  <2> SUFFICES ASSUME ~Loops(All) PROVE Elements(l) = {m} \cup S
    BY Zenon DEF AllListed, All, Least, S, seed
  <2>1. m \notin S
    <3>1. Reach(All, m) \subseteq Mod /\ All[m] \subseteq Reach(All, m) /\ Closed(All, Reach(All, m))
      BY AllIs, ReachClosed
    <3>2. seed \subseteq Reach(All, m)
      <4>1. uses[m] \subseteq Reach(All, m) /\ Closed(uses, Reach(All, m))
        BY <3>1, AllIs DEF Closed
      <4> QED BY <3>1, <4>1, AllIs, ReachLeast DEF seed
    <3>3. S \subseteq Reach(All, m)
      BY <3>1, <3>2, ClosedIncludes, LeastLeast DEF S
    <3>4. m \notin Reach(All, m)
      BY AllIs, NoLoop
    <3> QED BY <3>3, <3>4
  <2>2. ASSUME NEW x \in D PROVE NeededBy(uses, pre, post, x) \subseteq D
    <3>1. PL!DepSet(x) \cup PL!PreSet(x) \cup PL!PostSet(x) \subseteq S /\ x \in Mod
      BY <1>1, <1>3 DEF PL!Within
    <3>2. pre[x] \cup post[x] \subseteq S
      BY <3>1, SoftdepsAre
    <3> QED BY <1>3, <2>1, <3>2 DEF NeededBy
  <2>3. S \subseteq D
    <3>1. D \subseteq Mod /\ Includes(uses, pre, post, D)
      BY <1>1, <1>3, <2>2 DEF Includes
    <3> QED BY <1>3, <3>1, LeastLeast DEF S
  <2> QED BY <1>3, <1>6, <2>3
<1>11. PreEarlier(uses, pre, post, m, TRUE, l)
  <2> SUFFICES ASSUME ~Loops(All), NEW i \in 1..Len(l), l[i] # m, NEW x \in pre[l[i]] PROVE Earlier(l, i, x)
    BY DEF PreEarlier, All
  <2>1. i \in 1..n
    BY <1>5
  <2> QED BY <1>3, <1>5, <1>7, <2>1, ReachedOrders
<1>12. l \in Seq(Mod)
  BY <1>3, <1>4
<1> QED BY <1>9, <1>10, <1>11, <1>12 DEF ListGood, t, l

\* Each list that is built is good.
LEMMA BuiltGood ==
  ASSUME ProperGraph, NEW m \in Mod, NEW ignore \in BOOLEAN
  PROVE  ListGood(uses, pre, post, m, ignore, P!ProbeListOf(m, ignore).list)
<1>1. CASE ignore = TRUE
  BY <1>1, BareGood, SameList
<1>2. CASE ignore = FALSE
  BY <1>2, FullGood, SameList
<1> QED BY <1>1, <1>2

----------------------------------------------------------------------------
(* The theorems.                                                           *)

IInv ==
  /\ ProperGraph
  /\ \/ top = 0 /\ built = <<>>
     \/ top \in Mod /\ ignorecommand \in BOOLEAN /\ ListGood(uses, pre, post, top, ignorecommand, built)

\* The graph stays as it is, and the list that was built last is good.
THEOREM OrderInvariant == Spec => []IInv
<1>1. Init => IInv
  <2> SUFFICES ASSUME Init PROVE ProperGraph
    BY DEF Init, IInv
  <2>1. uses \in {u \in [Mod -> SUBSET Mod] : \A m \in Mod : \A d \in u[m] : d < m}
    BY DEF Init
  <2>2. PICK softdep \in [1..MaxSoftdeps -> Softdeps \cup {<<"none", 0, 0>>}] :
          /\ pre = [m \in Mod |-> {d \in Mod : \E i \in 1..MaxSoftdeps : softdep[i] = <<"pre", m, d>>}]
          /\ post = [m \in Mod |-> {d \in Mod : \E i \in 1..MaxSoftdeps : softdep[i] = <<"post", m, d>>}]
    BY DEF Init
  <2>3. pre \in [Mod -> SUBSET Mod] /\ post \in [Mod -> SUBSET Mod]
    BY <2>2
  <2> QED BY <2>1, <2>3 DEF ProperGraph, Graphs
<1>2. IInv /\ [Next]_vars => IInv'
  <2> SUFFICES ASSUME IInv, [Next]_vars PROVE IInv'
    OBVIOUS
  <2>1. CASE UNCHANGED vars
    BY <2>1 DEF vars, graph, IInv, ProperGraph
  <2>2. CASE Next
    <3>1. PICK m \in Mod, ignore \in BOOLEAN : Probe(m, ignore)
      BY <2>2 DEF Next
    <3>2. /\ top' = m /\ ignorecommand' = ignore /\ built' = P!ProbeListOf(m, ignore).list
          /\ uses' = uses /\ pre' = pre /\ post' = post
      BY <3>1 DEF Probe, graph
    <3>3. ListGood(uses, pre, post, m, ignore, P!ProbeListOf(m, ignore).list)
      BY BuiltGood DEF IInv
    <3> QED BY <3>2, <3>3 DEF IInv, ProperGraph
  <2> QED BY <2>1, <2>2
<1> QED BY <1>1, <1>2, PTL DEF Spec

\* Acyclic says that there is no loop.
LEMMA AcyclicIs == ASSUME ProperGraph PROVE Acyclic <=> ~Loops(All)
<1>1. \A m \in Mod, d \in Mod : d \in All[m] <=> d \in uses[m] \cup pre[m] \cup post[m]
  BY AllIs
<1> QED BY <1>1 DEF Acyclic, Loops

\* A set of modules has what each of them needs, said in both ways.
LEMMA NeedsAre ==
  ASSUME ProperGraph, NEW S, S \subseteq Mod
  PROVE  (\A m \in S : Needs(m) \subseteq S) <=> Includes(uses, pre, post, S)
<1>1. ASSUME NEW m \in S PROVE Needs(m) = NeededBy(uses, pre, post, m)
  BY ClosureIs DEF Needs, NeededBy, ProperGraph
<1> QED BY <1>1 DEF Includes

\* Every module of the list that was built last comes after all that it needs,
\* hard dependencies of hard ones included: in any graph, in which soft
\* dependencies may make loops (__kmod_module_get_probe_list).
THEOREM DepsComeFirst == Spec => []DepsFirst
<1>1. IInv => DepsFirst
  <2> SUFFICES ASSUME IInv, NEW i \in 1..Len(built), NEW d \in Closure(built[i])
               PROVE  \E j \in 1..i-1 : built[j] = d
    BY DEF DepsFirst
  <2>1. ProperGraph /\ built \in Seq(Mod) /\ DepsEarlier(uses, built)
    BY DEF IInv, ListGood
  <2>2. built[i] \in Mod
    BY <2>1
  <2>3. d \in Reach(uses, built[i])
    BY <2>1, <2>2, ClosureIs DEF ProperGraph
  <2> QED BY <2>1, <2>3 DEF DepsEarlier, Earlier
<1> QED BY <1>1, OrderInvariant, PTL

\* The list has all that is reached from the module, and nothing else.
THEOREM ListsAreComplete == Spec => []Complete
<1>1. IInv => Complete
  <2> SUFFICES ASSUME IInv, top # 0, ignorecommand => Acyclic PROVE Complete
    BY DEF Complete
  <2> DEFINE within(S) == \A m \in S : Needs(m) \subseteq S
             least(seed) == {m \in Mod : \A S \in SUBSET Mod : seed \subseteq S /\ within(S) => m \in S}
  <2>1. /\ ProperGraph /\ top \in Mod /\ ignorecommand \in BOOLEAN
        /\ AllListed(uses, pre, post, top, ignorecommand, built)
    BY DEF IInv, ListGood
  <2>2. \A S \in SUBSET Mod : within(S) <=> Includes(uses, pre, post, S)
    BY <2>1, NeedsAre
  <2> HIDE DEF within
  <2>3. \A seed : least(seed) = LeastOf(uses, pre, post, seed)
    BY <2>2 DEF LeastOf
  <2>4. ignorecommand => ~Loops(Edges(uses, pre, post))
    BY <2>1, AcyclicIs DEF All
  <2>5. Closure(top) = Reach(uses, top)
    BY <2>1, ClosureIs DEF ProperGraph
  <2> HIDE DEF least
  <2>6. Elements(built) = IF ignorecommand THEN {top} \cup least(Closure(top)) ELSE least({top})
    BY <2>1, <2>3, <2>4, <2>5 DEF AllListed
  <2>7. Listed = IF ignorecommand THEN {top} \cup least(Closure(top)) ELSE least({top})
    BY <2>6, Zenon DEF Elements, Listed
  <2> QED BY <2>7, Zenon DEF Complete, within, least
<1> QED BY <1>1, OrderInvariant, PTL

\* Without a loop, a module comes after its soft dependencies of before, wherever
\* it is in the list.
THEOREM PreDepsComeFirst == Spec => []PreFirst
<1>1. IInv => PreFirst
  <2> SUFFICES ASSUME IInv, Acyclic, NEW i \in 1..Len(built), built[i] # top \/ ~ignorecommand,
                      NEW d \in pre[built[i]]
               PROVE  \E j \in 1..i-1 : built[j] = d
    BY DEF PreFirst
  <2>1. built # <<>>
    OBVIOUS
  <2>2. ProperGraph /\ PreEarlier(uses, pre, post, top, ignorecommand, built)
    BY <2>1 DEF IInv, ListGood
  <2>3. ~Loops(Edges(uses, pre, post))
    BY <2>2, AcyclicIs DEF All
  <2> QED BY <2>2, <2>3 DEF PreEarlier, Earlier
<1> QED BY <1>1, OrderInvariant, PTL
=============================================================================
