-------------------------- MODULE DepmodSearchProof --------------------------
(***************************************************************************)
(* depmod before it sorts, for any files, configurations, symbols and      *)
(* contents of modules.order, and whatever the order of readdir.           *)
(***************************************************************************)
EXTENDS DepmodSearch, SequenceTheorems, FiniteSetTheorems, WellFoundedInduction, TLAPS

\* Arrays that grow by any step
Arrays == [elements : Seq(Module), total : Nat, step : Nat \ {0}]
Phases == {"symbols", "list", "parse", "search", "arguments", "array", "sort", "load", "depend",
           "output", "failed", "success", "failure", "aborted"}

\* The phases before the array is built, and those in which it is complete
Searching == {"symbols", "list", "parse", "search", "arguments"}
Complete == {"sort", "load", "depend", "output"}

\* What the variables hold: modules that may be there, and in the table under their names
Types ==
  /\ conf \in Configurations /\ disk \in Disks /\ args \in Arguments /\ order \in Orders
  /\ modules \in Arrays /\ alloc \subseteq Module /\ kmod \subseteq Module
  /\ i \in Nat \ {0} /\ pc \in Phases /\ nomem \in BOOLEAN
  /\ pc = "search" => unread \subseteq disk \ alloc
  /\ \A n \in DOMAIN modules_by_name : modules_by_name[n] \in Candidate /\ modules_by_name[n].name = n

\* The table of paths has the modules below the directory by their paths.
Tables ==
  pc # "aborted" =>
    /\ \A r \in DOMAIN modules_by_uncrelpath :
         LET m == modules_by_uncrelpath[r] IN m \in Named /\ InTree(m) /\ Rel(m) = r
    /\ \A m \in Named : InTree(m) => Rel(m) \in DOMAIN modules_by_uncrelpath

Distinct(s) == \A k, l \in 1..Len(s) : s[k] = s[l] => k = l

\* The modules whose symbols have been read
Done == {modules.elements[k] : k \in 1..i-1}

\* What is allocated and in the array, and who has a reference of its kmod_module
Held ==
  /\ pc \in Searching => modules = A!ArrayInit(Step) /\ ~nomem
  /\ pc \in {"symbols", "list", "parse"} => alloc = {}
  /\ pc \in Searching => alloc = Named /\ kmod = Named
  /\ pc = "array" => Elements \subseteq Named /\ Distinct(modules.elements) /\ alloc = Named /\ kmod = Named
  /\ pc \in Complete => Elements = Named /\ Distinct(modules.elements) /\ alloc = Named
  /\ pc = "sort" => kmod = Named /\ i = 1
  /\ pc = "array" => i = 1
  /\ pc = "load" => i <= Len(modules.elements) + 1 /\ kmod = Named \ Done
  /\ pc \in {"depend", "output"} => kmod = {}
  /\ pc = "failed" => nomem \/ Elements = {}
  /\ Released

\* The inductive invariant of the search, the array and the references
IInv == Types /\ Tables /\ Held

----------------------------------------------------------------------------
(* Tables and arrays.                                                      *)

\* Everything that depmod may come across is a module.
LEMMA Candidates == Candidate \subseteq Module
<1>1. ASSUME NEW a \in Arguments, NEW k \in DOMAIN a PROVE a[k] \in Module
  <2>1. a \in Seq(Module) /\ k \in 1..Len(a)
    BY FoundTypes, LenProperties
  <2> QED BY <2>1
<1> QED BY <1>1, FoundTypes DEF Candidate

\* What is in the table of names is named so.
LEMMA NamedByName ==
  ASSUME Types
  PROVE  /\ Named \subseteq Candidate /\ Named \subseteq Module
         /\ \A m \in Named : m.name \in DOMAIN modules_by_name /\ modules_by_name[m.name] = m
BY Candidates DEF Types, Named

\* Two elements put behind a sequence
LEMMA TwoMore ==
  ASSUME NEW S, NEW s \in Seq(S), NEW x \in S, NEW y \in S
  PROVE  LET t == s \o <<x, y>>
         IN  t \in Seq(S) /\ Len(t) = Len(s) + 2 /\ t[Len(t)] = y
OBVIOUS

\* The last piece of a path is the name.
LEMMA RelLast ==
  ASSUME NEW m \in Module
  PROVE  Rel(m)[Len(Rel(m))] = m.name
<1> DEFINE S == STRING \cup {"/", m.name}
<1>1. m.dir \in Seq(STRING)
  BY DEF Module
<1>2. Len(m.dir) \in Nat /\ \A k \in 1..Len(m.dir) : m.dir[k] \in S
  BY <1>1
<1>3. m.dir \in Seq(S) /\ "/" \in S /\ m.name \in S
  BY <1>1, <1>2
<1> HIDE DEF S
<1> QED BY <1>3, TwoMore DEF Rel

\* Two modules with one path have one name, as their file names end alike.
LEMMA RelName ==
  ASSUME NEW m \in Module, NEW n \in Module, Rel(m) = Rel(n)
  PROVE  m.name = n.name
BY RelLast

\* Two modules of the table have different paths.
LEMMA RelOnly ==
  ASSUME Types, NEW m \in Named, NEW n \in Named, Rel(m) = Rel(n)
  PROVE  m = n
<1>1. m.name = n.name
  BY NamedByName, RelName
<1> QED BY <1>1, NamedByName

\* array_append
LEMMA Appends ==
  ASSUME NEW a \in Arrays, NEW m \in Module
  PROVE  LET b == A!ArrayAppend(a, m)
         IN  /\ b \in Arrays /\ b.elements = Append(a.elements, m)
             /\ Len(a.elements) \in Nat /\ Len(b.elements) = Len(a.elements) + 1
             /\ \A k \in 1..Len(a.elements) : b.elements[k] = a.elements[k] /\ a.elements[k] \in Module
             /\ b.elements[Len(a.elements) + 1] = m
<1> DEFINE s == Append(a.elements, m)
           n == IF A!Full(a) THEN a.total + a.step ELSE a.total
           b == A!ArrayAppend(a, m)
<1>1. a.elements \in Seq(Module) /\ a.total \in Nat /\ a.step \in Nat \ {0}
  BY DEF Arrays
<1>2. s \in Seq(Module)
  BY <1>1, AppendProperties
<1>3. n \in Nat
  BY <1>1
<1>4. b = [a EXCEPT !.elements = s, !.total = n]
  BY DEF A!ArrayAppend
<1> HIDE DEF s, n, b
<1>5. b \in Arrays /\ b.elements = s
  BY <1>2, <1>3, <1>4 DEF Arrays
<1>6. /\ Len(a.elements) \in Nat /\ Len(s) = Len(a.elements) + 1
      /\ \A k \in 1..Len(a.elements) : s[k] = a.elements[k] /\ a.elements[k] \in Module
      /\ s[Len(a.elements) + 1] = m
  BY <1>1, AppendProperties, LenProperties, ElementOfSeq DEF s
<1> QED BY <1>5, <1>6 DEF s, b

\* The elements of an array
LEMMA ElementsAre ==
  ASSUME modules \in Arrays
  PROVE  /\ modules.elements \in Seq(Module) /\ Len(modules.elements) \in Nat
         /\ A!Count(modules) = Len(modules.elements)
         /\ Elements \subseteq Module
         /\ Elements = {modules.elements[k] : k \in 1..Len(modules.elements)}
<1>1. modules.elements \in Seq(Module) /\ A!Count(modules) = Len(modules.elements)
  BY DEF Arrays, A!Count
<1> QED BY <1>1, ElementOfSeq, LenProperties DEF Elements

\* SetToSeqs: every element of a finite set is once in such a sequence.
LEMMA Permuted ==
  ASSUME NEW S, IsFiniteSet(S), NEW s \in SetToSeqs(S)
  PROVE  /\ s \in Seq(S) /\ DOMAIN s = 1..Len(s) /\ Len(s) \in Nat
         /\ S = {s[k] : k \in 1..Len(s)} /\ Distinct(s)
<1> DEFINE n == Cardinality(S)
<1>1. n \in Nat
  BY FS_CardinalityType
<1>2. s \in [1..n -> S] /\ \A k, l \in 1..n : k # l => s[k] # s[l]
  BY DEF SetToSeqs
<1>3. s \in Injection(1..n, S)
  BY <1>2 DEF Injection, IsInjective
<1>4. IsFiniteSet(1..n) /\ Cardinality(1..n) = n
  BY <1>1, FS_Interval, SMTT(30)
<1>5. s \in Surjection(1..n, S)
  BY <1>3, <1>4, FS_Injection
<1>6. S = {s[k] : k \in 1..n}
  BY <1>2, <1>5 DEF Surjection
<1>7. s \in Seq(S) /\ Len(s) = n /\ DOMAIN s = 1..n
  BY <1>1, <1>2
<1> QED BY <1>1, <1>2, <1>6, <1>7 DEF Distinct

\* Elements of a sequence are finitely many.
LEMMA FinitelyMany ==
  ASSUME NEW T, NEW s \in Seq(T)
  PROVE  IsFiniteSet({s[k] : k \in 1..Len(s)})
<1> DEFINE S == {s[k] : k \in 1..Len(s)}
           f == [k \in 1..Len(s) |-> s[k]]
<1>1. Len(s) \in Nat
  OBVIOUS
<1>2. IsFiniteSet(1..Len(s))
  BY <1>1, FS_Interval, SMTT(30)
<1>3. f \in Surjection(1..Len(s), S)
  BY DEF Surjection
<1> QED BY <1>2, <1>3, FS_Surjection

----------------------------------------------------------------------------
(* Numbers.                                                                *)

\* The least of some numbers
LEMMA Least ==
  ASSUME NEW I, I \subseteq Nat, I # {}
  PROVE  Min(I) \in I /\ \A j \in I : Min(I) <= j
<1> DEFINE R == OpToRel(<, Nat)
<1>1. \A x, y \in Nat : x < y => <<x, y>> \in R
  BY DEF OpToRel
<1>2. IsWellFoundedOn(R, Nat)
  BY NatLessThanWellFounded, Zenon
<1> HIDE DEF R
<1>3. PICK x \in I : \A j \in I : ~ (<<j, x>> \in R)
  BY <1>2, WFMin, ZenonT(30)
<1>4. ASSUME NEW j \in I PROVE x <= j
  <2>1. x \in Nat /\ j \in Nat /\ (j < x => <<j, x>> \in R)
    BY <1>1
  <2> QED BY <1>3, <2>1
<1> QED BY <1>4 DEF Min

\* A set of numbers up to n has a greatest,
LEMMA Greatest ==
  ASSUME NEW n \in Nat, NEW S \in SUBSET (0..n), S # {}
  PROVE  Max(S) \in S /\ \A y \in S : y <= Max(S)
<1> DEFINE T == {k \in Nat : n - k \in S}
<1>1. PICK x \in S : TRUE
  OBVIOUS
<1>2. n - x \in T
  BY <1>1
<1>3. T \subseteq Nat /\ T # {}
  BY <1>2
<1>4. PICK k \in T : \A l \in T : k <= l
  <2> HIDE DEF T
  <2> QED BY <1>3, Least
<1>5. n - k \in S /\ k \in Nat
  BY <1>4
<1>6. \A y \in S : n - y \in T
  OBVIOUS
<1>7. \A y \in S : n - k >= y
  BY <1>4, <1>5, <1>6
<1>8. \E z \in S : \A y \in S : z >= y
  BY <1>5, <1>7
<1>9. Max(S) \in S /\ \A y \in S : Max(S) >= y
  <2> HIDE <1>4, <1>5
  <2> QED BY <1>8, Zenon DEF Max
<1> QED BY <1>9

\* Induction up to n
LEMMA UpTo ==
  ASSUME NEW n \in Nat, NEW S, 0 \in S, \A k \in 1..n : k - 1 \in S => k \in S
  PROVE  \A k \in 0..n : k \in S
<1> DEFINE I == {k \in 0..n : k \notin S}
<1> SUFFICES ASSUME I # {} PROVE FALSE
  OBVIOUS
<1>1. I \subseteq Nat
  OBVIOUS
<1> DEFINE k == Min(I)
<1>2. k \in I /\ \A j \in I : k <= j
  <2> HIDE DEF I
  <2> QED BY <1>1, Least
<1> HIDE DEF k
<1>3. k \in 0..n /\ k \notin S
  BY <1>2
<1>4. k # 0
  BY <1>3
<1>5. k \in 1..n /\ k - 1 \in 0..n
  BY <1>3, <1>4
<1>6. k - 1 \notin S
  BY <1>3, <1>5
<1>7. k - 1 \in I
  BY <1>5, <1>6
<1>8. k <= k - 1
  BY <1>2, <1>7
<1> QED BY <1>3, <1>8

----------------------------------------------------------------------------
(* Folds.                                                                  *)

\* One more element in a set of the first numbers, and the greatest of it
LEMMA MaxLast ==
  ASSUME NEW k \in Nat, NEW s \in SUBSET (1..k+1), k + 1 \in s
  PROVE  Max(s) = k + 1 /\ s \ {Max(s)} \in SUBSET (1..k)
<1>1. s \in SUBSET (0..k+1) /\ k + 1 \in Nat
  OBVIOUS
<1>2. Max(s) \in s /\ \A y \in s : y <= Max(s)
  BY <1>1, Greatest
<1> DEFINE x == Max(s)
<1>3. x \in 1..k+1 /\ k + 1 <= x
  BY <1>2
<1> HIDE DEF x
<1>4. x = k + 1 /\ s \ {x} \in SUBSET (1..k)
  BY <1>3
<1> QED BY <1>4 DEF x

\* The recursion of a fold over 1..n with values in D has a solution.
Solves(f, k, base, G) ==
  f = [s \in SUBSET (1..k) |-> IF s = {} THEN base ELSE G[Max(s)][f[s \ {Max(s)}]]]

\* A fold over a sequence is well defined: its recursion has a solution.
LEMMA FoldExists ==
  ASSUME NEW D, NEW n \in Nat, NEW base \in D, NEW G \in [1..n -> [D -> D]]
  PROVE  \E f \in [SUBSET (1..n) -> D] : Solves(f, n, base, G)
<1> DEFINE S == {k \in 0..n : \E f \in [SUBSET (1..k) -> D] : Solves(f, k, base, G)}
<1>1. 0 \in S
  <2> DEFINE f == [s \in SUBSET (1..0) |-> base]
  <2>1. \A s \in SUBSET (1..0) : s = {}
    OBVIOUS
  <2>2. f \in [SUBSET (1..0) -> D]
    OBVIOUS
  <2>3. Solves(f, 0, base, G)
    BY <2>1 DEF Solves
  <2> QED BY <2>2, <2>3
<1>2. ASSUME NEW j \in 1..n, j - 1 \in S PROVE j \in S
  <2> DEFINE k == j - 1
  <2>1. k \in 0..n /\ j = k + 1 /\ k \in Nat
    OBVIOUS
  <2>2. PICK f \in [SUBSET (1..k) -> D] : Solves(f, k, base, G)
    BY <1>2
  <2> HIDE DEF k, S
  <2> DEFINE g == [s \in SUBSET (1..j) |-> IF j \in s THEN G[j][f[s \ {j}]] ELSE f[s]]
  <2>3. \A s \in SUBSET (1..j) : /\ j \in s => Max(s) = j /\ s # {}
                                 /\ s \ {j} \in SUBSET (1..k)
                                 /\ j \notin s => s \in SUBSET (1..k)
    BY <2>1, MaxLast
  <2>4. \A s \in SUBSET (1..k) : s \in SUBSET (1..j) /\ j \notin s
    BY <2>1
  <2>5. g \in [SUBSET (1..j) -> D]
    <3>1. ASSUME NEW s \in SUBSET (1..j) PROVE (IF j \in s THEN G[j][f[s \ {j}]] ELSE f[s]) \in D
      <4>1. j \in s => f[s \ {j}] \in D /\ G[j] \in [D -> D]
        BY <2>2, <2>3
      <4>2. j \notin s => f[s] \in D
        BY <2>2, <2>3
      <4> QED BY <4>1, <4>2
    <3> QED BY <3>1
  <2>6. \A s \in SUBSET (1..k) : g[s] = f[s]
    BY <2>4
  <2>7. ASSUME NEW s \in SUBSET (1..j)
        PROVE  g[s] = IF s = {} THEN base ELSE G[Max(s)][g[s \ {Max(s)}]]
    <3>1. CASE j \in s
      <4>1. g[s] = G[j][f[s \ {j}]]
        BY <3>1
      <4>2. g[s \ {j}] = f[s \ {j}]
        BY <2>3, <2>6
      <4> HIDE DEF g
      <4> QED BY <2>3, <3>1, <4>1, <4>2
    <3>2. CASE j \notin s
      <4>1. s \in SUBSET (1..k) /\ g[s] = f[s]
        BY <2>3, <3>2
      <4>2. f[s] = IF s = {} THEN base ELSE G[Max(s)][f[s \ {Max(s)}]]
        BY <2>2, <4>1 DEF Solves
      <4>3. s \ {Max(s)} \in SUBSET (1..k)
        BY <4>1
      <4>4. g[s \ {Max(s)}] = f[s \ {Max(s)}]
        BY <2>6, <4>3
      <4> HIDE DEF g
      <4> QED BY <4>1, <4>2, <4>4
    <3> QED BY <3>1, <3>2
  <2>8. g = [s \in SUBSET (1..j) |-> g[s]]
    OBVIOUS
  <2>9. Solves(g, j, base, G)
    <3> DEFINE e(s) == IF s = {} THEN base ELSE G[Max(s)][g[s \ {Max(s)}]]
    <3>1. \A s \in SUBSET (1..j) : g[s] = e(s)
      BY <2>7
    <3>2. [s \in SUBSET (1..j) |-> g[s]] = [s \in SUBSET (1..j) |-> e(s)]
      <4> HIDE DEF g, e
      <4> QED BY <3>1
    <3>3. g = [s \in SUBSET (1..j) |-> e(s)]
      BY <2>8, <3>2
    <3> HIDE DEF g
    <3> QED BY <3>3, Zenon DEF Solves
  <2>10. j \in 0..n
    OBVIOUS
  <2> HIDE DEF g
  <2> QED BY <2>5, <2>9, <2>10, Zenon DEF S
<1> HIDE DEF S
<1>3. \A k \in 0..n : k \in S
  BY <1>1, <1>2, UpTo
<1>4. n \in S
  BY <1>3
<1> QED BY <1>4 DEF S

\* A function on sets of numbers with the steps of a loop on the first ones
Follows(h, D, n, base, G) ==
  h[{}] = base /\ \A k \in 1..n : h[1..k-1] \in D => h[1..k] = G[k][h[1..k-1]]

\* The loop from base ends with a value.
Loops(D, n, base, G, end) ==
  \E r \in [0..n -> D] : r[0] = base /\ r[n] = end /\ \A k \in 1..n : r[k] = G[k][r[k-1]]

\* It has the values of the loop on them.
LEMMA FoldSteps ==
  ASSUME NEW D, NEW n \in Nat, NEW base \in D, NEW G \in [1..n -> [D -> D]], NEW h, Follows(h, D, n, base, G)
  PROVE  Loops(D, n, base, G, h[1..n])
<1>0. h[{}] = base /\ \A k \in 1..n : h[1..k-1] \in D => h[1..k] = G[k][h[1..k-1]]
  BY DEF Follows
<1> DEFINE S == {k \in 0..n : h[1..k] \in D}
           r == [k \in 0..n |-> h[1..k]]
<1>1. h[1..0] = base
  <2>1. 1..0 = {}
    OBVIOUS
  <2> QED BY <1>0, <2>1
<1>2. 0 \in S
  BY <1>1
<1>3. ASSUME NEW k \in 1..n, k - 1 \in S PROVE k \in S
  BY <1>0, <1>3
<1>4. \A k \in 0..n : k \in S
  <2> HIDE DEF S
  <2> QED BY <1>2, <1>3, UpTo
<1>5. \A k \in 0..n : h[1..k] \in D
  BY <1>4
<1>6. \A k \in 1..n : k - 1 \in 0..n /\ k \in 0..n
  OBVIOUS
<1>7. r \in [0..n -> D] /\ r[0] = base /\ r[n] = h[1..n]
  BY <1>1, <1>5
<1>8. \A k \in 1..n : r[k] = G[k][r[k-1]]
  BY <1>0, <1>5, <1>6
<1> QED BY <1>7, <1>8 DEF Loops

\* The greatest of the first numbers
LEMMA MaxOf ==
  ASSUME NEW n \in Nat
  PROVE  /\ \A k \in 1..n : 1..k # {} /\ Max(1..k) = k /\ (1..k) \ {k} = 1..k-1 /\ 1..k \in SUBSET (1..n)
         /\ \A s \in SUBSET (1..n) : s # {} => Max(s) \in 1..n /\ s \ {Max(s)} \in SUBSET (1..n)
<1>1. ASSUME NEW k \in 1..n
      PROVE  1..k # {} /\ Max(1..k) = k /\ (1..k) \ {k} = 1..k-1 /\ 1..k \in SUBSET (1..n)
  <2>1. k - 1 \in Nat /\ 1..k \in SUBSET (1..(k-1)+1) /\ (k-1)+1 \in 1..k /\ k = (k-1)+1
    OBVIOUS
  <2>2. Max(1..k) = k
    BY <2>1, MaxLast
  <2> QED BY <2>2
<1>2. ASSUME NEW s \in SUBSET (1..n), s # {} PROVE Max(s) \in 1..n /\ s \ {Max(s)} \in SUBSET (1..n)
  <2>1. s \in SUBSET (0..n)
    OBVIOUS
  <2>2. Max(s) \in s
    BY <1>2, <2>1, Greatest
  <2> QED BY <2>2
<1> QED BY <1>1, <1>2

\* What mod_add_dependency works on
Depending(E) == [array : Arrays, users : [E -> Nat]]

\* mod_add_dependency keeps arrays and counts.
LEMMA AddTypes ==
  ASSUME NEW E \in SUBSET Module, NEW d \in Depending(E), NEW e \in E \cup {NoFile}
  PROVE  AddDependency(d, e) \in Depending(E)
<1>1. CASE e = NoFile \/ A!Has(d.array, e)
  BY <1>1 DEF AddDependency
<1>2. CASE ~(e = NoFile \/ A!Has(d.array, e))
  <2> DEFINE b == A!ArrayAppend(d.array, e)
             u == [d.users EXCEPT ![e] = @ + 1]
  <2>1. d.array \in Arrays /\ d.users \in [E -> Nat] /\ e \in E /\ e \in Module
    BY <1>2 DEF Depending
  <2>2. b \in Arrays
    BY <2>1, Appends
  <2>3. u \in [E -> Nat]
    BY <2>1
  <2>4. AddDependency(d, e) = [array |-> b, users |-> u]
    BY <1>2 DEF AddDependency
  <2> HIDE DEF b, u
  <2> QED BY <2>2, <2>3, <2>4 DEF Depending
<1> QED BY <1>1, <1>2

\* The loop of depmod_load_module_dependencies
DependRun(E, n, owner, base) ==
  \E r \in [0..n -> Depending(E)] :
    /\ r[0] = base /\ r[n] = FoldLeft(AddDependency, base, owner)
    /\ \A k \in 1..n : r[k] = AddDependency(r[k-1], owner[k])

\* depmod_load_module_dependencies is a loop that adds the owners in order.
LEMMA DependFold ==
  ASSUME NEW E \in SUBSET Module, NEW n \in Nat, NEW owner \in [1..n -> E \cup {NoFile}],
         NEW base \in Depending(E)
  PROVE  DependRun(E, n, owner, base)
<1> DEFINE D == Depending(E)
           G == [k \in 1..n |-> [d \in D |-> AddDependency(d, owner[k])]]
           Is(h) == h = [s \in SUBSET DOMAIN owner |->
                           IF s = {} THEN base ELSE AddDependency(h[s \ {Max(s)}], owner[Max(s)])]
           h == CHOOSE h : Is(h)
<1>1. \A d \in D : \A k \in 1..n : AddDependency(d, owner[k]) \in D
  BY AddTypes
<1> HIDE DEF D
<1>2. G \in [1..n -> [D -> D]] /\ base \in D
  BY <1>1 DEF D
<1>3. \A k \in 1..n : \A d \in D : G[k][d] = AddDependency(d, owner[k])
  OBVIOUS
<1> HIDE DEF G
<1>4. PICK f \in [SUBSET (1..n) -> D] : Solves(f, n, base, G)
  BY <1>2, FoldExists
<1>5. \A s \in SUBSET (1..n) :
        (IF s = {} THEN base ELSE G[Max(s)][f[s \ {Max(s)}]]) =
        (IF s = {} THEN base ELSE AddDependency(f[s \ {Max(s)}], owner[Max(s)]))
  BY <1>3, MaxOf
<1>6. Is(f)
  <2>1. DOMAIN owner = 1..n
    OBVIOUS
  <2>2. f = [s \in SUBSET (1..n) |-> IF s = {} THEN base ELSE G[Max(s)][f[s \ {Max(s)}]]]
    BY <1>4, Zenon DEF Solves
  <2> QED BY <1>5, <2>1, <2>2
<1>7. Is(h)
  <2> HIDE DEF Is
  <2> QED BY <1>6, Zenon
<1>8. h[1..n] = FoldLeft(AddDependency, base, owner)
  <2>1. DOMAIN owner = 1..n
    OBVIOUS
  <2>2. h[DOMAIN owner] = FoldLeft(AddDependency, base, owner)
    BY Zenon DEF FoldLeft, MapThenFoldSet
  <2> HIDE DEF h
  <2> QED BY <2>1, <2>2
<1> HIDE DEF h
<1>9. \A s \in SUBSET (1..n) : h[s] = IF s = {} THEN base ELSE AddDependency(h[s \ {Max(s)}], owner[Max(s)])
  <2>1. DOMAIN owner = 1..n
    OBVIOUS
  <2> QED BY <1>7, <2>1
<1> HIDE DEF Is
<1>10. h[{}] = base
  BY <1>9
<1>11. ASSUME NEW k \in 1..n PROVE h[1..k] = AddDependency(h[1..k-1], owner[k])
  <2>1. 1..k \in SUBSET (1..n) /\ 1..k # {} /\ Max(1..k) = k /\ (1..k) \ {k} = 1..k-1
    BY MaxOf
  <2> QED BY <1>9, <2>1
<1>12. Follows(h, D, n, base, G)
  BY <1>3, <1>10, <1>11 DEF Follows
<1>13. PICK r \in [0..n -> D] : r[0] = base /\ r[n] = h[1..n] /\ \A k \in 1..n : r[k] = G[k][r[k-1]]
  <2>1. Loops(D, n, base, G, h[1..n])
    BY <1>2, <1>12, FoldSteps
  <2> QED BY <2>1, Zenon DEF Loops
<1>14. \A k \in 1..n : r[k-1] \in D
  BY <1>13
<1>15. \A k \in 1..n : r[k] = AddDependency(r[k-1], owner[k])
  BY <1>3, <1>13, <1>14
<1> QED BY <1>8, <1>13, <1>15 DEF D, DependRun

\* Tables of symbols of Sym
Tabled(Sym) == [table : UNION {[S -> Module \cup {NoFile}] : S \in SUBSET Sym}, replaced : SUBSET Sym]

\* depmod_symbol_add keeps a table of symbols.
LEMMA TabledTypes ==
  ASSUME NEW Sym, NEW m \in Module, NEW u \in Tabled(Sym), NEW s \in Sym
  PROVE  SymbolAdd(u, s, m) \in Tabled(Sym)
<1> DEFINE t == Put(u.table, s, m)
           x == IF s \in DOMAIN u.table THEN u.replaced \cup {s} ELSE u.replaced
<1>1. PICK S \in SUBSET Sym : u.table \in [S -> Module \cup {NoFile}]
  BY DEF Tabled
<1>2. t \in [S \cup {s} -> Module \cup {NoFile}] /\ S \cup {s} \in SUBSET Sym
  BY <1>1 DEF Put
<1>3. x \in SUBSET Sym
  BY DEF Tabled
<1>4. SymbolAdd(u, s, m) = [table |-> t, replaced |-> x]
  BY DEF SymbolAdd
<1> HIDE DEF t, x
<1>5. t \in UNION {[T -> Module \cup {NoFile}] : T \in SUBSET Sym}
  BY <1>2
<1> QED BY <1>3, <1>4, <1>5 DEF Tabled

\* The loop over the symbols of a module
SymbolRun(Sym, m, n, exports, base) ==
  \E r \in [0..n -> Tabled(Sym)] :
    /\ r[0] = base /\ r[n] = FoldLeft(LAMBDA u, s : SymbolAdd(u, s, m), base, exports)
    /\ \A k \in 1..n : r[k] = SymbolAdd(r[k-1], exports[k], m)

\* depmod_load_modules adds the symbols of a module in order.
LEMMA SymbolFold ==
  ASSUME NEW Sym, NEW m \in Module, NEW n \in Nat, NEW exports \in [1..n -> Sym],
         NEW base \in Tabled(Sym)
  PROVE  SymbolRun(Sym, m, n, exports, base)
<1> DEFINE D == Tabled(Sym)
           G == [k \in 1..n |-> [d \in D |-> SymbolAdd(d, exports[k], m)]]
           Is(h) == h = [s \in SUBSET DOMAIN exports |->
                           IF s = {} THEN base ELSE SymbolAdd(h[s \ {Max(s)}], exports[Max(s)], m)]
           h == CHOOSE h : Is(h)
<1>1. \A d \in D : \A k \in 1..n : SymbolAdd(d, exports[k], m) \in D
  BY TabledTypes
<1> HIDE DEF D
<1>2. G \in [1..n -> [D -> D]] /\ base \in D
  BY <1>1 DEF D
<1>3. \A k \in 1..n : \A d \in D : G[k][d] = SymbolAdd(d, exports[k], m)
  OBVIOUS
<1> HIDE DEF G
<1>4. PICK f \in [SUBSET (1..n) -> D] : Solves(f, n, base, G)
  BY <1>2, FoldExists
<1>5. \A s \in SUBSET (1..n) :
        (IF s = {} THEN base ELSE G[Max(s)][f[s \ {Max(s)}]]) =
        (IF s = {} THEN base ELSE SymbolAdd(f[s \ {Max(s)}], exports[Max(s)], m))
  BY <1>3, MaxOf
<1>6. Is(f)
  <2>1. DOMAIN exports = 1..n
    OBVIOUS
  <2>2. f = [s \in SUBSET (1..n) |-> IF s = {} THEN base ELSE G[Max(s)][f[s \ {Max(s)}]]]
    BY <1>4, Zenon DEF Solves
  <2> QED BY <1>5, <2>1, <2>2
<1>7. Is(h)
  <2> HIDE DEF Is
  <2> QED BY <1>6, Zenon
<1>8. h[1..n] = FoldLeft(LAMBDA u, s : SymbolAdd(u, s, m), base, exports)
  <2>1. DOMAIN exports = 1..n
    OBVIOUS
  <2>2. h[DOMAIN exports] = FoldLeft(LAMBDA u, s : SymbolAdd(u, s, m), base, exports)
    BY Zenon DEF FoldLeft, MapThenFoldSet
  <2> HIDE DEF h
  <2> QED BY <2>1, <2>2, Zenon
<1> HIDE DEF h
<1>9. \A s \in SUBSET (1..n) : h[s] = IF s = {} THEN base ELSE SymbolAdd(h[s \ {Max(s)}], exports[Max(s)], m)
  <2>1. DOMAIN exports = 1..n
    OBVIOUS
  <2> QED BY <1>7, <2>1
<1> HIDE DEF Is
<1>10. h[{}] = base
  BY <1>9
<1>11. ASSUME NEW k \in 1..n PROVE h[1..k] = SymbolAdd(h[1..k-1], exports[k], m)
  <2>1. 1..k \in SUBSET (1..n) /\ 1..k # {} /\ Max(1..k) = k /\ (1..k) \ {k} = 1..k-1
    BY MaxOf
  <2> QED BY <1>9, <2>1
<1>12. Follows(h, D, n, base, G)
  BY <1>3, <1>10, <1>11 DEF Follows
<1>13. PICK r \in [0..n -> D] : r[0] = base /\ r[n] = h[1..n] /\ \A k \in 1..n : r[k] = G[k][r[k-1]]
  <2>1. Loops(D, n, base, G, h[1..n])
    BY <1>2, <1>12, FoldSteps
  <2> QED BY <2>1, Zenon DEF Loops
<1>14. \A k \in 1..n : r[k-1] \in D
  BY <1>13
<1>15. \A k \in 1..n : r[k] = SymbolAdd(r[k-1], exports[k], m)
  BY <1>3, <1>13, <1>14
<1>16. r[n] = FoldLeft(LAMBDA u, s : SymbolAdd(u, s, m), base, exports)
  BY <1>8, <1>13, Zenon
<1> QED BY <1>13, <1>15, <1>16, Zenon DEF D, SymbolRun

----------------------------------------------------------------------------
(* The configuration and the search.                                       *)

\* Nothing is found before the search.
LEMMA ConfigKeeps ==
  ASSUME IInv,
         LoadKernelSymbols \/ ListFile \/ Listed \/ ParseFile \/ Parsed
  PROVE  IInv'
<1>1. /\ pc \in Searching /\ pc' \in Searching /\ pc' \in Phases
      /\ pc' = "search" => pc = "parse" /\ unread' = disk
      /\ pc' \in {"symbols", "list", "parse"} => pc \in {"symbols", "list", "parse"}
  BY DEF LoadKernelSymbols, ListFile, Listed, ParseFile, Parsed, Searching, Phases
<1>2. /\ UNCHANGED <<conf, disk, args, order>> /\ UNCHANGED <<modules, i, nomem>>
      /\ UNCHANGED <<modules_by_name, modules_by_uncrelpath, alloc, kmod>>
  BY DEF LoadKernelSymbols, ListFile, Listed, ParseFile, Parsed, found, tables, loaded
<1>3. Types'
  BY <1>1, <1>2 DEF IInv, Types, Held
<1>4. Named' = Named
  BY <1>2 DEF Named
<1>5. Tables'
  BY <1>1, <1>2, <1>4 DEF IInv, Tables, Searching
<1>6. Held'
  BY <1>1, <1>2, <1>4 DEF IInv, Held, Searching, Complete, Released
<1> QED BY <1>3, <1>5, <1>6 DEF IInv

\* depmod_module_add puts a module of a new name into the tables.
LEMMA Adds ==
  ASSUME Types, Tables, pc # "aborted", NEW m \in Candidate, m.name \notin DOMAIN modules_by_name, Add(m)
  PROVE  /\ Named' = Named \cup {m}
         /\ \A n \in DOMAIN modules_by_name' :
              modules_by_name'[n] \in Candidate /\ modules_by_name'[n].name = n
         /\ Tables'
<1>1. /\ DOMAIN modules_by_name' = DOMAIN modules_by_name \cup {m.name}
      /\ modules_by_name'[m.name] = m
      /\ \A n \in DOMAIN modules_by_name : modules_by_name'[n] = modules_by_name[n]
  BY DEF Add, Put
<1>2. Named' = Named \cup {m}
  BY <1>1 DEF Named
<1>3. \A n \in DOMAIN modules_by_name' :
        modules_by_name'[n] \in Candidate /\ modules_by_name'[n].name = n
  BY <1>1 DEF Types
<1>4. ASSUME NEW r \in DOMAIN modules_by_uncrelpath'
      PROVE  LET n == modules_by_uncrelpath'[r] IN n \in Named' /\ InTree(n) /\ Rel(n) = r
  <2>1. CASE InTree(m) /\ r = Rel(m)
    BY <1>2, <2>1 DEF Add, Put
  <2>2. CASE ~(InTree(m) /\ r = Rel(m))
    <3>1. r \in DOMAIN modules_by_uncrelpath /\ modules_by_uncrelpath'[r] = modules_by_uncrelpath[r]
      BY <2>2 DEF Add, Put
    <3> QED BY <1>2, <3>1 DEF Tables
  <2> QED BY <2>1, <2>2
<1>5. ASSUME NEW n \in Named', InTree(n) PROVE Rel(n) \in DOMAIN modules_by_uncrelpath'
  BY <1>2, <1>5 DEF Tables, Add, Put
<1> QED BY <1>2, <1>3, <1>4, <1>5 DEF Tables

\* The array is empty before it is built.
LEMMA NothingInArray ==
  ASSUME Held, pc \in Searching, UNCHANGED modules
  PROVE  Elements' = {}
<1>1. modules'.elements = <<>>
  BY DEF Held, A!ArrayInit
<1>2. Len(modules'.elements) = 0
  BY <1>1
<1> QED BY <1>2 DEF Elements, A!Count

\* ... for a module of the command line, or for one that the search finds
LEMMA AddKeeps ==
  ASSUME IInv, pc \in Searching, pc' \in {"search", "arguments"}, NEW m \in Candidate,
         m.name \notin DOMAIN modules_by_name, Add(m),
         UNCHANGED <<conf, disk, args, order>>, UNCHANGED <<modules, nomem>>, i' \in Nat \ {0},
         pc' = "search" => unread' \subseteq disk \ alloc'
  PROVE  IInv'
<1>1. Types /\ Tables /\ Held /\ pc # "aborted" /\ pc' \in Phases /\ pc' \in Searching
  BY DEF IInv, Searching, Phases
<1>2. /\ Named' = Named \cup {m} /\ Tables'
      /\ \A n \in DOMAIN modules_by_name' :
           modules_by_name'[n] \in Candidate /\ modules_by_name'[n].name = n
  BY <1>1, Adds
<1>3. alloc' = alloc \cup {m} /\ kmod' = kmod \cup {m}
  BY DEF Add
<1>4. Types'
  BY <1>1, <1>2, <1>3, Candidates DEF Types
<1>5. Held'
  BY <1>1, <1>2, <1>3 DEF Held, Searching, Complete, Released
<1> QED BY <1>2, <1>4, <1>5 DEF IInv

\* depmod_modules_search_file: the tables go together, and nothing is freed.
LEMMA SearchFileKeeps ==
  ASSUME IInv, NEW m \in unread, SearchFile(m)
  PROVE  IInv'
<1>1. /\ pc = "search" /\ unread' = unread \ {m} /\ Types /\ Tables /\ Held
      /\ UNCHANGED <<conf, disk, args, order>> /\ UNCHANGED <<modules, i, nomem>>
  BY DEF SearchFile, IInv, found, loaded
<1>2. m \in Candidate /\ m \in disk \ alloc /\ unread' \subseteq disk \ (alloc \cup {m}) /\ i \in Nat \ {0}
  BY <1>1 DEF Types, Candidate
<1>3. CASE m.name \notin DOMAIN modules_by_name
  <2>1. Add(m) /\ pc' = pc
    BY <1>3 DEF SearchFile
  <2>2. alloc' = alloc \cup {m}
    BY <2>1 DEF Add
  <2> QED BY <1>1, <1>2, <1>3, <2>1, <2>2, AddKeeps DEF Searching, Phases
<1>4. CASE m.name \in DOMAIN modules_by_name /\ UNCHANGED <<tables, pc>>
  <2>1. UNCHANGED <<modules_by_name, modules_by_uncrelpath, alloc, kmod, pc>>
    BY <1>4 DEF tables
  <2>2. Types'
    BY <1>1, <1>2, <2>1 DEF Types
  <2>3. Named' = Named
    BY <2>1 DEF Named
  <2>4. Tables'
    BY <1>1, <2>1, <2>3 DEF Tables
  <2>5. Held'
    BY <1>1, <2>1, <2>3 DEF Held, Searching, Complete, Released
  <2> QED BY <2>2, <2>4, <2>5 DEF IInv
<1>5. CASE /\ pc' = "aborted" /\ UNCHANGED <<alloc, kmod>>
           /\ m.name \in DOMAIN modules_by_name /\ ~IsHigherPriority(modules_by_name[m.name], m)
           /\ modules_by_name' = Without(modules_by_name, m.name)
  <2>1. \A n \in DOMAIN modules_by_name' :
          modules_by_name'[n] \in Candidate /\ modules_by_name'[n].name = n
    BY <1>1, <1>5 DEF Types, Without
  <2>2. Types'
    BY <1>1, <1>2, <1>5, <2>1 DEF Types, Phases
  <2> DEFINE old == modules_by_name[m.name]
  <2>3. old \in alloc /\ old.name = m.name
    BY <1>1, <1>5 DEF Types, Held, Named, Searching
  <2>4. \A a, b : IsHigherPriority(a, b)' = IsHigherPriority(a, b)
    BY DEF SearchFile, cfg, IsHigherPriority, HigherSearch, OrBuiltIn, BuiltIns, Own, Matches
  <2>5. GaveWay'
    <3> HIDE DEF old
    <3>1. old \in alloc' /\ m \in disk' \ (alloc' \cup unread')
      BY <1>1, <1>2, <1>5, <2>3
    <3> QED BY <1>5, <2>3, <2>4, <3>1 DEF GaveWay, old
  <2>6. Elements' = {}
    BY <1>1, NothingInArray DEF Searching
  <2>7. Tables' /\ Held'
    BY <1>5, <2>5, <2>6 DEF Tables, Held, Searching, Complete, Released
  <2> QED BY <2>2, <2>7 DEF IInv
<1> QED BY <1>3, <1>4, <1>5 DEF SearchFile

\* A step that leaves tables and array alone and goes on to another phase
LEMMA PhaseKeeps ==
  ASSUME IInv, pc # "aborted", pc' \in Phases \ {"search"},
         UNCHANGED <<conf, disk, args, order>>, UNCHANGED modules, i' \in Nat \ {0}, nomem' \in BOOLEAN,
         UNCHANGED <<modules_by_name, modules_by_uncrelpath, alloc, kmod>>, Held'
  PROVE  IInv'
<1>1. Types'
  BY DEF IInv, Types
<1>2. Named' = Named
  BY DEF Named
<1>3. Tables'
  BY <1>2 DEF IInv, Tables
<1> QED BY <1>1, <1>3 DEF IInv

\* A module of the command line is added, or depmod fails with an empty array.
LEMMA AddArgumentKeeps ==
  ASSUME IInv, AddArgument
  PROVE  IInv'
<1>1. /\ pc = "arguments" /\ i <= Len(args) /\ i' = i + 1 /\ Types /\ Tables /\ Held
      /\ UNCHANGED <<conf, disk, args, order>> /\ UNCHANGED <<modules, nomem>>
  BY DEF AddArgument, IInv, found
<1>2. args \in Seq(Module) /\ i \in Nat \ {0} /\ i' \in Nat \ {0} /\ nomem \in BOOLEAN
  BY <1>1, FoundTypes DEF Types
<1>3. args[i] \in Candidate
  <2>1. args \in Arguments /\ i \in Nat \ {0} /\ DOMAIN args = 1..Len(args) /\ Len(args) \in Nat
    BY <1>1, <1>2, LenProperties DEF Types
  <2> DEFINE n == Len(args)
  <2>2. i <= n /\ i \in Nat \ {0} /\ n \in Nat /\ DOMAIN args = 1..n
    BY <1>1, <2>1
  <2> HIDE DEF n
  <2>3. i \in DOMAIN args
    BY <2>2
  <2> QED BY <2>1, <2>3 DEF Candidate
<1>4. CASE args[i].name \in DOMAIN modules_by_name
  <2>1. pc' = "failed" /\ UNCHANGED <<modules_by_name, modules_by_uncrelpath, alloc, kmod>>
    BY <1>4 DEF AddArgument, tables
  <2>2. Elements' = {}
    <3>1. modules'.elements = <<>>
      BY <1>1 DEF Held, Searching, A!ArrayInit
    <3>2. Len(modules'.elements) = 0
      BY <3>1
    <3> QED BY <3>2 DEF Elements, A!Count
  <2>3. Held'
    BY <1>1, <2>1, <2>2 DEF Held, Searching, Complete, Released
  <2> QED BY <1>1, <1>2, <2>1, <2>3, PhaseKeeps DEF Phases
<1>5. CASE args[i].name \notin DOMAIN modules_by_name
  <2>1. Add(args[i]) /\ pc' = "arguments"
    BY <1>5 DEF AddArgument
  <2> QED BY <1>1, <1>2, <1>3, <1>5, <2>1, AddKeeps DEF Searching, Phases
<1> QED BY <1>4, <1>5

\* The end of the search
LEMMA SearchedKeeps ==
  ASSUME IInv, Searched
  PROVE  IInv'
<1>1. /\ pc \in Searching /\ pc' = "array" /\ i' = 1 /\ Types /\ Held
      /\ UNCHANGED <<conf, disk, args, order>> /\ UNCHANGED <<modules, nomem>>
      /\ UNCHANGED <<modules_by_name, modules_by_uncrelpath, alloc, kmod>>
  BY DEF Searched, IInv, found, tables, Searching
<1>2. Named' = Named
  BY <1>1 DEF Named
<1>3. modules'.elements = <<>>
  BY <1>1 DEF Held, A!ArrayInit
<1>4. Len(modules'.elements) = 0
  BY <1>3
<1>5. Elements' = {} /\ Distinct(modules'.elements)
  BY <1>4 DEF Elements, Distinct, A!Count
<1>6. Held'
  BY <1>1, <1>2, <1>5 DEF Held, Searching, Complete, Released
<1>7. nomem \in BOOLEAN /\ pc # "aborted"
  BY <1>1 DEF Types, Searching
<1> QED BY <1>1, <1>6, <1>7, PhaseKeeps DEF Phases

----------------------------------------------------------------------------
(* The array, the symbols and the end.                                     *)

\* The array has each module of the table once, unless there is no memory.
LEMMA BuildKeeps ==
  ASSUME IInv, BuildArray \/ Built
  PROVE  IInv'
<1>1. /\ pc = "array" /\ Types /\ Tables /\ Held /\ i \in Nat \ {0} /\ nomem \in BOOLEAN /\ modules \in Arrays
      /\ UNCHANGED <<conf, disk, args, order, i>>
      /\ UNCHANGED <<modules_by_name, modules_by_uncrelpath, alloc, kmod>>
  BY DEF BuildArray, Built, IInv, Types, found, tables, loaded
<1>2. Named' = Named
  BY <1>1 DEF Named
<1>3. ASSUME NEW m \in Named \ Elements, modules' = A!ArrayAppend(modules, m), UNCHANGED <<pc, nomem>>
      PROVE  IInv'
  <2> DEFINE n == Len(modules.elements)
  <2>1. m \in Module
    BY <1>1, NamedByName
  <2>2. /\ modules' \in Arrays /\ n \in Nat /\ Len(modules'.elements) = n + 1
        /\ \A k \in 1..n : modules'.elements[k] = modules.elements[k]
        /\ modules'.elements[n + 1] = m
    BY <1>1, <1>3, <2>1, Appends
  <2>3. \A k \in 1..n : modules.elements[k] # m
    BY <1>1, ElementsAre
  <2>4. Distinct(modules'.elements)
    <3>1. Distinct(modules.elements)
      BY <1>1 DEF Held
    <3> HIDE DEF n
    <3>2. \A k \in 1..n+1 : k \in 1..n \/ k = n + 1
      BY <2>2
    <3>3. \A k, l \in 1..n : modules.elements[k] = modules.elements[l] => k = l
      BY <3>1 DEF Distinct, n
    <3> QED BY <2>2, <2>3, <3>2, <3>3 DEF Distinct
  <2>5. Elements' \subseteq Elements \cup {m}
    <3>1. Elements' = {modules'.elements[k] : k \in 1..Len(modules'.elements)}
      BY <2>2 DEF Elements, A!Count
    <3>2. Elements = {modules.elements[k] : k \in 1..n}
      BY <1>1, ElementsAre
    <3> HIDE DEF n
    <3>3. \A k \in 1..n+1 : k \in 1..n \/ k = n + 1
      BY <2>2
    <3> QED BY <2>2, <3>1, <3>2, <3>3
  <2>6. Types'
    BY <1>1, <1>3, <2>2 DEF Types
  <2>7. Tables'
    BY <1>1, <1>2, <1>3 DEF Tables
  <2>8. Held'
    BY <1>1, <1>2, <1>3, <2>4, <2>5 DEF Held, Searching, Complete, Released
  <2> QED BY <2>6, <2>7, <2>8 DEF IInv
<1>4. CASE pc' = "failed" /\ nomem' = TRUE /\ UNCHANGED modules
  <2>1. Held'
    BY <1>1, <1>4 DEF Held, Searching, Complete, Released
  <2> QED BY <1>1, <1>4, <2>1, PhaseKeeps DEF Phases
<1>5. CASE Built
  <2>1. pc' = "sort" /\ UNCHANGED <<modules, nomem>> /\ Named = Elements
    BY <1>5 DEF Built
  <2>2. Held'
    BY <1>1, <1>2, <2>1 DEF Held, Searching, Complete, Released, Elements
  <2> QED BY <1>1, <2>1, <2>2, PhaseKeeps DEF Phases
<1> QED BY <1>3, <1>4, <1>5 DEF BuildArray

\* depmod_modules_sort keeps what is in the array.
LEMMA SortResult ==
  ASSUME IInv, SortModules
  PROVE  /\ modules' \in Arrays /\ Elements' = Elements /\ Distinct(modules'.elements)
         /\ order \notin {NoOrder, Corrupted} =>
              \A k, l \in 1..Len(modules'.elements) :
                k < l => SortIdx(modules'.elements[k]) <= SortIdx(modules'.elements[l])
<1>1. /\ modules \in Arrays /\ Distinct(modules.elements)
  BY DEF SortModules, IInv, Types, Held, Complete
<1>2. CASE order \in {NoOrder, Corrupted}
  <2>1. modules' = modules
    BY <1>2 DEF SortModules
  <2> QED BY <1>1, <1>2, <2>1 DEF Elements
<1>3. CASE order \notin {NoOrder, Corrupted}
  <2>1. sort_idx' = [m \in Elements |-> SortIdx(m)]
    BY <1>3 DEF SortModules
  <2>2. PICK s \in SetToSeqs(Elements) :
          /\ \A k, l \in DOMAIN s : k < l => sort_idx'[s[k]] <= sort_idx'[s[l]]
          /\ modules' = [modules EXCEPT !.elements = s]
    BY <1>3 DEF SortModules
  <2>3. Elements = {modules.elements[k] : k \in 1..Len(modules.elements)} /\ Elements \subseteq Module
    BY <1>1, ElementsAre
  <2>4. IsFiniteSet(Elements)
    BY <1>1, <2>3, FinitelyMany, ElementsAre
  <2>5. /\ s \in Seq(Elements) /\ DOMAIN s = 1..Len(s) /\ Len(s) \in Nat
        /\ Elements = {s[k] : k \in 1..Len(s)} /\ Distinct(s)
    BY <2>4, Permuted
  <2>6. s \in Seq(Module)
    BY <2>3, <2>5
  <2>7. modules' \in Arrays /\ modules'.elements = s
    BY <1>1, <2>2, <2>6 DEF Arrays
  <2>8. Elements' = Elements
    BY <2>5, <2>7 DEF Elements, A!Count
  <2>9. \A k \in 1..Len(s) : s[k] \in Elements /\ sort_idx'[s[k]] = SortIdx(s[k])
    BY <2>1, <2>5
  <2>10. ASSUME NEW k \in 1..Len(s), NEW l \in 1..Len(s), k < l
         PROVE  SortIdx(s[k]) <= SortIdx(s[l])
    <3>1. sort_idx'[s[k]] <= sort_idx'[s[l]]
      BY <2>2, <2>5, <2>10
    <3> QED BY <2>9, <3>1
  <2> QED BY <2>5, <2>7, <2>8, <2>10
<1> QED BY <1>2, <1>3

\* depmod_modules_sort changes the order of the array and nothing else.
LEMMA SortKeeps ==
  ASSUME IInv, SortModules
  PROVE  IInv'
<1>1. /\ pc = "sort" /\ pc' = "load" /\ Types /\ Tables /\ Held /\ i = 1 /\ nomem \in BOOLEAN
      /\ UNCHANGED <<conf, disk, args, order, i, nomem>>
      /\ UNCHANGED <<modules_by_name, modules_by_uncrelpath, alloc, kmod>>
  BY DEF SortModules, IInv, Types, Held, found, tables
<1>2. Named' = Named
  BY <1>1 DEF Named
<1>3. modules' \in Arrays /\ Elements' = Elements /\ Distinct(modules'.elements)
  BY SortResult
<1>4. Types'
  BY <1>1, <1>3 DEF Types, Phases
<1>5. Tables'
  BY <1>1, <1>2 DEF Tables
<1>6. Done' = {} /\ i' <= Len(modules'.elements) + 1
  <2>1. Len(modules'.elements) \in Nat
    BY <1>3, LenProperties DEF Arrays
  <2>2. i' = 1 /\ 1..i'-1 = {}
    BY <1>1
  <2> QED BY <2>1, <2>2 DEF Done
<1>7. Held'
  BY <1>1, <1>2, <1>3, <1>6 DEF Held, Searching, Complete, Released
<1> QED BY <1>4, <1>5, <1>7 DEF IInv

\* Each module gives back its kmod_module when its symbols have been read.
LEMMA LoadKeeps ==
  ASSUME IInv, LoadModule
  PROVE  IInv'
<1> DEFINE m == modules.elements[i]
<1>0. /\ pc = "load" /\ i <= A!Count(modules) /\ i' = i + 1 /\ kmod' = kmod \ {m}
      /\ UNCHANGED <<found, unread, cfg, modules_by_name, modules_by_uncrelpath, alloc, modules,
                     sort_idx, deps, users, lost, nomem, pc>>
  BY Zenon DEF LoadModule
<1>1. /\ pc = "load" /\ pc' = "load" /\ Types /\ Tables /\ Held
      /\ i \in Nat \ {0} /\ nomem \in BOOLEAN /\ modules \in Arrays
      /\ i' = i + 1 /\ kmod' = kmod \ {m}
      /\ UNCHANGED <<conf, disk, args, order, nomem, modules>>
      /\ UNCHANGED <<modules_by_name, modules_by_uncrelpath, alloc>>
  BY <1>0 DEF IInv, Types, found
<1>2. i \in 1..Len(modules.elements) /\ Len(modules.elements) \in Nat
  <2>1. Len(modules.elements) \in Nat /\ i <= A!Count(modules) /\ A!Count(modules) = Len(modules.elements)
    BY <1>0, <1>1, ElementsAre
  <2> QED BY <1>1, <2>1
<1>3. Named' = Named
  BY <1>1 DEF Named
<1>4. Done' = Done \cup {m}
  <2>1. Done' = {modules.elements[k] : k \in 1..i}
    BY <1>1 DEF Done
  <2>2. \A k \in Nat : k \in 1..i <=> k \in 1..i-1 \/ k = i
    BY <1>1
  <2> QED BY <1>1, <2>1, <2>2 DEF Done
<1>5. Elements' = Elements
  BY <1>1 DEF Elements
<1> HIDE DEF m
<1>6. Types'
  BY <1>1 DEF Types
<1>7. Tables'
  BY <1>1, <1>3 DEF Tables
<1>8. Held'
  BY <1>1, <1>2, <1>3, <1>4, <1>5 DEF Held, Searching, Complete, Released
<1> QED BY <1>6, <1>7, <1>8 DEF IInv

\* When all have been read, nobody has one.
LEMMA LoadedKeeps ==
  ASSUME IInv, ModulesLoaded
  PROVE  IInv'
<1>1. /\ pc = "load" /\ pc' = "depend" /\ Types /\ Held
      /\ i \in Nat \ {0} /\ i' = 1 /\ nomem \in BOOLEAN /\ modules \in Arrays
      /\ UNCHANGED <<conf, disk, args, order, nomem, modules>>
      /\ UNCHANGED <<modules_by_name, modules_by_uncrelpath, alloc, kmod>>
  BY DEF ModulesLoaded, IInv, Types, found, tables
<1>2. Named' = Named /\ Elements' = Elements
  BY <1>1 DEF Named, Elements
<1>3. Done = Elements
  <2>1. /\ Len(modules.elements) \in Nat /\ A!Count(modules) = Len(modules.elements)
        /\ Elements = {modules.elements[k] : k \in 1..Len(modules.elements)}
    BY <1>1, ElementsAre
  <2>2. i = Len(modules.elements) + 1
    BY <1>1, <2>1 DEF ModulesLoaded, Held
  <2> QED BY <2>1, <2>2 DEF Done
<1>4. Held'
  BY <1>1, <1>2, <1>3 DEF Held, Searching, Complete, Released
<1> QED BY <1>1, <1>4, PhaseKeeps DEF Phases

\* depmod_load_dependencies changes neither the array nor references.
LEMMA DependKeeps ==
  ASSUME IInv, LoadDependencies \/ Output
  PROVE  IInv'
<1>1. /\ pc = "depend" /\ pc' \in {"depend", "output"} /\ Types /\ Held
      /\ i \in Nat \ {0} /\ i' \in Nat \ {0} /\ nomem \in BOOLEAN
      /\ UNCHANGED <<conf, disk, args, order, nomem, modules>>
      /\ UNCHANGED <<modules_by_name, modules_by_uncrelpath, alloc, kmod>>
  BY DEF LoadDependencies, Output, IInv, Types, found, tables, loaded
<1>2. Named' = Named /\ Elements' = Elements
  BY <1>1 DEF Named, Elements
<1>3. Held'
  BY <1>1, <1>2 DEF Held, Searching, Complete, Released
<1> QED BY <1>1, <1>3, PhaseKeeps DEF Phases

\* array_free_array
LEMMA Freed == ASSUME NEW a \in Arrays PROVE A!ArrayFree(a) \in Arrays
<1> DEFINE e == <<>>
<1>1. e \in Seq(Module)
  OBVIOUS
<1> HIDE DEF e
<1>2. [a EXCEPT !.elements = e, !.total = 0] \in Arrays
  BY <1>1 DEF Arrays
<1> QED BY <1>2 DEF A!ArrayFree, e

\* depmod_shutdown
LEMMA ShutdownKeeps ==
  ASSUME IInv, Shutdown("output", "success") \/ Shutdown("failed", "failure")
  PROVE  IInv'
<1>1. /\ pc \in {"output", "failed"} /\ Types /\ Tables /\ Held /\ i' = i
      /\ UNCHANGED <<conf, disk, args, order, nomem>>
      /\ UNCHANGED <<modules_by_name, modules_by_uncrelpath, kmod>>
  BY DEF Shutdown, IInv, found
<1>2. CASE pc = "output"
  <2>1. Elements \cap kmod = {} /\ alloc = Elements
    BY <1>1, <1>2 DEF Held, Complete
  <2>2. pc' = "success" /\ alloc' = alloc \ Elements /\ modules' = A!ArrayFree(modules)
    BY <1>2, <2>1 DEF Shutdown
  <2>3. modules' \in Arrays
    BY <1>1, <2>2, Freed DEF Types
  <2>4. Named' = Named
    BY <1>1 DEF Named
  <2>5. Types'
    BY <1>1, <2>2, <2>3 DEF Types, Phases
  <2>6. Tables'
    BY <1>1, <2>4 DEF Tables
  <2>7. Held'
    BY <1>1, <1>2, <2>1, <2>2 DEF Held, Searching, Complete, Released
  <2> QED BY <2>5, <2>6, <2>7 DEF IInv
<1>3. CASE pc = "failed"
  <2>1. IF Elements \cap kmod # {} THEN pc' = "aborted" /\ UNCHANGED <<alloc, modules>>
        ELSE pc' = "failure" /\ alloc' = alloc \ Elements /\ modules' = A!ArrayFree(modules)
    BY <1>3 DEF Shutdown
  <2>2. modules' \in Arrays /\ alloc' \subseteq Module
    BY <1>1, <2>1, Freed DEF Types
  <2>3. Named' = Named
    BY <1>1 DEF Named
  <2>4. pc' = "aborted" => nomem
    BY <1>1, <1>3, <2>1 DEF Held
  <2>5. Types'
    BY <1>1, <2>1, <2>2 DEF Types, Phases
  <2>6. Tables'
    BY <1>1, <1>3, <2>3 DEF Tables
  <2>7. Held'
    BY <1>1, <1>3, <2>1, <2>4 DEF Held, Searching, Complete, Released
  <2> QED BY <2>5, <2>6, <2>7 DEF IInv
<1> QED BY <1>1, <1>2, <1>3

\* When depmod starts
LEMMA InitInv == Init => IInv
<1> SUFFICES ASSUME Init PROVE IInv
  OBVIOUS
<1>1. /\ modules = A!ArrayInit(Step) /\ alloc = {} /\ kmod = {} /\ i = 1 /\ pc = "symbols" /\ nomem = FALSE
      /\ conf \in Configurations /\ disk \in Disks /\ args \in Arguments /\ order \in Orders
      /\ DOMAIN modules_by_name = {} /\ DOMAIN modules_by_uncrelpath = {}
  BY DEF Init, Empty
<1>2. Named = {}
  BY <1>1 DEF Named
<1>3. modules \in Arrays
  BY <1>1, StepType DEF A!ArrayInit, Arrays
<1>4. Types
  <2>1. pc \in Phases /\ pc # "search" /\ i \in Nat \ {0}
    BY <1>1 DEF Phases
  <2>3. nomem \in BOOLEAN
    BY <1>1, Zenon
  <2>2. \A n \in DOMAIN modules_by_name : FALSE
    BY <1>1
  <2> QED BY <1>1, <1>3, <2>1, <2>2, <2>3 DEF Types
<1>5. Tables /\ Held
  BY <1>1, <1>2 DEF Tables, Held, Searching, Complete, Released
<1> QED BY <1>4, <1>5 DEF IInv

\* Every step keeps the invariant.
LEMMA NextInv == IInv /\ [Next]_vars => IInv'
<1> SUFFICES ASSUME IInv, [Next]_vars PROVE IInv'
  OBVIOUS
<1>1. CASE LoadKernelSymbols \/ ListFile \/ Listed \/ ParseFile \/ Parsed
  BY <1>1, ConfigKeeps
<1>2. CASE \E m \in unread : SearchFile(m)
  BY <1>2, SearchFileKeeps
<1>3. CASE AddArgument
  BY <1>3, AddArgumentKeeps
<1>4. CASE Searched
  BY <1>4, SearchedKeeps
<1>5. CASE BuildArray \/ Built
  BY <1>5, BuildKeeps
<1>6. CASE SortModules
  BY <1>6, SortKeeps
<1>7. CASE LoadModule
  BY <1>7, LoadKeeps
<1>8. CASE ModulesLoaded
  BY <1>8, LoadedKeeps
<1>9. CASE LoadDependencies \/ Output
  BY <1>9, DependKeeps
<1>10. CASE Shutdown("output", "success") \/ Shutdown("failed", "failure")
  BY <1>10, ShutdownKeeps
<1>11. CASE UNCHANGED vars
  <2>1. /\ UNCHANGED <<conf, disk, args, order, unread, pc, modules, i, nomem>>
        /\ UNCHANGED <<modules_by_name, modules_by_uncrelpath, alloc, kmod>>
    BY <1>11 DEF vars, found, tables, loaded
  <2>2. Named' = Named /\ Elements' = Elements /\ Done' = Done
    BY <2>1 DEF Named, Elements, Done
  <2>3. Types'
    BY <2>1 DEF IInv, Types
  <2>4. Tables'
    BY <2>1, <2>2 DEF IInv, Tables
  <2>5. GaveWay' = GaveWay
    <3>1. UNCHANGED <<searches, overrides>>
      BY <1>11 DEF vars, cfg
    <3>2. \A a, b : IsHigherPriority(a, b)' = IsHigherPriority(a, b)
      BY <3>1 DEF IsHigherPriority, HigherSearch, OrBuiltIn, BuiltIns, Own, Matches
    <3> QED BY <2>1, <3>2 DEF GaveWay
  <2>6. Held'
    BY <2>1, <2>2, <2>5 DEF IInv, Held, Released
  <2> QED BY <2>3, <2>4, <2>6 DEF IInv
<1> QED BY <1>1, <1>2, <1>3, <1>4, <1>5, <1>6, <1>7, <1>8, <1>9, <1>10, <1>11 DEF Next

\* The inductive invariant of the whole run
THEOREM Invariance == Spec => []IInv
BY InitInv, NextInv, PTL DEF Spec

\* depmod_shutdown: a depmod that succeeds has freed all modules and given back their
\* kmod_modules, and the assertion of mod_free ends one only in the search, when a module
\* that was added is to give way to another of its name, or when the array could not grow.
THEOREM AllReleased == Spec => []Released
<1>1. IInv => Released
  BY DEF IInv, Held
<1> QED BY <1>1, Invariance, PTL

----------------------------------------------------------------------------
(* The order of modules.order.                                             *)

\* The lines of modules.order for a module
LinesFor(m) == {n \in DOMAIN order : order[n] = Rel(m)}

\* A module is in modules.order.
InOrder(m) == InTree(m) /\ LinesFor(m) # {}

\* sort_idx is negative for the modules in modules.order, and grows with the line.
LEMMA SortIdxIs ==
  ASSUME Types, Tables, pc # "aborted", NEW m \in Named, order \in Seq(Seq(STRING))
  PROVE  /\ InOrder(m) => /\ Max(LinesFor(m)) \in 1..Len(order)
                          /\ SortIdx(m) = Max(LinesFor(m)) - (Len(order) + 1)
         /\ ~InOrder(m) => SortIdx(m) = 1
<1> DEFINE L == {l \in DOMAIN order : order[l] \in DOMAIN modules_by_uncrelpath /\
                                      modules_by_uncrelpath[order[l]] = m}
<1>1. L = IF InTree(m) THEN LinesFor(m) ELSE {}
  <2>1. ASSUME NEW l \in L PROVE InTree(m) /\ l \in LinesFor(m)
    BY DEF Tables, LinesFor
  <2>2. ASSUME NEW l \in LinesFor(m), InTree(m) PROVE l \in L
    <3>1. l \in DOMAIN order /\ order[l] = Rel(m) /\ Rel(m) \in DOMAIN modules_by_uncrelpath
      BY <2>2 DEF Tables, LinesFor
    <3>2. modules_by_uncrelpath[Rel(m)] \in Named /\ Rel(modules_by_uncrelpath[Rel(m)]) = Rel(m)
      BY <3>1 DEF Tables
    <3>3. modules_by_uncrelpath[Rel(m)] = m
      BY <3>2, RelOnly
    <3> QED BY <3>1, <3>3
  <2> QED BY <2>1, <2>2
<1>2. SortIdx(m) = IF L = {} THEN 1 ELSE Max(L) - (Len(order) + 1)
  BY Zenon DEF SortIdx
<1> HIDE DEF L
<1>3. DOMAIN order = 1..Len(order) /\ Len(order) \in Nat
  OBVIOUS
<1>4. LinesFor(m) \subseteq 1..Len(order)
  BY <1>3 DEF LinesFor
<1>5. LinesFor(m) # {} => Max(LinesFor(m)) \in 1..Len(order)
  <2>1. LinesFor(m) \subseteq 0..Len(order)
    BY <1>3, <1>4
  <2> QED BY <1>3, <1>4, <2>1, Greatest
<1> QED BY <1>1, <1>2, <1>5 DEF InOrder

\* Sorting by sort_idx
LEMMA SortOrders ==
  ASSUME IInv, SortModules
  PROVE  OrderExact'
<1>1. /\ pc = "sort" /\ Types /\ Tables /\ Elements = Named
      /\ order \in Orders /\ order' = order
  BY DEF SortModules, IInv, Types, Held, found, Complete
<1>2. order \in Seq(Seq(STRING))
  BY <1>1, FoundTypes
<1>3. /\ modules' \in Arrays /\ Elements' = Elements
      /\ order \notin {NoOrder, Corrupted} =>
              \A k, l \in 1..Len(modules'.elements) :
                k < l => SortIdx(modules'.elements[k]) <= SortIdx(modules'.elements[l])
  BY SortResult
<1> DEFINE s == modules'.elements
<1>4. A!Count(modules)' = Len(s) /\ Len(s) \in Nat /\ \A k \in 1..Len(s) : s[k] \in Named
  BY <1>1, <1>3, LenProperties DEF A!Count, Elements, Arrays
<1>5. ASSUME order \notin {NoOrder, Corrupted}, NEW k \in 1..Len(s), NEW l \in 1..Len(s),
             InOrder(s[l]), ~InOrder(s[k]) \/ Max(LinesFor(s[l])) < Max(LinesFor(s[k]))
      PROVE  l < k
  <2> DEFINE x == Max(LinesFor(s[l]))
             y == Max(LinesFor(s[k]))
             n == Len(order)
  <2> HIDE DEF s
  <2>1. s[k] \in Named /\ s[l] \in Named
    BY <1>4
  <2>2. /\ x \in 1..n /\ SortIdx(s[l]) = x - (n + 1)
        /\ InOrder(s[k]) => y \in 1..n /\ SortIdx(s[k]) = y - (n + 1)
        /\ ~InOrder(s[k]) => SortIdx(s[k]) = 1
    BY <1>1, <1>2, <1>5, <2>1, SortIdxIs
  <2>3. n \in Nat
    BY <1>2, LenProperties
  <2>4. k < l => SortIdx(s[k]) <= SortIdx(s[l])
    BY <1>3, <1>5 DEF s
  <2> HIDE DEF x, y, n
  <2>5. k # l
    BY <1>5, <2>2, <2>3 DEF x, y
  <2>6. ~(k < l)
    BY <1>5, <2>2, <2>3, <2>4 DEF x, y
  <2>7. k \in Nat /\ l \in Nat
    BY <1>4
  <2> QED BY <2>5, <2>6, <2>7
<1> HIDE DEF s
<1> SUFFICES ASSUME order \notin {NoOrder, Corrupted}, NEW k \in 1..Len(s), NEW l \in 1..Len(s),
                    InTree(s[l]), LinesFor(s[l]) # {},
                    \/ ~InTree(s[k]) \/ LinesFor(s[k]) = {}
                    \/ Max(LinesFor(s[l])) < Max(LinesFor(s[k]))
             PROVE  l < k
  BY <1>1, <1>4 DEF OrderExact, LinesFor, s
<1> QED BY <1>5 DEF InOrder

\* modules.order: the modules in it come before all others and in its order.
THEOREM OrderAlways == Spec => []OrderExact
<1>1. Init => OrderExact
  BY DEF Init, OrderExact
<1>2. IInv /\ OrderExact /\ [Next]_vars => OrderExact'
  <2> SUFFICES ASSUME IInv, OrderExact, [Next]_vars PROVE OrderExact'
    OBVIOUS
  <2>1. CASE SortModules
    BY <2>1, SortOrders
  <2>2. CASE pc' \in {"load", "depend", "output"} => pc \in {"load", "depend", "output"} /\ UNCHANGED <<order, modules>>
    BY <2>2 DEF OrderExact
  <2>3. CASE LoadModule \/ ModulesLoaded \/ LoadDependencies \/ Output \/ UNCHANGED vars
    <3>1. LoadModule => pc = "load" /\ UNCHANGED <<found, modules, pc>>
      BY Zenon DEF LoadModule
    <3>2. ModulesLoaded => pc = "load" /\ UNCHANGED <<found, modules>>
      BY Zenon DEF ModulesLoaded
    <3>3. LoadDependencies \/ Output => pc = "depend" /\ UNCHANGED <<found, modules>>
      BY Zenon DEF LoadDependencies, Output
    <3>4. UNCHANGED vars => UNCHANGED <<found, modules, pc>>
      BY DEF vars
    <3> QED BY <2>2, <2>3, <3>1, <3>2, <3>3, <3>4 DEF found
  <2>4. CASE \/ LoadKernelSymbols \/ ListFile \/ Listed \/ ParseFile \/ Parsed
             \/ (\E m \in unread : SearchFile(m)) \/ AddArgument \/ Searched
             \/ BuildArray \/ Built
             \/ Shutdown("output", "success") \/ Shutdown("failed", "failure")
    <3>1. pc' \notin {"load", "depend", "output"}
      BY <2>4 DEF LoadKernelSymbols, ListFile, Listed, ParseFile, Parsed, SearchFile, AddArgument, Searched,
                  BuildArray, Built, Shutdown
    <3> QED BY <2>2, <3>1
  <2> QED BY <2>1, <2>3, <2>4 DEF Next
<1> QED BY <1>1, <1>2, Invariance, PTL DEF Spec

----------------------------------------------------------------------------
(* Symbols and dependencies.                                               *)

\* The first k elements of a function
First(f, k) == {f[j] : j \in 1..k}

\* One element more
LEMMA FirstMore ==
  ASSUME NEW f, NEW n \in Nat, NEW k \in 1..n
  PROVE  First(f, k) = First(f, k-1) \cup {f[k]} /\ First(f, 0) = {} /\ k - 1 \in 0..n /\ k \in 0..n
<1>1. \A j \in Nat : j \in 1..k <=> j \in 1..k-1 \/ j = k
  OBVIOUS
<1>2. First(f, k) = First(f, k-1) \cup {f[k]}
  BY <1>1 DEF First
<1>3. 1..0 = {}
  OBVIOUS
<1> QED BY <1>2, <1>3 DEF First

\* What the table is after some symbols of m
Symbols(t, base, m, E) ==
  /\ DOMAIN t.table = DOMAIN base.table \cup E
  /\ \A s \in E : t.table[s] = m
  /\ \A s \in DOMAIN base.table \ E : t.table[s] = base.table[s]
  /\ t.replaced = {} => base.replaced = {} /\ E \cap DOMAIN base.table = {}

\* depmod_symbol_add, once
LEMMA SymbolStep ==
  ASSUME NEW Sym, NEW m, NEW u \in Tabled(Sym), NEW base, NEW E, NEW s, Symbols(u, base, m, E)
  PROVE  Symbols(SymbolAdd(u, s, m), base, m, E \cup {s})
<1> DEFINE t == SymbolAdd(u, s, m)
<1>1. /\ t.table = Put(u.table, s, m)
      /\ t.replaced = IF s \in DOMAIN u.table THEN u.replaced \cup {s} ELSE u.replaced
  BY DEF SymbolAdd
<1>2. /\ DOMAIN t.table = DOMAIN u.table \cup {s} /\ t.table[s] = m
      /\ \A x \in DOMAIN u.table \ {s} : t.table[x] = u.table[x]
  BY <1>1 DEF Put
<1>3. t.replaced = {} => u.replaced = {} /\ s \notin DOMAIN u.table
  BY <1>1
<1> HIDE DEF t
<1> QED BY <1>2, <1>3 DEF Symbols, t

\* ... and in a loop,
LEMMA SymbolLoop ==
  ASSUME NEW Sym, NEW m \in Module, NEW n \in Nat, NEW exports \in [1..n -> Sym],
         NEW r \in [0..n -> Tabled(Sym)], \A k \in 1..n : r[k] = SymbolAdd(r[k-1], exports[k], m)
  PROVE  r[n] \in Tabled(Sym) /\ Symbols(r[n], r[0], m, First(exports, n))
<1> DEFINE S == {k \in 0..n : Symbols(r[k], r[0], m, First(exports, k))}
<1>1. 0 \in S
  <2>1. First(exports, 0) = {} /\ 0 \in 0..n
    BY DEF First
  <2> QED BY <2>1 DEF Symbols
<1>2. ASSUME NEW k \in 1..n, k - 1 \in S PROVE k \in S
  <2>1. /\ First(exports, k) = First(exports, k-1) \cup {exports[k]} /\ k - 1 \in 0..n /\ k \in 0..n
        /\ r[k] = SymbolAdd(r[k-1], exports[k], m)
    BY FirstMore
  <2>2. r[k-1] \in Tabled(Sym) /\ Symbols(r[k-1], r[0], m, First(exports, k-1))
    BY <1>2, <2>1
  <2> QED BY <2>1, <2>2, SymbolStep
<1> HIDE DEF S
<1>3. \A k \in 0..n : k \in S
  BY <1>1, <1>2, UpTo
<1>4. n \in 0..n
  OBVIOUS
<1> QED BY <1>3, <1>4 DEF S

\* so for all symbols of a module.
LEMMA SymbolsAdded ==
  ASSUME NEW Sym, NEW m \in Module, NEW n \in Nat, NEW exports \in [1..n -> Sym], NEW base \in Tabled(Sym)
  PROVE  LET t == FoldLeft(LAMBDA u, s : SymbolAdd(u, s, m), base, exports)
         IN  t \in Tabled(Sym) /\ Symbols(t, base, m, First(exports, n))
<1>1. SymbolRun(Sym, m, n, exports, base)
  BY SymbolFold
<1>2. \A r \in [0..n -> Tabled(Sym)] :
        (\A k \in 1..n : r[k] = SymbolAdd(r[k-1], exports[k], m)) =>
        r[n] \in Tabled(Sym) /\ Symbols(r[n], r[0], m, First(exports, n))
  BY SymbolLoop
<1> QED BY <1>1, <1>2, Zenon DEF SymbolRun

\* What array and users are after some owners
Depends(E, d, base, O) ==
  /\ Distinct(d.array.elements) /\ {d.array.elements[k] : k \in 1..Len(d.array.elements)} = O \ {NoFile}
  /\ \A x \in E : d.users[x] = base.users[x] + (IF x \in O THEN 1 ELSE 0)

\* mod_add_dependency, once
LEMMA DependStep ==
  ASSUME NEW E \in SUBSET Module, NEW d \in Depending(E), NEW base \in Depending(E),
         NEW O, NEW e \in E \cup {NoFile}, Depends(E, d, base, O), NoFile \notin E
  PROVE  Depends(E, AddDependency(d, e), base, O \cup {e})
<1> DEFINE n == Len(d.array.elements)
<1>0. d.array \in Arrays /\ n \in Nat /\ d.users \in [E -> Nat] /\ base.users \in [E -> Nat]
  BY LenProperties DEF Depending, Arrays
<1>1. A!Has(d.array, e) <=> e \in O \ {NoFile}
  BY DEF A!Has, A!Count, Depends
<1>2. CASE e = NoFile
  BY <1>2 DEF AddDependency, Depends
<1>3. CASE e \in O \ {NoFile}
  <2>1. AddDependency(d, e) = d /\ O \cup {e} = O
    BY <1>1, <1>3 DEF AddDependency
  <2> QED BY <2>1
<1>4. CASE e # NoFile /\ e \notin O
  <2> DEFINE b == A!ArrayAppend(d.array, e)
             u == [d.users EXCEPT ![e] = @ + 1]
             t == AddDependency(d, e)
  <2>1. t.array = b /\ t.users = u /\ e \in E /\ e \in Module
    BY <1>1, <1>4 DEF AddDependency
  <2>2. /\ Len(b.elements) = n + 1 /\ \A k \in 1..n : b.elements[k] = d.array.elements[k]
        /\ b.elements[n + 1] = e
    BY <1>0, <2>1, Appends
  <2>3. \A x \in E : u[x] = IF x = e THEN d.users[x] + 1 ELSE d.users[x]
    BY <1>0, <2>1
  <2> HIDE DEF b, u, t
  <2>4. /\ Distinct(d.array.elements) /\ {d.array.elements[k] : k \in 1..n} = O \ {NoFile}
        /\ \A x \in E : d.users[x] = base.users[x] + (IF x \in O THEN 1 ELSE 0)
    BY DEF Depends
  <2>5. \A k \in 1..n : d.array.elements[k] # e
    BY <1>4, <2>4
  <2>6. \A k \in 1..n+1 : k \in 1..n \/ k = n + 1
    BY <1>0
  <2>7. \A k, l \in 1..n : d.array.elements[k] = d.array.elements[l] => k = l
    BY <2>4 DEF Distinct
  <2> HIDE DEF n
  <2>8. Distinct(b.elements)
    BY <2>2, <2>5, <2>6, <2>7 DEF Distinct
  <2>9. {b.elements[k] : k \in 1..n+1} = (O \cup {e}) \ {NoFile}
    <3>1. \A k \in 1..n : k \in 1..n+1
      BY <1>0 DEF n
    <3>2. n + 1 \in 1..n+1
      BY <1>0 DEF n
    <3>3. {b.elements[k] : k \in 1..n+1} = {d.array.elements[k] : k \in 1..n} \cup {e}
      BY <2>2, <2>6, <3>1, <3>2
    <3> QED BY <1>4, <2>4, <3>3
  <2>10. \A x \in E : u[x] = base.users[x] + (IF x \in O \cup {e} THEN 1 ELSE 0)
    BY <1>0, <1>4, <2>3, <2>4
  <2> QED BY <2>1, <2>2, <2>8, <2>9, <2>10 DEF Depends, t
<1> QED BY <1>2, <1>3, <1>4

\* mod_add_dependency, for all symbols that a module needs
LEMMA DependsAdded ==
  ASSUME NEW E \in SUBSET Module, NEW n \in Nat, NEW owner \in [1..n -> E \cup {NoFile}],
         NEW base \in Depending(E), base.array.elements = <<>>, NoFile \notin E
  PROVE  LET d == FoldLeft(AddDependency, base, owner)
         IN  d \in Depending(E) /\ Depends(E, d, base, First(owner, n))
<1>2. PICK r \in [0..n -> Depending(E)] :
        /\ r[0] = base /\ r[n] = FoldLeft(AddDependency, base, owner)
        /\ \A k \in 1..n : r[k] = AddDependency(r[k-1], owner[k])
  <2>1. DependRun(E, n, owner, base)
    BY DependFold
  <2> QED BY <2>1 DEF DependRun
<1> DEFINE S == {k \in 0..n : Depends(E, r[k], base, First(owner, k))}
<1>3. 0 \in S
  <2>1. First(owner, 0) = {} /\ 0 \in 0..n
    BY DEF First
  <2>2. Len(base.array.elements) = 0 /\ 1..0 = {}
    OBVIOUS
  <2>3. \A x \in E : base.users[x] \in Nat
    BY DEF Depending
  <2> QED BY <1>2, <2>1, <2>2, <2>3 DEF Depends, Distinct
<1>4. ASSUME NEW k \in 1..n, k - 1 \in S PROVE k \in S
  <2>1. /\ First(owner, k) = First(owner, k-1) \cup {owner[k]} /\ k - 1 \in 0..n /\ k \in 0..n
        /\ r[k] = AddDependency(r[k-1], owner[k])
    BY <1>2, FirstMore
  <2>2. r[k-1] \in Depending(E) /\ Depends(E, r[k-1], base, First(owner, k-1))
    BY <1>4, <2>1
  <2>3. owner[k] \in E \cup {NoFile}
    OBVIOUS
  <2> QED BY <2>1, <2>2, <2>3, DependStep
<1> HIDE DEF S
<1>5. \A k \in 0..n : k \in S
  BY <1>3, <1>4, UpTo
<1>6. n \in 0..n
  OBVIOUS
<1> QED BY <1>2, <1>5, <1>6 DEF S

\* Who exports a symbol
Exporting(m, s) == \E k \in 1..Len(Exports[m.name]) : Exports[m.name][k] = s

\* Symbols of modules and of the kernel
Symbol == STRING \cup KernelSymbols

\* The table has for a symbol one of the modules of S that export it, and the only one
\* if no entry was replaced.
TableIs(t, S) ==
  /\ \A s \in DOMAIN t.table : t.table[s] # NoFile => t.table[s] \in S /\ Exporting(t.table[s], s)
  /\ t.replaced = {} =>
       \A m \in S : \A k \in 1..Len(Exports[m.name]) :
         Exports[m.name][k] \in DOMAIN t.table /\ t.table[Exports[m.name][k]] = m

\* ... also after those of one more module.
LEMMA TableMore ==
  ASSUME NEW S, NEW u, TableIs(u, S), NEW m \in Module, NEW t,
         Symbols(t, u, m, First(Exports[m.name], Len(Exports[m.name])))
  PROVE  TableIs(t, S \cup {m})
<1> DEFINE X == First(Exports[m.name], Len(Exports[m.name]))
<1>1. /\ DOMAIN t.table = DOMAIN u.table \cup X
      /\ \A s \in X : t.table[s] = m
      /\ \A s \in DOMAIN u.table \ X : t.table[s] = u.table[s]
      /\ t.replaced = {} => u.replaced = {} /\ X \cap DOMAIN u.table = {}
  BY DEF Symbols
<1>2. /\ \A s \in X : Exporting(m, s)
      /\ \A k \in 1..Len(Exports[m.name]) : Exports[m.name][k] \in X
  BY DEF First, Exporting
<1> HIDE DEF X
<1>3. ASSUME NEW s \in DOMAIN t.table, t.table[s] # NoFile
      PROVE  t.table[s] \in S \cup {m} /\ Exporting(t.table[s], s)
  <2>1. CASE s \in X
    BY <1>1, <1>2, <2>1
  <2>2. CASE s \notin X
    <3>1. s \in DOMAIN u.table /\ t.table[s] = u.table[s]
      BY <1>1, <2>2
    <3> QED BY <1>3, <3>1 DEF TableIs
  <2> QED BY <2>1, <2>2
<1>4. ASSUME t.replaced = {}, NEW a \in S \cup {m}, NEW k \in 1..Len(Exports[a.name])
      PROVE  Exports[a.name][k] \in DOMAIN t.table /\ t.table[Exports[a.name][k]] = a
  <2>1. CASE a = m
    BY <1>1, <1>2, <1>4, <2>1
  <2>2. CASE a \in S
    <3> DEFINE s == Exports[a.name][k]
    <3>1. s \in DOMAIN u.table /\ u.table[s] = a
      BY <1>1, <1>4, <2>2 DEF TableIs
    <3>2. s \notin X
      BY <1>1, <1>4, <3>1
    <3> HIDE DEF s
    <3>3. s \in DOMAIN t.table /\ t.table[s] = a
      BY <1>1, <3>1, <3>2
    <3> QED BY <3>3 DEF s
  <2> QED BY <2>1, <2>2
<1> QED BY <1>3, <1>4 DEF TableIs

\* The phases before any symbol of a module is known
BeforeLoad == Searching \cup {"array", "sort"}

\* The table of symbols: until modules are loaded those of the kernel, and then those of
\* the modules whose symbols have been read too
TableNow == [table |-> symbols, replaced |-> replaced]
Owners ==
  /\ pc \in BeforeLoad => replaced = {}
  /\ pc \in BeforeLoad \ {"symbols"} => symbols = [s \in KernelSymbols |-> NoFile]
  /\ pc \in {"load", "depend", "output"} => TableNow \in Tabled(Symbol)
  /\ pc = "load" => TableIs(TableNow, Done)
  /\ pc \in {"depend", "output"} => TableIs(TableNow, Elements)

\* What a module depends on, and what it should depend on
Got(m) == {deps[m].elements[k] : k \in 1..Len(deps[m].elements)}
Needed(m) == UNION {Exporters(Needs[m.name][k]) : k \in DOMAIN Needs[m.name]}
Lost(m) == {o \in Elements : <<m, o>> \in lost}
Resolved(m) ==
  /\ Distinct(deps[m].elements) /\ Got(m) \subseteq Needed(m)
  /\ replaced = {} => Needed(m) \ Got(m) \subseteq Lost(m)
Users(m) == {n \in Elements : A!Has(deps[n], m)}

\* The modules up to the i-th have their dependencies, and the others have none.
Dependencies ==
  /\ pc = "load" => deps = [m \in Elements |-> A!ArrayInit(Step)] /\ users = [m \in Elements |-> 0]
  /\ pc \in {"depend", "output"} =>
       /\ deps \in [Elements -> Arrays] /\ users \in [Elements -> Nat]
       /\ i <= Len(modules.elements) + 1
       /\ \A k \in i..Len(modules.elements) : deps[modules.elements[k]].elements = <<>>
       /\ \A k \in 1..i-1 : Resolved(modules.elements[k])
       /\ \A m \in Elements : users[m] = Cardinality(Users(m))
  /\ pc = "output" => i = Len(modules.elements) + 1

\* The inductive invariant of symbols and dependencies
DInv == Owners /\ Dependencies

\* BeforeLoad the symbols are read
LEMMA EarlyOwners ==
  ASSUME IInv, DInv,
         \/ LoadKernelSymbols \/ ListFile \/ Listed \/ ParseFile \/ Parsed
         \/ (\E m \in unread : SearchFile(m)) \/ AddArgument \/ Searched
         \/ BuildArray \/ Built
  PROVE  DInv'
<1>1. /\ pc \in BeforeLoad /\ pc' \in BeforeLoad \cup {"aborted", "failed"} /\ pc' # "symbols"
      /\ UNCHANGED replaced /\ (pc = "symbols" => symbols' = [s \in KernelSymbols |-> NoFile])
      /\ (pc # "symbols" => UNCHANGED symbols)
  BY DEF LoadKernelSymbols, ListFile, Listed, ParseFile, Parsed, SearchFile, AddArgument, Searched,
         BuildArray, Built, BeforeLoad, Searching, loaded
<1> QED BY <1>1 DEF DInv, Owners, Dependencies, BeforeLoad, Searching

\* depmod_modules_sort, after which each module has an empty array
LEMMA SortOwners ==
  ASSUME IInv, DInv, SortModules
  PROVE  DInv'
<1>1. /\ pc = "sort" /\ pc' = "load" /\ UNCHANGED <<symbols, replaced, i>> /\ i = 1
      /\ deps' = [m \in Elements |-> A!ArrayInit(Step)] /\ users' = [m \in Elements |-> 0]
  BY DEF SortModules, IInv, Held
<1>2. Elements' = Elements
  BY SortResult
<1>3. Done' = {}
  <2>1. i' = 1 /\ 1..i'-1 = {}
    BY <1>1
  <2> QED BY <2>1 DEF Done
<1>4. symbols = [s \in KernelSymbols |-> NoFile] /\ replaced = {}
  BY <1>1 DEF DInv, Owners, BeforeLoad
<1>5. TableNow' = [table |-> [s \in KernelSymbols |-> NoFile], replaced |-> {}]
  BY <1>1, <1>4 DEF TableNow
<1>6. TableNow' \in Tabled(Symbol) /\ TableIs(TableNow', {})
  <2>1. KernelSymbols \in SUBSET Symbol /\ [s \in KernelSymbols |-> NoFile] \in [KernelSymbols -> Module \cup {NoFile}]
    BY DEF Symbol
  <2>2. TableNow' \in Tabled(Symbol)
    BY <1>5, <2>1 DEF Tabled
  <2> QED BY <1>5, <2>2 DEF TableIs
<1> QED BY <1>1, <1>2, <1>3, <1>6 DEF DInv, Owners, Dependencies, BeforeLoad, Searching

\* A name that no module has
LEMMA NoFileIsNone == NoFile \notin Module
BY DEF NoFile, Module, Extensions

\* depmod_load_modules
LEMMA LoadOwners ==
  ASSUME IInv, DInv, LoadModule
  PROVE  DInv'
<1> DEFINE m == modules.elements[i]
           ex == Exports[m.name]
<1>1. /\ pc = "load" /\ i <= A!Count(modules) /\ i' = i + 1 /\ kmod' = kmod \ {m}
      /\ UNCHANGED <<found, unread, cfg, modules_by_name, modules_by_uncrelpath, alloc, modules,
                     sort_idx, deps, users, lost, nomem, pc>>
  BY Zenon DEF LoadModule
<1>2. \E t : /\ t = FoldLeft(LAMBDA u, s : SymbolAdd(u, s, m), TableNow, ex)
             /\ symbols' = t.table /\ replaced' = t.replaced
  BY Zenon DEF LoadModule, TableNow
<1>3. i \in 1..Len(modules.elements) /\ m \in Elements /\ m \in Candidate /\ m \in Module
  <2> HIDE <1>2
  <2>1. /\ i \in Nat \ {0} /\ Types /\ modules \in Arrays /\ Elements = Named
    BY <1>1 DEF IInv, Types, Held, Complete
  <2>2. /\ Len(modules.elements) \in Nat /\ A!Count(modules) = Len(modules.elements)
        /\ Elements = {modules.elements[k] : k \in 1..Len(modules.elements)}
    BY <2>1, ElementsAre
  <2>3. i \in 1..Len(modules.elements)
    BY <1>1, <2>1, <2>2
  <2>4. m \in Elements
    BY <2>2, <2>3
  <2> QED BY <2>1, <2>3, <2>4, NamedByName
<1>4. Len(ex) \in Nat /\ ex \in [1..Len(ex) -> Symbol]
  <2> HIDE <1>2
  <2>1. ex \in Seq(STRING)
    BY <1>3, SymbolTypes
  <2> HIDE DEF ex
  <2> QED BY <2>1 DEF Symbol
<1>5. TableNow \in Tabled(Symbol) /\ TableIs(TableNow, Done)
  <2> HIDE <1>2
  <2> QED BY <1>1 DEF DInv, Owners
<1> HIDE DEF m, ex
<1>6. \A t : t = FoldLeft(LAMBDA u, s : SymbolAdd(u, s, m), TableNow, ex) =>
             t \in Tabled(Symbol) /\ Symbols(t, TableNow, m, First(ex, Len(ex)))
  BY <1>3, <1>4, <1>5, SymbolsAdded, Zenon
<1>7. PICK t \in Tabled(Symbol) : /\ Symbols(t, TableNow, m, First(ex, Len(ex)))
                                  /\ symbols' = t.table /\ replaced' = t.replaced
  BY <1>2, <1>6, Zenon
<1> HIDE <1>2, <1>6
<1>8. TableNow' = t
  BY <1>7 DEF TableNow, Tabled
<1>9. TableIs(t, Done \cup {m})
  BY <1>3, <1>5, <1>7, TableMore DEF ex
<1>10. Done' = Done \cup {m}
  <2>1. i \in Nat \ {0} /\ i' = i + 1 /\ modules' = modules
    BY <1>1 DEF IInv, Types
  <2>2. Done' = {modules.elements[k] : k \in 1..i}
    BY <2>1 DEF Done
  <2>3. \A k \in Nat : k \in 1..i <=> k \in 1..i-1 \/ k = i
    BY <2>1
  <2> QED BY <2>1, <2>2, <2>3 DEF Done, m
<1>11. Elements' = Elements
  BY <1>1 DEF Elements
<1> QED BY <1>1, <1>7, <1>8, <1>9, <1>10, <1>11 DEF DInv, Owners, Dependencies, BeforeLoad, Searching

\* When all symbols are known, no module has a dependency yet.
LEMMA LoadedOwners ==
  ASSUME IInv, DInv, ModulesLoaded
  PROVE  DInv'
<1>1. /\ pc = "load" /\ pc' = "depend" /\ i' = 1 /\ i > A!Count(modules)
      /\ UNCHANGED <<symbols, replaced, modules, deps, users>>
      /\ modules \in Arrays /\ i \in Nat \ {0} /\ i <= Len(modules.elements) + 1
  BY DEF ModulesLoaded, IInv, Types, Held
<1>2. Elements' = Elements /\ TableNow' = TableNow /\ modules' = modules
  BY <1>1 DEF Elements, TableNow
<1>3. /\ Len(modules.elements) \in Nat /\ A!Count(modules) = Len(modules.elements)
      /\ Elements = {modules.elements[k] : k \in 1..Len(modules.elements)}
  BY <1>1, ElementsAre
<1>4. Done = Elements
  <2>1. i = Len(modules.elements) + 1
    BY <1>1, <1>3
  <2> QED BY <1>3, <2>1 DEF Done
<1>5. Owners'
  BY <1>1, <1>2, <1>4 DEF DInv, Owners, BeforeLoad, Searching
<1>6. deps = [m \in Elements |-> A!ArrayInit(Step)] /\ users = [m \in Elements |-> 0]
  BY <1>1 DEF DInv, Dependencies
<1>7. A!ArrayInit(Step) \in Arrays /\ A!ArrayInit(Step).elements = <<>>
  BY StepType DEF A!ArrayInit, Arrays
<1>8. \A m \in Elements : Users(m)' = {} /\ users'[m] = 0
  <2>1. \A n, m \in Elements : ~A!Has(deps[n], m)
    BY <1>6, <1>7 DEF A!Has, A!Count
  <2> QED BY <1>1, <1>2, <1>6, <2>1 DEF Users
<1>9. \A m \in Elements : users'[m] = Cardinality(Users(m)')
  BY <1>8, FS_EmptySet
<1>10. \A k \in 1..Len(modules.elements) : deps[modules.elements[k]].elements = <<>>
  BY <1>3, <1>6, <1>7
<1>11. deps \in [Elements -> Arrays] /\ users \in [Elements -> Nat]
  BY <1>6, <1>7
<1>12. \A k \in 1..i'-1 : FALSE
  BY <1>1
<1>13. Dependencies'
  BY <1>1, <1>2, <1>3, <1>9, <1>10, <1>11, <1>12 DEF Dependencies
<1> QED BY <1>5, <1>13 DEF DInv

\* The modules that the symbols of a table lead to are those that export them.
LEMMA FindsExporters ==
  ASSUME IInv, DInv, pc = "depend", NEW m \in Elements, NEW n \in Nat, Needs[m.name] \in [1..n -> STRING],
         NEW owner \in [1..n -> Elements \cup {NoFile}],
         \A k \in 1..n : owner[k] \in SymbolFind(Needs[m.name][k])
  PROVE  LET O == First(owner, n) \ {NoFile}
         IN  O \subseteq Needed(m) /\ (replaced = {} => O = Needed(m))
<1> DEFINE need == Needs[m.name]
<1>1. /\ \A s \in DOMAIN symbols : symbols[s] # NoFile => symbols[s] \in Elements /\ Exporting(symbols[s], s)
      /\ replaced = {} =>
           \A a \in Elements : \A k \in 1..Len(Exports[a.name]) :
             Exports[a.name][k] \in DOMAIN symbols /\ symbols[Exports[a.name][k]] = a
  BY DEF DInv, Owners, TableIs, TableNow
<1>2. /\ modules \in Arrays /\ Elements = Named /\ Types
  BY DEF IInv, Types, Held, Complete
<1>3. Elements \subseteq Module /\ NoFile \notin Elements
  BY <1>2, ElementsAre, NoFileIsNone
<1>4. \A a \in Elements : DOMAIN Exports[a.name] = 1..Len(Exports[a.name])
  BY <1>2, NamedByName, SymbolTypes
<1>5. \A s : Exporters(s) = {a \in Elements : Exporting(a, s)}
  BY <1>4 DEF Exporters, Exporting
<1>6. DOMAIN need = 1..n
  OBVIOUS
<1> HIDE DEF need
<1>7. ASSUME NEW k \in 1..n, owner[k] # NoFile PROVE owner[k] \in Exporters(need[k])
  <2>1. need[k] \in DOMAIN symbols /\ owner[k] = symbols[need[k]]
    BY <1>7 DEF SymbolFind, need
  <2> QED BY <1>1, <1>5, <1>7, <2>1
<1>8. ASSUME replaced = {}, NEW k \in 1..n, NEW a \in Exporters(need[k]) PROVE owner[k] = a /\ a # NoFile
  <2>1. a \in Elements /\ Exporting(a, need[k])
    BY <1>5
  <2>2. need[k] \in DOMAIN symbols /\ symbols[need[k]] = a
    BY <1>1, <1>8, <2>1 DEF Exporting
  <2> QED BY <1>3, <1>8, <2>1, <2>2 DEF SymbolFind, need
<1>9. Needed(m) = UNION {Exporters(need[k]) : k \in 1..n}
  BY <1>6 DEF Needed, need
<1> DEFINE O == First(owner, n) \ {NoFile}
<1>10. ASSUME NEW x \in O PROVE x \in Needed(m)
  <2>1. PICK k \in 1..n : x = owner[k] /\ x # NoFile
    BY DEF First
  <2> QED BY <1>7, <1>9, <2>1
<1>11. ASSUME replaced = {}, NEW x \in Needed(m) PROVE x \in O
  <2>1. PICK k \in 1..n : x \in Exporters(need[k])
    BY <1>9
  <2> QED BY <1>8, <1>11, <2>1 DEF First
<1> QED BY <1>10, <1>11

\* depmod_load_dependencies, for a module whose array is empty
LEMMA DependOwners ==
  ASSUME IInv, DInv, LoadDependencies
  PROVE  DInv'
<1> DEFINE m == modules.elements[i]
           N == Len(modules.elements)
           base == [array |-> deps[m], users |-> users]
<1>1. /\ pc = "depend" /\ pc' = "depend" /\ i' = i + 1 /\ i <= A!Count(modules)
      /\ UNCHANGED <<modules, symbols, replaced>>
  BY Zenon DEF LoadDependencies
<1>2. PICK owner \in [DOMAIN Needs[m.name] -> Elements \cup {NoFile}], full \in SUBSET DOMAIN Needs[m.name] :
        LET added == [k \in DOMAIN Needs[m.name] |-> IF k \in full THEN NoFile ELSE owner[k]]
            d == FoldLeft(AddDependency, base, added)
        IN  /\ \A k \in DOMAIN Needs[m.name] : owner[k] \in SymbolFind(Needs[m.name][k])
            /\ deps' = [deps EXCEPT ![m] = d.array] /\ users' = d.users
            /\ lost' = lost \cup {<<m, owner[k]>> : k \in full}
  BY Zenon DEF LoadDependencies
<1> DEFINE added == [k \in DOMAIN Needs[m.name] |-> IF k \in full THEN NoFile ELSE owner[k]]
           d == FoldLeft(AddDependency, base, added)
<1>3. deps' = [deps EXCEPT ![m] = d.array] /\ users' = d.users
  BY <1>2
<1> HIDE DEF d
<1>4. /\ modules \in Arrays /\ Elements = Named /\ Types /\ i \in Nat \ {0} /\ Distinct(modules.elements)
  BY <1>1 DEF IInv, Types, Held, Complete
<1>5. /\ N \in Nat /\ i \in 1..N /\ Elements = {modules.elements[k] : k \in 1..N} /\ Elements \subseteq Module
  BY <1>1, <1>4, ElementsAre
<1>6. m \in Elements /\ NoFile \notin Elements /\ IsFiniteSet(Elements) /\ m \in Candidate
  <2>1. m \in Elements
    BY <1>5
  <2>2. IsFiniteSet(Elements)
    BY <1>4, <1>5, ElementsAre, FinitelyMany
  <2> QED BY <1>4, <1>5, <2>1, <2>2, NoFileIsNone, NamedByName
<1>7. /\ deps \in [Elements -> Arrays] /\ users \in [Elements -> Nat]
      /\ \A k \in i..N : deps[modules.elements[k]].elements = <<>>
      /\ \A k \in 1..i-1 : Resolved(modules.elements[k])
      /\ \A x \in Elements : users[x] = Cardinality(Users(x))
  BY <1>1 DEF DInv, Dependencies
<1> HIDE DEF N
<1>8. base \in Depending(Elements) /\ base.array.elements = <<>>
  BY <1>5, <1>6, <1>7 DEF Depending
<1> DEFINE n == Len(Needs[m.name])
<1>9. n \in Nat /\ Needs[m.name] \in [1..n -> STRING] /\ DOMAIN Needs[m.name] = 1..n
  <2>1. Needs[m.name] \in Seq(STRING)
    BY <1>6, SymbolTypes
  <2> HIDE DEF m
  <2> QED BY <2>1
<1> HIDE DEF n, m, base
<1>10. owner \in [1..n -> Elements \cup {NoFile}] /\ added \in [1..n -> Elements \cup {NoFile}]
  BY <1>9
<1> DEFINE O == First(added, n)
           L == {owner[k] : k \in full} \ {NoFile}
<1>24. /\ \A x \in Elements : x \in O => x \in First(owner, n)
       /\ \A x \in Elements : x \in First(owner, n) => x \in O \/ x \in L
  BY <1>6, <1>9 DEF First
<1>25. lost \subseteq lost' /\ \A x \in L \cap Elements : <<m, x>> \in lost'
  BY <1>2
<1> HIDE DEF added
<1>11. d \in Depending(Elements) /\ Depends(Elements, d, base, O)
  BY <1>5, <1>6, <1>8, <1>9, <1>10, DependsAdded DEF d
<1>12. O \ {NoFile} \subseteq Needed(m) /\ (replaced = {} => Needed(m) \ O \subseteq L \cap Elements)
  <2> DEFINE W == First(owner, n) \ {NoFile}
  <2>1. W \subseteq Needed(m) /\ (replaced = {} => W = Needed(m))
    BY <1>1, <1>2, <1>6, <1>9, <1>10, FindsExporters
  <2>2. O \subseteq Elements \cup {NoFile} /\ W \subseteq Elements
    BY <1>10 DEF First
  <2> HIDE DEF O, L
  <2>3. O \ {NoFile} \subseteq W /\ W \ O \subseteq L \cap Elements
    BY <1>24, <2>2
  <2> QED BY <2>1, <2>3
<1> HIDE DEF O, L
<1>13. Elements' = Elements /\ TableNow' = TableNow /\ \A x : Needed(x)' = Needed(x)
  BY <1>1 DEF Elements, TableNow, Needed, Exporters
<1>26. \A x : (x = m => (L \cap Elements) \subseteq Lost(x)') /\ Lost(x) \subseteq Lost(x)'
  BY <1>13, <1>25 DEF Lost
<1>14. Owners'
  BY <1>1, <1>13 DEF DInv, Owners, BeforeLoad, Searching
<1>15. /\ deps' \in [Elements -> Arrays] /\ users' \in [Elements -> Nat] /\ deps'[m] = d.array
       /\ \A x \in Elements \ {m} : deps'[x] = deps[x]
  BY <1>3, <1>6, <1>7, <1>11 DEF Depending
<1>16. \A k \in 1..N : k # i => modules.elements[k] # m
  BY <1>4, <1>5 DEF Distinct, m, N
<1>17. ASSUME NEW k \in i'..N PROVE deps'[modules.elements[k]].elements = <<>>
  <2>1. k \in i..N /\ k \in 1..N /\ k # i
    BY <1>1, <1>5
  <2> QED BY <1>5, <1>7, <1>15, <1>16, <2>1
<1>18. ASSUME NEW x, x = m PROVE Resolved(x)'
  <2>1. Distinct(d.array.elements) /\ {d.array.elements[k] : k \in 1..Len(d.array.elements)} = O \ {NoFile}
    BY <1>11 DEF Depends
  <2>2. replaced' = replaced /\ Needed(x)' = Needed(m) /\ deps'[x] = d.array
    BY <1>1, <1>13, <1>15, <1>18
  <2>3. Got(x)' = O \ {NoFile} /\ Distinct(deps'[x].elements)
    BY <2>1, <2>2 DEF Got
  <2>4. NoFile \notin Needed(m)
    BY <1>6 DEF Needed, Exporters
  <2>5. replaced = {} => Needed(m) \ (O \ {NoFile}) \subseteq Lost(x)'
    BY <1>12, <1>18, <1>26, <2>4
  <2> QED BY <1>12, <2>2, <2>3, <2>5 DEF Resolved
<1>19. ASSUME NEW k \in 1..i'-1 PROVE Resolved(modules.elements[k])'
  <2>1. CASE k = i
    <3>1. modules'.elements[k] = m
      BY <1>1, <2>1 DEF m
    <3> HIDE <1>3
    <3> QED BY <1>18, <3>1
  <2>2. CASE k # i
    <3>1. k \in 1..i-1 /\ k \in 1..N
      BY <1>1, <1>5, <2>2
    <3> DEFINE x == modules.elements[k]
    <3>2. x \in Elements /\ x # m /\ Resolved(x)
      BY <1>5, <1>7, <1>16, <2>2, <3>1
    <3>3. deps'[x] = deps[x] /\ x' = x /\ replaced' = replaced /\ Needed(x)' = Needed(x)
      BY <1>1, <1>13, <1>15, <3>2
    <3> HIDE DEF x
    <3>5. Lost(x) \subseteq Lost(x)'
      <4>1. \A y : y = x => Lost(y) \subseteq Lost(y)'
        BY <1>26
      <4> QED BY <3>3, <4>1 DEF Lost
    <3>4. Resolved(x)'
      BY <3>2, <3>3, <3>5 DEF Resolved, Got
    <3> QED BY <3>4 DEF x
  <2> QED BY <2>1, <2>2
<1>20. ASSUME NEW x \in Elements PROVE users'[x] = Cardinality(Users(x)')
  <2>1. users'[x] = users[x] + (IF x \in O THEN 1 ELSE 0)
    BY <1>3, <1>11 DEF Depends, base
  <2>2. A!Has(deps'[m], x) <=> x \in O
    <3> DEFINE s == d.array.elements
    <3>1. {s[k] : k \in 1..Len(s)} = O \ {NoFile} /\ x # NoFile
      BY <1>6, <1>11 DEF Depends
    <3>2. deps'[m].elements = s
      BY <1>15
    <3> HIDE DEF s
    <3>3. (\E k \in 1..Len(s) : s[k] = x) <=> x \in O
      BY <3>1
    <3> QED BY <3>2, <3>3 DEF A!Has, A!Count
  <2>3. m \notin Users(x)
    <3>1. deps[m].elements = <<>>
      BY <1>5, <1>7 DEF m
    <3> QED BY <3>1 DEF Users, A!Has, A!Count
  <2>4. Users(x)' = Users(x) \cup (IF x \in O THEN {m} ELSE {})
    <3>1. Users(x)' = {a \in Elements : A!Has(deps'[a], x)}
      BY <1>13 DEF Users
    <3>2. \A a \in Elements \ {m} : A!Has(deps'[a], x) <=> A!Has(deps[a], x)
      BY <1>15
    <3> QED BY <1>6, <2>2, <2>3, <3>1, <3>2 DEF Users
  <2>5. IsFiniteSet(Users(x)) /\ Cardinality(Users(x)) \in Nat
    BY <1>6, FS_Subset, FS_CardinalityType DEF Users
  <2>6. Cardinality(Users(x) \cup {m}) = Cardinality(Users(x)) + 1
    BY <2>3, <2>5, FS_AddElement
  <2> QED BY <1>7, <2>1, <2>4, <2>6
<1>21. i' <= N + 1
  BY <1>1, <1>5
<1>22. modules' = modules /\ pc' = "depend"
  BY <1>1
<1>23. Dependencies'
  BY <1>13, <1>15, <1>17, <1>19, <1>20, <1>21, <1>22 DEF Dependencies, N
<1> QED BY <1>14, <1>23 DEF DInv

\* The output and the end
LEMMA LastOwners ==
  ASSUME IInv, DInv, Output \/ Shutdown("output", "success") \/ Shutdown("failed", "failure")
  PROVE  DInv'
<1>1. CASE Output
  <2>1. /\ pc = "depend" /\ pc' = "output" /\ i > A!Count(modules)
        /\ UNCHANGED <<modules, symbols, replaced, deps, users, lost, i>>
        /\ modules \in Arrays /\ i \in Nat \ {0}
    BY <1>1 DEF Output, loaded, IInv, Types
  <2>2. Elements' = Elements /\ TableNow' = TableNow /\ modules' = modules
    BY <2>1 DEF Elements, TableNow
  <2>3. Len(modules.elements) \in Nat /\ A!Count(modules) = Len(modules.elements)
    BY <2>1, ElementsAre
  <2>4. \A x : Users(x)' = Users(x)
    BY <2>1, <2>2 DEF Users
  <2>5. \A x : Resolved(x)' = Resolved(x)
    BY <2>1, <2>2 DEF Resolved, Got, Lost, Needed, Exporters
  <2>6. Owners'
    BY <2>1, <2>2 DEF DInv, Owners, BeforeLoad, Searching
  <2>7. i = Len(modules.elements) + 1
    BY <2>1, <2>3 DEF DInv, Dependencies
  <2>8. Dependencies'
    BY <2>1, <2>2, <2>4, <2>5, <2>7 DEF DInv, Dependencies
  <2> QED BY <2>6, <2>8 DEF DInv
<1>2. CASE Shutdown("output", "success") \/ Shutdown("failed", "failure")
  <2>1. pc' \in {"success", "failure", "aborted"}
    BY <1>2 DEF Shutdown
  <2> QED BY <2>1 DEF DInv, Owners, Dependencies, BeforeLoad, Searching
<1> QED BY <1>1, <1>2

\* When depmod starts
LEMMA DInvInit == Init => DInv
BY DEF Init, DInv, Owners, Dependencies, BeforeLoad, Searching

\* Every step keeps the invariant of symbols and dependencies.
LEMMA DInvNext == IInv /\ DInv /\ [Next]_vars => DInv'
<1> SUFFICES ASSUME IInv, DInv, [Next]_vars PROVE DInv'
  OBVIOUS
<1>1. CASE \/ LoadKernelSymbols \/ ListFile \/ Listed \/ ParseFile \/ Parsed
           \/ (\E m \in unread : SearchFile(m)) \/ AddArgument \/ Searched
           \/ BuildArray \/ Built
  BY <1>1, EarlyOwners
<1>2. CASE SortModules
  BY <1>2, SortOwners
<1>3. CASE LoadModule
  BY <1>3, LoadOwners
<1>4. CASE ModulesLoaded
  BY <1>4, LoadedOwners
<1>5. CASE LoadDependencies
  BY <1>5, DependOwners
<1>6. CASE Output \/ Shutdown("output", "success") \/ Shutdown("failed", "failure")
  BY <1>6, LastOwners
<1>7. CASE UNCHANGED vars
  <2>1. UNCHANGED <<pc, modules, symbols, replaced, deps, users, lost, i>>
    BY <1>7 DEF vars, loaded
  <2>2. Elements' = Elements /\ TableNow' = TableNow /\ Done' = Done /\ modules' = modules
    BY <2>1 DEF Elements, TableNow, Done
  <2>3. \A x : Users(x)' = Users(x)
    BY <2>1, <2>2 DEF Users
  <2>4. \A x : Resolved(x)' = Resolved(x)
    BY <2>1, <2>2 DEF Resolved, Got, Lost, Needed, Exporters
  <2>5. Owners'
    BY <2>1, <2>2 DEF DInv, Owners
  <2>6. Dependencies'
    BY <2>1, <2>2, <2>3, <2>4 DEF DInv, Dependencies
  <2> QED BY <2>5, <2>6 DEF DInv
<1> QED BY <1>1, <1>2, <1>3, <1>4, <1>5, <1>6, <1>7 DEF Next

\* A sequence without duplicates is as long as the set of its elements is large.
LEMMA DistinctCount ==
  ASSUME NEW T, NEW s \in Seq(T), Distinct(s)
  PROVE  Cardinality({s[k] : k \in 1..Len(s)}) = Len(s)
<1> DEFINE S == {s[k] : k \in 1..Len(s)}
           f == [k \in 1..Len(s) |-> s[k]]
<1>1. Len(s) \in Nat
  OBVIOUS
<1>2. IsFiniteSet(1..Len(s)) /\ Cardinality(1..Len(s)) = Len(s)
  BY <1>1, FS_Interval, SMTT(30)
<1>3. f \in Surjection(1..Len(s), S)
  BY DEF Surjection
<1>4. f \in Injection(1..Len(s), S)
  BY DEF Injection, IsInjective, Distinct
<1>5. f \in Bijection(1..Len(s), S)
  BY <1>3, <1>4 DEF Bijection
<1> HIDE DEF f, S
<1>6. Cardinality(S) = Cardinality(1..Len(s))
  BY <1>2, <1>5, FS_Bijection DEF ExistsBijection
<1> QED BY <1>2, <1>6 DEF S

\* depmod_load: when a module's dependencies are written, they are the modules that export
\* what it needs, once each, and its users are those that depend on it.
THEOREM DepsAlways == Spec => []DepsExact
<1>1. IInv /\ DInv => DepsExact
  <2> SUFFICES ASSUME IInv, DInv, pc = "output"
               PROVE  /\ \A m \in Elements :
                           LET got == {deps[m].elements[k] : k \in 1..A!Count(deps[m])}
                               all == UNION {Exporters(Needs[m.name][k]) : k \in DOMAIN Needs[m.name]}
                           IN  /\ got \subseteq all /\ (replaced = {} => \A o \in all \ got : <<m, o>> \in lost)
                               /\ Cardinality(got) = A!Count(deps[m])
                      /\ \A m \in Elements : users[m] = Cardinality({n \in Elements : A!Has(deps[n], m)})
    BY DEF DepsExact
  <2>1. modules \in Arrays
    BY DEF IInv, Types
  <2>2. /\ Len(modules.elements) \in Nat
        /\ Elements = {modules.elements[k] : k \in 1..Len(modules.elements)}
    BY <2>1, ElementsAre
  <2>3. /\ deps \in [Elements -> Arrays] /\ i = Len(modules.elements) + 1
        /\ \A k \in 1..i-1 : Resolved(modules.elements[k])
        /\ \A m \in Elements : users[m] = Cardinality(Users(m))
    BY DEF DInv, Dependencies
  <2>4. \A m \in Elements : Resolved(m)
    BY <2>2, <2>3
  <2>5. ASSUME NEW m \in Elements
        PROVE  LET got == {deps[m].elements[k] : k \in 1..A!Count(deps[m])}
                   all == UNION {Exporters(Needs[m.name][k]) : k \in DOMAIN Needs[m.name]}
               IN  /\ got \subseteq all /\ (replaced = {} => \A o \in all \ got : <<m, o>> \in lost)
                   /\ Cardinality(got) = A!Count(deps[m])
    <3>1. deps[m].elements \in Seq(Module) /\ A!Count(deps[m]) = Len(deps[m].elements)
      BY <2>3 DEF Arrays, A!Count
    <3>2. Cardinality(Got(m)) = Len(deps[m].elements)
      BY <2>4, <3>1, DistinctCount DEF Resolved, Got
    <3> QED BY <2>4, <3>1, <3>2 DEF Resolved, Got, Needed, Lost
  <2> QED BY <2>3, <2>5 DEF Users
<1>2. Init => DInv
  BY DInvInit
<1>3. IInv /\ DInv /\ [Next]_vars => DInv'
  BY DInvNext
<1> QED BY <1>1, <1>2, <1>3, Invariance, PTL DEF Spec

----------------------------------------------------------------------------
(* Which of several modules is kept.                                       *)

\* The lines that a configuration may have, and the directories that they name: words to
\* search and paths to override
Lines == UNION {UNION {UNION {{c[d][n][k] : k \in DOMAIN c[d][n]} : n \in DOMAIN c[d]} : d \in DOMAIN c}
                  : c \in Configurations}
Words == {Updates} \cup UNION {{l.words[k] : k \in DOMAIN l.words} : l \in {x \in Lines : x.cmd = "search"}}
Paths == {Override(l) : l \in {x \in Lines : x.cmd = "override"}}

\* No directory that a search line names is the beginning of another.
NoneWithin == \A v, w \in Words \ {BuiltIn} : IsPrefix(v, w) => v = w

\* Pieces of such directories
Text == STRING \cup {"updates", "/"}

\* A sequence of a set is one of a larger set.
LEMMA Wider == ASSUME NEW S, NEW T, S \subseteq T, NEW s \in Seq(S) PROVE s \in Seq(T)
OBVIOUS

\* A sequence is one of any set in which all its elements are.
LEMMA Retyped == ASSUME NEW S, NEW T, NEW s \in Seq(S), \A k \in 1..Len(s) : s[k] \in T PROVE s \in Seq(T)
OBVIOUS

\* Lines are lines.
LEMMA LinesAre == Lines \subseteq ConfigLine
<1> SUFFICES ASSUME NEW l \in Lines PROVE l \in ConfigLine
  OBVIOUS
<1>1. PICK c \in Configurations : \E d \in DOMAIN c : \E n \in DOMAIN c[d] : \E j \in DOMAIN c[d][n] : l = c[d][n][j]
  BY DEF Lines
<1>2. PICK d \in DOMAIN c : \E n \in DOMAIN c[d] : \E j \in DOMAIN c[d][n] : l = c[d][n][j]
  BY <1>1
<1>3. PICK n \in DOMAIN c[d] : \E j \in DOMAIN c[d][n] : l = c[d][n][j]
  BY <1>2
<1>4. c[d][n] \in Seq(ConfigLine)
  BY ConfigTypes
<1> QED BY <1>3, <1>4

\* Words are texts.
LEMMA WordTypes == Words \subseteq Seq(Text)
<1>1. ASSUME NEW l \in Lines, l.cmd = "search", NEW k \in DOMAIN l.words PROVE l.words[k] \in Seq(Text)
  <2>5. l \in ConfigLine
    BY LinesAre
  <2>6. l.words \in Seq(Seq(STRING))
    BY <1>1, <2>5 DEF ConfigLine
  <2>7. l.words[k] \in Seq(STRING)
    BY <2>6
  <2> QED BY <2>7 DEF Text
<1>2. Updates \in Seq(Text)
  <2> DEFINE S == Text
  <2>1. "updates" \in S
    BY DEF Text
  <2> HIDE DEF S
  <2>2. <<"updates">> \in Seq(S)
    BY <2>1
  <2> QED BY <2>2 DEF Updates, S
<1> QED BY <1>1, <1>2 DEF Words

\* Of two beginnings of a sequence one is the beginning of the other.
LEMMA Comparable ==
  ASSUME NEW S, NEW v \in Seq(S), NEW w \in Seq(S), NEW r \in Seq(S), IsPrefix(v, r), IsPrefix(w, r),
         Len(v) <= Len(w)
  PROVE  IsPrefix(v, w)
<1>1. Len(v) \in Nat /\ Len(w) \in Nat /\ Len(r) \in Nat /\ Len(w) <= Len(r)
  BY DEF IsPrefix
<1>2. \A k \in 1..Len(w) : w[k] = r[k]
  <2>1. SubSeq(w, 1, Len(w)) = SubSeq(r, 1, Len(w))
    BY DEF IsPrefix
  <2>2. \A k \in 1..Len(w) : SubSeq(w, 1, Len(w))[k] = w[k] /\ SubSeq(r, 1, Len(w))[k] = r[k]
    BY <1>1
  <2> QED BY <2>1, <2>2
<1>3. \A k \in 1..Len(v) : v[k] = r[k]
  <2>1. SubSeq(v, 1, Len(v)) = SubSeq(r, 1, Len(v))
    BY DEF IsPrefix
  <2>2. \A k \in 1..Len(v) : SubSeq(v, 1, Len(v))[k] = v[k] /\ SubSeq(r, 1, Len(v))[k] = r[k]
    BY <1>1
  <2> QED BY <2>1, <2>2
<1>4. \A k \in 1..Len(v) : v[k] = w[k]
  BY <1>1, <1>2, <1>3
<1>5. SubSeq(v, 1, Len(v)) = SubSeq(w, 1, Len(v))
  BY <1>1, <1>4
<1> QED BY <1>5 DEF IsPrefix

\* A module matches one word at most, which may be in the list several times.
LEMMA OneWord ==
  ASSUME NoneWithin, NEW m \in Module, NEW v \in Words, NEW w \in Words, Matches(v, m), Matches(w, m)
  PROVE  v = w
<1>1. v \in Seq(Text) /\ w \in Seq(Text)
  BY WordTypes
<1>2. Rel(m) \in Seq(Text \cup {m.name})
  <2> DEFINE S == Text \cup {m.name}
  <2>1. m.dir \in Seq(STRING)
    BY DEF Module
  <2>2. "/" \in S /\ m.name \in S /\ STRING \subseteq S
    BY DEF Text
  <2>3. m.dir \in Seq(S)
    <3> HIDE DEF S
    <3> QED BY <2>1, <2>2, Wider
  <2> HIDE DEF S
  <2>4. m.dir \o <<"/", m.name>> \in Seq(S)
    BY <2>2, <2>3, TwoMore
  <2> QED BY <2>4 DEF Rel, S
<1>3. v \in Seq(Text \cup {m.name}) /\ w \in Seq(Text \cup {m.name}) /\ Len(v) \in Nat /\ Len(w) \in Nat
  BY <1>1
<1>4. IsPrefix(v, w) \/ IsPrefix(w, v)
  <2>1. CASE Len(v) <= Len(w)
    BY <1>2, <1>3, <2>1, Comparable DEF Matches
  <2>2. CASE Len(w) <= Len(v)
    BY <1>2, <1>3, <2>2, Comparable DEF Matches
  <2> QED BY <1>3, <2>1, <2>2
<1> QED BY <1>4 DEF NoneWithin, Matches

\* The last of some entries
LEMMA LastIs ==
  ASSUME NEW n \in Nat, NEW S \in SUBSET (1..n)
  PROVE  /\ LastOf(S) \in 0..n /\ \A k \in S : k <= LastOf(S)
         /\ S = {} => LastOf(S) = 0
         /\ S # {} => LastOf(S) \in S /\ LastOf(S) = Max(S) /\ LastOf(S) # 0
<1>1. {0} \cup S \in SUBSET (0..n) /\ {0} \cup S # {}
  OBVIOUS
<1>2. LastOf(S) \in {0} \cup S /\ \A k \in {0} \cup S : k <= LastOf(S)
  BY <1>1, Greatest DEF LastOf
<1>3. S # {} => Max(S) \in S /\ \A k \in S : k <= Max(S)
  <2>1. S \in SUBSET (0..n)
    OBVIOUS
  <2> QED BY <2>1, Greatest
<1> DEFINE x == LastOf(S)
           y == Max(S)
<1> HIDE DEF x, y
<1>4. x \in {0} \cup S /\ \A k \in {0} \cup S : k <= x
  BY <1>2 DEF x
<1>5. S # {} => y \in S /\ \A k \in S : k <= y
  BY <1>3 DEF y
<1>6. ASSUME S # {} PROVE x # 0 /\ x = y
  <2>1. y \in S /\ y \in 1..n /\ y <= x
    BY <1>4, <1>5, <1>6
  <2>2. x # 0 /\ x \in S /\ x \in 1..n
    BY <1>4, <2>1
  <2>3. x <= y
    BY <1>5, <1>6, <2>2
  <2> QED BY <2>1, <2>2, <2>3
<1>7. x \in 0..n
  BY <1>4
<1> QED BY <1>4, <1>6, <1>7 DEF x, y

\* Overrides and the list of directories, as depmod has read them
Configured == searches \in Seq(Words) /\ overrides \in Seq(Paths)

\* Where the list of directories puts a module
PlaceOf(m) == IF Own(m) # {} THEN Max(Own(m)) ELSE LastOf(BuiltIns)

\* Places are numbers of the list.
LEMMA PlaceTypes ==
  ASSUME Configured, NEW m
  PROVE  /\ PlaceOf(m) \in 0..Len(searches) /\ Len(searches) \in Nat
         /\ Own(m) \in SUBSET (1..Len(searches)) /\ BuiltIns \in SUBSET (1..Len(searches))
<1> DEFINE n == Len(searches)
<1>1. n \in Nat /\ DOMAIN searches = 1..n
  BY LenProperties DEF Configured
<1> HIDE DEF n
<1>2. Own(m) \in SUBSET (1..n) /\ BuiltIns \in SUBSET (1..n)
  BY <1>1 DEF Own, BuiltIns
<1>3. LastOf(BuiltIns) \in 0..n /\ (Own(m) # {} => Max(Own(m)) \in 1..n)
  BY <1>1, <1>2, LastIs
<1> QED BY <1>1, <1>2, <1>3 DEF PlaceOf, n

\* depmod_module_is_higher_priority, without overrides
LEMMA HigherPlace ==
  ASSUME NoneWithin, Configured, NEW old \in Module, NEW new \in Module, HigherSearch(old, new)
  PROVE  PlaceOf(old) >= PlaceOf(new)
<1> DEFINE n == Len(searches)
           rest == Own(old) \ Own(new)
<1>1. n \in Nat /\ Own(old) \in SUBSET (1..n) /\ Own(new) \in SUBSET (1..n) /\ BuiltIns \in SUBSET (1..n)
  BY PlaceTypes
<1>2. rest \in SUBSET (1..n)
  BY <1>1
<1>3. \A k \in 1..n : searches[k] \in Words
  BY ElementOfSeq, LenProperties DEF Configured
<1> HIDE DEF n, rest
<1> DEFINE a == LastOf(Own(new))
           o == LastOf(rest)
           f == LastOf(Own(old))
           b == LastOf(BuiltIns)
<1>4. a \in 0..n /\ o \in 0..n /\ f \in 0..n /\ b \in 0..n
  BY <1>1, <1>2, LastIs
<1>5. /\ (Own(new) = {} => a = 0) /\ (Own(new) # {} => a = Max(Own(new)) /\ a # 0)
      /\ (Own(old) = {} => f = 0) /\ (Own(old) # {} => f = Max(Own(old)) /\ f # 0)
      /\ (rest = {} => o = 0) /\ (rest # {} => o \in rest /\ o # 0)
      /\ \A k \in Own(old) : k <= f
  BY <1>1, <1>2, LastIs
<1> HIDE DEF a, o, f, b
<1>6. /\ PlaceOf(new) = IF a = 0 THEN b ELSE a
      /\ PlaceOf(old) = IF f = 0 THEN b ELSE f
  BY <1>5 DEF PlaceOf, b
<1>7. (IF a = 0 THEN b ELSE a) <= (IF o = 0 THEN b ELSE o)
  BY DEF HigherSearch, OrBuiltIn, a, o, b, rest
<1>8. CASE rest # {}
  <2>1. o <= f
    BY <1>5, <1>8 DEF rest
  <2> QED BY <1>4, <1>5, <1>6, <1>7, <1>8, <2>1
<1>9. CASE rest = {} /\ Own(old) = {}
  BY <1>4, <1>5, <1>6, <1>7, <1>9
<1>10. CASE rest = {} /\ Own(old) # {}
  <2>1. PICK l \in Own(old) : l \in Own(new)
    BY <1>10 DEF rest
  <2>2. ASSUME NEW k \in Own(new) PROVE k \in Own(old)
    <3>1. searches[k] = searches[l]
      BY <1>1, <1>3, <2>1, OneWord DEF Own
    <3> QED BY <1>1, <2>1, <3>1 DEF Own
  <2>3. Own(new) = Own(old)
    BY <1>10, <2>2 DEF rest
  <2> QED BY <1>4, <1>6, <2>3 DEF a, f
<1> QED BY <1>8, <1>9, <1>10

\* depmod_module_is_higher_priority keeps the old module only when its rank is not lower.
LEMMA HigherRank ==
  ASSUME NoneWithin, Configured, NEW old \in Module, NEW new \in Module, IsHigherPriority(old, new)
  PROVE  Rank(old) >= Rank(new)
<1> DEFINE n == Len(searches)
           p == Len(overrides)
           ov(m) == {k \in DOMAIN overrides : overrides[k] = Rel(m)}
           ks == ov(old) \cup ov(new)
<1>1. /\ n \in Nat /\ p \in Nat /\ DOMAIN overrides = 1..p
      /\ PlaceOf(old) \in 0..n /\ PlaceOf(new) \in 0..n
  BY PlaceTypes, LenProperties DEF Configured
<1>2. \A m : Rank(m) = IF ov(m) # {} THEN n + p + 1 - Min(ov(m)) ELSE PlaceOf(m)
  BY DEF Rank, PlaceOf
<1>3. {k \in DOMAIN overrides : overrides[k] \in {Rel(old), Rel(new)}} = ks
  OBVIOUS
<1>4. IF ks # {} THEN overrides[Min(ks)] # Rel(new) ELSE HigherSearch(old, new)
  BY <1>3 DEF IsHigherPriority
<1>5. \A m : ov(m) \subseteq 1..p
  BY <1>1
<1>6. CASE ks = {}
  BY <1>2, <1>4, <1>6, HigherPlace
<1>7. CASE ks # {}
  <2>1. ks \subseteq Nat
    BY <1>5
  <2> HIDE DEF n, p
  <2> DEFINE x == Min(ks)
             y == Min(ov(old))
             z == Min(ov(new))
  <2>2. x \in ks /\ \A k \in ks : x <= k
    <3> HIDE DEF ks
    <3> QED BY <1>7, <2>1, Least
  <2>3. x \in ov(old)
    BY <1>4, <1>7, <2>2
  <2>4. y \in ov(old) /\ \A k \in ov(old) : y <= k
    <3>1. ov(old) \subseteq Nat /\ ov(old) # {}
      BY <2>1, <2>3
    <3> HIDE DEF ov
    <3> QED BY <3>1, Least
  <2>5. ov(new) # {} => z \in ov(new)
    <3>1. ov(new) \subseteq Nat
      BY <2>1
    <3> HIDE DEF ov
    <3> QED BY <3>1, Least
  <2>6. x \in 1..p /\ y \in 1..p /\ (ov(new) # {} => z \in 1..p)
    BY <1>5, <2>3, <2>4, <2>5
  <2>7. y \in ks /\ (ov(new) # {} => z \in ks)
    BY <2>4, <2>5
  <2> HIDE DEF x, ks
  <2>8. x = y /\ (ov(new) # {} => x <= z)
    BY <2>2, <2>3, <2>4, <2>6, <2>7
  <2>9. ov(old) # {}
    BY <2>3
  <2>10. Rank(old) = n + p + 1 - y /\ Rank(new) = IF ov(new) # {} THEN n + p + 1 - z ELSE PlaceOf(new)
    BY <1>2, <2>9
  <2> HIDE DEF y, z, ov
  <2> QED BY <1>1, <2>6, <2>8, <2>10
<1> QED BY <1>6, <1>7

\* What cfg_file_parse works on
Configs == [searches : Seq(Words), overrides : Seq(Paths)]

\* Reverse
LEMMA Reversed ==
  ASSUME NEW S, NEW s \in Seq(S)
  PROVE  /\ Reverse(s) \in Seq(S) /\ Len(Reverse(s)) = Len(s) /\ Len(s) \in Nat
         /\ \A k \in 1..Len(s) : Reverse(s)[k] = s[(Len(s) - k) + 1]
<1> DEFINE n == Len(s)
<1>1. n \in Nat /\ \A k \in 1..n : (n - k) + 1 \in 1..n /\ s[(n - k) + 1] \in S
  OBVIOUS
<1>2. Reverse(s) = [k \in 1..n |-> s[(n - k) + 1]]
  BY DEF Reverse
<1> HIDE DEF n
<1>3. Reverse(s) \in [1..n -> S]
  BY <1>1, <1>2
<1>4. Reverse(s) \in Seq(S) /\ Len(Reverse(s)) = n
  BY <1>1, <1>3
<1> QED BY <1>1, <1>2, <1>4 DEF n

\* A line adds words or a path to a configuration.
LEMMA LineTypes ==
  ASSUME NEW c \in Configs, NEW l \in Lines
  PROVE  Line(c, l) \in Configs
<1>1. l \in ConfigLine
  BY LinesAre
<1>2. c.searches \in Seq(Words) /\ c.overrides \in Seq(Paths)
  BY DEF Configs
<1>3. CASE l.cmd = "search"
  <2>1. l.words \in Seq(Words)
    <3>1. l.words \in Seq(Seq(STRING))
      BY <1>1, <1>3 DEF ConfigLine
    <3>2. DOMAIN l.words = 1..Len(l.words) /\ Len(l.words) \in Nat
      BY <3>1
    <3>3. \A k \in 1..Len(l.words) : l.words[k] \in Words
      BY <1>3, <3>2 DEF Words
    <3> QED BY <3>1, <3>3, Retyped
  <2> DEFINE s == Reverse(l.words) \o c.searches
  <2>2. s \in Seq(Words)
    BY <1>2, <2>1, Reversed, ConcatProperties
  <2>3. Line(c, l) = [c EXCEPT !.searches = s]
    BY <1>3 DEF Line
  <2> HIDE DEF s
  <2> QED BY <1>2, <2>2, <2>3 DEF Configs
<1>4. CASE l.cmd = "override" /\ l.matches
  <2> DEFINE s == <<Override(l)>> \o c.overrides
  <2>1. Override(l) \in Paths
    BY <1>4 DEF Paths
  <2>2. s \in Seq(Paths)
    BY <1>2, <2>1
  <2>3. Line(c, l) = [c EXCEPT !.overrides = s]
    BY <1>4 DEF Line
  <2> HIDE DEF s
  <2> QED BY <1>2, <2>2, <2>3 DEF Configs
<1>5. CASE ~(l.cmd = "search" \/ (l.cmd = "override" /\ l.matches))
  <2>1. Line(c, l) = c
    BY <1>5 DEF Line
  <2> QED BY <2>1
<1> QED BY <1>3, <1>4, <1>5

\* The loop of cfg_file_parse
LineRun(n, lines, base) ==
  \E r \in [0..n -> Configs] :
    /\ r[0] = base /\ r[n] = FoldLeft(Line, base, lines)
    /\ \A k \in 1..n : r[k] = Line(r[k-1], lines[k])

\* cfg_file_parse takes the lines of a file in order.
LEMMA LineFold ==
  ASSUME NEW n \in Nat, NEW lines \in [1..n -> Lines], NEW base \in Configs
  PROVE  LineRun(n, lines, base)
<1> DEFINE D == Configs
           G == [k \in 1..n |-> [d \in D |-> Line(d, lines[k])]]
           Is(h) == h = [s \in SUBSET DOMAIN lines |->
                           IF s = {} THEN base ELSE Line(h[s \ {Max(s)}], lines[Max(s)])]
           h == CHOOSE h : Is(h)
<1>1. \A d \in D : \A k \in 1..n : Line(d, lines[k]) \in D
  BY LineTypes
<1> HIDE DEF D
<1>2. G \in [1..n -> [D -> D]] /\ base \in D
  BY <1>1 DEF D
<1>3. \A k \in 1..n : \A d \in D : G[k][d] = Line(d, lines[k])
  OBVIOUS
<1> HIDE DEF G
<1>4. PICK f \in [SUBSET (1..n) -> D] : Solves(f, n, base, G)
  BY <1>2, FoldExists
<1>5. \A s \in SUBSET (1..n) :
        (IF s = {} THEN base ELSE G[Max(s)][f[s \ {Max(s)}]]) =
        (IF s = {} THEN base ELSE Line(f[s \ {Max(s)}], lines[Max(s)]))
  BY <1>3, MaxOf
<1>6. Is(f)
  <2>1. DOMAIN lines = 1..n
    OBVIOUS
  <2>2. f = [s \in SUBSET (1..n) |-> IF s = {} THEN base ELSE G[Max(s)][f[s \ {Max(s)}]]]
    BY <1>4, Zenon DEF Solves
  <2> QED BY <1>5, <2>1, <2>2
<1>7. Is(h)
  <2> HIDE DEF Is
  <2> QED BY <1>6, Zenon
<1>8. h[1..n] = FoldLeft(Line, base, lines)
  <2>1. DOMAIN lines = 1..n
    OBVIOUS
  <2>2. h[DOMAIN lines] = FoldLeft(Line, base, lines)
    BY Zenon DEF FoldLeft, MapThenFoldSet
  <2> HIDE DEF h
  <2> QED BY <2>1, <2>2
<1> HIDE DEF h
<1>9. \A s \in SUBSET (1..n) : h[s] = IF s = {} THEN base ELSE Line(h[s \ {Max(s)}], lines[Max(s)])
  <2>1. DOMAIN lines = 1..n
    OBVIOUS
  <2> QED BY <1>7, <2>1
<1> HIDE DEF Is
<1>10. h[{}] = base
  BY <1>9
<1>11. ASSUME NEW k \in 1..n PROVE h[1..k] = Line(h[1..k-1], lines[k])
  <2>1. 1..k \in SUBSET (1..n) /\ 1..k # {} /\ Max(1..k) = k /\ (1..k) \ {k} = 1..k-1
    BY MaxOf
  <2> QED BY <1>9, <2>1
<1>12. Follows(h, D, n, base, G)
  BY <1>3, <1>10, <1>11 DEF Follows
<1>13. PICK r \in [0..n -> D] : r[0] = base /\ r[n] = h[1..n] /\ \A k \in 1..n : r[k] = G[k][r[k-1]]
  <2>1. Loops(D, n, base, G, h[1..n])
    BY <1>2, <1>12, FoldSteps
  <2> QED BY <2>1, Zenon DEF Loops
<1>14. \A k \in 1..n : r[k-1] \in D
  BY <1>13
<1>15. \A k \in 1..n : r[k] = Line(r[k-1], lines[k])
  BY <1>3, <1>13, <1>14
<1> QED BY <1>8, <1>13, <1>15 DEF D, LineRun

\* InsertAt puts e behind the first p elements.
Inserted(S, s, p, e) ==
  LET t == InsertAt(s, p + 1, e)
  IN  /\ t \in Seq(S) /\ Len(s) \in Nat /\ Len(t) = Len(s) + 1
      /\ \A k \in 1..p : t[k] = s[k]
      /\ t[p + 1] = e
      /\ \A k \in p+1..Len(s) : t[k + 1] = s[k]

\* What InsertAt makes of a sequence
LEMMA Inserts ==
  ASSUME NEW S, NEW s \in Seq(S), NEW p \in 0..Len(s), NEW e \in S
  PROVE  Inserted(S, s, p, e)
<1> DEFINE n == Len(s)
           a == SubSeq(s, 1, p)
           b == SubSeq(s, p + 1, n)
           c == a \o <<e>>
           t == c \o b
<1>1. n \in Nat /\ p \in 0..n /\ \A k \in 1..n : s[k] \in S
  OBVIOUS
<1>2. /\ a \in Seq(S) /\ Len(a) = p /\ \A k \in 1..p : a[k] = s[k]
      /\ b \in Seq(S) /\ Len(b) = n - p /\ \A k \in 1..n-p : b[k] = s[p + k]
  BY <1>1
<1>3. InsertAt(s, p + 1, e) = t
  <2>1. (p + 1) - 1 = p
    OBVIOUS
  <2> QED BY <2>1 DEF InsertAt
<1> HIDE DEF a, b, n
<1>4. /\ c \in Seq(S) /\ Len(c) = p + 1 /\ c[p + 1] = e
      /\ \A k \in 1..p : c[k] = s[k]
  <2>1. p \in Nat /\ Len(<<e>>) = 1 /\ <<e>>[1] = e /\ <<e>> \in Seq(S)
    BY <1>1
  <2>2. c \in Seq(S) /\ Len(c) = p + 1
    BY <1>2, <2>1, ConcatProperties
  <2> DEFINE x == <<e>>
  <2>3. x \in Seq(S) /\ Len(x) = 1 /\ x[1] = e /\ c = a \o x
    BY <2>1
  <2> HIDE DEF c, x
  <2>4. \A k \in 1..p+1 : c[k] = IF k <= p THEN a[k] ELSE x[k - p]
    <3>1. a \in Seq(S) /\ x \in Seq(S)
      BY <1>2, <2>3
    <3>2. \A k \in 1..Len(a)+Len(x) : (a \o x)[k] = IF k <= Len(a) THEN a[k] ELSE x[k - Len(a)]
      BY <3>1, ConcatProperties, Zenon
    <3>3. Len(a) = p /\ Len(x) = 1 /\ a \o x = c
      BY <1>2, <2>3, Zenon
    <3> QED BY <3>2, <3>3, Zenon
  <2>5. c[p + 1] = x[(p + 1) - p] /\ (p + 1) - p = 1
    BY <2>1, <2>4
  <2> QED BY <1>2, <2>1, <2>2, <2>3, <2>4, <2>5
<1> HIDE DEF c
<1>5. t \in Seq(S) /\ Len(t) = n + 1
  <2>1. t \in Seq(S) /\ Len(t) = Len(c) + Len(b)
    BY <1>2, <1>4, ConcatProperties
  <2> HIDE DEF t
  <2> QED BY <1>1, <1>2, <1>4, <2>1
<1>6. \A k \in 1..n+1 : t[k] = IF k <= p + 1 THEN c[k] ELSE b[k - (p + 1)]
  BY <1>1, <1>2, <1>4
<1> HIDE DEF t
<1>7. \A k \in 1..p : t[k] = s[k]
  BY <1>1, <1>4, <1>6
<1>8. t[p + 1] = e
  BY <1>1, <1>4, <1>6
<1>9. ASSUME NEW k \in p+1..n PROVE t[k + 1] = s[k]
  <2>1. k + 1 \in 1..n+1 /\ ~(k + 1 <= p + 1) /\ (k + 1) - (p + 1) = k - p /\ k - p \in 1..n-p /\ p + (k - p) = k
    BY <1>1
  <2> QED BY <1>2, <1>6, <2>1
<1> QED BY <1>1, <1>3, <1>5, <1>7, <1>8, <1>9 DEF n, Inserted

\* One of the modules of its name that has at least its rank is in the table.
KeptNow(m) == m.name \in DOMAIN modules_by_name /\ Rank(modules_by_name[m.name]) >= Rank(m)

\* What is searched is what the configuration may say, and while modules are searched one of
\* the highest rank of every name that was read is in the table.
KInv ==
  /\ Configured
  /\ files \in Seq(Entries(conf))
  /\ pc = "list" => unread \subseteq Entries(conf)
  /\ pc \in {"list", "parse", "search"} => args = <<>>
  /\ pc = "arguments" => args # <<>>
  /\ pc = "search" /\ NoneWithin => \A m \in disk \ unread : KeptNow(m)
  /\ (pc = "array" \/ pc \in Complete) /\ args = <<>> /\ NoneWithin => \A m \in disk : KeptNow(m)

\* How many files come before one of a name
LEMMA BeforeTypes ==
  ASSUME files \in Seq(Entries(conf)), NEW name
  PROVE  Before(name) \in 0..Len(files)
<1> DEFINE n == Len(files)
           S == {k \in DOMAIN files : files[k][2] < name}
<1>1. n \in Nat /\ S \subseteq 1..n
  OBVIOUS
<1> HIDE DEF n, S
<1>2. IsFiniteSet(1..n) /\ Cardinality(1..n) = n
  BY <1>1, FS_Interval, SMTT(30)
<1>3. Cardinality(S) \in Nat /\ Cardinality(S) <= n
  BY <1>1, <1>2, FS_Subset, FS_CardinalityType
<1> QED BY <1>1, <1>3 DEF Before, S, n

\* cfg_load
LEMMA ConfigKept ==
  ASSUME IInv, KInv, LoadKernelSymbols \/ ListFile \/ Listed \/ ParseFile \/ Parsed
  PROVE  KInv'
<1>0. Types /\ conf \in Configurations
  BY DEF IInv, Types
<1>1. CASE LoadKernelSymbols \/ Listed
  <2>1. /\ UNCHANGED <<files, searches, overrides, conf, args>>
        /\ pc' = "list" => unread' = Entries(conf) /\ args = <<>>
        /\ pc' \in {"list", "parse", "arguments"}
        /\ pc' = "parse" => args = <<>>
        /\ pc' = "arguments" => args # <<>>
    BY <1>1 DEF LoadKernelSymbols, Listed, cfg, found, KInv
  <2>2. Entries(conf)' = Entries(conf)
    BY <2>1 DEF Entries
  <2> QED BY <2>1, <2>2 DEF KInv, Configured, Complete
<1>2. CASE ListFile
  <2>1. PICK e \in unread : files' = InsertSorted(e[1], e[2]) /\ unread' = unread \ {e}
    BY <1>2 DEF ListFile
  <2>2. /\ UNCHANGED <<searches, overrides, conf, args>> /\ pc = "list" /\ pc' = "list"
        /\ unread \subseteq Entries(conf) /\ args = <<>>
    BY <1>2 DEF ListFile, found, KInv
  <2>3. Entries(conf)' = Entries(conf) /\ e \in Entries(conf)
    BY <2>2 DEF Entries
  <2>4. e = <<e[1], e[2]>>
    BY <2>3 DEF Entries
  <2>5. files' \in Seq(Entries(conf))
    <3>1. Before(e[2]) \in 0..Len(files) /\ files \in Seq(Entries(conf))
      BY BeforeTypes DEF KInv
    <3>2. InsertAt(files, Before(e[2]) + 1, e) \in Seq(Entries(conf))
      BY <2>3, <3>1, Inserts DEF Inserted
    <3> QED BY <2>1, <2>4, <3>1, <3>2 DEF InsertSorted
  <2> QED BY <2>1, <2>2, <2>3, <2>5 DEF KInv, Configured, Complete
<1>3. CASE ParseFile
  <2> DEFINE e == Head(files)
             base == [searches |-> searches, overrides |-> overrides]
             c == FoldLeft(Line, base, conf[e[1]][e[2]])
  <2>1. /\ pc = "parse" /\ files # <<>> /\ pc' = pc /\ files' = Tail(files)
        /\ searches' = c.searches /\ overrides' = c.overrides
    BY <1>3, Zenon DEF ParseFile
  <2> HIDE DEF c
  <2>2. UNCHANGED <<conf, args>>
    BY <1>3 DEF ParseFile, found
  <2>3. e \in Entries(conf) /\ Tail(files) \in Seq(Entries(conf))
    BY <2>1 DEF KInv
  <2>4. e[1] \in DOMAIN conf /\ e[2] \in DOMAIN conf[e[1]]
    BY <2>3 DEF Entries
  <2> DEFINE ls == conf[e[1]][e[2]]
             n == Len(ls)
  <2>5. ls \in Seq(ConfigLine)
    BY <1>0, <2>4, ConfigTypes
  <2>6. \A k \in DOMAIN ls : ls[k] \in Lines
    BY <1>0, <2>4 DEF Lines
  <2>7. n \in Nat /\ ls \in [1..n -> Lines]
    <3> HIDE DEF ls
    <3> QED BY <2>5, <2>6
  <2>8. base \in Configs
    BY DEF KInv, Configured, Configs
  <2> HIDE DEF ls, n, base
  <2>9. LineRun(n, ls, base)
    BY <2>7, <2>8, LineFold
  <2>10. c \in Configs
    BY <2>7, <2>9 DEF LineRun, c, ls
  <2>11. Configured'
    BY <2>1, <2>10 DEF Configured, Configs
  <2>12. Entries(conf)' = Entries(conf)
    BY <2>2 DEF Entries
  <2> QED BY <2>1, <2>2, <2>3, <2>11, <2>12 DEF KInv, Complete
<1>4. CASE Parsed
  <2>1. /\ pc' = "search" /\ unread' = disk /\ disk' = disk /\ UNCHANGED <<files, overrides, conf, args>>
        /\ searches' = (IF searches = <<>> THEN <<Updates>> ELSE searches) /\ pc = "parse"
    BY <1>4 DEF Parsed, found
  <2>2. <<Updates>> \in Seq(Words)
    <3>1. Updates \in Words
      BY DEF Words
    <3> HIDE DEF Words
    <3> QED BY <3>1
  <2>3. Configured'
    BY <2>1, <2>2 DEF KInv, Configured
  <2>4. Entries(conf)' = Entries(conf)
    BY <2>1 DEF Entries
  <2> QED BY <2>1, <2>3, <2>4 DEF KInv, Complete
<1> QED BY <1>1, <1>2, <1>3, <1>4

\* The rank of a module is a number.
LEMMA RankTypes ==
  ASSUME Configured, NEW m
  PROVE  Rank(m) \in Nat
<1> DEFINE ov == {k \in DOMAIN overrides : overrides[k] = Rel(m)}
           n == Len(searches)
           p == Len(overrides)
<1>1. n \in Nat /\ p \in Nat /\ DOMAIN overrides = 1..p /\ PlaceOf(m) \in 0..n
  BY PlaceTypes, LenProperties DEF Configured
<1>2. Rank(m) = IF ov # {} THEN n + p + 1 - Min(ov) ELSE PlaceOf(m)
  BY DEF Rank, PlaceOf
<1>3. ov # {} => Min(ov) \in 1..p
  <2>1. ov \subseteq Nat /\ ov \subseteq 1..p
    BY <1>1
  <2> HIDE DEF ov
  <2> QED BY <2>1, Least
<1> HIDE DEF ov, n, p
<1> QED BY <1>1, <1>2, <1>3

\* depmod_modules_search_file: a module of a name that is not in the table is put there,
\* and the one that is there stays when its rank is not lower.
LEMMA SearchKept ==
  ASSUME IInv, KInv, NEW m \in unread, SearchFile(m)
  PROVE  KInv'
<1>1. /\ pc = "search" /\ unread' = unread \ {m} /\ Types /\ m \in disk
      /\ UNCHANGED <<conf, disk, args, order>> /\ UNCHANGED <<files, searches, overrides>>
  BY DEF SearchFile, IInv, Types, found, cfg
<1>2. m \in Candidate /\ m \in Module /\ args = <<>> /\ Configured
  <2>1. m \in Candidate
    BY <1>1 DEF Types, Candidate
  <2> QED BY <1>1, <2>1, Candidates DEF KInv
<1>3. /\ Entries(conf)' = Entries(conf) /\ Configured' /\ files' \in Seq(Entries(conf)') /\ args' = <<>>
      /\ \A x : Rank(x)' = Rank(x)
  <2>1. Entries(conf)' = Entries(conf)
    BY <1>1 DEF Entries
  <2>2. \A x : Rank(x)' = Rank(x)
    BY <1>1 DEF Rank, Own, BuiltIns
  <2> QED BY <1>1, <1>2, <2>1, <2>2 DEF KInv, Configured
<1>4. disk' \ unread' \subseteq (disk \ unread) \cup {m}
  BY <1>1
<1>5. CASE m.name \notin DOMAIN modules_by_name
  <2>1. /\ pc' = "search" /\ DOMAIN modules_by_name' = DOMAIN modules_by_name \cup {m.name}
        /\ modules_by_name'[m.name] = m
        /\ \A n \in DOMAIN modules_by_name : modules_by_name'[n] = modules_by_name[n]
    BY <1>1, <1>5 DEF SearchFile, Add, Put
  <2>2. Rank(m) >= Rank(m)
    BY <1>2, RankTypes
  <2>3. ASSUME NoneWithin, NEW x \in disk' \ unread' PROVE KeptNow(x)'
    <3>1. CASE x = m
      BY <1>3, <2>1, <2>2, <3>1 DEF KeptNow
    <3>2. CASE x \in disk \ unread
      <4>1. KeptNow(x)
        BY <1>1, <2>3, <3>2 DEF KInv
      <4> QED BY <1>3, <2>1, <4>1 DEF KeptNow
    <3> QED BY <1>4, <3>1, <3>2
  <2> QED BY <1>3, <2>1, <2>3 DEF KInv, Complete
<1>6. CASE m.name \in DOMAIN modules_by_name /\ IsHigherPriority(modules_by_name[m.name], m) /\ UNCHANGED <<tables, pc>>
  <2>1. modules_by_name' = modules_by_name /\ pc' = "search"
    BY <1>1, <1>6 DEF tables
  <2>2. modules_by_name[m.name] \in Module
    BY <1>1, <1>6, Candidates DEF Types
  <2>3. NoneWithin => KeptNow(m)
    BY <1>2, <1>6, <2>2, HigherRank DEF KeptNow
  <2>4. ASSUME NoneWithin, NEW x \in disk' \ unread' PROVE KeptNow(x)'
    <3>1. KeptNow(x)
      BY <1>1, <1>4, <2>3, <2>4 DEF KInv
    <3> QED BY <1>3, <2>1, <3>1 DEF KeptNow
  <2> QED BY <1>3, <2>1, <2>4 DEF KInv, Complete
<1>7. CASE pc' = "aborted"
  BY <1>3, <1>7 DEF KInv, Complete
<1> QED BY <1>5, <1>6, <1>7 DEF SearchFile

\* Everything after the search
LEMMA LaterKept ==
  ASSUME IInv, KInv,
         \/ AddArgument \/ Searched \/ BuildArray \/ Built \/ SortModules
         \/ LoadModule \/ ModulesLoaded \/ LoadDependencies \/ Output
         \/ Shutdown("output", "success") \/ Shutdown("failed", "failure") \/ UNCHANGED vars
  PROVE  KInv'
<1> DEFINE Same == UNCHANGED <<conf, disk, args, order>> /\ UNCHANGED <<files, searches, overrides>>
<1>1. /\ UNCHANGED <<found, cfg>>
      /\ AddArgument \/ pc' \notin {"arguments", "list", "parse", "search"} \/ UNCHANGED <<pc, unread, modules_by_name>>
  <2>1. LoadModule => UNCHANGED <<found, cfg, pc, unread, modules_by_name>>
    BY Zenon DEF LoadModule
  <2>2. LoadDependencies => UNCHANGED <<found, cfg, pc, unread, tables>>
    BY Zenon DEF LoadDependencies
  <2> QED BY <2>1, <2>2 DEF AddArgument, Searched, BuildArray, Built, SortModules, ModulesLoaded, Output,
            Shutdown, vars, tables
<1>2. Same
  BY <1>1 DEF found, cfg
<1>3. /\ Entries(conf)' = Entries(conf) /\ Configured' /\ files' \in Seq(Entries(conf)')
      /\ \A x : Rank(x)' = Rank(x)
  <2>1. Entries(conf)' = Entries(conf)
    BY <1>2 DEF Entries
  <2>2. \A x : Rank(x)' = Rank(x)
    BY <1>2 DEF Rank, Own, BuiltIns
  <2> QED BY <1>2, <2>1, <2>2 DEF KInv, Configured
<1>4. CASE UNCHANGED <<pc, unread, modules_by_name>>
  <2>1. \A x : KeptNow(x)' = KeptNow(x)
    BY <1>3, <1>4 DEF KeptNow
  <2> QED BY <1>2, <1>3, <1>4, <2>1 DEF KInv, Complete
<1>5. CASE AddArgument
  <2>1. pc = "arguments" /\ pc' \in {"arguments", "failed"}
    BY <1>5 DEF AddArgument
  <2> QED BY <1>2, <1>3, <2>1 DEF KInv, Complete
<1>6. CASE Searched
  <2>1. /\ pc' = "array" /\ modules_by_name' = modules_by_name
        /\ (pc = "search" /\ unread = {}) \/ pc = "arguments"
    BY <1>6 DEF Searched, tables
  <2>2. \A x : KeptNow(x)' = KeptNow(x)
    BY <1>3, <2>1 DEF KeptNow
  <2>3. args = <<>> /\ NoneWithin => \A x \in disk : KeptNow(x)
    BY <2>1 DEF KInv
  <2> QED BY <1>2, <1>3, <2>1, <2>2, <2>3 DEF KInv, Complete
<1>7. CASE /\ pc = "array" \/ pc \in Complete
           /\ modules_by_name' = modules_by_name /\ pc' \notin {"arguments", "list", "parse", "search"}
  <2>1. \A x : KeptNow(x)' = KeptNow(x)
    BY <1>3, <1>7 DEF KeptNow
  <2> QED BY <1>2, <1>3, <1>7, <2>1 DEF KInv, Complete
<1>8. CASE Shutdown("output", "success") \/ Shutdown("failed", "failure")
  <2>1. pc' \in {"success", "failure", "aborted"}
    BY <1>8 DEF Shutdown
  <2> QED BY <1>2, <1>3, <2>1 DEF KInv, Complete
<1>9. \/ UNCHANGED <<pc, unread, modules_by_name>> \/ AddArgument \/ Searched
      \/ Shutdown("output", "success") \/ Shutdown("failed", "failure")
      \/ (/\ pc = "array" \/ pc \in Complete
          /\ modules_by_name' = modules_by_name /\ pc' \notin {"arguments", "list", "parse", "search"})
  <2>1. LoadModule => UNCHANGED <<pc, unread, modules_by_name>>
    BY Zenon DEF LoadModule
  <2>2. LoadDependencies => UNCHANGED <<pc, unread, modules_by_name>>
    <3>1. LoadDependencies => UNCHANGED <<pc, unread, tables>>
      BY Zenon DEF LoadDependencies
    <3> QED BY <3>1 DEF tables
  <2> QED BY <2>1, <2>2 DEF BuildArray, Built, SortModules, ModulesLoaded, Output, Complete, tables, vars
<1> QED BY <1>4, <1>5, <1>6, <1>7, <1>8, <1>9

\* What KInv says of the configuration, and of the modules kept when NoneWithin
LEMMA KeptInvariant == Spec => []KInv
<1>1. Init => KInv
  <2> SUFFICES ASSUME Init PROVE KInv
    OBVIOUS
  <2>1. files = <<>> /\ searches = <<>> /\ overrides = <<>> /\ pc = "symbols"
    BY DEF Init
  <2> QED BY <2>1 DEF KInv, Configured, Complete
<1>2. IInv /\ KInv /\ [Next]_vars => KInv'
  BY ConfigKept, SearchKept, LaterKept DEF Next
<1> QED BY <1>1, <1>2, Invariance, PTL DEF Spec

\* depmod_modules_search: in whatever order directories are read, a depmod that goes on after the
\* search has kept one of the highest rank of the modules of each name, unless one of the
\* directories of the list is below another.
THEOREM HighestAlways == NoneWithin => (Spec => []HighestKept)
<1> SUFFICES ASSUME NoneWithin PROVE Spec => []HighestKept
  OBVIOUS
<1>1. KInv => HighestKept
  BY DEF KInv, HighestKept, Kept, KeptNow, Complete
<1> QED BY <1>1, KeptInvariant, PTL

----------------------------------------------------------------------------
(* The configuration.                                                      *)

\* What the n-th name adds
LinesOf(c, n) == IF n \notin Names(c) THEN <<>> ELSE c[CHOOSE d \in DOMAIN c : <<d, n>> \in Effective(c)][n]

\* The files that count are files of the configuration.
LEMMA EffectiveTypes ==
  ASSUME NEW c \in Configurations
  PROVE  /\ DOMAIN c = 1..Len(c) /\ Len(c) \in Nat
         /\ \A e \in Entries(c) : /\ e = <<e[1], e[2]>> /\ e[1] \in 1..Len(c) /\ e[2] \in DOMAIN c[e[1]]
                                  /\ e[2] \in Nat \ {0} /\ c[e[1]][e[2]] \in Seq(Lines)
         /\ Effective(c) \subseteq Entries(c)
         /\ \A d \in DOMAIN c : \A n \in DOMAIN c[d] : <<d, n>> \in Entries(c)
<1>1. DOMAIN c = 1..Len(c) /\ Len(c) \in Nat
  BY ConfigTypes
<1>2. ASSUME NEW e \in Entries(c)
      PROVE  /\ e = <<e[1], e[2]>> /\ e[1] \in 1..Len(c) /\ e[2] \in DOMAIN c[e[1]]
             /\ e[2] \in Nat \ {0} /\ c[e[1]][e[2]] \in Seq(Lines)
  <2>1. e = <<e[1], e[2]>> /\ e[1] \in DOMAIN c /\ e[2] \in DOMAIN c[e[1]]
    BY DEF Entries
  <2>2. e[2] \in Nat \ {0} /\ c[e[1]][e[2]] \in Seq(ConfigLine)
    BY <2>1, ConfigTypes
  <2>3. \A k \in DOMAIN c[e[1]][e[2]] : c[e[1]][e[2]][k] \in Lines
    BY <2>1 DEF Lines
  <2>4. DOMAIN c[e[1]][e[2]] = 1..Len(c[e[1]][e[2]])
    BY <2>2
  <2>5. c[e[1]][e[2]] \in Seq(Lines)
    BY <2>2, <2>3, <2>4, Retyped
  <2> QED BY <1>1, <2>1, <2>2, <2>5
<1> QED BY <1>1, <1>2 DEF Effective, Entries

\* One file of each name counts.
LEMMA EffectiveOnly ==
  ASSUME NEW c \in Configurations, NEW e \in Effective(c)
  PROVE  LinesOf(c, e[2]) = c[e[1]][e[2]]
<1>1. /\ e \in Entries(c) /\ e = <<e[1], e[2]>> /\ e[1] \in 1..Len(c) /\ DOMAIN c = 1..Len(c) /\ Len(c) \in Nat
      /\ \A d2 \in 1..e[1]-1 : e[2] \notin DOMAIN c[d2]
      /\ e[2] \in DOMAIN c[e[1]]
  BY EffectiveTypes DEF Effective
<1> DEFINE x == CHOOSE d \in DOMAIN c : <<d, e[2]>> \in Effective(c)
<1>2. x \in DOMAIN c /\ <<x, e[2]>> \in Effective(c)
  BY <1>1
<1> HIDE DEF x
<1>3. /\ x \in 1..Len(c) /\ e[2] \in DOMAIN c[x]
      /\ \A d2 \in 1..x-1 : e[2] \notin DOMAIN c[d2]
  <2> DEFINE y == <<x, e[2]>>
  <2>1. y \in Entries(c) /\ \A d2 \in 1..y[1]-1 : y[2] \notin DOMAIN c[d2]
    BY <1>2 DEF Effective
  <2>2. y[1] = x /\ y[2] = e[2]
    OBVIOUS
  <2> HIDE DEF y
  <2> QED BY <2>1, <2>2, EffectiveTypes
<1>4. x = e[1]
  <2>1. ~(x < e[1])
    BY <1>1, <1>3
  <2>2. ~(e[1] < x)
    BY <1>1, <1>3
  <2> QED BY <1>1, <1>3, <2>1, <2>2
<1>5. e[2] \in Names(c)
  BY DEF Names
<1> QED BY <1>4, <1>5 DEF LinesOf, x

\* What a name adds are lines.
LEMMA LinesOfTypes ==
  ASSUME NEW c \in Configurations, NEW n
  PROVE  LinesOf(c, n) \in Seq(Lines)
<1>1. CASE n \notin Names(c)
  BY <1>1 DEF LinesOf
<1>2. CASE n \in Names(c)
  <2>1. PICK e \in Effective(c) : n = e[2]
    BY <1>2 DEF Names
  <2> QED BY <2>1, EffectiveOnly, EffectiveTypes
<1> QED BY <1>1, <1>2

\* The recursion of LinesUpTo
LEMMA LinesGrow ==
  ASSUME NEW c \in Configurations, NEW n \in Nat
  PROVE  \E h : /\ h[0] = <<>> /\ h[n] = LinesUpTo(c, n)
                /\ \A k \in 1..n : h[k] = h[k-1] \o LinesOf(c, k)
<1> DEFINE D == Seq(Lines)
           X(k) == IF k \notin Names(c) THEN <<>> ELSE c[CHOOSE d \in DOMAIN c : <<d, k>> \in Effective(c)][k]
           G == [k \in 1..n |-> [s \in D |-> s \o X(k)]]
           Is(h) == h = [k \in 0..n |-> IF k = 0 THEN <<>> ELSE h[k-1] \o X(k)]
           h == CHOOSE h : Is(h)
<1>1. \A k : X(k) = LinesOf(c, k) /\ X(k) \in D
  BY LinesOfTypes DEF LinesOf
<1>2. <<>> \in D
  OBVIOUS
<1>3. ASSUME NEW s \in D, NEW k \in 1..n PROVE s \o X(k) \in D
  <2>1. X(k) \in D
    BY <1>1
  <2> HIDE DEF X
  <2> QED BY <2>1, ConcatProperties
<1> HIDE DEF D, X
<1>4. G \in [1..n -> [D -> D]]
  BY <1>3
<1>5. \A k \in 1..n : \A s \in D : G[k][s] = s \o X(k)
  OBVIOUS
<1> HIDE DEF G
<1> DEFINE e == <<>>
<1> HIDE DEF e
<1>6. PICK f \in [SUBSET (1..n) -> D] : Solves(f, n, e, G)
  BY <1>2, <1>4, FoldExists DEF e
<1>7. \A s \in SUBSET (1..n) : f[s] = IF s = {} THEN e ELSE G[Max(s)][f[s \ {Max(s)}]]
  BY <1>6 DEF Solves
<1> DEFINE g == [k \in 0..n |-> f[1..k]]
<1>8. g[0] = e
  <2>1. 1..0 = {} /\ 0 \in 0..n
    OBVIOUS
  <2> QED BY <1>7, <2>1
<1>9. ASSUME NEW k \in 1..n PROVE g[k] = g[k-1] \o X(k)
  <2>1. 1..k \in SUBSET (1..n) /\ 1..k # {} /\ Max(1..k) = k /\ (1..k) \ {k} = 1..k-1
    BY MaxOf
  <2>2. f[1..k] = G[k][f[1..k-1]]
    BY <1>7, <2>1
  <2>3. 1..k-1 \in SUBSET (1..n)
    OBVIOUS
  <2>4. f[1..k-1] \in D
    BY <2>3
  <2>5. k - 1 \in 0..n /\ k \in 0..n
    OBVIOUS
  <2> QED BY <1>5, <2>2, <2>4, <2>5
<1>10. g = [k \in 0..n |-> g[k]]
  OBVIOUS
<1> HIDE DEF g
<1>11. Is(g)
  <2>1. ASSUME NEW k \in 0..n PROVE g[k] = IF k = 0 THEN <<>> ELSE g[k-1] \o X(k)
    <3>1. CASE k = 0
      BY <1>8, <3>1 DEF e
    <3>2. CASE k # 0
      <4>1. k \in 1..n
        BY <3>2
      <4> QED BY <1>9, <3>2, <4>1
    <3> QED BY <3>1, <3>2
  <2>2. [k \in 0..n |-> g[k]] = [k \in 0..n |-> IF k = 0 THEN <<>> ELSE g[k-1] \o X(k)]
    BY <2>1
  <2> QED BY <1>10, <2>2, Zenon
<1>12. Is(h)
  <2> HIDE DEF Is
  <2> QED BY <1>11, Zenon
<1>13. h[n] = LinesUpTo(c, n)
  BY Zenon DEF LinesUpTo, X
<1> HIDE DEF h
<1>14. \A k \in 0..n : h[k] = IF k = 0 THEN <<>> ELSE h[k-1] \o X(k)
  BY <1>12
<1> HIDE DEF Is
<1>15. h[0] = <<>>
  BY <1>14
<1>16. ASSUME NEW k \in 1..n PROVE h[k] = h[k-1] \o LinesOf(c, k)
  <2>1. k \in 0..n /\ k # 0
    OBVIOUS
  <2> QED BY <1>1, <1>14, <2>1
<1> QED BY <1>13, <1>15, <1>16

\* LinesUpTo name by name
LEMMA LinesStep ==
  ASSUME NEW c \in Configurations, NEW n \in Nat
  PROVE  /\ LinesUpTo(c, n) \in Seq(Lines)
         /\ LinesUpTo(c, 0) = <<>>
         /\ n # 0 => LinesUpTo(c, n) = LinesUpTo(c, n - 1) \o LinesOf(c, n)
<1>1. PICK h : /\ h[0] = <<>> /\ h[n] = LinesUpTo(c, n)
               /\ \A k \in 1..n : h[k] = h[k-1] \o LinesOf(c, k)
  BY LinesGrow
<1>2. LinesUpTo(c, n) \in Seq(Lines)
  <2> DEFINE D == Seq(Lines)
             S == {k \in 0..n : h[k] \in D}
  <2>1. <<>> \in D /\ \A s, t \in D : s \o t \in D
    BY ConcatProperties
  <2>2. \A k : LinesOf(c, k) \in D
    BY LinesOfTypes
  <2> HIDE DEF D
  <2>3. 0 \in S
    BY <1>1, <2>1
  <2>4. ASSUME NEW k \in 1..n, k - 1 \in S PROVE k \in S
    <3>1. h[k-1] \o LinesOf(c, k) \in D
      BY <2>1, <2>2, <2>4
    <3>2. h[k] = h[k-1] \o LinesOf(c, k)
      BY <1>1, Zenon
    <3>3. h[k] \in D
      BY <3>1, <3>2, Zenon
    <3> QED BY <3>3
  <2>5. n \in S
    <3> HIDE DEF S
    <3>1. \A k \in 0..n : k \in S
      BY <2>3, <2>4, UpTo
    <3> QED BY <3>1
  <2> QED BY <1>1, <2>5 DEF D
<1>3. LinesUpTo(c, 0) = <<>>
  <2>1. PICK g : g[0] = <<>> /\ g[0] = LinesUpTo(c, 0)
    BY LinesGrow
  <2> QED BY <2>1
<1>4. ASSUME n # 0 PROVE LinesUpTo(c, n) = LinesUpTo(c, n - 1) \o LinesOf(c, n)
  <2>1. n - 1 \in Nat /\ n \in 1..n
    BY <1>4
  <2>2. PICK g : /\ g[0] = <<>> /\ g[n-1] = LinesUpTo(c, n - 1)
                 /\ \A k \in 1..n-1 : g[k] = g[k-1] \o LinesOf(c, k)
    BY <2>1, LinesGrow
  <2> DEFINE S == {k \in 0..n-1 : g[k] = h[k]}
  <2>3. 0 \in S
    BY <1>1, <2>1, <2>2
  <2>4. ASSUME NEW k \in 1..n-1, k - 1 \in S PROVE k \in S
    <3>1. k \in 1..n /\ k \in 0..n-1
      OBVIOUS
    <3>2. g[k-1] = h[k-1]
      BY <2>4
    <3> QED BY <1>1, <2>2, <3>1, <3>2
  <2>5. n - 1 \in S
    <3> HIDE DEF S
    <3>1. \A k \in 0..n-1 : k \in S
      BY <2>1, <2>3, <2>4, UpTo
    <3> QED BY <2>1, <3>1
  <2>6. g[n-1] = h[n-1]
    BY <2>5
  <2> QED BY <1>1, <2>1, <2>2, <2>6
<1> QED BY <1>2, <1>3, <1>4

\* Names that no file has add nothing.
LEMMA LinesGap ==
  ASSUME NEW c \in Configurations, NEW k \in Nat, NEW m \in Nat, k <= m,
         \A n \in k+1..m : n \notin Names(c)
  PROVE  LinesUpTo(c, m) = LinesUpTo(c, k)
<1> DEFINE d == m - k
           S == {j \in 0..d : LinesUpTo(c, k + j) = LinesUpTo(c, k)}
<1>1. d \in Nat /\ k + d = m /\ 0 \in S
  OBVIOUS
<1>2. ASSUME NEW j \in 1..d, j - 1 \in S PROVE j \in S
  <2> DEFINE n == k + j
  <2>1. n \in k+1..m /\ n \in Nat /\ n # 0 /\ n - 1 = k + (j - 1) /\ j \in 0..d
    OBVIOUS
  <2> HIDE DEF n
  <2>2. LinesUpTo(c, n) = LinesUpTo(c, n - 1) \o <<>>
    <3>1. LinesOf(c, n) = <<>>
      BY <2>1 DEF LinesOf
    <3> QED BY <2>1, <3>1, LinesStep
  <2>3. n - 1 \in Nat
    BY <2>1
  <2> DEFINE s == LinesUpTo(c, n - 1)
  <2>4. s \in Seq(Lines)
    BY <2>3, LinesStep
  <2>5. s \o <<>> = s
    <3> HIDE DEF s
    <3> QED BY <2>4, ConcatEmptySeq
  <2>6. s = LinesUpTo(c, k)
    BY <1>2, <2>1
  <2>7. LinesUpTo(c, n) = LinesUpTo(c, k)
    BY <2>2, <2>5, <2>6
  <2> QED BY <2>1, <2>7 DEF n
<1>3. d \in S
  <2> HIDE DEF S
  <2>1. \A j \in 0..d : j \in S
    BY <1>1, <1>2, UpTo
  <2> QED BY <1>1, <2>1
<1> QED BY <1>1, <1>3

\* Parsing a file after others is parsing their lines one after the other.
LEMMA LineConcat ==
  ASSUME NEW a \in Seq(Lines), NEW b \in Seq(Lines), NEW base \in Configs
  PROVE  /\ FoldLeft(Line, base, a) \in Configs
         /\ FoldLeft(Line, base, a \o b) = FoldLeft(Line, FoldLeft(Line, base, a), b)
         /\ FoldLeft(Line, base, <<>>) = base
<1> DEFINE la == Len(a)
           lb == Len(b)
           ab == a \o b
           mid == FoldLeft(Line, base, a)
           end == FoldLeft(Line, mid, b)
           all == FoldLeft(Line, base, ab)
<1>1. /\ la \in Nat /\ lb \in Nat /\ a \in [1..la -> Lines] /\ b \in [1..lb -> Lines]
      /\ ab \in [1..la+lb -> Lines] /\ la + lb \in Nat
      /\ \A k \in 1..la : ab[k] = a[k]
      /\ \A k \in 1..lb : ab[la + k] = b[k]
  <2> HIDE DEF mid, end, all
  <2>1. la \in Nat /\ lb \in Nat /\ DOMAIN a = 1..la /\ DOMAIN b = 1..lb /\ la + lb \in Nat
    BY LenProperties
  <2>2. ab \in Seq(Lines) /\ Len(ab) = la + lb
    BY ConcatProperties
  <2>3. (\A k \in 1..la : ab[k] = a[k]) /\ (\A k \in 1..lb : ab[la + k] = b[k])
    OBVIOUS
  <2>4. a \in [1..la -> Lines] /\ b \in [1..lb -> Lines]
    OBVIOUS
  <2>5. ab \in [1..la+lb -> Lines]
    <3> HIDE DEF ab
    <3> QED BY <2>2
  <2> QED BY <2>1, <2>3, <2>4, <2>5
<1> HIDE DEF mid, end, all, la, lb, ab
<1>2. LineRun(la, a, base)
  BY <1>1, LineFold
<1>3. PICK r \in [0..la -> Configs] : /\ r[0] = base /\ r[la] = mid
                                      /\ \A k \in 1..la : r[k] = Line(r[k-1], a[k])
  BY <1>2, Zenon DEF LineRun, mid
<1>4. mid \in Configs
  BY <1>1, <1>3
<1>5. LineRun(lb, b, mid)
  BY <1>1, <1>4, LineFold
<1>6. PICK s \in [0..lb -> Configs] : /\ s[0] = mid /\ s[lb] = end
                                      /\ \A k \in 1..lb : s[k] = Line(s[k-1], b[k])
  BY <1>5, Zenon DEF LineRun, end
<1>7. LineRun(la + lb, ab, base)
  BY <1>1, LineFold
<1>8. PICK t \in [0..la+lb -> Configs] : /\ t[0] = base /\ t[la+lb] = all
                                         /\ \A k \in 1..la+lb : t[k] = Line(t[k-1], ab[k])
  BY <1>7, Zenon DEF LineRun, all
<1>9. t[la] = mid
  <2> DEFINE S == {k \in 0..la : t[k] = r[k]}
  <2>1. 0 \in S
    BY <1>1, <1>3, <1>8
  <2>2. ASSUME NEW k \in 1..la, k - 1 \in S PROVE k \in S
    <3>1. k \in 1..la+lb /\ k \in 0..la
      BY <1>1
    <3>2. t[k-1] = r[k-1]
      BY <2>2
    <3> QED BY <1>1, <1>3, <1>8, <3>1, <3>2
  <2>3. la \in S
    <3> HIDE DEF S
    <3>1. \A k \in 0..la : k \in S
      BY <1>1, <2>1, <2>2, UpTo
    <3> QED BY <1>1, <3>1
  <2> QED BY <1>3, <2>3
<1>10. t[la + lb] = end
  <2> DEFINE S == {k \in 0..lb : t[la + k] = s[k]}
  <2>1. 0 \in S
    BY <1>1, <1>6, <1>9
  <2>2. ASSUME NEW k \in 1..lb, k - 1 \in S PROVE k \in S
    <3>1. la + k \in 1..la+lb /\ k \in 0..lb /\ (la + k) - 1 = la + (k - 1)
      BY <1>1
    <3>2. t[la + (k-1)] = s[k-1]
      BY <2>2
    <3> QED BY <1>1, <1>6, <1>8, <3>1, <3>2
  <2>3. lb \in S
    <3> HIDE DEF S
    <3>1. \A k \in 0..lb : k \in S
      BY <1>1, <2>1, <2>2, UpTo
    <3> QED BY <1>1, <3>1
  <2> QED BY <1>6, <2>3
<1>11. FoldLeft(Line, base, <<>>) = base
  <2> DEFINE z == <<>>
  <2>1. z \in [1..0 -> Lines]
    OBVIOUS
  <2> HIDE DEF z
  <2>2. LineRun(0, z, base)
    BY <2>1, LineFold
  <2>3. FoldLeft(Line, base, z) = base
    BY <2>2 DEF LineRun
  <2> QED BY <2>3, Zenon DEF z
<1>12. FoldLeft(Line, base, a \o b) = FoldLeft(Line, FoldLeft(Line, base, a), b)
  BY <1>8, <1>10, Zenon DEF mid, end, all, ab
<1>13. FoldLeft(Line, base, a) \in Configs
  BY <1>4, Zenon DEF mid
<1> QED BY <1>11, <1>12, <1>13, Zenon

\* The configuration files come by their names.
Sorted(s) == \A k, l \in 1..Len(s) : k < l => s[k][2] < s[l][2]

\* What the files up to the n-th name make
ConfigUpTo(n) == FoldLeft(Line, [searches |-> <<>>, overrides |-> <<>>], LinesUpTo(conf, n))

\* The files of a list
Listings(s) == {s[k] : k \in 1..Len(s)}

\* While directories are read the list has the files that count of those read, and then
\* a file is parsed after those of lower names.
Ahead ==
  /\ pc = "list" =>
       /\ searches = <<>> /\ overrides = <<>>
       /\ Listings(files) = Effective(conf) \ unread
       /\ \A a \in Entries(conf) \ unread, b \in unread : a[1] <= b[1]
  /\ pc = "parse" =>
       \E n \in Nat : /\ Listings(files) = {e \in Effective(conf) : e[2] > n}
                      /\ [searches |-> searches, overrides |-> overrides] = ConfigUpTo(n)

\* The inductive invariant of cfg_load
GInv ==
  /\ pc = "symbols" => files = <<>> /\ searches = <<>> /\ overrides = <<>>
  /\ pc \in {"list", "parse"} => Sorted(files)
  /\ Ahead
  /\ ConfigExact

\* In a list that is sorted, the files before a name are the first ones.
LEMMA BeforeSorted ==
  ASSUME NEW c \in Configurations, files \in Seq(Entries(c)), Sorted(files), NEW name \in Nat
  PROVE  /\ Before(name) \in 0..Len(files)
         /\ \A k \in 1..Len(files) : k <= Before(name) <=> files[k][2] < name
<1> DEFINE n == Len(files)
           S == {k \in DOMAIN files : files[k][2] < name}
<1>1. /\ n \in Nat /\ DOMAIN files = 1..n /\ S \in SUBSET (1..n) /\ \A k \in 1..n : files[k] \in Entries(c)
  OBVIOUS
<1>2. \A k \in 1..n : files[k][2] \in Nat
  BY <1>1, EffectiveTypes
<1>3. \A k, l \in 1..n : k < l => files[k][2] < files[l][2]
  BY DEF Sorted
<1>4. \A k, l \in 1..n : l \in S /\ k < l => k \in S
  BY <1>1, <1>2, <1>3
<1> DEFINE q == LastOf(S)
<1> HIDE DEF n
<1>5. q \in 0..n /\ (\A k \in S : k <= q) /\ (S = {} => q = 0) /\ (S # {} => q \in S)
  <2> HIDE DEF S
  <2> QED BY <1>1, LastIs
<1> HIDE DEF q
<1>6. S = 1..q
  <2>1. ASSUME NEW k \in 1..q PROVE k \in S
    <3>1. q \in S /\ q \in 1..n /\ k \in 1..n
      <4> HIDE DEF S
      <4> QED BY <1>1, <1>5
    <3>2. CASE k = q
      BY <3>1, <3>2
    <3>3. CASE k < q
      <4> HIDE DEF S
      <4> QED BY <1>4, <3>1, <3>3
    <3> HIDE DEF S
    <3> QED BY <1>5, <3>2, <3>3
  <2>2. ASSUME NEW k \in S PROVE k \in 1..q
    <3> HIDE DEF S
    <3> QED BY <1>1, <1>5
  <2> HIDE DEF S
  <2> QED BY <2>1, <2>2
<1>7. Before(name) = q
  <2>1. Cardinality(1..q) = q
    BY <1>1, <1>5, FS_Interval, SMTT(30)
  <2> QED BY <1>6, <2>1 DEF Before
<1>8. \A k \in 1..n : k <= q <=> k \in S
  <2> HIDE DEF S
  <2> QED BY <1>5, <1>6
<1> QED BY <1>1, <1>5, <1>7, <1>8 DEF n

\* cfg_files_insert_sorted
LEMMA InsertKeeps ==
  ASSUME NEW c \in Configurations, files \in Seq(Entries(c)), Sorted(files), NEW e \in Entries(c),
         \A k \in 1..Len(files) : files[k][2] # e[2]
  PROVE  LET s == InsertAt(files, Before(e[2]) + 1, e)
         IN  Sorted(s) /\ Listings(s) = Listings(files) \cup {e}
<1> DEFINE n == Len(files)
           p == Before(e[2])
           s == InsertAt(files, p + 1, e)
<1>1. e[2] \in Nat
  BY EffectiveTypes
<1>2. /\ n \in Nat /\ p \in 0..n /\ \A k \in 1..n : files[k] \in Entries(c)
      /\ \A k \in 1..n : k <= p <=> files[k][2] < e[2]
  <2>1. n \in Nat /\ \A k \in 1..n : files[k] \in Entries(c)
    OBVIOUS
  <2> DEFINE name == e[2]
  <2>2. name \in Nat
    BY <1>1
  <2> HIDE DEF name
  <2>3. Before(name) \in 0..Len(files) /\ \A k \in 1..Len(files) : k <= Before(name) <=> files[k][2] < name
    BY <2>2, BeforeSorted
  <2> QED BY <2>1, <2>3 DEF name
<1>3. \A k \in 1..n : files[k][2] \in Nat
  BY <1>2, EffectiveTypes
<1>4. \A k, l \in 1..n : k < l => files[k][2] < files[l][2]
  BY DEF Sorted
<1>5. /\ Len(s) = n + 1 /\ s[p + 1] = e
      /\ \A k \in 1..p : s[k] = files[k]
      /\ \A k \in p+1..n : s[k + 1] = files[k]
  <2>1. p \in 0..Len(files)
    BY <1>2
  <2> HIDE DEF p
  <2> DEFINE D == Entries(c)
  <2>2. e \in D /\ files \in Seq(D)
    OBVIOUS
  <2> HIDE DEF D
  <2>3. Inserted(D, files, p, e)
    BY <2>1, <2>2, Inserts
  <2> QED BY <2>3 DEF s, n, Inserted
<1> HIDE DEF s, p, n
<1>6. \A k \in 1..n+1 : \/ k \in 1..p /\ s[k] = files[k] /\ k \in 1..n
                        \/ k = p + 1 /\ s[k] = e
                        \/ k - 1 \in p+1..n /\ s[k] = files[k-1] /\ k - 1 \in 1..n
  <2> SUFFICES ASSUME NEW k \in 1..n+1
               PROVE  \/ k \in 1..p /\ s[k] = files[k] /\ k \in 1..n
                      \/ k = p + 1 /\ s[k] = e
                      \/ k - 1 \in p+1..n /\ s[k] = files[k-1] /\ k - 1 \in 1..n
    OBVIOUS
  <2>1. CASE k <= p
    <3>1. k \in 1..p /\ k \in 1..n
      BY <1>2, <2>1
    <3> QED BY <1>5, <3>1
  <2>2. CASE k = p + 1
    BY <1>5, <2>2
  <2>3. CASE k > p + 1
    <3>1. k - 1 \in p+1..n /\ k - 1 \in 1..n /\ (k - 1) + 1 = k
      BY <1>2, <2>3
    <3>2. s[(k - 1) + 1] = files[k - 1]
      BY <1>5, <3>1
    <3> QED BY <3>1, <3>2
  <2> QED BY <1>2, <2>1, <2>2, <2>3
<1>7. Sorted(s)
  <2> SUFFICES ASSUME NEW k \in 1..n+1, NEW l \in 1..n+1, k < l PROVE s[k][2] < s[l][2]
    BY <1>5 DEF Sorted
  <2>1. CASE k \in 1..p /\ s[k] = files[k] /\ k \in 1..n
    <3>1. CASE l \in 1..p /\ s[l] = files[l] /\ l \in 1..n
      BY <1>4, <2>1, <3>1
    <3>2. CASE l = p + 1 /\ s[l] = e
      BY <1>2, <2>1, <3>2
    <3>3. CASE l - 1 \in p+1..n /\ s[l] = files[l-1] /\ l - 1 \in 1..n
      <4>1. k < l - 1
        BY <1>2, <2>1, <3>3
      <4> QED BY <1>4, <2>1, <3>3, <4>1
    <3> QED BY <1>6, <3>1, <3>2, <3>3
  <2>2. CASE k = p + 1 /\ s[k] = e
    <3>1. l - 1 \in p+1..n /\ s[l] = files[l-1] /\ l - 1 \in 1..n /\ ~(l - 1 <= p)
      BY <1>2, <1>6, <2>2
    <3>2. ~(files[l-1][2] < e[2]) /\ files[l-1][2] # e[2]
      BY <1>2, <3>1 DEF n
    <3> QED BY <1>1, <1>3, <2>2, <3>1, <3>2
  <2>3. CASE k - 1 \in p+1..n /\ s[k] = files[k-1] /\ k - 1 \in 1..n
    <3>1. l - 1 \in 1..n /\ s[l] = files[l-1] /\ k - 1 < l - 1
      BY <1>2, <1>6, <2>3
    <3> QED BY <1>4, <2>3, <3>1
  <2> QED BY <1>6, <2>1, <2>2, <2>3
<1>8. ASSUME NEW x \in Listings(s) PROVE x \in Listings(files) \cup {e}
  <2>1. PICK k \in 1..n+1 : x = s[k]
    BY <1>5 DEF Listings
  <2> QED BY <1>6, <2>1 DEF Listings, n
<1>9. ASSUME NEW x \in Listings(files) \cup {e} PROVE x \in Listings(s)
  <2>1. CASE x = e
    <3>1. p + 1 \in 1..n+1
      BY <1>2
    <3> QED BY <1>5, <2>1, <3>1 DEF Listings
  <2>2. CASE x \in Listings(files)
    <3>1. PICK k \in 1..n : x = files[k]
      BY <2>2 DEF Listings, n
    <3>2. CASE k <= p
      <4>1. k \in 1..p /\ k \in 1..n+1
        BY <1>2, <3>2
      <4> QED BY <1>5, <3>1, <4>1 DEF Listings
    <3>3. CASE k > p
      <4>1. k \in p+1..n /\ k + 1 \in 1..n+1
        BY <1>2, <3>3
      <4> QED BY <1>5, <3>1, <4>1 DEF Listings
    <3> QED BY <1>2, <3>2, <3>3
  <2> QED BY <2>1, <2>2
<1>10. Sorted(s) /\ Listings(s) = Listings(files) \cup {e}
  BY <1>7, <1>8, <1>9
<1> QED BY <1>10 DEF s, p

\* cfg_files_list: the next file counts when none of its name was read, which is the one
\* of an earlier directory.
LEMMA ListAhead ==
  ASSUME IInv, KInv, GInv, ListFile
  PROVE  GInv'
<1> DEFINE c == conf
           read == Entries(c) \ unread
<1>1. PICK e \in unread : /\ \A e2 \in unread : e[1] <= e2[1]
                          /\ files' = InsertSorted(e[1], e[2]) /\ unread' = unread \ {e}
  BY DEF ListFile
<1>2. /\ pc = "list" /\ pc' = "list" /\ UNCHANGED <<conf, searches, overrides>> /\ c \in Configurations
  BY DEF ListFile, found, IInv, Types
<1>3. /\ searches = <<>> /\ overrides = <<>> /\ Sorted(files) /\ files \in Seq(Entries(c))
      /\ Listings(files) = Effective(c) \ unread /\ unread \subseteq Entries(c)
      /\ \A a \in read, b \in unread : a[1] <= b[1]
  BY <1>2 DEF GInv, Ahead, KInv
<1> HIDE DEF c
<1>4. /\ e \in Entries(c) /\ e = <<e[1], e[2]>> /\ e[1] \in 1..Len(c) /\ e[2] \in DOMAIN c[e[1]]
      /\ DOMAIN c = 1..Len(c) /\ Len(c) \in Nat
  BY <1>2, <1>3, EffectiveTypes
<1>5. Effective(c)' = Effective(c) /\ Entries(c)' = Entries(c)
  BY <1>2 DEF Effective, Entries, c
<1>6. \A a \in Entries(c) \ unread', b \in unread' : a[1] <= b[1]
  BY <1>1, <1>3
<1>7. Sorted(files') /\ Listings(files') = Effective(c) \ unread'
  <2>1. CASE \E k \in DOMAIN files : files[k][2] = e[2]
    <3>1. files' = files
      BY <1>1, <2>1 DEF InsertSorted
    <3>2. PICK k \in 1..Len(files) : files[k][2] = e[2]
      BY <1>3, <2>1, LenProperties
    <3> DEFINE f == files[k]
    <3>3. f \in Effective(c) /\ f \notin unread
      BY <1>3 DEF Listings
    <3> HIDE DEF f
    <3>4. f \in Entries(c) /\ f = <<f[1], f[2]>> /\ f[1] \in 1..Len(c) /\ f[2] \in DOMAIN c[f[1]]
      BY <1>2, <3>3, EffectiveTypes
    <3>5. f[1] <= e[1] /\ f # e /\ f[2] = e[2]
      BY <1>1, <1>3, <3>2, <3>3, <3>4 DEF f
    <3>6. f[1] # e[1]
      BY <1>4, <3>4, <3>5
    <3>7. f[1] \in 1..e[1]-1 /\ e[2] \in DOMAIN c[f[1]]
      BY <1>4, <3>4, <3>5, <3>6
    <3>8. e \notin Effective(c)
      BY <3>7 DEF Effective
    <3> QED BY <1>1, <1>3, <3>1, <3>8
  <2>2. CASE \A k \in DOMAIN files : files[k][2] # e[2]
    <3> DEFINE s == InsertAt(files, Before(e[2]) + 1, e)
    <3>1. files' = s
      BY <1>1, <1>4, <2>2 DEF InsertSorted
    <3>2. \A k \in 1..Len(files) : files[k][2] # e[2]
      BY <1>3, <2>2, LenProperties
    <3>3. Sorted(s) /\ Listings(s) = Listings(files) \cup {e}
      BY <1>2, <1>3, <1>4, <3>2, InsertKeeps
    <3> HIDE DEF s
    <3>4. e \in Effective(c)
      <4> SUFFICES ASSUME e \notin Effective(c) PROVE FALSE
        OBVIOUS
      <4> DEFINE S == {d \in 1..Len(c) : e[2] \in DOMAIN c[d]}
                 d == Min(S)
      <4>1. S \subseteq Nat /\ e[1] \in S
        BY <1>4
      <4>2. d \in S /\ \A x \in S : d <= x
        <5> HIDE DEF S
        <5> QED BY <4>1, Least
      <4> HIDE DEF d
      <4>3. d \in 1..Len(c) /\ e[2] \in DOMAIN c[d]
        BY <4>2
      <4> DEFINE f == <<d, e[2]>>
      <4>4. f \in Entries(c) /\ f[1] = d /\ f[2] = e[2]
        BY <1>4, <4>3 DEF Entries
      <4> HIDE DEF f
      <4>5. \A d2 \in 1..d-1 : e[2] \notin DOMAIN c[d2]
        BY <1>4, <4>2, <4>3
      <4>6. f \in Effective(c)
        BY <4>4, <4>5 DEF Effective
      <4>7. d <= e[1] /\ d # e[1]
        <5>1. d <= e[1]
          BY <4>1, <4>2
        <5>2. d # e[1]
          BY <1>4, <4>6 DEF f
        <5> QED BY <5>1, <5>2
      <4>8. f \notin unread
        BY <1>1, <1>4, <4>3, <4>4, <4>7
      <4>9. f \in Listings(files)
        BY <1>3, <4>6, <4>8
      <4> QED BY <3>2, <4>4, <4>9 DEF Listings
    <3> QED BY <1>1, <1>3, <3>1, <3>3, <3>4
  <2> QED BY <2>1, <2>2
<1>8. Ahead'
  <2>1. Listings(files)' = Listings(files')
    BY DEF Listings
  <2> QED BY <1>2, <1>3, <1>5, <1>6, <1>7, <2>1 DEF Ahead, c
<1>9. ConfigExact'
  BY <1>2 DEF ConfigExact
<1> QED BY <1>2, <1>7, <1>8, <1>9 DEF GInv, Sorted

\* A file of the next name, parsed after those of lower names, makes what they all make.
LEMMA FileMakes ==
  ASSUME NEW c \in Configurations, NEW n \in Nat, NEW e \in Effective(c), n < e[2],
         \A f \in Effective(c) : f[2] > n => e[2] <= f[2],
         NEW base \in Configs
  PROVE  FoldLeft(Line, base, LinesUpTo(c, e[2])) =
         FoldLeft(Line, FoldLeft(Line, base, LinesUpTo(c, n)), c[e[1]][e[2]])
<1> DEFINE m == e[2]
           a == LinesUpTo(c, n)
           b == c[e[1]][e[2]]
<1>1. m \in Nat /\ m # 0 /\ m - 1 \in Nat /\ n <= m - 1 /\ b \in Seq(Lines)
  BY EffectiveTypes
<1>2. a \in Seq(Lines)
  BY LinesStep
<1>3. \A k \in n+1..m-1 : k \notin Names(c)
  <2> SUFFICES ASSUME NEW k \in n+1..m-1, k \in Names(c) PROVE FALSE
    OBVIOUS
  <2>1. PICK f \in Effective(c) : k = f[2]
    BY DEF Names
  <2> HIDE DEF m
  <2>2. k > n /\ ~(m <= k)
    BY <1>1
  <2> QED BY <2>1, <2>2 DEF m
<1>4. LinesUpTo(c, m) = LinesUpTo(c, m - 1) \o LinesOf(c, m)
  BY <1>1, LinesStep
<1>5. LinesUpTo(c, m - 1) = a
  <2> HIDE DEF m
  <2> QED BY <1>1, <1>3, LinesGap
<1>6. LinesOf(c, m) = b
  BY EffectiveOnly
<1>7. LinesUpTo(c, m) = a \o b
  BY <1>4, <1>5, <1>6
<1> HIDE DEF a, b, m
<1>8. FoldLeft(Line, base, a \o b) = FoldLeft(Line, FoldLeft(Line, base, a), b)
  BY <1>1, <1>2, LineConcat
<1>9. FoldLeft(Line, base, LinesUpTo(c, m)) = FoldLeft(Line, FoldLeft(Line, base, a), b)
  BY <1>7, <1>8, Zenon
<1> QED BY <1>9, Zenon DEF m, a, b

\* cfg_file_parse
LEMMA ParseAhead ==
  ASSUME IInv, KInv, GInv, ParseFile
  PROVE  GInv'
<1> DEFINE c == conf
           e == Head(files)
           nothing == [searches |-> <<>>, overrides |-> <<>>]
           base == [searches |-> searches, overrides |-> overrides]
           r == FoldLeft(Line, base, c[e[1]][e[2]])
<1>1. /\ pc = "parse" /\ pc' = pc /\ files # <<>> /\ files' = Tail(files)
      /\ searches' = r.searches /\ overrides' = r.overrides /\ conf' = conf
  <2>1. ParseFile => found' = found
    BY Zenon DEF ParseFile
  <2> QED BY <2>1, Zenon DEF ParseFile, found
<1> HIDE DEF r, base
<1>2. c \in Configurations /\ Sorted(files) /\ files \in Seq(Entries(c))
  BY <1>1 DEF IInv, Types, GInv, KInv
<1>3. PICK n \in Nat : Listings(files) = {f \in Effective(c) : f[2] > n} /\ base = ConfigUpTo(n)
  BY <1>1, Zenon DEF GInv, Ahead, base
<1>4. Effective(c)' = Effective(c) /\ conf' = c
  BY <1>1 DEF Effective, Entries
<1> HIDE DEF c
<1> DEFINE l == Len(files)
<1>5. /\ l \in Nat \ {0} /\ e = files[1] /\ files' \in Seq(Entries(c)) /\ Len(files') = l - 1
      /\ \A k \in 1..l-1 : files'[k] = files[k+1]
      /\ \A k \in 1..l : files[k] \in Entries(c)
  <2> DEFINE D == Entries(c)
  <2>1. files \in Seq(D)
    BY <1>2
  <2> HIDE DEF D
  <2>2. files \in Seq(D) /\ files # <<>> /\ files' = Tail(files)
    BY <1>1, <2>1
  <2> QED BY <2>2 DEF D
<1> HIDE DEF l, e
<1>6. \A k \in 1..l : files[k][2] \in Nat
  BY <1>2, <1>5, EffectiveTypes
<1>7. \A k, j \in 1..l : k < j => files[k][2] < files[j][2]
  BY <1>2 DEF Sorted, l
<1>8. Listings(files) = {files[k] : k \in 1..l} /\ Listings(files') = {files'[k] : k \in 1..l-1}
  BY <1>5 DEF Listings, l
<1>9. e \in Effective(c) /\ n < e[2] /\ e[2] \in Nat
  <2>1. 1 \in 1..l
    BY <1>5
  <2>2. e \in Listings(files)
    BY <1>5, <1>8, <2>1
  <2> QED BY <1>3, <1>5, <1>6, <2>1, <2>2
<1>10. ASSUME NEW f \in Effective(c), f[2] > n PROVE e[2] <= f[2] /\ (f = e \/ (e[2] < f[2] /\ f \in Listings(files')))
  <2>1. PICK k \in 1..l : f = files[k]
    BY <1>3, <1>8, <1>10
  <2>2. CASE k = 1
    BY <1>5, <1>9, <2>1, <2>2
  <2>3. CASE k # 1
    <3>1. 1 \in 1..l /\ 1 < k /\ k - 1 \in 1..l-1 /\ (k - 1) + 1 = k
      BY <1>5, <2>3
    <3>2. e[2] < f[2]
      BY <1>5, <1>7, <2>1, <3>1
    <3>3. files'[k-1] = f
      BY <1>5, <2>1, <3>1
    <3>4. f \in Listings(files')
      BY <1>8, <3>1, <3>3
    <3>5. f[2] \in Nat
      BY <1>6, <2>1
    <3> QED BY <1>9, <3>2, <3>4, <3>5
  <2> QED BY <2>2, <2>3
<1>11. Sorted(files')
  <2> SUFFICES ASSUME NEW k \in 1..l-1, NEW j \in 1..l-1, k < j PROVE files'[k][2] < files'[j][2]
    BY <1>5 DEF Sorted
  <2>1. k + 1 \in 1..l /\ j + 1 \in 1..l /\ k + 1 < j + 1
    BY <1>5
  <2> QED BY <1>5, <1>7, <2>1
<1>12. Listings(files') = {f \in Effective(c) : f[2] > e[2]}
  <2>1. ASSUME NEW f \in Listings(files') PROVE f \in Effective(c) /\ f[2] > e[2]
    <3>1. PICK k \in 1..l-1 : f = files'[k]
      BY <1>8
    <3>2. k + 1 \in 1..l /\ 1 \in 1..l /\ 1 < k + 1 /\ f = files[k+1]
      BY <1>5, <3>1
    <3>3. f \in Listings(files)
      BY <1>8, <3>2
    <3>4. e[2] < f[2] /\ f[2] \in Nat
      BY <1>5, <1>6, <1>7, <3>2
    <3> QED BY <1>3, <1>9, <3>3, <3>4
  <2>2. ASSUME NEW f \in Effective(c), f[2] > e[2] PROVE f \in Listings(files')
    <3>1. f[2] \in Nat
      BY <1>2, EffectiveTypes
    <3>2. f[2] > n /\ f # e
      BY <1>9, <2>2, <3>1
    <3> QED BY <1>10, <3>2
  <2> QED BY <2>1, <2>2
<1>13. [searches |-> searches', overrides |-> overrides'] = FoldLeft(Line, nothing, LinesUpTo(c, e[2]))
  <2>1. nothing \in Configs
    BY DEF Configs
  <2> HIDE DEF nothing
  <2>2. FoldLeft(Line, nothing, LinesUpTo(c, e[2])) =
        FoldLeft(Line, FoldLeft(Line, nothing, LinesUpTo(c, n)), c[e[1]][e[2]])
    BY <1>2, <1>9, <1>10, <2>1, FileMakes
  <2>3. base = FoldLeft(Line, nothing, LinesUpTo(c, n))
    BY <1>3, Zenon DEF ConfigUpTo, nothing, c
  <2>4. FoldLeft(Line, nothing, LinesUpTo(c, e[2])) = r
    BY <2>2, <2>3, Zenon DEF r
  <2>5. e[2] \in Nat /\ LinesUpTo(c, e[2]) \in Seq(Lines)
    BY <1>2, <1>9, LinesStep
  <2> DEFINE ls == LinesUpTo(c, e[2])
  <2>6. FoldLeft(Line, nothing, ls) \in Configs
    <3> HIDE DEF ls
    <3>1. ls \in Seq(Lines)
      BY <2>5 DEF ls
    <3> QED BY <2>1, <3>1, LineConcat
  <2>7. r \in Configs
    BY <2>4, <2>6, Zenon
  <2>8. r = [searches |-> r.searches, overrides |-> r.overrides]
    BY <2>7 DEF Configs
  <2> QED BY <1>1, <2>4, <2>8, Zenon
<1>14. Ahead'
  <2>1. \A k \in Nat : ConfigUpTo(k)' = FoldLeft(Line, nothing, LinesUpTo(c, k))
    BY <1>4, Zenon DEF ConfigUpTo
  <2>2. PICK k \in Nat : k = e[2]
    BY <1>9
  <2>3. Listings(files)' = {f \in Effective(c)' : f[2] > k}
    <3>1. Listings(files)' = Listings(files')
      BY DEF Listings
    <3> QED BY <1>4, <1>12, <2>2, <3>1
  <2>4. [searches |-> searches', overrides |-> overrides'] = ConfigUpTo(k)'
    BY <1>13, <2>1, <2>2, Zenon
  <2>5. Effective(c)' = Effective(conf')
    BY <1>4
  <2> QED BY <1>1, <2>2, <2>3, <2>4, <2>5 DEF Ahead
<1>15. ConfigExact'
  BY <1>1 DEF ConfigExact
<1> QED BY <1>1, <1>11, <1>14, <1>15 DEF GInv, Sorted

\* Everything but the reading of the configuration
LEMMA OtherAhead ==
  ASSUME IInv, KInv, GInv, Next \/ UNCHANGED vars, ~ListFile, ~ParseFile
  PROVE  GInv'
<1> DEFINE nothing == [searches |-> <<>>, overrides |-> <<>>]
<1>0. conf \in Configurations
  BY DEF IInv, Types
<1>1. conf' = conf /\ Effective(conf)' = Effective(conf) /\ Entries(conf)' = Entries(conf)
  <2>1. found' = found
    <3>1. LoadModule => found' = found
      BY Zenon DEF LoadModule
    <3>2. LoadDependencies => found' = found
      BY Zenon DEF LoadDependencies
    <3> QED BY <3>1, <3>2 DEF Next, LoadKernelSymbols, Listed, Parsed, SearchFile, AddArgument, Searched,
              BuildArray, Built, SortModules, ModulesLoaded, Output, Shutdown, vars
  <2>2. conf' = conf
    BY <2>1 DEF found
  <2> QED BY <2>2 DEF Effective, Entries
<1>2. CASE LoadKernelSymbols
  <2>1. /\ UNCHANGED <<files, searches, overrides>> /\ pc = "symbols" /\ pc' \in {"list", "arguments"}
        /\ pc' = "list" => unread' = Entries(conf)
    BY <1>2 DEF LoadKernelSymbols, cfg
  <2>2. files = <<>> /\ searches = <<>> /\ overrides = <<>>
    BY <2>1 DEF GInv
  <2>3. Listings(files)' = {} /\ Sorted(files)'
    BY <2>1, <2>2 DEF Listings, Sorted
  <2>4. Effective(conf) \subseteq Entries(conf)
    BY DEF Effective
  <2>5. Ahead'
    BY <1>1, <2>1, <2>2, <2>3, <2>4 DEF Ahead
  <2> QED BY <2>1, <2>3, <2>5 DEF GInv, ConfigExact
<1>3. CASE Listed
  <2>1. /\ UNCHANGED <<files, searches, overrides>> /\ pc = "list" /\ pc' = "parse" /\ unread = {}
    BY <1>3 DEF Listed, cfg
  <2>2. /\ Sorted(files) /\ Listings(files) = Effective(conf) /\ searches = <<>> /\ overrides = <<>>
    BY <2>1 DEF GInv, Ahead
  <2>3. Sorted(files)' /\ Listings(files)' = Listings(files)
    BY <2>1, <2>2 DEF Sorted, Listings
  <2>4. {e \in Effective(conf) : e[2] > 0} = Effective(conf)
    BY <1>0, EffectiveTypes
  <2>5. ConfigUpTo(0)' = nothing
    <3>1. nothing \in Configs /\ LinesUpTo(conf, 0) = <<>>
      BY <1>0, LinesStep DEF Configs
    <3> HIDE DEF nothing
    <3>2. <<>> \in Seq(Lines)
      OBVIOUS
    <3>3. FoldLeft(Line, nothing, <<>>) = nothing
      BY <3>1, <3>2, LineConcat
    <3>4. ConfigUpTo(0)' = FoldLeft(Line, nothing, LinesUpTo(conf, 0))
      BY <1>1, Zenon DEF ConfigUpTo, nothing
    <3> QED BY <3>1, <3>3, <3>4, Zenon
  <2>6. Ahead'
    <3>1. [searches |-> searches', overrides |-> overrides'] = ConfigUpTo(0)'
      BY <2>1, <2>2, <2>5
    <3> QED BY <1>1, <2>1, <2>2, <2>3, <2>4, <3>1 DEF Ahead
  <2> QED BY <2>1, <2>3, <2>6 DEF GInv, ConfigExact
<1>4. CASE Parsed
  <2>1. /\ overrides' = overrides /\ pc = "parse" /\ pc' = "search" /\ files = <<>>
        /\ searches' = IF searches = <<>> THEN <<Updates>> ELSE searches
    BY <1>4 DEF Parsed
  <2>2. PICK n \in Nat : /\ Listings(files) = {e \in Effective(conf) : e[2] > n}
                         /\ [searches |-> searches, overrides |-> overrides] = ConfigUpTo(n)
    BY <2>1, Zenon DEF GInv, Ahead
  <2> DEFINE S == Names(conf)
             m == LastOf(S)
  <2>3. S \in SUBSET (1..n)
    <3>1. ASSUME NEW e \in Effective(conf) PROVE e[2] \in 1..n
      <4>1. e[2] \in Nat \ {0}
        BY <1>0, EffectiveTypes
      <4>2. Listings(files) = {}
        BY <2>1 DEF Listings
      <4>3. ~(e[2] > n)
        BY <2>2, <4>2
      <4> QED BY <4>1, <4>3
    <3> QED BY <3>1 DEF Names
  <2>4. m \in 0..n /\ \A k \in S : k <= m
    <3> HIDE DEF S
    <3> QED BY <2>3, LastIs
  <2> HIDE DEF m
  <2>5. LinesUpTo(conf, n) = LinesUpTo(conf, m)
    <3>1. \A k \in m+1..n : k \notin Names(conf)
      BY <2>4
    <3> QED BY <1>0, <2>4, <3>1, LinesGap
  <2>6. EffectiveLines' = LinesUpTo(conf, m)
    <3>1. EffectiveLines' = LinesUpTo(conf', LastOf(Names(conf')))
      BY Zenon DEF EffectiveLines, LastOf
    <3> QED BY <1>1, <3>1 DEF m
  <2> DEFINE c == FoldLeft(Line, nothing, EffectiveLines)
  <2>7. c' = [searches |-> searches, overrides |-> overrides]
    <3>1. c' = FoldLeft(Line, nothing, EffectiveLines')
      BY Zenon
    <3> QED BY <2>2, <2>5, <2>6, <3>1, Zenon DEF ConfigUpTo
  <2>8. c'.searches = searches /\ c'.overrides = overrides
    <3> HIDE DEF c
    <3> QED BY <2>7
  <2>9. ConfigExact'
    <3>1. /\ overrides' = c'.overrides
          /\ searches' = IF c'.searches = <<>> THEN <<Updates>> ELSE c'.searches
      <4> HIDE DEF c
      <4> QED BY <2>1, <2>8
    <3> QED BY <3>1, Zenon DEF ConfigExact
  <2> QED BY <2>1, <2>9 DEF GInv, Ahead
<1>5. CASE UNCHANGED <<files, searches, overrides, unread, pc>>
  <2>1. \A n : ConfigUpTo(n)' = ConfigUpTo(n)
    BY <1>1, Zenon DEF ConfigUpTo
  <2>2. Listings(files)' = Listings(files) /\ Sorted(files)' = Sorted(files)
    BY <1>5 DEF Listings, Sorted
  <2>3. Ahead'
    BY <1>1, <1>5, <2>1, <2>2 DEF Ahead, GInv
  <2>4. EffectiveLines' = EffectiveLines
    BY <1>1, Zenon DEF EffectiveLines
  <2>5. ConfigExact' = ConfigExact
    BY <1>1, <1>5, <2>4, Zenon DEF ConfigExact
  <2> QED BY <1>5, <2>2, <2>3, <2>5 DEF GInv
<1>6. CASE pc' = "search" /\ pc = "search" /\ UNCHANGED <<searches, overrides>>
  <2>1. EffectiveLines' = EffectiveLines
    BY <1>1, Zenon DEF EffectiveLines
  <2>2. ConfigExact' = ConfigExact
    BY <1>6, <2>1, Zenon DEF ConfigExact
  <2> QED BY <1>6, <2>2 DEF GInv, Ahead
<1>7. CASE pc' \notin {"symbols", "list", "parse", "search"}
  BY <1>7 DEF GInv, Ahead, ConfigExact
<1>8. \/ LoadKernelSymbols \/ Listed \/ Parsed
      \/ UNCHANGED <<files, searches, overrides, unread, pc>>
      \/ (pc' = "search" /\ pc = "search" /\ UNCHANGED <<searches, overrides>>)
      \/ pc' \notin {"symbols", "list", "parse", "search"}
  <2>1. LoadModule => UNCHANGED <<cfg, unread, pc>>
    BY Zenon DEF LoadModule
  <2>2. LoadDependencies => UNCHANGED <<cfg, unread, pc>>
    BY Zenon DEF LoadDependencies
  <2>3. (\E m \in unread : SearchFile(m)) =>
          pc' = "aborted" \/ (pc' = "search" /\ pc = "search" /\ UNCHANGED <<searches, overrides>>)
    BY DEF SearchFile, cfg
  <2> QED BY <2>1, <2>2, <2>3 DEF Next, AddArgument, Searched,
            BuildArray, Built, SortModules, ModulesLoaded, Output, Shutdown, vars, cfg
<1> QED BY <1>2, <1>3, <1>4, <1>5, <1>6, <1>7, <1>8

\* cfg_load: however the directories are read, what is searched and what overrides are the
\* words and lines of the files that count, in the order of their names.
THEOREM ConfigAlways == Spec => []ConfigExact
<1>1. Init => GInv
  <2> SUFFICES ASSUME Init PROVE GInv
    OBVIOUS
  <2>1. files = <<>> /\ searches = <<>> /\ overrides = <<>> /\ pc = "symbols"
    BY DEF Init
  <2> QED BY <2>1 DEF GInv, Ahead, ConfigExact
<1>2. IInv /\ KInv /\ GInv /\ [Next]_vars => GInv'
  BY ListAhead, ParseAhead, OtherAhead
<1>3. GInv => ConfigExact
  BY DEF GInv
<1> QED BY <1>1, <1>2, <1>3, Invariance, KeptInvariant, PTL DEF Spec
=============================================================================
