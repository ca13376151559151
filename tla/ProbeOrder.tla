----------------------------- MODULE ProbeOrder -----------------------------
(***************************************************************************)
(* Probe lists of every small graph of modules: a graph is chosen and the  *)
(* lists of its modules are built one after another, as modprobe does for  *)
(* the modules of its command line.                                        *)
(***************************************************************************)
EXTENDS Integers, Sequences, FiniteSets

CONSTANTS
  N,            \* modules 1..N; a module only uses modules with smaller numbers
  MaxSoftdeps   \* bound: soft dependencies of the configuration

ASSUME BoundsType == N \in Nat /\ MaxSoftdeps \in Nat

Mod == 1..N

VARIABLES
  uses,   \* the graph: hard dependencies,
  pre,    \* and soft ones, before
  post,   \* and after a module
  top,    \* the module that was probed last
  ignorecommand,  \* with KMOD_PROBE_IGNORE_COMMAND
  built   \* and its list

graph == <<uses, pre, post>>
vars == <<uses, pre, post, top, ignorecommand, built>>

\* The modules that m needs, directly or not
Closure(m) ==
  LET c[n \in Mod] == uses[n] \cup UNION {c[d] : d \in uses[n]}
  IN  c[m]

\* As depmod orders them: a set of modules by increasing number
Ordered(S) ==
  LET at[i \in 1..Cardinality(S)] ==
        CHOOSE m \in S : Cardinality({x \in S : x < m}) = i - 1
  IN  at

deps == [m \in Mod |-> Ordered(Closure(m))]

P == INSTANCE ProbeList WITH
       Uses <- uses, Deps <- deps,
       Pre <- [m \in Mod |-> Ordered(pre[m])], Post <- [m \in Mod |-> Ordered(post[m])]

----------------------------------------------------------------------------
Softdeps == {s \in {"pre", "post"} \X Mod \X Mod : s[2] # s[3]}

Init ==
  /\ uses \in {u \in [Mod -> SUBSET Mod] : \A m \in Mod : \A d \in u[m] : d < m}
  /\ \E softdep \in [1..MaxSoftdeps -> Softdeps \cup {<<"none", 0, 0>>}] :
       /\ pre = [m \in Mod |-> {d \in Mod : \E i \in 1..MaxSoftdeps : softdep[i] = <<"pre", m, d>>}]
       /\ post = [m \in Mod |-> {d \in Mod : \E i \in 1..MaxSoftdeps : softdep[i] = <<"post", m, d>>}]
  /\ top = 0 /\ ignorecommand = FALSE /\ built = <<>>

Probe(m, ignore) ==
  /\ top' = m /\ ignorecommand' = ignore
  /\ built' = P!ProbeListOf(m, ignore).list
  /\ UNCHANGED graph

Next == \E m \in Mod, ignore \in BOOLEAN : Probe(m, ignore)

Spec == Init /\ [][Next]_vars

----------------------------------------------------------------------------
(* Properties.                                                             *)

Listed == {built[i] : i \in 1..Len(built)}

\* Everything a module needs is inserted before the module, wherever in the
\* list it is, however soft dependencies cross hard ones, cycles of soft
\* dependencies included.
DepsFirst ==
  \A i \in 1..Len(built) : \A d \in Closure(built[i]) :
    \E j \in 1..i-1 : built[j] = d

\* Soft dependencies of both kinds and hard ones, without a cycle
Acyclic ==
  LET edge(m, d) == d \in uses[m] \cup pre[m] \cup post[m]
  IN  ~\E S \in (SUBSET Mod) \ {{}} : \A m \in S : \E d \in S : edge(m, d)

\* What m needs to be complete: hard and soft dependencies of all that is reached
Needs(m) == Closure(m) \cup pre[m] \cup post[m]

\* The list has every module that is reached from the one that is probed through
\* dependencies of both kinds, and no other.  The soft dependencies of a module
\* that is probed with IGNORE_COMMAND are left out (unless a cycle leads back to
\* it).
Complete ==
  top # 0 /\ (ignorecommand => Acyclic) =>
    LET within(S) == \A m \in S : Needs(m) \subseteq S
        Least(seed) == {m \in Mod : \A S \in SUBSET Mod : seed \subseteq S /\ within(S) => m \in S}
    IN  Listed = IF ignorecommand THEN {top} \cup Least(Closure(top)) ELSE Least({top})

\* "pre-deps and post-deps modules are lists of names and/or aliases of other
\* modules that modprobe will attempt to install (or remove) in order before
\* and after the main module": a module comes after its pre-deps everywhere.
PreFirst ==
  Acyclic => \A i \in 1..Len(built) :
    (built[i] # top \/ ~ignorecommand) =>
      \A d \in pre[built[i]] : \E j \in 1..i-1 : built[j] = d

=============================================================================
