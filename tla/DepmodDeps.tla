----------------------------- MODULE DepmodDeps -----------------------------
(***************************************************************************)
(* What depmod writes of the dependencies it has sorted: modules.dep and   *)
(* the same lines in modules.dep.bin.  A line has all that a module needs, *)
(* directly or not, collected by two recursive functions of which neither  *)
(* looks at the mark of cycles.                                            *)
(***************************************************************************)
EXTENDS DepmodSort, Loops, SequencesExt

CONSTANT MaxNoMem   \* bound: lines for which there is no memory

ASSUME MaxNoMemType == MaxNoMem \in Nat

VARIABLES
  out,      \* the file that is written next, or how it ended
  text,     \* text[m]: the modules in the line of m in modules.dep, NoLine without one
  bin,      \* the lines of modules.dep.bin
  short     \* history: the modules for whose lines there was no memory

outs == <<out, text, bin, short>>
NoLine == <<-1>>

DepsInit == Init /\ out = "modules.dep" /\ text = [m \in Mod |-> NoLine] /\ bin = text /\ short = {}

----------------------------------------------------------------------------
\* mod_count_all_dependencies calls itself for every dependency, so that it returns when
\* there is no chain of dependencies longer than the modules are many: the modules for
\* which no more than k calls are on the stack, and what a call returns for them.
returns[k \in 0..n_mods] ==
  IF k = 0 THEN {} ELSE {m \in Mod : Elements(deps[m]) \subseteq returns[k-1]}

counts[k \in 0..n_mods] ==
  [m \in Mod |->
     IF k = 0 THEN 0 ELSE ForEach([n \in Nat |-> [d \in Mod |-> n + 1 + counts[k-1][d]]], 0, deps[m])]

CountReturns(m) == m \in returns[n_mods]
CountAllDependencies(m) == counts[n_mods][m]

\* The recursion that collects is a function of the array and of a module; in the
\* operators it is the parameter fill.

\* Mutant of FillAllUnique: direct dependencies only.
FillAllUniqueDirect(fill, array, m) ==
  ForEach([s \in Seq(Mod) |-> [d \in Mod |-> IF d \in Elements(s) THEN s ELSE Append(s, d)]],
          array, deps[m])

\* mod_fill_all_unique_dependencies; the array has room for CountAllDependencies
\* entries, as many as there are calls.
FillAllUnique(fill, array, m) ==
  ForEach([s \in Seq(Mod) |-> [d \in Mod |-> IF d \in Elements(s) THEN s ELSE fill[Append(s, d)][d]]],
          array, deps[m])

filled[array \in Seq(Mod)] == [m \in Mod |-> FillAllUnique(filled, array, m)]

AllUnique(m) == filled[<<>>][m]

\* mod_get_all_sorted_dependencies.  Entries that compare equal are all in loops.
AllSortedDependencies(m) == CHOOSE s \in Orders(AllUnique(m)) : TRUE

\* output_deps passes over what is in a loop.
Line(m) ==
  ForEach([s \in Seq(Mod) |-> [d \in Mod |-> IF d \in dep_loop THEN s ELSE Append(s, d)]],
          <<>>, AllSortedDependencies(m))

\* The lines of all modules that are in no loop; the process dies of a full stack
\* when one of them leads into a cycle.
Written == {m \in Mod : m \notin dep_loop}
Survives == \A m \in Written : deps[m] # <<>> => CountReturns(m)
Lines == [m \in Mod |-> IF m \in Written THEN Line(m) ELSE NoLine]

\* Where there is no memory for the array a line stays empty.
OutputDeps ==
  /\ pc = "done" /\ out = "modules.dep"
  /\ \/ /\ Survives
        /\ \E F \in SUBSET {m \in Written : deps[m] # <<>>} :
             /\ Cardinality(F) <= MaxNoMem
             /\ text' = [m \in Mod |-> IF m \in F THEN <<>> ELSE Lines[m]]
             /\ short' = F
        /\ out' = "modules.dep.bin"
     \/ ~Survives /\ out' = "killed" /\ UNCHANGED <<text, short>>
  /\ UNCHANGED <<vars, bin>>

\* The line is inserted with the name of the module as its key; where there is no memory
\* for the array or the line the module is left out.
OutputDepsBin ==
  /\ pc = "done" /\ out = "modules.dep.bin"
  /\ \E F \in SUBSET Written :
       /\ Cardinality(short) + Cardinality(F) <= MaxNoMem
       /\ bin' = [m \in Mod |-> IF m \in F THEN NoLine ELSE Lines[m]]
       /\ short' = short \cup F
  /\ out' = "written"
  /\ UNCHANGED <<vars, text>>

DepsNext == (Next /\ UNCHANGED outs) \/ OutputDeps \/ OutputDepsBin

DepsSpec == DepsInit /\ [][DepsNext]_<<vars, outs>> /\ WF_<<vars, outs>>(DepsNext)

----------------------------------------------------------------------------
(* Properties.                                                             *)

\* What m needs, directly or not: all that is in every set with the dependencies of m
\* and those of its members
Needed(m) ==
  {d \in Mod : \A S \in SUBSET Mod :
     Elements(deps[m]) \subseteq S /\ (\A x \in S : Elements(deps[x]) \subseteq S) => d \in S}

\* kmod_module_parse_depline puts each module of a line in front of its list.
ParsedDepline(line) == Reverse(line)

\* What ModuleGraph assumes of the list of a module: everything it needs but what is in
\* loops, once, in an order in which a module comes after all that it needs
RightFor(m, p) ==
  /\ Elements(p) = Needed(m) \ dep_loop
  /\ \A k, l \in 1..Len(p) : (p[l] \in Needed(p[k]) => l < k) /\ (p[k] = p[l] => k = l)

\* Both files give modprobe what is right for each module that is in no loop, whatever
\* there was no memory for: the module itself has an empty line in modules.dep then, or
\* none in modules.dep.bin, and depmod succeeds all the same, but the lines of all others
\* are what they should be.
LinesExact ==
  out = "written" =>
    \A m \in Written :
      /\ RightFor(m, ParsedDepline(text[m])) \/ (m \in short /\ text[m] = <<>>)
      /\ RightFor(m, ParsedDepline(bin[m])) \/ (m \in short /\ bin[m] = NoLine)
      /\ m \notin short => bin[m] = text[m]
      /\ Len(AllUnique(m)) <= CountAllDependencies(m)

\* "Ignored %s (dependency of %s) due dependency loops": what is in a loop is left
\* out of the lines of the modules that need it, and the files are written.
LoopedAreIgnored == out # "killed"
=============================================================================
