----------------------------- MODULE ProbeList -----------------------------
(***************************************************************************)
(* The order in which a module and everything it needs is inserted:        *)
(* kmod_module_get_probe_list.                                             *)
(*                                                                         *)
(* Hard dependencies come first, and around every module its soft          *)
(* dependencies, each of which is a probe list of its own.  mod->visited   *)
(* guards the recursion of __kmod_module_get_probe_list and only that one: *)
(* a module that is a hard dependency twice is in the list twice.          *)
(***************************************************************************)
EXTENDS ModuleGraph, Loops

\* The state of the recursion: the modules that were visited, the list, and the
\* modules whose install command is ignored (mod->ignorecmd).
ProbeState == [visited : SUBSET Mod, list : Seq(Mod), ignorecmd : SUBSET Mod]

Start == [visited |-> {}, list |-> <<>>, ignorecmd |-> {}]

Visit(s, m) == [s EXCEPT !.visited = @ \cup {m}]

Add(s, m, ignorecmd) ==
  [s EXCEPT !.list = Append(@, m),
            !.ignorecmd = IF ignorecmd THEN @ \cup {m} ELSE @ \ {m}]

HasSoftdeps(m) == Pre[m] # <<>> \/ Post[m] # <<>>

\* The recursion is a function of its state and of a module; in the operators it is
\* the parameter get.

\* Mutants of FillSoftdep: no post-deps, and pre-deps after the module.
FillSoftdepNoPost(get, s, m) == Add(ForEach(get, s, Pre[m]), m, HasSoftdeps(m))

FillSoftdepPreLast(get, s, m) ==
  ForEach(get, ForEach(get, Add(s, m, HasSoftdeps(m)), Pre[m]), Post[m])

\* __kmod_module_fill_softdep
FillSoftdep(get, s, m) ==
  ForEach(get, Add(ForEach(get, s, Pre[m]), m, HasSoftdeps(m)), Post[m])

Dependencies(get, s, m) ==
  ForEach([t \in ProbeState |-> [d \in Mod |-> FillSoftdep(get, t, d)]], s, Deps[m])

\* Mutant of GetProbeList: dependencies after the module
GetProbeListDepsLast(get, s, m, ignorecmd) ==
  IF m \in s.visited THEN s
  ELSE LET v == Visit(s, m)
       IN  Dependencies(get, IF ignorecmd THEN Add(v, m, TRUE) ELSE FillSoftdep(get, v, m), m)

\* __kmod_module_get_probe_list
GetProbeList(get, s, m, ignorecmd) ==
  IF m \in s.visited THEN s
  ELSE LET d == Dependencies(get, Visit(s, m), m)
       IN  IF ignorecmd THEN Add(d, m, TRUE) ELSE FillSoftdep(get, d, m)

\* The list of a soft dependency is never one with ignorecmd.
probe[s \in ProbeState] == [m \in Mod |-> GetProbeList(probe, s, m, FALSE)]

\* kmod_module_get_probe_list: nothing is visited yet
ProbeListOf(m, ignorecmd) == GetProbeList(probe, Start, m, ignorecmd)
=============================================================================
