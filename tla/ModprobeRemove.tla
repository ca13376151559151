--------------------------- MODULE ModprobeRemove ---------------------------
(***************************************************************************)
(* "modprobe -r m" in several processes at once: rmmod_do_module and       *)
(* rmmod_do_remove_module of tools/modprobe.c, which call each other and   *)
(* themselves.  A process is a stack of frames, one for each of the two    *)
(* functions that is running, and the result of the one that returned      *)
(* last.                                                                   *)
(***************************************************************************)
EXTENDS KernelTable, SequencesExt

CONSTANTS
  Remover,         \* processes
  RemoveTarget,    \* RemoveTarget[p]: the module p removes
  RemoveOptions,   \* RemoveOptions[p]: its command line options
  RemoveCommands,  \* modules with a remove command
  RemoveEndings    \* how a remove command may end

ASSUME RemoverType ==
  /\ \A p \in Remover :
       /\ RemoveTarget[p] \in Mod
       /\ RemoveOptions[p] \subseteq {"first_time", "remove_dependencies", "ignore_loaded",
                                      "ignore_commands", "dry_run"}
  /\ RemoveCommands \subseteq Mod /\ RemoveEndings \subseteq {"0", "1", "signal"}

VARIABLE rem   \* what each process is doing

Opt(p, option) == option \in RemoveOptions[p]

\* rmmod_do_module(m, do_dependencies) and rmmod_do_remove_module(m), about to
\* start: at is the place in the function, i its loop counter
ModuleFrame(m, deps) ==
  [fn |-> "module", mod |-> m, deps |-> deps, at |-> "state", i |-> 0, err |-> "0"]
RemoveFrame(m) ==
  [fn |-> "remove", mod |-> m, deps |-> FALSE, at |-> "delete", i |-> 0, err |-> "0"]

Frame(p) == Last(rem[p].stack)
In(p, fn, at) == rem[p].stack # <<>> /\ Frame(p).fn = fn /\ Frame(p).at = at

SetRem(p, r) == rem' = [rem EXCEPT ![p] = r]

\* the running function goes on at another place,
Continue(p, f) == SetRem(p, [rem[p] EXCEPT !.stack = Append(Front(@), f)])
Goto(p, at) == Continue(p, [Frame(p) EXCEPT !.at = at, !.i = 0])

\* calls a function
Call(p, f, callee) == SetRem(p, [rem[p] EXCEPT !.stack = Append(Front(@), f) \o <<callee>>])

\* or returns
Return(p, err) == SetRem(p, [rem[p] EXCEPT !.stack = Front(@), !.ret = err])

Failed(err) == err \notin {"0", "signal"}

PreOf(p, m)  == IF Opt(p, "ignore_commands") THEN <<>> ELSE Pre[m]
PostOf(p, m) == IF Opt(p, "ignore_commands") THEN <<>> ELSE Post[m]
HasCommand(p, m) == m \in RemoveCommands /\ ~Opt(p, "ignore_commands")

----------------------------------------------------------------------------
(* rmmod_do_module                                                         *)

\* kmod_module_get_initstate reads the file initstate
State(p) ==
  /\ In(p, "module", "state")
  /\ LET m == Frame(p).mod IN
       IF HasCommand(p, m) \/ Opt(p, "ignore_loaded") \/ InitstateFile(m) # "none"
       THEN Goto(p, "post")
       ELSE Goto(p, "stat")
  /\ UNCHANGED kernel

\* Mutant of Stat: first_time is forgotten.
StatAnyTime(p) ==
  /\ In(p, "module", "stat")
  /\ Return(p, IF ModuleDir(Frame(p).mod) THEN "ENOENT" ELSE "0")
  /\ UNCHANGED kernel

\* ... and if there is none, looks for the directory of a module built in
Stat(p) ==
  /\ In(p, "module", "stat")
  /\ Return(p, IF ModuleDir(Frame(p).mod) \/ Opt(p, "first_time") THEN "ENOENT" ELSE "0")
  /\ UNCHANGED kernel

\* Mutant of SoftDepsList: the iterator stays where it is.
SoftDepsListStuck(p, list, then) ==
  IF Len(list) > 0 THEN Call(p, Frame(p), ModuleFrame(Last(list), FALSE)) ELSE then

\* rmmod_do_deps_list of a list of soft dependencies, last first, errors ignored
SoftDepsList(p, list, then) ==
  LET f == Frame(p) IN
  IF f.i < Len(list)
  THEN Call(p, [f EXCEPT !.i = @ + 1], ModuleFrame(list[Len(list) - f.i], FALSE))
  ELSE then

PostDeps(p) ==
  /\ In(p, "module", "post")
  /\ SoftDepsList(p, PostOf(p, Frame(p).mod), Goto(p, "deps"))
  /\ UNCHANGED kernel

\* with --remove-dependencies, and the first error ends it
HardDeps(p) ==
  /\ In(p, "module", "deps")
  /\ LET f == Frame(p)
         list == IF f.deps /\ Opt(p, "remove_dependencies") THEN Deps[f.mod] ELSE <<>>
     IN  IF f.i > 0 /\ Failed(rem[p].ret)
         THEN Return(p, rem[p].ret)
         ELSE SoftDepsList(p, list, Goto(p, "usage"))
  /\ UNCHANGED kernel

Usage(p) ==
  /\ In(p, "module", "usage")
  /\ LET m == Frame(p).mod IN
       IF ~Opt(p, "ignore_loaded") /\ Loaded(m) /\ Refcnt(m) > 0
       THEN Return(p, "EBUSY")
       ELSE Goto(p, "remove")
  /\ UNCHANGED kernel

RemoveModule(p) ==
  /\ In(p, "module", "remove") /\ ~HasCommand(p, Frame(p).mod)
  /\ Call(p, [Frame(p) EXCEPT !.at = "removed"], RemoveFrame(Frame(p).mod))
  /\ UNCHANGED kernel

\* command_do; a command that exits with 0 has removed the module
RunRemoveCommand(p, ending) ==
  /\ In(p, "module", "remove") /\ HasCommand(p, Frame(p).mod)
  /\ LET m == Frame(p).mod
         f == [Frame(p) EXCEPT !.at = "removed"] IN
       /\ ending = "0" /\ ~Opt(p, "dry_run") => ~Loaded(m) \/ DeleteModuleError(m) = "0"
       /\ SetRem(p, [rem[p] EXCEPT !.stack = Append(Front(@), f),
                                   !.ret = IF Opt(p, "dry_run") THEN "0" ELSE ending])
       /\ IF ending = "0" /\ ~Opt(p, "dry_run") /\ Loaded(m)
          THEN DeleteModuleEnd(m)
          ELSE UNCHANGED kernel

Removed(p) ==
  /\ In(p, "module", "removed")
  /\ IF Failed(rem[p].ret)
     THEN Return(p, rem[p].ret)
     ELSE Continue(p, [Frame(p) EXCEPT !.at = "pre", !.i = 0, !.err = rem[p].ret])
  /\ UNCHANGED kernel

PreDeps(p) ==
  /\ In(p, "module", "pre")
  /\ SoftDepsList(p, PreOf(p, Frame(p).mod), Return(p, Frame(p).err))
  /\ UNCHANGED kernel

----------------------------------------------------------------------------
(* rmmod_do_remove_module                                                  *)

DeleteDryRun(p) ==
  /\ In(p, "remove", "delete") /\ Opt(p, "dry_run")
  /\ Return(p, "0")
  /\ UNCHANGED kernel

\* kmod_module_remove_module.  Only -EEXIST is forgiven, which the kernel does
\* not return.
DeleteRefused(p) ==
  /\ In(p, "remove", "delete") /\ ~Opt(p, "dry_run")
  /\ DeleteModuleError(Frame(p).mod) # "0"
  /\ Continue(p, [Frame(p) EXCEPT !.at = "unused", !.err = DeleteModuleError(Frame(p).mod)])
  /\ UNCHANGED kernel

DeleteStarts(p) ==
  /\ In(p, "remove", "delete") /\ ~Opt(p, "dry_run")
  /\ DeleteModuleError(Frame(p).mod) = "0"
  /\ DeleteModuleBegin(Frame(p).mod)
  /\ Goto(p, "going")

DeleteEnds(p) ==
  /\ In(p, "remove", "going")
  /\ DeleteModuleEnd(Frame(p).mod)
  /\ SetRem(p, [rem[p] EXCEPT !.stack = Append(Front(@), [Frame(p) EXCEPT !.at = "unused"]),
                              !.did = @ \cup {Frame(p).mod}])

\* Mutant of UnusedDeps: dependencies are left alone.
UnusedDepsKept(p) ==
  /\ In(p, "remove", "unused")
  /\ Return(p, Frame(p).err)
  /\ UNCHANGED kernel

\* Each dependency that nobody uses any more is removed, and what it depends on;
\* results are ignored.
UnusedDeps(p) ==
  /\ In(p, "remove", "unused")
  /\ LET f == Frame(p)
         next == [f EXCEPT !.i = @ + 1]
         d == Deps[f.mod][next.i] IN
       IF f.i = Len(Deps[f.mod])              THEN Return(p, f.err)
       ELSE IF Loaded(d) /\ Refcnt(d) = 0     THEN Call(p, next, RemoveFrame(d))
       ELSE Continue(p, next)
  /\ UNCHANGED kernel

----------------------------------------------------------------------------
RemoveInit ==
  rem = [p \in Remover |-> [stack |-> <<ModuleFrame(RemoveTarget[p], TRUE)>>,
                            ret |-> "0", did |-> {}]]

RemoveStep(p) ==
  \/ State(p) \/ Stat(p) \/ PostDeps(p) \/ HardDeps(p) \/ Usage(p)
  \/ RemoveModule(p) \/ \E ending \in RemoveEndings : RunRemoveCommand(p, ending)
  \/ Removed(p) \/ PreDeps(p)
  \/ DeleteDryRun(p) \/ DeleteRefused(p) \/ DeleteStarts(p) \/ DeleteEnds(p)
  \/ UnusedDeps(p)

Init == KernelInit /\ RemoveInit
Next == \E p \in Remover : RemoveStep(p)
vars == <<kernel, rem>>

\* Every process runs, and exit functions return.
Spec == Init /\ [][Next]_vars /\ \A p \in Remover : WF_vars(RemoveStep(p))

----------------------------------------------------------------------------
(* Properties.                                                             *)

Exited(p) == rem[p].stack = <<>>
Exit(p) == rem[p].ret

\* The soft dependencies that rmmod_do_module follows from m each time it meets m:
\* its post-deps, before m is removed, and its pre-deps if m need not be gone by then
Again(p, m) ==
  ToSet(PostOf(p, m)) \cup
    (IF Opt(p, "dry_run") \/ HasCommand(p, m) THEN ToSet(PreOf(p, m)) ELSE {})

\* The processes for which these have no cycle: in every set of modules there is one
\* from which no other of the set is followed
NoEndlessDeps ==
  {p \in Remover : \A ms \in SUBSET Mod :
                     ms # {} => \E m \in ms : Again(p, m) \cap ms = {}}

\* The recursion through soft dependencies in both directions, which does not remember
\* where it has been, comes back unless those it follows again have a cycle, in which
\* it may stay for ever.  A cycle through a pre-dep of a module that has to be removed
\* first does no harm: a module that is gone is not entered a second time, though
\* other processes take modules away while the recursion is on its way to them.
RemoversReturn == <>(\A p \in NoEndlessDeps : Exited(p))

\* "If the modules it depends on are also unused, modprobe will try to remove them
\* too": when all processes are done, whichever of them took the last user of a
\* dependency away, a dependency of a removed module is gone or in use.
UnusedDepsGone ==
  (\A p \in Remover : Exited(p)) =>
    \A p \in Remover : \A m \in rem[p].did : \A d \in DepSet(m) :
      Loaded(d) => Refcnt(d) > 0

\* The processes that answer for a removal: with --first-time, and no remove command
\* that removes the module in their place
Claims(p) ==
  Opt(p, "first_time") /\ ~Opt(p, "dry_run") /\ ~HasCommand(p, RemoveTarget[p])

\* Of processes that remove one module with --first-time, only the one that
\* removed it succeeds.
FirstTimeRemoves ==
  \A p \in Remover :
    Exited(p) /\ Exit(p) = "0" /\ Claims(p) => RemoveTarget[p] \in rem[p].did

=============================================================================
