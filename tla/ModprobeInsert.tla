--------------------------- MODULE ModprobeInsert ---------------------------
(***************************************************************************)
(* "modprobe m" in several processes at once:                              *)
(* kmod_module_probe_insert_module.                                        *)
(*                                                                         *)
(* A process looks at /sys/module to see whether a module is loaded, works *)
(* through its probe list and calls init_module; everything it has read    *)
(* may be stale when it acts on it.                                        *)
(***************************************************************************)
EXTENDS ProbeList, KernelTable, SequencesExt

CONSTANTS
  Inserter,    \* processes
  Lookup,      \* Lookup[x]: the modules kmod_module_new_from_lookup gives for x, in order
  Situations   \* what the processes are asked to do, and where: records of
               \*   args, options     for each process, its arguments (several with
               \*                     --all) and its options,
               \*   blacklist         the modules of the blacklist commands,
               \*   commands, endings modules with an install command, how one may end,
               \*   fails, nofile     modules whose init function may fail, or without a file

\* The KMOD_PROBE flags, and --resolve-alias
Flags == {"ignore_loaded", "fail_on_loaded", "ignore_command", "dry_run",
          "blacklist", "blacklist_all", "lookup_only"}

ASSUME LookupType == \A x \in DOMAIN Lookup : Lookup[x] \in Seq(Mod)

ASSUME SituationsType == \A s \in Situations :
  /\ \A p \in Inserter : s.args[p] \in Seq(DOMAIN Lookup) \ {<<>>} /\ s.options[p] \subseteq Flags
  /\ s.blacklist \cup s.commands \cup s.fails \cup s.nofile \subseteq Mod
  /\ s.endings \subseteq {"0", "1", "EEXIST", "signal"}

VARIABLES
  situation,   \* one of Situations
  ins          \* what each process is doing

Set(p, r) == ins' = [ins EXCEPT ![p] = r] /\ UNCHANGED situation

Has(p, flag) == flag \in situation.options[p]

\* The argument a process is at, and the module of it
Alias(p) == situation.args[p][ins[p].arg]
Target(p) == Lookup[Alias(p)][ins[p].mod]

\* The probe list, as kmod_module_probe_insert_module uses it
FullLists == [m \in Mod |-> ProbeListOf(m, FALSE)]
BareLists == [m \in Mod |-> ProbeListOf(m, TRUE)]
ProbeFor(p, m) == IF Has(p, "ignore_command") THEN BareLists[m] ELSE FullLists[m]
Probe(p) == ProbeFor(p, Target(p))

\* kmod_module_apply_filter
ApplyFilter(list) ==
  ForEach([output \in Seq(Mod) |-> [m \in Mod |->
             IF m \in situation.blacklist THEN output ELSE Append(output, m)]], <<>>, list)

Filtered(p) == IF Has(p, "blacklist_all") THEN ApplyFilter(Probe(p).list) ELSE Probe(p).list

\* The module a process is at: the target, and then the list's modules
At(p) == IF ins[p].i = 0 THEN Target(p) ELSE ins[p].list[ins[p].i]

\* insmod looks the next argument up; --resolve-alias only prints the names it gives.
LookUp(p, arg, status, did) ==
  LET mods == Lookup[situation.args[p][arg]]
  IN  [arg |-> arg, status |-> status, did |-> did,
       i |-> 0, list |-> <<>>, ignorecmd |-> {}, err |-> "0", mod |-> 1,
       pc |-> IF mods = <<>> THEN "unknown" ELSE IF Has(p, "lookup_only") THEN "print" ELSE "probe"]

----------------------------------------------------------------------------
(* The modules of an alias, and the arguments, one after another.  The      *)
(* result of an alias is that of its last module (reasons to stop that are  *)
(* no errors, and what a killed command returned, count as success); the    *)
(* status of the process keeps an error.                                    *)

Fails(err) == err \notin {"0", "blacklisted", "signal"}

\* Mutant of Insmod: the status is that of the last argument.
InsmodLast(p, r, err) ==
  LET status == IF Fails(err) THEN err ELSE "0"
  IN  IF r.arg = Len(situation.args[p])
      THEN Set(p, [r EXCEPT !.pc = "done", !.status = status])
      ELSE Set(p, LookUp(p, r.arg + 1, status, r.did))

\* insmod has its result: the next argument, if there is one
Insmod(p, r, err) ==
  LET status == IF Fails(err) THEN err ELSE r.status
  IN  IF r.arg = Len(situation.args[p])
      THEN Set(p, [r EXCEPT !.pc = "done", !.status = status])
      ELSE Set(p, LookUp(p, r.arg + 1, status, r.did))

Following(r) ==
  [r EXCEPT !.pc = "probe", !.mod = @ + 1, !.i = 0, !.list = <<>>, !.ignorecmd = {}, !.err = "0"]

\* Mutant of Returned: insmod stops at the first module that fails.
ReturnedStops(p, r, err) ==
  IF r.mod = Len(Lookup[Alias(p)]) \/ Fails(err) THEN Insmod(p, r, err) ELSE Set(p, Following(r))

\* kmod_module_probe_insert_module has returned err
Returned(p, r, err) ==
  IF r.mod = Len(Lookup[Alias(p)]) THEN Insmod(p, r, err) ELSE Set(p, Following(r))

PrintNames(p) ==
  /\ ins[p].pc = "print"
  /\ Insmod(p, ins[p], "0")
  /\ UNCHANGED kernel

\* handle_failed_lookup: a module that is built in is in no index but in /sys
UnknownAlias(p) ==
  /\ ins[p].pc = "unknown"
  /\ LET builtin == Alias(p) \in Mod /\ InitstateFile(Alias(p)) = "none" /\ ModuleDir(Alias(p))
     IN  Insmod(p, ins[p], IF builtin /\ ~Has(p, "fail_on_loaded") THEN "0" ELSE "ENOENT")
  /\ UNCHANGED kernel

----------------------------------------------------------------------------
(* The end of one module of the list.                                       *)

\* Mutant of Stops: FAIL_ON_LOADED is ignored when a race is lost.
StopsNever(p, err) == err \notin {"0", "EEXIST", "signal"}

\* finish_module: "already loaded" is no error, except for the target itself
\* with FAIL_ON_LOADED; any other error ends the loop.
Stops(p, err) ==
  \/ err = "EEXIST" /\ At(p) = Target(p) /\ Has(p, "fail_on_loaded")
  \/ err \notin {"0", "EEXIST", "signal"}

\* Mutant of Finish: "already loaded" stays an error.
FinishEexist(p, r, err) ==
  IF err \notin {"0", "signal"} \/ ins[p].i = Len(ins[p].list)
  THEN Returned(p, r, err)
  ELSE Set(p, [r EXCEPT !.pc = "next", !.i = @ + 1, !.err = err])

Finish(p, r, err) ==
  LET kept == IF err = "EEXIST" /\ ~Stops(p, err) THEN "0" ELSE err
  IN  IF Stops(p, err) \/ ins[p].i = Len(ins[p].list)
      THEN Returned(p, r, kept)
      ELSE Set(p, [r EXCEPT !.pc = "next", !.i = @ + 1, !.err = kept])

----------------------------------------------------------------------------
(* kmod_module_get_initstate: the file initstate, and if there is none the  *)
(* directory of the module, which a module that is built in has as well.    *)
(* The target's state is read before its list, and every module's when it   *)
(* is its turn.                                                             *)

InKernel(state) == state \in {"live", "builtin"}

\* alias_only, which insmod gives, counts for a target that an alias has named.
Blacklisted(p) ==
  /\ Target(p) \in situation.blacklist
  /\ Alias(p) \notin Mod \/ Has(p, "blacklist_all") \/ Has(p, "blacklist")

Probed(p, state) ==
  CASE InKernel(state)
         -> Returned(p, ins[p], IF Has(p, "fail_on_loaded") THEN "EEXIST" ELSE "0")
    [] ~InKernel(state) /\ (Blacklisted(p) \/ Filtered(p) = <<>>)
         -> Returned(p, ins[p], "blacklisted")
    [] OTHER
         -> Set(p, [ins[p] EXCEPT !.pc = "next", !.i = 1, !.list = Filtered(p),
                                  !.ignorecmd = Probe(p).ignorecmd])

Looked(p, state) ==
  CASE InKernel(state) -> Finish(p, ins[p], "EEXIST")
    [] ~InKernel(state) /\ Has(p, "dry_run") -> Finish(p, ins[p], ins[p].err)
    [] OTHER -> Set(p, [ins[p] EXCEPT !.pc = "insert"])

\* The state as the caller reads it
Seen(p, state) == IF ins[p].i = 0 THEN Probed(p, state) ELSE Looked(p, state)

ReadInitstate(p) ==
  /\ ins[p].pc \in {"probe", "next"} /\ ~Has(p, "ignore_loaded")
  /\ IF InitstateFile(At(p)) = "none"
     THEN Set(p, [ins[p] EXCEPT !.pc = "stat"])
     ELSE Seen(p, InitstateFile(At(p)))
  /\ UNCHANGED kernel

StatModuleDir(p) ==
  /\ ins[p].pc = "stat"
  /\ Seen(p, IF ModuleDir(At(p)) THEN "builtin" ELSE "absent")
  /\ UNCHANGED kernel

IgnoreLoaded(p) ==
  /\ ins[p].pc \in {"probe", "next"} /\ Has(p, "ignore_loaded")
  /\ Seen(p, "absent")
  /\ UNCHANGED kernel

----------------------------------------------------------------------------
(* Insertion of a module of the list.                                       *)

RunsCommand(p) == At(p) \in situation.commands /\ At(p) \notin ins[p].ignorecmd

\* kmod_module_insert_module: init_module is refused, or starts
Insmods(p) ==
  /\ ins[p].pc = "insert" /\ ~RunsCommand(p) /\ ~InitModuleWaits(At(p))

InsmodError(m) == IF m \in situation.nofile THEN "ENOSYS" ELSE InitModuleError(m)

InsmodRefused(p) ==
  /\ Insmods(p) /\ InsmodError(At(p)) # "0"
  /\ Finish(p, ins[p], InsmodError(At(p)))
  /\ UNCHANGED kernel

InsmodStarts(p) ==
  /\ Insmods(p) /\ InsmodError(At(p)) = "0"
  /\ InitModuleBegin(At(p))
  /\ Set(p, [ins[p] EXCEPT !.pc = "init"])

InsmodEnds(p, ok) ==
  /\ ins[p].pc = "init" /\ (ok \/ At(p) \in situation.fails)
  /\ InitModuleEnd(At(p), ok)
  /\ Finish(p, [ins[p] EXCEPT !.did = IF ok THEN @ \cup {At(p)} ELSE @],
            IF ok THEN "0" ELSE "EIO")

\* command_do: a command that exits with 0 has loaded the module; otherwise
\* the exit status becomes an error number, and the status of a command that a
\* signal has killed is passed on as it is.
RunCommand(p, ending) ==
  /\ ins[p].pc = "insert" /\ RunsCommand(p) /\ ending \in situation.endings
  /\ ending = "0" => InitModuleError(At(p)) # "ENOENT" /\ ~InitModuleWaits(At(p))
  /\ IF ending = "0" /\ kernel[At(p)] = "absent"
     THEN InitModuleEnd(At(p), TRUE)
     ELSE UNCHANGED kernel
  /\ Finish(p, ins[p], ending)

----------------------------------------------------------------------------
InsertInit ==
  /\ situation \in Situations
  /\ ins = [p \in Inserter |-> LookUp(p, 1, "0", {})]

Insert(p) ==
  \/ PrintNames(p) \/ UnknownAlias(p)
  \/ ReadInitstate(p) \/ StatModuleDir(p) \/ IgnoreLoaded(p)
  \/ InsmodRefused(p) \/ InsmodStarts(p) \/ \E ok \in BOOLEAN : InsmodEnds(p, ok)
  \/ \E ending \in situation.endings : RunCommand(p, ending)

Init == KernelInit /\ InsertInit
Next == \E p \in Inserter : Insert(p)
vars == <<kernel, situation, ins>>

\* Every process runs, and init functions return.
Spec == Init /\ [][Next]_vars /\ \A p \in Inserter : WF_vars(Insert(p))

----------------------------------------------------------------------------
(* Properties.                                                             *)

Done(p) == ins[p].pc = "done"
Succeeded(p) == Done(p) /\ ins[p].status = "0"

Present(m) == kernel[m] \in {"coming", "live", "builtin"}

Needs(m) == {m} \cup DepSet(m)
Arguments(p) == {x \in ToSet(situation.args[p]) : Lookup[x] # <<>>}
Inserts(p) == ~Has(p, "dry_run") /\ ~Has(p, "lookup_only")

\* Modules that the configuration keeps out or loads, and that may fail in another process
Exempt == situation.blacklist \cup situation.commands \cup situation.fails

\* The exit status is true: a process that succeeds has for each of its arguments the
\* last module, and all that this module needs, in the kernel or on its way there,
\* whatever it has read of /sys and others have done since.  (What the module needs may
\* be exempt: without it the module would not be there.)
InsertedAll ==
  \A p \in Inserter : Succeeded(p) /\ Inserts(p) =>
    \A x \in Arguments(p) :
      LET last == Last(Lookup[x])
      IN  last \notin Exempt => \A m \in Needs(last) : Present(m)

\* One module of an alias that cannot be inserted, or one argument of --all, does not
\* keep the others from it: when a process ends, successful or not, all the modules of
\* its arguments are inserted whose probe lists have nothing that may fail.  (A soft
\* dependency that fails ends the list, although no module needs it.)
AllTried ==
  \A p \in Inserter : Done(p) /\ Inserts(p) =>
    \A x \in Arguments(p) : \A m \in ToSet(Lookup[x]) :
      ToSet(ProbeFor(p, m).list) \cap (Exempt \cup situation.nofile) = {} =>
        \A d \in Needs(m) : Present(d)

\* Nothing of the situation makes a process fail.
Quiet ==
  /\ Exempt \cup situation.nofile = {}
  /\ \A p \in Inserter : ~Has(p, "fail_on_loaded") /\ Arguments(p) = ToSet(situation.args[p])

\* While nobody removes modules and no init function fails, processes that insert
\* modules do not disturb each other: each returns 0 in the end.
AllSucceed == <>(Quiet => \A p \in Inserter : Succeeded(p))

\* Of processes that insert one module with FAIL_ON_LOADED at the same time, at most
\* one is told that it succeeded: the one that inserted it.
FirstTimeOnce ==
  \A p \in Inserter : Succeeded(p) /\ Inserts(p) /\ Has(p, "fail_on_loaded") =>
    \A x \in Arguments(p) :
      Last(Lookup[x]) \notin Exempt => Last(Lookup[x]) \in ins[p].did
=============================================================================
