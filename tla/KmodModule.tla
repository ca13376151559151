----------------------------- MODULE KmodModule -----------------------------
(***************************************************************************)
(* The life cycle of libkmod's objects: the context (struct kmod_ctx), the *)
(* modules created from it (struct kmod_module) and the pool that finds    *)
(* them again by key (ctx->modules_by_name).                               *)
(*                                                                         *)
(* Every module object holds one reference of its context; a module whose  *)
(* dependency line has been parsed holds one reference of each module of   *)
(* the line; a program using the library holds the references it was       *)
(* handed.  The library is single threaded: a call runs to its end before  *)
(* the next one starts.  Calls that loop or recurse (parsing a dependency  *)
(* line, building a lookup list, releasing a module and what it depends    *)
(* on) are split into one step per iteration, so that the properties are   *)
(* checked inside the loops as well.                                       *)
(*                                                                         *)
(* An object is identified by its pool key ("name" or "name\alias"):       *)
(* kmod_module_new never makes two objects with one key.                   *)
(***************************************************************************)
EXTENDS Integers, FiniteSets

CONSTANTS
  Key,          \* pool keys: module names and name\alias pairs
  ModOf,        \* ModOf[k] is the mod->name of the object with key k
  DepLine,      \* DepLine[n] is the set of modules on n's line of modules.dep
  Indexed,      \* names that have a line in modules.dep
  Files,        \* names whose file of modules.dep exists (stat succeeds)
  MaxLeaked,    \* bound: how often a failing allocation loses references
  MaxHeld,      \* bound: MaxHeld[k] references of module k held by the program
  MaxCtx        \* bound: references of the context held by the program

\* "-" stands for no module
ASSUME KeyFinite == IsFiniteSet(Key) /\ "-" \notin Key
ASSUME ModOfType == ModOf \in [Key -> Key]
ASSUME DepLineType == DepLine \in [Key -> SUBSET Key]
ASSUME BoundsType == MaxHeld \in [Key -> Nat] /\ MaxCtx \in Nat /\ MaxLeaked \in Nat

VARIABLES
  userctx,   \* references of the context held by the program
  ctxref,    \* ctx->refcount; the context is freed when it reaches 0
  pool,      \* keys of ctx->modules_by_name: the objects that are allocated
  refcount,  \* mod->refcount
  path,      \* mod->path: not known, as in modules.dep, or some other file
  initdep,   \* mod->init.dep
  dep,       \* mod->dep
  held,      \* references of each module held by the program
  call,      \* the library call that is running
  todo,      \* kmod_module_unref calls still to be made by the running call
  leaked     \* references that were dropped without an unref

objects == <<pool, refcount, path, initdep, dep>>
vars == <<userctx, ctxref, pool, refcount, path, initdep, dep, held, call,
          todo, leaked>>

Paths == {"none", "dep", "other"}
Plain == {k \in Key : ModOf[k] = k}

\* The running call: what it does, for which module, the entries it has yet
\* to visit, the list it has built and whether it returns that list.
Calls == [op : {"none", "depline", "parse", "lookup"}, mod : Key \cup {"-"},
          rest : SUBSET Key, list : SUBSET Key, returns : BOOLEAN]

NoCall == [op |-> "none", mod |-> "-", rest |-> {}, list |-> {},
           returns |-> FALSE]

NoRefs == [k \in Key |-> 0]

\* c with one more reference of each member of S
Plus(c, S) == [k \in Key |-> c[k] + IF k \in S THEN 1 ELSE 0]

\* The library is not running.
Idle == call.op = "none" /\ todo = NoRefs

----------------------------------------------------------------------------
(* Objects.                                                                *)

\* kmod_module_ref on each member of S
RefAll(S) ==
  /\ refcount' = Plus(refcount, S)
  /\ UNCHANGED <<ctxref, pool, path, initdep, dep>>

\* Mutant of Create: the module does not hold its context.
CreateNoCtxRef(k, p) ==
  /\ k \notin pool
  /\ pool' = pool \cup {k}
  /\ refcount' = [refcount EXCEPT ![k] = 1]
  /\ path' = [path EXCEPT ![k] = p]
  /\ initdep' = [initdep EXCEPT ![k] = FALSE]
  /\ dep' = [dep EXCEPT ![k] = {}]
  /\ UNCHANGED ctxref

\* The part of kmod_module_new after the pool missed: a zeroed object with
\* one reference, which takes a reference of the context.
Create(k, p) ==
  /\ k \notin pool
  /\ pool' = pool \cup {k}
  /\ refcount' = [refcount EXCEPT ![k] = 1]
  /\ path' = [path EXCEPT ![k] = p]
  /\ initdep' = [initdep EXCEPT ![k] = FALSE]
  /\ dep' = [dep EXCEPT ![k] = {}]
  /\ ctxref' = ctxref + 1

\* Mutant of NewModule: a pool hit is returned without a reference.
NewModuleNoRef(k) == (k \in pool /\ RefAll({})) \/ Create(k, "none")

\* kmod_module_new: a pool hit is one more reference of the same object.
NewModule(k) == (k \in pool /\ RefAll({k})) \/ Create(k, "none")

\* Mutant of NewFromPathOk: the path is not compared with the one known.
NewFromPathAnyPath(k, p) ==
  \/ Create(k, p)
  \/ /\ k \in pool
     /\ path' = [path EXCEPT ![k] = p]
     /\ refcount' = Plus(refcount, {k})
     /\ UNCHANGED <<ctxref, pool, initdep, dep>>

\* kmod_module_new_from_path, when it succeeds: a pool hit adopts the path if
\* none was known and requires the same path otherwise.
NewFromPathOk(k, p) ==
  \/ Create(k, p)
  \/ /\ k \in pool
     /\ path[k] \in {"none", p}
     /\ path' = [path EXCEPT ![k] = p]
     /\ refcount' = Plus(refcount, {k})
     /\ UNCHANGED <<ctxref, pool, initdep, dep>>

\* ... and when it fails: no such file, or -EEXIST.
NewFromPathFails(k, p) ==
  \/ p = "dep" /\ k \notin Files
  \/ k \in pool /\ path[k] \notin {"none", p}

----------------------------------------------------------------------------
(* Calls made by the program.  A program only passes what it holds.        *)

CtxRef ==
  /\ Idle /\ userctx > 0 /\ userctx < MaxCtx
  /\ userctx' = userctx + 1
  /\ ctxref' = ctxref + 1
  /\ UNCHANGED <<objects, held, call, todo, leaked>>

CtxUnref ==
  /\ Idle /\ userctx > 0
  /\ userctx' = userctx - 1
  /\ ctxref' = ctxref - 1
  /\ UNCHANGED <<objects, held, call, todo, leaked>>

\* kmod_module_new_from_name and kmod_module_new_from_alias
NewFromName(k) ==
  /\ Idle /\ userctx > 0 /\ held[k] < MaxHeld[k]
  /\ NewModule(k)
  /\ held' = Plus(held, {k})
  /\ UNCHANGED <<userctx, call, todo, leaked>>

NewFromPath(k, p) ==
  /\ Idle /\ userctx > 0 /\ held[k] < MaxHeld[k]
  /\ k \in Plain /\ (p = "dep" => k \in Files)
  /\ NewFromPathOk(k, p)
  /\ held' = Plus(held, {k})
  /\ UNCHANGED <<userctx, call, todo, leaked>>

Ref(k) ==
  /\ Idle /\ held[k] > 0 /\ held[k] < MaxHeld[k]
  /\ RefAll({k})
  /\ held' = Plus(held, {k})
  /\ UNCHANGED <<userctx, call, todo, leaked>>

Unref(k) ==
  /\ Idle /\ held[k] > 0
  /\ held' = [held EXCEPT ![k] = @ - 1]
  /\ todo' = [todo EXCEPT ![k] = 1]
  /\ UNCHANGED <<userctx, ctxref, objects, call, leaked>>

\* kmod_module_get_dependencies (which returns the list) and
\* kmod_module_get_path (which does not, and looks for the line only if the
\* path is not known).
GetDependencies(k) ==
  /\ Idle /\ held[k] > 0 /\ \A d \in DepLine[ModOf[k]] : held[d] < MaxHeld[d]
  /\ call' = [NoCall EXCEPT !.op = "depline", !.mod = k, !.returns = TRUE]
  /\ UNCHANGED <<userctx, ctxref, objects, held, todo, leaked>>

GetPath(k) ==
  /\ Idle /\ held[k] > 0 /\ path[k] = "none" /\ ~initdep[k]
  /\ call' = [NoCall EXCEPT !.op = "depline", !.mod = k]
  /\ UNCHANGED <<userctx, ctxref, objects, held, todo, leaked>>

\* kmod_module_new_from_lookup of a name that modules.dep has: the object and
\* then its dependency line; the object is lost if there is no memory for the list.
LookupModdep(k) ==
  /\ Idle /\ userctx > 0 /\ held[k] < MaxHeld[k]
  /\ k \in Plain \cap Indexed
  /\ NewModule(k)
  /\ \/ held' = Plus(held, {k}) /\ UNCHANGED leaked
     \/ /\ \A j \in Key : leaked[j] < MaxLeaked
        /\ leaked' = Plus(leaked, {k}) /\ UNCHANGED held
  /\ call' = [NoCall EXCEPT !.op = "depline", !.mod = k]
  /\ UNCHANGED <<userctx, todo>>

\* ... and of an alias that matches the modules S, in the configuration or in
\* an alias index.
LookupAlias(S) ==
  /\ Idle /\ userctx > 0 /\ \A k \in S : held[k] < MaxHeld[k]
  /\ call' = [NoCall EXCEPT !.op = "lookup", !.rest = S]
  /\ UNCHANGED <<userctx, ctxref, objects, held, todo, leaked>>

----------------------------------------------------------------------------
(* Steps of the running call.                                              *)

\* The list is handed to the program, with the references it carries.
Return(S) ==
  /\ held' = IF call.returns THEN Plus(held, S) ELSE held
  /\ call' = NoCall

\* Mutant of DeplineCached: the list carries no references.
DeplineCachedNoRef ==
  /\ call.op = "depline"
  /\ initdep[call.mod] \/ ModOf[call.mod] \notin Indexed
  /\ Return(dep[call.mod])
  /\ UNCHANGED <<userctx, ctxref, objects, todo, leaked>>

\* module_get_dependencies_noref up to the loop of kmod_module_parse_depline:
\* already parsed, or no line in modules.dep, or the parsing starts.
DeplineCached ==
  /\ call.op = "depline"
  /\ initdep[call.mod] \/ ModOf[call.mod] \notin Indexed
  /\ Return(dep[call.mod])
  /\ RefAll(IF call.returns THEN dep[call.mod] ELSE {})
  /\ UNCHANGED <<userctx, todo, leaked>>

ParseBegin ==
  /\ call.op = "depline"
  /\ ~initdep[call.mod] /\ ModOf[call.mod] \in Indexed
  /\ initdep' = [initdep EXCEPT ![call.mod] = TRUE]
  /\ path' = [path EXCEPT ![call.mod] = IF @ = "none" THEN "dep" ELSE @]
  /\ call' = [call EXCEPT !.op = "parse", !.rest = DepLine[ModOf[call.mod]]]
  /\ UNCHANGED <<userctx, ctxref, pool, refcount, dep, held, todo, leaked>>

ParseStep(d) ==
  /\ call.op = "parse" /\ d \in call.rest /\ d \in Files
  /\ NewFromPathOk(d, "dep")
  /\ call' = [call EXCEPT !.rest = @ \ {d}, !.list = @ \cup {d}]
  /\ UNCHANGED <<userctx, held, todo, leaked>>

\* kmod_list_prepend has no memory: it returns NULL, which replaces the list.
ParseStepNoMem(d) ==
  /\ \A k \in Key : leaked[k] < MaxLeaked
  /\ call.op = "parse" /\ d \in call.rest /\ d \in Files
  /\ NewFromPathOk(d, "dep")
  /\ call' = [call EXCEPT !.rest = @ \ {d}, !.list = {}]
  /\ leaked' = Plus(leaked, call.list \cup {d})
  /\ UNCHANGED <<userctx, held, todo>>

\* Mutant of ParseFail: the line is parsed once more after a failure.
ParseFailRetry(d) ==
  /\ call.op = "parse" /\ d \in call.rest
  /\ NewFromPathFails(d, "dep")
  /\ initdep' = [initdep EXCEPT ![call.mod] = FALSE]
  /\ todo' = Plus(todo, call.list)
  /\ call' = [call EXCEPT !.op = "depline", !.rest = {}, !.list = {}]
  /\ UNCHANGED <<userctx, ctxref, pool, refcount, path, dep, held, leaked>>

\* A dependency cannot be created: the list is released and the line will be
\* parsed again the next time it is needed.
ParseFail(d) ==
  /\ call.op = "parse" /\ d \in call.rest
  /\ NewFromPathFails(d, "dep")
  /\ initdep' = [initdep EXCEPT ![call.mod] = FALSE]
  /\ todo' = Plus(todo, call.list)
  /\ call' = NoCall
  /\ UNCHANGED <<userctx, ctxref, pool, refcount, path, dep, held, leaked>>

ParseDone ==
  /\ call.op = "parse" /\ call.rest = {}
  /\ dep' = [dep EXCEPT ![call.mod] = call.list]
  /\ Return(call.list)
  /\ refcount' = Plus(refcount, IF call.returns THEN call.list ELSE {})
  /\ UNCHANGED <<userctx, ctxref, pool, path, initdep, todo, leaked>>

LookupStep(k) ==
  /\ call.op = "lookup" /\ k \in call.rest
  /\ NewModule(k)
  /\ call' = [call EXCEPT !.rest = @ \ {k}, !.list = @ \cup {k}]
  /\ UNCHANGED <<userctx, held, todo, leaked>>

\* kmod_list_append has no memory: it returns NULL, which replaces the list here too.
LookupStepNoMem(k) ==
  /\ \A j \in Key : leaked[j] < MaxLeaked
  /\ call.op = "lookup" /\ k \in call.rest
  /\ NewModule(k)
  /\ call' = [call EXCEPT !.rest = @ \ {k}, !.list = {}]
  /\ leaked' = Plus(leaked, call.list \cup {k})
  /\ UNCHANGED <<userctx, held, todo>>

\* kmod_module_new_from_alias fails: kmod_list_remove_n_latest drops the list
\* nodes and not the references they carry.
LookupFail ==
  /\ \A k \in Key : leaked[k] < MaxLeaked
  /\ call.op = "lookup" /\ call.rest # {}
  /\ leaked' = Plus(leaked, call.list)
  /\ call' = NoCall
  /\ UNCHANGED <<userctx, ctxref, objects, held, todo>>

LookupDone ==
  /\ call.op = "lookup" /\ call.rest = {}
  /\ held' = Plus(held, call.list)
  /\ call' = NoCall
  /\ UNCHANGED <<userctx, ctxref, objects, todo, leaked>>

\* kmod_module_unref when other references remain
UnrefKeep(k) ==
  /\ todo[k] > 0 /\ refcount[k] > 1
  /\ todo' = [todo EXCEPT ![k] = @ - 1]
  /\ refcount' = [refcount EXCEPT ![k] = @ - 1]
  /\ UNCHANGED <<userctx, ctxref, pool, path, initdep, dep, held, call,
                 leaked>>

\* Mutant of UnrefFree: the dependencies are not released.
UnrefFreeKeepsDeps(k) ==
  /\ todo[k] > 0 /\ refcount[k] = 1
  /\ pool' = pool \ {k}
  /\ todo' = [todo EXCEPT ![k] = @ - 1]
  /\ ctxref' = ctxref - 1
  /\ refcount' = [refcount EXCEPT ![k] = 0]
  /\ path' = [path EXCEPT ![k] = "none"]
  /\ initdep' = [initdep EXCEPT ![k] = FALSE]
  /\ dep' = [dep EXCEPT ![k] = {}]
  /\ UNCHANGED <<userctx, held, call, leaked>>

\* kmod_module_unref of the last reference: out of the pool, an unref of each
\* dependency, a reference of the context, and the object is freed.
UnrefFree(k) ==
  /\ todo[k] > 0 /\ refcount[k] = 1
  /\ pool' = pool \ {k}
  /\ todo' = Plus([todo EXCEPT ![k] = @ - 1], dep[k])
  /\ ctxref' = ctxref - 1
  /\ refcount' = [refcount EXCEPT ![k] = 0]
  /\ path' = [path EXCEPT ![k] = "none"]
  /\ initdep' = [initdep EXCEPT ![k] = FALSE]
  /\ dep' = [dep EXCEPT ![k] = {}]
  /\ UNCHANGED <<userctx, held, call, leaked>>

----------------------------------------------------------------------------
\* kmod_new
Init ==
  /\ userctx = 1 /\ ctxref = 1
  /\ pool = {} /\ refcount = NoRefs
  /\ path = [k \in Key |-> "none"]
  /\ initdep = [k \in Key |-> FALSE]
  /\ dep = [k \in Key |-> {}]
  /\ held = NoRefs /\ todo = NoRefs /\ leaked = NoRefs
  /\ call = NoCall

UserCall ==
  \/ CtxRef \/ CtxUnref
  \/ \E k \in Key :
       \/ NewFromName(k) \/ Ref(k) \/ Unref(k)
       \/ \E p \in {"dep", "other"} : NewFromPath(k, p)
       \/ GetDependencies(k) \/ GetPath(k) \/ LookupModdep(k)
  \/ \E S \in SUBSET (Key \ Plain) : LookupAlias(S)

LibraryStep ==
  \/ DeplineCached \/ ParseBegin \/ ParseDone \/ LookupDone \/ LookupFail
  \/ \E d \in Key : ParseStep(d) \/ ParseStepNoMem(d) \/ ParseFail(d)
  \/ \E k \in Key : LookupStep(k) \/ LookupStepNoMem(k) \/ UnrefKeep(k) \/ UnrefFree(k)

Next == UserCall \/ LibraryStep

Spec == Init /\ [][Next]_vars

\* The library's code runs: a call that was made is carried on.
FairSpec == Spec /\ WF_vars(LibraryStep)

----------------------------------------------------------------------------
(* Properties.                                                             *)

TypeOK ==
  /\ userctx \in Nat /\ ctxref \in Int
  /\ pool \in SUBSET Key
  /\ refcount \in [Key -> Nat] /\ held \in [Key -> Nat]
  /\ todo \in [Key -> Nat] /\ leaked \in [Key -> Nat]
  /\ path \in [Key -> Paths]
  /\ initdep \in [Key -> BOOLEAN]
  /\ dep \in [Key -> SUBSET Key]
  /\ call \in Calls

\* The modules whose dependency list holds a reference of k
Parents(k) == {j \in pool : k \in dep[j]}

\* The references of k that somebody will give back (or has lost)
Owners(k) ==
  held[k] + Cardinality(Parents(k)) + todo[k] + leaked[k]
    + IF k \in call.list THEN 1 ELSE 0

\* Reference counts are exact: at every point of every call, including the
\* middle of a dependency line and of a cascade of releases, mod->refcount is
\* the number of references held by the program, by dependency lists, by the
\* list under construction and by the unrefs still to be made.
\* (kmod_module_ref, kmod_module_unref, kmod_module_parse_depline)
RefcountExact == \A k \in Key : refcount[k] = Owners(k)

\* Nobody holds a reference of an object that was freed.
NoDangling ==
  \A k \in Key : (Owners(k) > 0 \/ call.mod = k) => k \in pool

\* The context is alive as long as a module is, whatever the order in which
\* the program drops its references. (kmod_ref in kmod_module_new, kmod_unref
\* in kmod_module_unref)
CtxOutlivesModules == ctxref = userctx + Cardinality(pool)

\* The modules reachable from S through dependency lists
Closed(S) == \A k \in S : dep[k] \subseteq S
Reach(S) == {k \in Key : \A C \in SUBSET Key : S \subseteq C /\ Closed(C) => k \in C}

\* Reference counting frees what a tracing collector would: between calls the
\* pool is what the program reaches, provided modules.dep has no cycle.
NoGarbage ==
  Idle => pool = Reach({k \in Key : held[k] > 0 \/ leaked[k] > 0})

\* "The result is cached in @mod": a dependency list that has been parsed and
\* the path of a module stay as they are until the module is released, so the
\* pointers a caller reads from them do not go stale.
CachedUntilFreed ==
  [][\A k \in pool \cap pool' :
       /\ initdep[k] /\ call.mod # k => dep'[k] = dep[k] /\ initdep'[k]
       /\ path[k] # "none" => path'[k] = path[k]]_vars

\* Every call returns: no list or chain of releases runs forever.
CallsReturn == ~Idle ~> Idle
=============================================================================
