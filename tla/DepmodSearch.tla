---------------------------- MODULE DepmodSearch ----------------------------
(***************************************************************************)
(* depmod before it sorts: the configuration, the search for modules, of   *)
(* which several may have one name, their order by modules.order, their    *)
(* symbols and the dependencies these make.                                *)
(*                                                                         *)
(* A module is its file: a directory, a name and an extension.  Directories*)
(* are sequences of pieces of text, as they are compared by their first    *)
(* characters.                                                             *)
(***************************************************************************)
EXTENDS Integers, Sequences, FiniteSets, SequencesExt, FiniteSetsExt

CONSTANTS
  Configurations,  \* configurations: per directory, the files in it by name
  Disks,           \* sets of modules that may be installed
  Arguments,       \* modules that may be named on the command line
  Orders,          \* contents of modules.order
  Exports, Needs,  \* symbols that a module of a name exports, and needs
  KernelSymbols,   \* symbols of System.map or Module.symvers
  Step             \* by which arrays grow

A == INSTANCE KmodArray

\* depmod takes files with these extensions for modules.
Extensions == {"ko", "ko.gz", "ko.xz"}
Module == [dir : Seq(STRING), name : STRING, ext : Extensions]

ASSUME StepType == Step \in Nat \ {0}
ASSUME FoundTypes ==
  /\ \A d \in Disks : d \subseteq Module
  /\ \A a \in Arguments : a \in Seq(Module)
  /\ \A o \in Orders : o \in Seq(Seq(STRING))

\* Modules that depmod may come across
Candidate == (UNION Disks) \cup UNION {{a[k] : k \in DOMAIN a} : a \in Arguments}
ASSUME SymbolTypes ==
  \A m \in Candidate : Exports[m.name] \in Seq(STRING) /\ Needs[m.name] \in Seq(STRING)

\* Lines of a configuration file: search, override and what is neither
ConfigLine ==
  [cmd : {"search"}, words : Seq(Seq(STRING))] \cup
  [cmd : {"override"}, name : STRING, matches : BOOLEAN, dir : Seq(STRING)] \cup [cmd : {"bad"}]
ASSUME ConfigTypes ==
  \A c \in Configurations :
    /\ DOMAIN c = 1..Len(c) /\ Len(c) \in Nat
    /\ \A d \in DOMAIN c : \A n \in DOMAIN c[d] : n \in Nat \ {0} /\ c[d][n] \in Seq(ConfigLine)

NoFile == [dir |-> <<>>, name |-> "none", ext |-> ""]
Elsewhere == <<"elsewhere">>    \* the directory of a module that is not below cfg->dirname
BuiltIn == <<"built-in">>       \* words of search
Updates == <<"updates">>
NoOrder == <<<<"missing">>>>    \* modules.order that cannot be opened,
Corrupted == <<<<"corrupted">>>>   \* or has a line without an end

VARIABLES
  conf, disk, args, order,   \* what depmod finds
  unread,       \* entries of directories that it has not read
  files,        \* cfg_load: the configuration files, by name
  searches, overrides,       \* cfg
  modules_by_name, modules_by_uncrelpath,   \* tables
  alloc,        \* modules that are allocated
  kmod,         \* modules with a reference of their kmod_module
  modules,      \* depmod->modules
  sort_idx,     \* of those in modules.order
  symbols,      \* table: the owner of a symbol, NoFile for the kernel
  replaced,     \* symbols whose entry was replaced: the key of the entry is freed
  deps, users,  \* of modules
  lost,         \* history: a module and a dependency for which there was no memory
  i,            \* loop counter
  nomem,        \* history: there was no memory for the array
  pc

found == <<conf, disk, args, order>>
cfg == <<files, searches, overrides>>
tables == <<modules_by_name, modules_by_uncrelpath, alloc, kmod>>
loaded == <<symbols, replaced, deps, users, lost, i>>
vars == <<found, unread, cfg, tables, modules, sort_idx, loaded, nomem, pc>>

\* The path of a module below cfg->dirname, without its extension, which is
\* uncrelpath with .ko
Rel(m) == m.dir \o <<"/", m.name>>
InTree(m) == m.dir # Elsewhere

Put(table, k, v) == [x \in DOMAIN table \cup {k} |-> IF x = k THEN v ELSE table[x]]
Without(table, k) == [x \in DOMAIN table \ {k} |-> table[x]]
Empty == [x \in {} |-> NoFile]

Init ==
  /\ conf \in Configurations /\ disk \in Disks /\ args \in Arguments /\ order \in Orders
  /\ unread = {} /\ files = <<>> /\ searches = <<>> /\ overrides = <<>>
  /\ modules_by_name = Empty /\ modules_by_uncrelpath = Empty /\ alloc = {} /\ kmod = {}
  /\ modules = A!ArrayInit(Step) /\ sort_idx = Empty
  /\ symbols = Empty /\ replaced = {} /\ deps = Empty /\ users = Empty /\ lost = {} /\ i = 1
  /\ nomem = FALSE /\ pc = "symbols"

----------------------------------------------------------------------------
(* cfg_load                                                                *)

\* The files of the directories of a configuration
Entries(c) == UNION {{<<d, n>> : n \in DOMAIN c[d]} : d \in DOMAIN c}

\* System.map or Module.symvers, whose symbols belong to no module, and then the
\* directories of the configuration, or the modules of the command line
LoadKernelSymbols ==
  /\ pc = "symbols"
  /\ symbols' = [s \in KernelSymbols |-> NoFile]
  /\ IF args = <<>> THEN pc' = "list" /\ unread' = Entries(conf) ELSE pc' = "arguments" /\ unread' = unread
  /\ UNCHANGED <<found, cfg, tables, modules, sort_idx, replaced, deps, users, lost, i, nomem>>

\* How many files come before one of a name; names are compared by strcmp.
Before(name) == Cardinality({k \in DOMAIN files : files[k][2] < name})

\* Mutant of InsertSorted: a file of the same name goes before the other.
InsertSortedAll(dir, name) == InsertAt(files, Before(name) + 1, <<dir, name>>)

\* cfg_files_insert_sorted
InsertSorted(dir, name) ==
  IF \E k \in DOMAIN files : files[k][2] = name THEN files
  ELSE InsertAt(files, Before(name) + 1, <<dir, name>>)

\* cfg_files_list: the next entry of a directory, after those of earlier ones
ListFile ==
  /\ pc = "list"
  /\ \E e \in unread :
       /\ \A e2 \in unread : e[1] <= e2[1]
       /\ files' = InsertSorted(e[1], e[2])
       /\ unread' = unread \ {e}
  /\ UNCHANGED <<found, searches, overrides, tables, modules, sort_idx, loaded, nomem, pc>>

Listed ==
  /\ pc = "list" /\ unread = {}
  /\ pc' = "parse"
  /\ UNCHANGED <<found, unread, cfg, tables, modules, sort_idx, loaded, nomem>>

Override(line) == line.dir \o <<"/", line.name>>

\* cfg_search_add and cfg_override_add put a word, or an override for this
\* kernel, in front.
Line(c, line) ==
  IF line.cmd = "search" THEN [c EXCEPT !.searches = Reverse(line.words) \o @]
  ELSE IF line.cmd = "override" /\ line.matches THEN [c EXCEPT !.overrides = <<Override(line)>> \o @]
  ELSE c

\* cfg_file_parse
ParseFile ==
  /\ pc = "parse" /\ files # <<>>
  /\ LET e == Head(files)
         c == FoldLeft(Line, [searches |-> searches, overrides |-> overrides], conf[e[1]][e[2]])
     IN  searches' = c.searches /\ overrides' = c.overrides
  /\ files' = Tail(files)
  /\ UNCHANGED <<found, unread, tables, modules, sort_idx, loaded, nomem, pc>>

Parsed ==
  /\ pc = "parse" /\ files = <<>>
  /\ searches' = IF searches = <<>> THEN <<Updates>> ELSE searches
  /\ pc' = "search" /\ unread' = disk
  /\ UNCHANGED <<found, files, overrides, tables, modules, sort_idx, loaded, nomem>>

----------------------------------------------------------------------------
(* depmod_modules_search                                                   *)

\* depmod_module_add of a module whose name and path are in no table
Add(m) ==
  /\ modules_by_name' = Put(modules_by_name, m.name, m)
  /\ modules_by_uncrelpath' = IF InTree(m) THEN Put(modules_by_uncrelpath, Rel(m), m)
                              ELSE modules_by_uncrelpath
  /\ alloc' = alloc \cup {m} /\ kmod' = kmod \cup {m}

Matches(se, m) == se # BuiltIn /\ IsPrefix(se, Rel(m))

\* The entries of search that a module matches, and those that are built-in
Own(m) == {k \in DOMAIN searches : Matches(searches[k], m)}
BuiltIns == {k \in DOMAIN searches : searches[k] = BuiltIn}
LastOf(S) == Max({0} \cup S)
OrBuiltIn(prio) == IF prio = 0 THEN LastOf(BuiltIns) ELSE prio

\* Mutant of HigherSearch: the direction of the comparison, which is the inverse of
\* that in module-init-tools.
HigherSearchInverse(old, new) == OrBuiltIn(LastOf(Own(new))) >= OrBuiltIn(LastOf(Own(old) \ Own(new)))

\* Each module gets the last entry that it matches, but one that the new module
\* matches is not looked at for the old one.
HigherSearch(old, new) == OrBuiltIn(LastOf(Own(new))) <= OrBuiltIn(LastOf(Own(old) \ Own(new)))

\* depmod_module_is_higher_priority: the first override for one of both decides.
IsHigherPriority(old, new) ==
  LET ks == {k \in DOMAIN overrides : overrides[k] \in {Rel(old), Rel(new)}}
  IN  IF ks # {} THEN overrides[Min(ks)] # Rel(new) ELSE HigherSearch(old, new)

\* depmod_modules_search_file, in the order of readdir
SearchFile(m) ==
  /\ pc = "search" /\ m \in unread
  /\ unread' = unread \ {m}
  /\ \/ /\ m.name \notin DOMAIN modules_by_name
        /\ Add(m) /\ pc' = pc
     \/ /\ m.name \in DOMAIN modules_by_name /\ IsHigherPriority(modules_by_name[m.name], m)
        /\ UNCHANGED <<tables, pc>>
     \* depmod_module_del takes it out of the tables (that of paths by its relpath, which
     \* is no key when it is compressed) and calls mod_free, which asserts that the
     \* kmod_module was released.  It never is at this time: depmod aborts.
     \/ /\ m.name \in DOMAIN modules_by_name /\ ~IsHigherPriority(modules_by_name[m.name], m)
        /\ LET old == modules_by_name[m.name]
           IN  modules_by_uncrelpath' = IF old.ext = "ko" THEN Without(modules_by_uncrelpath, Rel(old))
                                        ELSE modules_by_uncrelpath
        /\ modules_by_name' = Without(modules_by_name, m.name)
        /\ pc' = "aborted" /\ UNCHANGED <<alloc, kmod>>
  /\ UNCHANGED <<found, cfg, modules, sort_idx, loaded, nomem>>

\* The modules of the command line.  A second one of a name has another path than the
\* one in libkmod's pool, or is there already.
AddArgument ==
  /\ pc = "arguments" /\ i <= Len(args)
  /\ IF args[i].name \in DOMAIN modules_by_name
     THEN pc' = "failed" /\ UNCHANGED tables
     ELSE pc' = "arguments" /\ Add(args[i])
  /\ i' = i + 1
  /\ UNCHANGED <<found, unread, cfg, modules, sort_idx, symbols, replaced, deps, users, lost, nomem>>

Searched ==
  /\ (pc = "search" /\ unread = {}) \/ (pc = "arguments" /\ i > Len(args))
  /\ pc' = "array" /\ i' = 1
  /\ UNCHANGED <<found, unread, cfg, tables, modules, sort_idx, symbols, replaced, deps, users, lost, nomem>>

----------------------------------------------------------------------------
(* The array of modules.                                                   *)

Elements == {modules.elements[k] : k \in 1..A!Count(modules)}
Named == {modules_by_name[n] : n \in DOMAIN modules_by_name}

\* depmod_modules_build_array, in the order of the table
BuildArray ==
  /\ pc = "array"
  /\ \E m \in Named \ Elements :
       \/ modules' = A!ArrayAppend(modules, m) /\ UNCHANGED <<pc, nomem>>
       \/ A!Full(modules) /\ pc' = "failed" /\ nomem' = TRUE /\ UNCHANGED modules
  /\ UNCHANGED <<found, unread, cfg, tables, sort_idx, loaded>>

Built ==
  /\ pc = "array" /\ Named = Elements
  /\ pc' = "sort"
  /\ UNCHANGED <<found, unread, cfg, tables, modules, sort_idx, loaded, nomem>>

\* Mutant of SortIdx: the number of the line.
SortIdxLine(m) ==
  LET lines == {l \in DOMAIN order : order[l] \in DOMAIN modules_by_uncrelpath /\
                                     modules_by_uncrelpath[order[l]] = m}
  IN  IF lines = {} THEN 1 ELSE Max(lines)

\* What modules.order makes of sort_idx, which is 1 at first: a negative number,
\* of the last line for the module.
SortIdx(m) ==
  LET lines == {l \in DOMAIN order : order[l] \in DOMAIN modules_by_uncrelpath /\
                                     modules_by_uncrelpath[order[l]] = m}
  IN  IF lines = {} THEN 1 ELSE Max(lines) - (Len(order) + 1)

\* depmod_modules_sort; no module is marked as looped yet.
SortModules ==
  /\ pc = "sort"
  /\ IF order \in {NoOrder, Corrupted} THEN UNCHANGED <<sort_idx, modules>>
     ELSE /\ sort_idx' = [m \in Elements |-> SortIdx(m)]
          /\ \E s \in SetToSeqs(Elements) :
               /\ \A k, l \in DOMAIN s : k < l => sort_idx'[s[k]] <= sort_idx'[s[l]]
               /\ modules' = [modules EXCEPT !.elements = s]
  /\ pc' = "load"
  /\ deps' = [m \in Elements |-> A!ArrayInit(Step)] /\ users' = [m \in Elements |-> 0]
  /\ UNCHANGED <<found, unread, cfg, tables, symbols, replaced, lost, i, nomem>>

----------------------------------------------------------------------------
(* Symbols and dependencies.                                               *)

\* depmod_symbol_add: hash_add frees the symbol that it replaces, in which the key of
\* the entry is.
SymbolAdd(t, s, owner) ==
  [table |-> Put(t.table, s, owner),
   replaced |-> IF s \in DOMAIN t.table THEN t.replaced \cup {s} ELSE t.replaced]

\* Mutant of LoadModule: a module without symbols is left as it is.
LoadModuleSkips ==
  /\ pc = "load" /\ i <= A!Count(modules)
  /\ LET m == modules.elements[i]
         t == FoldLeft(LAMBDA u, s : SymbolAdd(u, s, m),
                       [table |-> symbols, replaced |-> replaced], Exports[m.name])
     IN  symbols' = t.table /\ replaced' = t.replaced
           /\ kmod' = IF Exports[m.name] = <<>> THEN kmod ELSE kmod \ {m}
  /\ i' = i + 1
  /\ UNCHANGED <<found, unread, cfg, modules_by_name, modules_by_uncrelpath, alloc, modules,
                 sort_idx, deps, users, lost, nomem, pc>>

\* depmod_load_modules, one module
LoadModule ==
  /\ pc = "load" /\ i <= A!Count(modules)
  /\ LET m == modules.elements[i]
         t == FoldLeft(LAMBDA u, s : SymbolAdd(u, s, m),
                       [table |-> symbols, replaced |-> replaced], Exports[m.name])
     IN  symbols' = t.table /\ replaced' = t.replaced /\ kmod' = kmod \ {m}
  /\ i' = i + 1
  /\ UNCHANGED <<found, unread, cfg, modules_by_name, modules_by_uncrelpath, alloc, modules,
                 sort_idx, deps, users, lost, nomem, pc>>

ModulesLoaded ==
  /\ pc = "load" /\ i > A!Count(modules)
  /\ pc' = "depend" /\ i' = 1
  /\ UNCHANGED <<found, unread, cfg, tables, modules, sort_idx, symbols, replaced, deps, users, lost, nomem>>

\* depmod_symbol_find; with freed keys in the table a search may miss.
SymbolFind(s) ==
  (IF s \in DOMAIN symbols THEN {symbols[s]} ELSE {NoFile}) \cup (IF replaced # {} THEN {NoFile} ELSE {})

\* Mutant of AddDependency: the count of users goes up for each symbol.
AddDependencyCounts(d, owner) ==
  IF owner = NoFile THEN d
  ELSE [array |-> A!ArrayAppendUnique(d.array, owner),
        users |-> [d.users EXCEPT ![owner] = @ + 1]]

\* mod_add_dependency
AddDependency(d, owner) ==
  IF owner = NoFile \/ A!Has(d.array, owner) THEN d
  ELSE [array |-> A!ArrayAppend(d.array, owner),
        users |-> [d.users EXCEPT ![owner] = @ + 1]]

\* The owner of a symbol is not there yet, and the array has to grow for it.
CannotAdd(d, owner) == owner # NoFile /\ ~A!Has(d.array, owner) /\ A!Full(d.array)

\* depmod_load_dependencies, one module: depmod_load_module_dependencies, which does not
\* look at what mod_add_dependency returns.  When the array cannot grow the dependency
\* is missing.
LoadDependencies ==
  /\ pc = "depend" /\ i <= A!Count(modules)
  /\ LET m == modules.elements[i]
         need == Needs[m.name]
         base == [array |-> deps[m], users |-> users]
     IN  \E owner \in [DOMAIN need -> Elements \cup {NoFile}], full \in SUBSET DOMAIN need :
           LET added == [k \in DOMAIN need |-> IF k \in full THEN NoFile ELSE owner[k]]
               d == FoldLeft(AddDependency, base, added)
           IN  /\ \A k \in DOMAIN need : owner[k] \in SymbolFind(need[k])
               /\ \A k \in full : CannotAdd(FoldLeft(AddDependency, base, SubSeq(added, 1, k - 1)), owner[k])
               /\ deps' = [deps EXCEPT ![m] = d.array] /\ users' = d.users
               /\ lost' = lost \cup {<<m, owner[k]>> : k \in full}
  /\ i' = i + 1
  /\ UNCHANGED <<found, unread, cfg, tables, modules, sort_idx, symbols, replaced, nomem, pc>>

\* depmod_shutdown, after the output or a failure: mod_free of the modules in the
\* array asserts that their kmod_module was released.
Shutdown(from, to) ==
  /\ pc = from
  /\ IF Elements \cap kmod # {} THEN pc' = "aborted" /\ UNCHANGED <<alloc, modules>>
     ELSE pc' = to /\ alloc' = alloc \ Elements /\ modules' = A!ArrayFree(modules)
  /\ symbols' = Empty
  /\ UNCHANGED <<found, unread, cfg, modules_by_name, modules_by_uncrelpath, kmod, sort_idx,
                 replaced, deps, users, lost, i, nomem>>

Output ==
  /\ pc = "depend" /\ i > A!Count(modules)
  /\ pc' = "output"
  /\ UNCHANGED <<found, unread, cfg, tables, modules, sort_idx, loaded, nomem>>

Next ==
  \/ LoadKernelSymbols \/ ListFile \/ Listed \/ ParseFile \/ Parsed
  \/ (\E m \in unread : SearchFile(m)) \/ AddArgument \/ Searched
  \/ BuildArray \/ Built \/ SortModules
  \/ LoadModule \/ ModulesLoaded \/ LoadDependencies \/ Output
  \/ Shutdown("output", "success") \/ Shutdown("failed", "failure")

Spec == Init /\ [][Next]_vars

----------------------------------------------------------------------------
(* Properties.                                                             *)

\* The files that count: for every name, the one in the first directory that has it
Effective(c) == {e \in Entries(c) : \A d2 \in 1..e[1]-1 : e[2] \notin DOMAIN c[d2]}
Names(c) == {e[2] : e \in Effective(c)}

\* The lines of these files up to the n-th name, in the order of their names
LinesUpTo(c, n) ==
  LET lines[k \in 0..n] ==
        IF k = 0 THEN <<>>
        ELSE lines[k-1] \o (IF k \notin Names(c) THEN <<>>
                            ELSE c[CHOOSE d \in DOMAIN c : <<d, k>> \in Effective(c)][k])
  IN  lines[n]
EffectiveLines == LinesUpTo(conf, Max({0} \cup Names(conf)))

\* However the directories are read, a file hides those of its name in later
\* directories, whole files come by name, and the first word of all is the last of
\* the list: what is searched is what the administrator has put first.
ConfigExact ==
  pc = "search" =>
    LET c == FoldLeft(Line, [searches |-> <<>>, overrides |-> <<>>], EffectiveLines)
    IN  /\ overrides = c.overrides
        /\ searches = IF c.searches = <<>> THEN <<Updates>> ELSE c.searches

Kept == pc \in {"sort", "load", "depend", "output"} /\ args = <<>>

\* How depmod.d ranks a module: by an override for it, or the place of its directory,
\* where every directory that is not named is built-in
Rank(m) ==
  LET ov == {k \in DOMAIN overrides : overrides[k] = Rel(m)}
  IN  IF ov # {} THEN Len(searches) + Len(overrides) + 1 - Min(ov)
      ELSE IF Own(m) # {} THEN Max(Own(m)) ELSE LastOf(BuiltIns)

\* In whatever order the directories are read, a depmod that goes on after the search
\* has kept of the modules of each name one of the highest rank.
HighestKept ==
  Kept =>
    \A m \in disk : m.name \in DOMAIN modules_by_name /\ Rank(modules_by_name[m.name]) >= Rank(m)

\* The modules in modules.order come before all others and in its order, compressed
\* or not: by this place the indexes order the modules of an alias.
OrderExact ==
  pc \in {"load", "depend", "output"} /\ order \notin {NoOrder, Corrupted} =>
    \A k, l \in 1..A!Count(modules) :
      LET a == modules.elements[k]  b == modules.elements[l]
          line(m) == {n \in DOMAIN order : order[n] = Rel(m)}
      IN  InTree(b) /\ line(b) # {} /\ (~InTree(a) \/ line(a) = {} \/ Max(line(b)) < Max(line(a))) => l < k

Exporters(s) == {m \in Elements : \E k \in DOMAIN Exports[m.name] : Exports[m.name][k] = s}

\* DepmodSort begins with this: a module depends on the modules that export what it
\* needs, once each, and on all of them if no symbol has two exporters and no array
\* had to grow in vain; a module has as many users as there are that depend on it.
DepsExact ==
  pc = "output" =>
    /\ \A m \in Elements :
         LET got == {deps[m].elements[k] : k \in 1..A!Count(deps[m])}
             all == UNION {Exporters(Needs[m.name][k]) : k \in DOMAIN Needs[m.name]}
         IN  /\ got \subseteq all /\ (replaced = {} => \A o \in all \ got : <<m, o>> \in lost)
             /\ Cardinality(got) = A!Count(deps[m])
    /\ \A m \in Elements : users[m] = Cardinality({n \in Elements : A!Has(deps[n], m)})

\* A module that was added and is to give way to one that was not
GaveWay ==
  \E old \in alloc, new \in disk \ (alloc \cup unread) :
    old.name = new.name /\ ~IsHigherPriority(old, new)

\* Every module that was found is in the array, has given back its kmod_module and is
\* freed when depmod succeeds.  The assertion of mod_free ends depmod at two places
\* only: in the search, at the first module that should take the place of one of its
\* name that was added before - memory or not, so that a depmod that goes on has
\* replaced nothing - and in depmod_shutdown when the array could not grow.
Released ==
  /\ (pc = "success" => kmod = {} /\ alloc = {})
  /\ (pc = "aborted" => nomem \/ (Elements = {} /\ GaveWay))
=============================================================================
