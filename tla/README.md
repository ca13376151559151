# kmod 11: a verification development

This directory holds TLA+ models of the program in `src/kmod-11/` — the
library libkmod and the tools `modprobe` and `depmod` built on it — with the TLC
configurations that model-check them and theorems about them that TLAPS proves.
`PROJECT.json` maps every definition to the lines it models.

The repository around it, `comment-subs`, is a set of scripts (`src/s.sh`,
`src/s1.sh`) that splice the files of `src/comments/` into the sources at
markers such as `// depmod_load.cmt`; `src/kmod-11-subs/` is their output.
`src/hello-module/` and `src/secure-hole/` are demonstration kernel modules. None
of these keeps state. The debugging `printf`s that this copy of kmod has are
left out of the models.

## 1. The system

| Part | Source (`src/kmod-11/`) | State it keeps | Operations |
|---|---|---|---|
| Context, modules, pool | `libkmod/libkmod.c`, `libkmod-module.c` | reference count of `struct kmod_ctx`; the pool `modules_by_name`; per module: reference count, path, dependency list, `init.dep` | new, ref, unref; new from name, path, alias, lookup; get_dependencies, get_path |
| Insertion | `libkmod/libkmod-module.c` | `visited`, `ignorecmd` of modules; the probe list | `kmod_module_probe_insert_module`, `kmod_module_get_probe_list`, `kmod_module_insert_module`, `kmod_module_get_initstate` |
| Removal | `tools/modprobe.c` | the recursion; nothing is marked | `rmmod_do_module`, `rmmod_do_deps_list`, `rmmod_do_remove_module` |
| The kernel (external) | `init_module`, `delete_module`, `/sys/module` | state and users of every module | |
| Hash table | `libkmod/libkmod-hash.c` | buckets: sorted arrays with a capacity; a count | add, add_unique, find, del, free, iterate |
| depmod: search, symbols, dependencies | `tools/depmod.c` | array of modules with name and path tables, symbol table, dependencies, counts of users, places | search, add, replace, symbols, dependencies, sort |
| depmod: output | `tools/depmod.c` | temporary files, `modules.dep`, `.bin` files | write, unlink, rename |
| Index trie | `libkmod/libkmod-index.c`, writer in `depmod.c` | nodes on disk | search, wildcard search, insert |
| Context resources | `libkmod/libkmod.c` | mapped indexes and their stamps | load, unload, validate |
| Configuration | `libkmod/libkmod-config.c`, in `depmod.c` too | lists of commands; sorted list of files | merge, parse |
| Lists and arrays | `libkmod/libkmod-list.c`, `-array.c` | circular lists, growing arrays | append, prepend, remove; append_unique, sort |
| Formats | `libkmod/libkmod-elf.c`, `-file.c`, `-util.c` | none of their own | decode |
| Small tools | `tools/insmod.c`, `rmmod.c`, `lsmod.c`, `modinfo.c`, `kmod.c` | none | call the library |
| Test runner | `testsuite/testsuite.c` | a child, its pipes and poll set | spawn, compare, wait (not modelled) |

How they interact. The library is called, it never calls back except for the
callbacks that `modprobe` passes for printing and for install commands; it has no threads,
and a call runs to its end. Concurrency is *between processes*: several
`modprobe`s act on one kernel table through system calls, with what they have
read from `/sys` in their hands; and `depmod` replaces files that they have open.
Inside a process the hard part is *sharing*: every lookup may return an object
that the pool, a dependency list and other callers share, held together by
reference counts, and errors leave loops half way.

The behaviours that are hard to test, with the line where each bites and the
properties that cover it, are the `hazards` of `PROJECT.json`. What must hold:

* objects: counts are exact in the middle of every call; nothing in use is freed; what
  nobody uses is freed; the context outlives its modules; cached values stay;
* insertion: a module comes after all it needs; soft dependencies are kept; processes
  do not make each other fail; flags do what they say;
* removal: it ends; success means the module is gone; unused dependencies go;
* hash table: it is a map, whatever was added and removed before; it owns its values;
* depmod: of duplicates the one of the highest rank is kept; the assertion of the sort holds; users come first;
  cycles are found exactly; a line of `modules.dep` has all that a module needs, in order;
* files: an installed index is complete, whenever a depmod died; who has an index mapped is not disturbed, and
  who validates comes to what is installed;
* indexes and configuration: what is found is what was put in, whatever the order of insertion or of readdir;
  no node of a list is lost or in two lists.

## 2. The modules

| Module | Models | Built on |
|---|---|---|
| `KmodModule` | context, modules and pool | |
| `KmodMap` | what the hash table promises: a map from keys to values | |
| `KmodHash` | `libkmod-hash.c`, refining `KmodMap` | |
| `ModuleGraph` | modules, hard and soft dependencies | |
| `Loops` | a loop over a list or an array of modules | |
| `ProbeList` | `kmod_module_get_probe_list` as an operator | `ModuleGraph`, `Loops` |
| `ProbeListProof` | theorems about it | `ProbeList` |
| `ProbeOrder` | the probe list of every small graph | `INSTANCE ProbeList` |
| `ProbeOrderProof` | theorems about it | `ProbeOrder`, `INSTANCE ProbeListProof` |
| `KernelTable` | the kernel as modprobe sees it (external) | `ModuleGraph` |
| `ModprobeInsert` | several processes that insert: `insmod_all`, `insmod`, `kmod_module_probe_insert_module` | `ProbeList`, `KernelTable` |
| `ModprobeInsertProof` | theorems about it | `ModprobeInsert`, `ProbeListProof` |
| `ModprobeRemove` | several processes that remove | `KernelTable` |
| `ModprobeRemoveProof` | theorems about it | `ModprobeRemove` |
| `DepmodSearch` | configuration, search, duplicates, `modules.order`, symbols, dependencies | `KmodArray` |
| `DepmodSearchProof` | theorems about it | `DepmodSearch` |
| `DepmodSort` | dependencies, counts of users, topological sort | |
| `DepmodDeps` | the lines of `modules.dep` | `DepmodSort`, `Loops` |
| `DepmodSortProof` | theorems about both | `DepmodDeps`, `INSTANCE ProbeListProof`, `INSTANCE ModuleGraph` |
| `DepmodOutput` | how files are replaced | |
| `KmodResources` | a program with loaded indexes, while `DepmodOutput` runs | `DepmodOutput` |
| `ModuleIndex` | the trie, its writer and its two readers | |
| `KmodList`, `KmodArray` | lists node by node, arrays with their capacity | |
| `LibkmodProof` | theorems about `KmodModule`, `KmodResources` and `KmodHash`, in sections of their own | these |
| `KmodConfig` | files, lines and command line into lists on a heap | `KmodList` |
| `ConfigMeaning` | what a configuration means, as a definition | `KmodConfig` |
| `KmodLookup` | lookups, options, commands, soft dependencies, blacklist | `ConfigMeaning` |
| `KmodLookupProof` | theorems about it, and about lists and arrays | `KmodLookup`, `KmodArray` |

A module `MCX` and the `.cfg` files of that name give the constants of `X` their
values. Definitions whose comment says "Mutant of X" are wrong versions of X. No
specification uses them: put in X's place they make the property named in
`PROJECT.json` fail, which shows that the property depends on X.

### KmodModule

An object is its pool key, since `kmod_module_new` never makes two objects of one
key; a key `name\alias` has the name as `ModOf`. `refcount`, `path`, `initdep` and
`dep` are the fields of `struct kmod_module`, `ctxref` that of the context. The
caller is modelled by what it holds (`held`, `userctx`), and passes only that.
Calls that loop are split into one step per iteration, with `call` for the locals of the
loop and `todo` for the `kmod_module_unref`s that are still to be made, so that
invariants hold *inside* `kmod_module_parse_depline`, a lookup and a cascade of
releases. Three places where the code loses references are in the model: a failing
`kmod_list_prepend` in the parsing loop, a failing `kmod_list_append` in a lookup (`libkmod.c:465`,
`:605`), and `kmod_list_remove_n_latest` in a failed lookup. What they lose is counted in `leaked`, so that
the properties are about all other references.

Checked: `RefcountExact` (every count is the number of owners), `NoDangling`,
`CtxOutlivesModules`, `NoGarbage` (between calls the pool is what a tracing collector would keep;
for a `modules.dep` without cycles), `CachedUntilFreed` (a parsed list and a known path
do not change under those who hold the module), `CallsReturn`.

### KmodHash

A bucket has its entries as a sequence and its allocated size. `BSearch` is the
search of the C library, by halves, so it finds nothing sensible in an array
that is not sorted. Values carry whether they are still allocated (`live`). `IsAMap` is
the refinement `INSTANCE KmodMap` under the mapping of buckets to pairs; `Slack`
is about the slot that `hash_del` moves although it is not in use.

### ProbeList, KernelTable, ModprobeInsert

`GetProbeList` and `FillSoftdep` follow the two mutually recursive C functions, with
`visited` and the list as the state that is threaded through. The recursion is the function `probe` of
that state and of a module; the operators have it as the parameter `get`. `ProbeOrder` has
every graph within its bounds as an initial state and probes its modules one after another.

A process of `ModprobeInsert` goes through its arguments (`insmod_all`), looks each one up
and goes through its modules (`insmod`), and through the probe list of each
(`kmod_module_probe_insert_module`). There it reads `initstate`, then perhaps stats the
directory, then decides, then calls `init_module`: each is a step of its own, since other
processes act in between. `init_module` itself has two ends, "coming" and "live".
What the configuration, the disk and the command lines are is a *situation*, chosen in
the initial state: the `KMOD_PROBE_*` flags, the blacklist, missing files, init functions
that fail, and install commands, which are one step with every exit status.

`InsertedAll` says that a process which exits with success has, of each argument, the last module
(the result of `insmod` is that of its last one) and *all that this module needs* in the kernel; so nothing that the
process has read of `/sys` has led it to skip something. `AllTried` is about what fails: the other modules of an alias, and other
arguments, are inserted all the same if nothing of their own probe lists may fail. `FirstTimeOnce`:
with FAIL_ON_LOADED success means that the process itself inserted the module.

### ModprobeRemove

A process is a stack of frames of the two C functions; a step is one look at
`/sys`, one system call, one call or one return. `rmmod_do_deps_list` is the
loop in `SoftDepsList`. `did` remembers what a process removed itself, which is
what `FirstTimeRemoves` and `UnusedDepsGone` compare with. `RemoversReturn` is about the processes whose
soft dependencies do not lead `rmmod_do_module` round for ever (`NoEndlessDeps`): a module is entered again and again only along
post-deps, which come before it is removed, and along the pre-deps of one that need not be gone by then (a dry
run, or a remove command). A cycle through any other pre-dep is followed once, as a module that is gone is not
entered; that this holds though other processes remove modules on the way is what the run shows.

### DepmodSearch, KmodArray

depmod up to the sort. Directories of `depmod.d` are read in every order of `readdir`,
sorted in and parsed; then directories of modules are walked, again in every order, with a
module known under its name (`modules_by_name`), its path (`modules_by_uncompressed_path`)
and in the array, and replaced or kept by `depmod_module_is_higher_priority`. `kmod`
are the library's objects that are still referenced, `alloc` the allocated `struct mod`s. A depmod that is to
replace a module aborts there ("aborted"), as the code does at the assertion of `mod_free`. `lost` remembers the
dependencies that `mod_add_dependency` could not put into the array: the error is not looked at
(`depmod.c:1577`), depmod goes on and the line in `modules.dep` lacks a module.
The properties say what the result must be without following the code: the rank of a
module by the lines that count, the order by the lines of `modules.order`, the
dependencies by who exports what.

### DepmodSort, DepmodDeps

`deps` and `users` are built edge by edge, as `mod_add_dependency` does; the
sort is then one step per loop iteration. `users` stands for `mod->users` and for the local
copy that the sort counts down: nothing reads the former after it was copied.
`DepmodDeps` goes on with the recursions that make the lines, as recursive functions: `filled` of the
array and of a module, `counts` of how many calls deep it may be. `LinesExact` says that
`modules.dep` and `modules.dep.bin` have what `ModuleGraph.DepsClosed` assumes of them, so that
what one program assumes is a result about the other. Where there is no memory for a line, the module has an empty one in
`modules.dep`, or none in `modules.dep.bin`, and depmod succeeds (`depmod.c:1823`, `:1873`, `:1891`); `short` remembers these
modules, and `LinesExact` says that nothing else suffers. A recursion that would not end
is the outcome "killed". The count is a number of any size: it grows by one a call, so that a `size_t` does not
overflow in any time a run may take.

### DepmodOutput, KmodResources

Every file is written under the temporary name, the old one is unlinked and the new one
renamed: a step each, and each write may fail and depmod die at any step. A file is an
inode with its contents, the run that wrote it and the time of its last write; a name can disappear while
the inode stays, since somebody has it open or mapped. `now` is the clock of the file system as far as stamps
tell it: it may go on at each write or not, so that a file and the one that replaces it may have one stamp. `KmodResources` is the reader: it loads
(and half way through an index may be missing), validates by comparing stamps with those that it keeps (`indexes_stamp`), unloads,
and looks up in mapped files or, if nothing is loaded, in the file by its name, where it
may meet a truncated file or none.

### ModuleIndex

`index_insert` splits nodes as the C code does, the written file has what is reachable from
the root, and both readers (`index_file_*` with stdio, `index_mm_*` in the mapped file)
follow their own code. `Fnmatch` stands for the library's. The
properties compare every answer with the entries that were inserted.

### KmodList, KmodConfig, ConfigMeaning, KmodLookup

A list is a head node in a heap of nodes with `next` and `prev`; each operation of
`libkmod-list.c` is its pointer assignments, so that what an insertion in the middle, a join or
a half-undone lookup leaves is what the code leaves. `KmodConfig` reads the directories in
every order, wraps and unescapes lines, parses the commands and the kernel's command line, and
any allocation may fail. A line is a sequence of pieces (words, blanks, backslashes, newlines).
`ConfigMeaning` says what must come out, on whole texts and without state. `KmodLookup`
then asks: modules of a name in the order in which the places are tried, and options,
commands, soft dependencies and blacklisting of a module with its cached fields.
Two of the six places look at what `kmod_list_append` returns (`Checked`); the others take NULL for the
list, so that a failed allocation loses the nodes so far, goes on, and may go to the next place (`AppendMod`). What is lost is
`dropped`; `NodesOwned` says that it is exactly these nodes, that they touch no other list, and that there are none
if no allocation failed, and `LookupExact` what such a lookup, which reports no error, can find.

## 3. The runs

Each run finishes within three minutes with two workers.

| Run | Module, configuration | Properties | States | What it shows |
|---|---|---|---|---|
| `refcounts` | `MCKmodModule`, `MCKmodModule.cfg` | `RefcountExact` `NoDangling` `CtxOutlivesModules` `NoGarbage` `CachedUntilFreed` `CallsReturn` | 450,825 | Every sequence of calls of a program on a diamond of dependencies with an alias object, with an allocation of a list node that may fail: counts are exact at every step of every call, nothing dangles or stays behind, cached results stay put and every call returns. |
| `hash` | `MCKmodHash`, `MCKmodHash.cfg` | `Slack` `ValuesOwned` `IterComplete` `IsAMap` | 54,508 | A table that frees its values, under every order of additions, replacements, removals, lookups and iterations with failing allocations: it implements the abstract map KmodMap. |
| `probe_order` | `ProbeOrder`, `MCProbeOrder.cfg` | `DepsFirst` `Complete` `PreFirst` | 173,376 | The probe lists of every dependency graph of four modules with up to two soft dependencies, cycles included: complete, and in an order in which each module finds what it needs. |
| `insert` | `MCModprobeInsert`, `MCModprobeInsert.cfg` | `InsertedAll` `AllTried` `FirstTimeOnce` `AllSucceed` | 314,804 | Three modprobe processes in seven situations - common dependencies, several arguments and aliases of two modules, --first-time, failing init functions, missing files, install commands that end in every way: each tries all it was given whatever fails, success means that the modules are in the kernel, and where nothing fails by itself every process succeeds. |
| `remove` | `MCModprobeRemove`, `MCModprobeRemove.cfg` | `UnusedDepsGone` `FirstTimeRemoves` `RemoversReturn` | 459,540 | Two processes remove the same module with --first-time, one along soft dependencies that lead back to it, beside a dry run and with a remove command: the recursion ends, success means that the process itself removed the module, and no dependency that became unused stays, whichever process took its last user away. |
| `sort` | `DepmodDeps`, `MCDepmodSort.cfg` | `AssertHolds` `UsersFirst` `LoopsExact` `LinesExact` `Terminates` | 1,476,871 | Every way to give each of four modules up to two dependencies, with cycles, the sort of each, and the lines written: the assertion holds, the order is that of modules.dep, exactly what a cycle reaches is marked, and a line has what the module needs, though there may be no memory for the line of another. |
| `dep_loops` (violation) | `DepmodDeps`, `MCDepmodLoops.cfg` | `LoopedAreIgnored` | to the first violation | A module that is in no cycle but needs one of a cycle makes depmod recurse until its stack is full, where it is said to ignore the looped module. |
| `index` | `MCModuleIndex`, `MCModuleIndex.cfg` | `SearchExact` `WildExact` `DumpExact` | 151,790 | Every index of up to three entries over keys whose common parts end everywhere, patterns among them, written and read back by both readers: lookups, wildcard lookups and dumps give what was inserted. |
| `resources` | `KmodResources`, `MCKmodResources.cfg` | `InstalledComplete` `SuccessInstalls` `LoadedFind` `Converges` | 1,918,182 | Two runs of depmod that may fail or die anywhere while modules are installed, and a program that keeps its indexes loaded, validates by the times of the files, reloads and looks up in every step between; files may have one time or not. |
| `search` | `MCDepmodSearch`, `MCDepmodSearch.cfg` | `ConfigExact` `HighestKept` `OrderExact` `DepsExact` `Released` | 1,048,396 | Every set of up to five of seven module files with duplicates, configurations in two directories, modules named on the command line, contents of modules.order and a symbol with two exporters, in every order of readdir, and with arrays that may not be able to grow: what is kept, its order, its dependencies, what is released, and when the assertion of mod_free ends depmod. |
| `config` | `MCKmodLookup`, `MCKmodLookup.cfg` | `NodesOwned` `ConfigRead` `LookupExact` | 103,199 | Three configurations in directories and single files, with files of the same name, wrapped and escaped lines, a damaged directory and missing indexes, read in every order of readdir and asked three questions. One allocation may fail: of a list node, an item, a module, a path or the configuration. |
| `blacklist_dash` (violation) | `MCKmodLookup`, `MCKmodBlacklist.cfg` | `BlacklistHonoured` | to the first violation | modprobe.blacklist= on the kernel's command line with a dash in the name of the module. |

Deadlock is checked in the hash and probe-order runs. It is not in the others because they may
stop: a program that has dropped its references of the context can make
no more calls, a modprobe process exits, a file is written, a sort is finished.

Bounds. `KmodModule` has three names and an alias key, with a line in `modules.dep`
that shares a dependency; the program holds up to two references of the context and of the two modules that have
dependencies, which is enough to have an object at the same time in the caller's hands twice, in the pool and in a list,
and one of the others; one allocation that loses references may fail. In `KmodHash` four keys that share one of two
buckets make it grow to two steps of 4 and shrink again. Four modules in a diamond (`d` uses `b` and `c`, which use `a`) are the
least graph with a shared indirect dependency; two processes with the same target and one that overlaps
are the least in which every race of the hazards happens. In `remove` a fifth module closes a cycle: `d` has `e` as post-dep and `e` has `d` as
pre-dep; one process follows soft dependencies, of the other two one ignores commands and one is a dry run. The situations of `insert` are seven, listed in
`MCModprobeInsert`; in them the modules of one alias are never among what another of its modules needs.
`ProbeOrder` builds all graphs of four modules with up to two soft dependencies, cyclic ones included. `DepmodSort`
enumerates *every* array of up to two dependencies of each of four modules: cycles of each length, self
dependencies, a cycle that uses, or is used by, others. One line may find no memory. `search` has every set of up to five of seven module files
in four directories (any two names with all their files), in every order of `readdir`, under four configurations; arrays grow by
one element instead of 128 or 64, so that they grow within it. `index` inserts up to three entries of keys that share prefixes
of every length and have `*`, `?` and brackets; characters are below 7. `resources` has `modules.dep` and two
indexes, two runs of depmod (one can leave what the other meets), modules installed at any moment, and
eight inodes, which is more than exist at once; stamps have two values, so that two files of one name have
the same or different ones. `config` has three configurations that between them have every command,
files that hide each other, wrapped and escaped lines, and one failing allocation: of a list node, an item, a
module, a path or the configuration. One name of the run has two matches in an index, of which the second can find no memory.
They avoid what is listed below as undefined: a softdep line with leading blanks,
an unmatched "[", a backslash that ends the file; and `getline_wrapped` has its memory.

Fairness. `KmodModule.FairSpec`: weak fairness of the library's own steps only, as a
thread that is in a call goes on; nothing is assumed of the caller. `ModprobeInsert`
and `ModprobeRemove`: weak fairness of each process, as the kernel schedules
processes and init functions return. `DepmodSort` and `DepmodDeps`: weak fairness of the one
thread. `KmodResources`: weak fairness of the program that validates and reloads;
nothing is assumed of depmod, which may stop for ever or die.

### What does not hold

Two runs have the verdict "violation": each checks one property that the
documentation or a comment states, and TLC's trace shows the code doing
otherwise. The quotation is in `findings`. In short:

* `LoopedAreIgnored` (`dep_loops`, src/kmod-11/tools/depmod.c:1735): mod_count_all_dependencies calls itself for every dependency without looking at dep_loop, so that for a module outside every cycle that needs a module of a cycle it never returns and the stack overflows. output_deps says of such a dependency "Ignored %s (dependency of %s) due dependency loops" (src/kmod-11/tools/depmod.c:1828) and goes on to the next.
* `BlacklistHonoured` (`blacklist_dash`, src/kmod-11/libkmod/libkmod-config.c:532): kcmdline_parse_result adds the names after modprobe.blacklist= to the blacklist as they are, while module names have underscores, so that modprobe.blacklist=b-1 does not blacklist the module b_1 (options on the command line and blacklist lines of files are converted, config.c:537 and :638). man/modprobe.xml:76-79 says "there is no difference between _ and - in module names (automatic underscore conversion is performed)", and :88-90 offers "blacklists in the form of modprobe.blacklist=<module>".

Other places met while modelling, which no run is kept for:

*modprobe and insertion*

* A target that its own soft dependencies bring into the probe list a second time fails with EEXIST under
  `--first-time` in the process that has just inserted it (`libkmod-module.c:1263`; `man/modprobe.xml:215-222`).
* `kmod_module_get_initstate` takes a module that is inserted between its two looks at
  `/sys/module` for one that is built in. `InsertedAll` shows that insertion bears it.
* An install command whose exit status is that of EEXIST, or that a signal killed, counts as no failure.
* Install commands: the documentation says they are "concatenated by ';'"
  (`libkmod-module.c:1355-1358`), only the first is returned, which is what `LookupExact` says; and which one is cached depends on
  which question is asked first (`:1379`, `:1397`).
* `kmod_module_new_from_lookup` is documented to return 0 on success; it can return the number of matches. It is documented to
  fail "if any of the lookup methods failed, which is basically due to memory allocation fail" (`:488-490`); when
  `kmod_list_append` has no memory at `libkmod.c:465`, `:605` or `:637` it succeeds with a part of the modules, those of a later place, or none, and
  the nodes before and their references are lost.

*modprobe -r*

* The recursion does not end when two modules are post-deps of each other:
  nothing marks where it has been, as `mod->visited` does for insertion; nor does a dry run when they are each other's
  pre-deps, since nothing is removed. `RemoversReturn` says that it ends when neither is so. When two modules name each other as pre- and post-dep, removing one ends in ENOENT (`modprobe.c:306`).
* `--remove-dependencies` removes what the target *needs* (`modprobe.c:385`), where the help
  says "Also remove modules depending on it" (`:108`).
* Of two `modprobe -r` of one module the one that comes late fails with ENOENT without
  having been asked for `--first-time`.

*depmod and the indexes*

* A module that is in no cycle but used by one is reported with "in dependency cycle!"
  and left out of `modules.dep` (`LoopsExact`: what is marked is what cycles *reach*).
* The symbol table keeps the key of a replaced value, which was freed with it (`depmod.c:1484`, `libkmod-hash.c:146-147`).
* A duplicate of higher priority that readdir gives after one of lower priority makes depmod abort: `mod_free` asserts that
  the library's object was released, which it never is during the search (`depmod.c:1250`, `:1148`, `:982`), however much memory there is. `Released` says that this is the only
  place where the assertion ends depmod, but for one whose array could not grow; the other properties of the search, `HighestKept` among
  them, are about depmods that go on. Where one search directory is within another, the rank of the old module is not looked at in entries that
  the new one matches, so that the wrong duplicate may be kept.
* A dependency for which the array cannot grow is missing from `modules.dep`, a line for which there is no memory is empty
  there or missing from `modules.dep.bin`, and depmod succeeds (`depmod.c:1577`, `:1823`, `:1891`).
* A search word matches by its characters: `extra` also matches a directory `extra2`.
* Two depmods at one time share the names of their temporary files; `-A` looks at nothing but
  the time of `modules.dep`; an index that cannot be opened for writing leaves the exit status 0.
* `kmod_validate_resources` tells files apart by the time of their last write, in microseconds or, without `st_mtim`, in seconds: one that
  replaces another of the same time is not noticed. A program whose `kmod_load_resources` met a missing file has no index whose
  stamp could be compared (`libkmod.c:782`), is told that all is well and never loads again. `Converges` says that there is nothing else.
* `libkmod-index.c:350` says that without an index "modprobe will fall back to text files"; it does not, so that
  between unlink and rename a lookup answers that there is nothing.
* `read_error` ends in `fatal`, a macro that does nothing (`macro.h:75`): what the stdio reader makes of a truncated
  index is undefined, and `Outcomes` leaves it open.

*configuration*

* `kmod_config_add_softdep` counts and copies in two passes with one flag (`libkmod-config.c:386`): a leading blank loses
  the pre-deps, a leading and a trailing one write past the buffer. `softdep_to_char` has no blank between the last pre-dep and
  "post:" (`:488`).
* `underscores` runs past the end of a name with an unmatched "[" (`:130`).
* Parameters of the kernel's command line without a value are ignored; an error of `readdir_r` is positive and is taken for success.
* `kmod_list_remove_data`, which nothing calls, rotates the list when the head is removed.

*elsewhere*

* The documentation says that modules are released with the context
  (`libkmod-module.c:275`); as each module holds a reference of the context
  (`CtxOutlivesModules`), it is the other way round.
* The test runner passes a test whose output is a prefix of what is expected, and waits without a limit for a child whose output is not
  what is expected.

## 4. What is proved

Every theorem holds for all values of the constants; TLC's runs are small
instances. The assumptions are the named `ASSUME`s of the models, and of one theorem
the condition that is stated with it.

`LibkmodProof`, on `KmodModule` (any finite set of keys, any `modules.dep`, cyclic ones and missing
files included, any number of references): `TypeCorrect`, `RefcountsAreExact`,
`NoReferenceDangles`, `ContextOutlivesModules`, `CachedStays`, `NothingIsLeft`. `RefcountExact` is not inductive
alone: a step must know that an object outside the pool has no count, that a dependency list of
an unparsed module is empty (`PoolInv`), and what the running call has taken:
that the list under construction and the entries still to visit are disjoint, and
that the module whose line is parsed is still allocated (`CallInv`). `IInv` adds these. The
proof has a lemma for each kind of step (`GiveStep`, `ListStep`, `UnrefStep`, ...);
the counting is done with the library's facts on cardinalities of finite sets.
`CachedStays` goes through the same steps and shows that each leaves what is cached.
`NothingIsLeft` needs `LineInv` (what is in a list was in the line) and `Acyclic`, a condition
on `modules.dep` in the form "of any modules, one is in no line of the others": of allocated
objects that nobody reaches, exact counts would make each one an entry of another one's list.

`ProbeListProof` (any finite graph, any soft dependencies, loops among them included): `ListsAreSound`. `probe` is
a function that is defined by an equation with itself on both sides, so the first thing to show is that the equation has a
solution; there is no induction on the depth of the calls, but each call visits one module more.
For a number `n` the states with fewer than `n` modules left to visit have such a solution: one of `n` gives one of `n+1`,
which with `UpTo` (induction from the least number that fails) and a finite `Mod` gives one for all states.
What a call does is then said by `Kept`, with parameters that each use gives values: all listed modules
come after what they need, the list stays within any set that is closed under dependencies (`Within`), whatever was visited is in the
list or is being visited, what is listed has its soft dependencies visited, and, if
a relation orders all dependencies (`Order`), they come after their pre-deps. `FullList` and `BareList` say this of the
lists of `kmod_module_get_probe_list`, without and with `ignorecmd`.

`ProbeOrderProof` (graphs of any size): `DepsComeFirst`, `ListsAreComplete`, `PreDepsComeFirst`.
It takes the lemmas of `ProbeListProof` for the graph of `ProbeOrder` (`PL`), whose assumptions it proves
(`GraphIs`): the lines that `Ordered` makes are what `ModuleGraph.DepsClosed` asks of `modules.dep`. The recursive `Closure` is shown
to be what is reached through dependencies (`Reach`), by induction along the numbers of modules. The invariant `IInv` says `ListGood` of
the list that was built last. For `ListsAreComplete` the parameter of `Kept` is the least closed set with the module: the list stays in it, and is closed itself.
For `PreDepsComeFirst` the order is "is reached through dependencies of all kinds", which is one when there is no loop.

`ModprobeInsertProof` (any finite graph, any situations, any number of processes): `InsertInvariant`, `StatusIsTrue`,
`OthersAreTried`, `OneIsFirst`. None of the three properties is inductive: they speak of processes that are done. `IInv` says what a process knows
*on the way*. `TableSound`: a module in the table has in it what it uses, live or built in, which is why one module
of which a process knows that it is there brings along all that it needs. `ListPassed`: of the modules of the list that the loop has passed each
is there, or may be kept out or fail by itself. `ModulesTried` and `ArgumentsDone`: the same for the
modules of an argument and for the arguments. What others do keeps all of it, as
a module that is there leaves the table only when its own init function fails (`Stable`); two processes are
never both in the init function of one module. Each end of a module (`Finish`), of a target (`Returned`) and of an argument (`Insmod`) has
a lemma that says what it hands on, and each action then one or two of them. That a module without obstacles is inserted
before anything that needs it, so that `init_module` cannot refuse it, is `ProbeListProof`'s.
Assumed of the machine: what a module uses that was loaded at first was there too, and
what is built in uses only what is built in (`LoadedType`). Nobody removes modules in this model.

`ModprobeRemoveProof` (any graph, soft dependencies in cycles included, any number of processes, any depth):
`FirstTimeRemovers`, `UnusedAreGone`. The invariant `Honest` looks at the first two frames of a stack and the last
result: the error of `rmmod_do_remove_module` is kept in its frame while that frame calls itself for
unused dependencies, and in the frame of the target while soft dependencies are removed, whose own results
must not get in its way. Frames above the second cannot matter, which is what the lemmas
`HonestContinue`, `HonestCall` and `HonestReturn` say once for all actions.
`UnusedAreGone` needs a second invariant, `Cleaning`: a dependency of a removed module that is loaded and has no user is either
being deleted by some process, or is *owed*, that is, some frame of a process that is no dry run is about to delete it or has it among
the dependencies it has still to look at. Only the end of `delete_module` takes a last user away, and the frame in which it
ends owes all dependencies of its module; a frame that is done with one leaves it in use, gone, or to the process that
deletes it. The theorem has a condition, `CommandsUseNothing`: a remove command removes its module
without looking at what that used (`modprobe.c:248`), so that a dependency it leaves without users can stay. The run does not
satisfy the condition; in it modprobe itself always removes the last user of the dependency that the command's module has.

`DepmodSortProof` (any number of modules below 65535, any dependencies):
`TypeCorrect`, `AssertionHolds`, `UsersAreFirst`, `LoopsAreExact`. The idea of the invariant
is `Exact`: `users[m]` is the number of modules that use `m` and whose edge to
`m` is still to be taken away. So a count is positive when an edge is taken (the
assertion), a module that reaches 0 has only sorted users (the order), and a module
left over when the stack is empty has a user that is left over too. `Stack` says that the stack
holds each unsorted module without users exactly once, and `CyclesStay` that no
member of a set of modules that use each other is ever sorted; with them the marked modules
are the largest such set.
`LinesAreExact` is about what is written of that. `mod_fill_all_unique_dependencies` is a recursive function of the
array; `FilledIs` shows that exactly one function is what its body defines, as a call inside another has a module
more in its array (`Fullest` takes the place of an induction). `FilledRight` says what a call leaves: every module in the array has its dependencies
there too, but for those that calls further out are at; so the last one to return leaves the least closed set
(`AllUniqueIs`, with `Needed` defined as that set). `Holds` says of a file that it has the lines of the sort but for modules that are `short` of one. `FilledFits` says that the array does not overflow, for modules for which counting returns. The order follows
from `UsersAreFirst`: what is needed has a later place (`NeededLater`), so that a line that ascends has it later,
and libkmod, which puts each in front, reads it earlier.
`ModprobeMayAssume` puts this together as `DepsClosed`, an assumption of `ModuleGraph` under which all is proved of
modprobe: if no module is in a loop and no line was lost for want of memory, the `modules.dep.bin` that depmod wrote satisfies it.

`LibkmodProof`, on `KmodResources` (any number of files, runs, installations and crashes): `InstalledAreComplete` and
`SuccessHasInstalled` from an invariant that says which inodes have names: no two names share an inode, the
temporary name is of the file at hand, and the files before it are installed from the modules this run has read.
`MappedAreFound` (`LoadedFind`) adds `MapInv`: an inode that is mapped is not handed out again, and was
complete when it was mapped and is not written any more, as depmod never opens an installed file.

`LibkmodProof`, on `KmodHash` (any number of buckets, any keys, hash function and orders of keys, any allocation that fails):
`HashAlways`, `ValuesAlwaysOwned`, `IterAlwaysComplete`, `SlackAlways`, `ImplementsMap`. All rest on `BSearchFinds`: in a sorted
array without gaps bisection finds the entry that is there, and nothing when none is. That is proved without induction over
the recursive function: what the search should answer can be said without recursion, so *some* function satisfies the
defining equation, and of two intervals on which the two differ the shorter one has a still shorter one within it.
The invariant `HashInv` says that buckets are sorted and hold keys of their own hash, that no value is
in the table twice, and what an iteration has passed and has still to pass. `InsertPlace`,
`RemovePlace` and `ReplacePlace` say what each operation makes of one sorted array; the refinement of `KmodMap` adds
that pairs of a table with distinct keys are a function. `SlackAlways` has a condition, that the number of buckets is
not from 32 to 63: `hash_new` then sets the step to 1, where an array that is shrunk has no slot left
over, and `hash_del` would read one behind its end. No table of the library has such a size (they have 256, 512 and 2048).

`DepmodSearchProof` (any files, configurations, symbols and contents of `modules.order`, arrays of any step):
all five properties of the run, from four invariants that build on each other.
`IInv` (`AllReleased`) says what the tables, the array and the references have in common in each phase: until the array is built
every module of the table is allocated and referenced, then those after the loop counter are; an
abort leaves the array empty, and was either for want of memory or because a module of the table had to give way to one just found. `OrderAlways` needs it: of the modules of the table
each has a path of its own, so that a line of `modules.order` finds the right one.
`DInv` (`DepsAlways`) says whom the table of symbols has in it after the first modules, and that users are
counted for the modules up to the loop counter. `KInv` (`HighestAlways`) says
that of every file read so far one of the highest rank is in the table. `GInv` (`ConfigAlways`) says that
the list of files is sorted and has those that count of the ones read; and, while it is
parsed, that what was made is what the lines up to some name make, and that all files of higher names are left.
The loops over symbols, dependencies and lines are folds; `FoldExists` and `FoldSteps` show once that a fold
has the values of a loop, which is proved, without induction over data, by the least number where it fails (`UpTo`).
What configurations, modules and symbols may be is assumed of the constants (`ConfigTypes`, `FoundTypes`,
`SymbolTypes`): sequences of texts, and nothing else.
`HighestAlways` has a condition, `NoneWithin`: no directory that a search line names is the beginning of another.
Without it the property is false: `depmod_module_is_higher_priority` looks for the old module only at those directories
that the new one is not in (`depmod.c:1186-1194`), and an old one that is in none other is ranked as
built-in. After `search built-in extra/a extra` a module in `extra` that was read first stays, though one
in `extra/a` should be used. TLC finds this in the model when the words of the run are changed to such ones;
the words of the run satisfy the condition.

`KmodLookupProof` (any paths, files, command lines and indexes, any names, questions and failing allocations): `ListsNeverLeak`
(`NodesOwned`). That all nodes are linked both ways is a fact about the operations, `ListsStayWhole`, but it does not say
that two lists have no node in common, nor that a node can still be reached. So `Owned` gives each
node an owner, one of the twelve heads or nobody: what follows a node has the same owner, and a set of nodes that is closed under `next` has
all nodes of the owners it meets (`Rings`), which says that an owner has one ring without the word "reachable".
`InsertOwned`, `InitOwned`, `RemoveOwned` and `JoinOwned` show what each operation makes of the owners; a join gives the
nodes of one to the other. `NodesOf` shows that `Nodes`, a walk from the head, meets exactly those of its owner, and
`RemoveAllWhole` that freeing one list takes exactly these away. The loops over items and modules are folds, whose states
stay whole (`ItemsFold`, `LookFold`, `RemoveFold`). A failed append makes the nodes of one owner nobody's (`DropOwned`), which are then `dropped`. The inductive invariant `ListsInv` adds where the program is
(`Stages`: a list is only overwritten when it is empty, such as that of a lookup when the next one begins) and what the data are (`Shapes`).
Assumed of the constants is that command lines are texts and indexes sequences of keys with values (`WorldsAssumption`).

`KmodLookupProof`, on `KmodArray`: `ArraysStaySound`, that elements stay within the allocated memory for every step of
growth and whether or not memory can be given back.

Only model-checked. Liveness (`CallsReturn`, `AllSucceed`, `RemoversReturn`,
`Terminates`, `Converges`): the prover has no rules for fairness here. `SearchExact`, `WildExact`, `DumpExact`: the
recursion of `ModuleIndex` is in recursive operators. `ConfigRead` and `LookupExact`: that parsing a text piece by piece
gives what `ConfigMeaning` says of the whole text is an induction over texts.

## 5. What is not modelled

* module objects, pool and context (partly): Reference counts of the context and of modules, the pool, cached dependencies and paths, creation by name, path, alias and lookup, release. Left out: the references of probe lists, and the file contents of modules.
* modprobe: options, lookup, show (partly): Failed lookups, --resolve-alias and --all are in ModprobeInsert. Left out: parsing of the command line, printing (show_config, show_modversions), the environment variable, and the log.
* configuration (partly): Which files are read and in what order, wrapped and escaped lines, every command, the kernel's command line, soft dependencies, the six lists on the heap and their release. Left out: the iterators of the public interface and the configuration's stamps.
* ELF reader, decompression, util (partly): getline_wrapped and underscores are in KmodConfig. The rest decodes file formats and keeps no state of its own: an ELF file is bytes at offsets, and what there is to get wrong are bounds of the input, which TLC has no small instance of.
* loaded modules (holders, sections, refcnt) (not modelled): Reads of /proc/modules and /sys into lists; what modprobe reads of them is in KernelTable.
* small tools (not modelled): Thin callers of the library that make one call after another and print.
* test suite (not modelled): The runner that forks tests and compares their output is not part of what is installed. The preloaded wrappers replace system calls.
* comment substitution (comment-subs itself) (not modelled): Shell scripts that splice comment files into the sources; no state.
* generated copy and demonstration modules (not modelled): kmod-11-subs is kmod-11 with the comments in place, so that what is said of the one holds of the other; hello-module and secure-hole are examples.

## 6. What could follow

1. The references of probe lists in `KmodModule`: the error path of
   `kmod_module_probe_insert_module` gives none back (`libkmod-module.c:1204`).
2. Insertion and removal by different processes on one `KernelTable`.
3. The addresses of keys in `KmodHash`, for the table that depmod keeps its symbols in.
4. Lists of loaded modules, holders and sections, which are read while the kernel changes them.
