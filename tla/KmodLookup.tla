----------------------------- MODULE KmodLookup -----------------------------
(***************************************************************************)
(* What the configuration and the indexes answer: the modules of a name,   *)
(* and of a module its options, commands, soft dependencies and whether it *)
(* is blacklisted.                                                         *)
(***************************************************************************)
EXTENDS ConfigMeaning

CONSTANTS
  Names,      \* that are looked up
  MaxAsked    \* questions to one context

VARIABLES
  job,        \* the lookup that is under way: its name, place and what it is for
  lst, err,   \* its list, on the heap, and error
  todo,       \* names of soft dependencies still to be looked up
  found,      \* the list of the last lookup
  pre, post,  \* the lists of the last kmod_module_get_softdeps
  commands,   \* cached in modules: per kind and module, Null for none
  asked,      \* history: the last question, its module or name, and the answer
  dropped,    \* history: the nodes of lists that lookups have lost
  count       \* history: the number of questions

lookup == <<job, lst, err, todo>>
answers == <<found, pre, post, commands, asked, dropped, count>>
vars == <<configVars, lookup, answers>>

NoJob == [into |-> "nothing", name |-> Null, place |-> 0]
NoTodo == [pre |-> <<>>, post |-> <<>>]
NoQuestion == [about |-> "nothing"]
Uncached == [k \in {} |-> Null]

Init ==
  /\ InitConfig
  /\ job = NoJob /\ lst = NULL /\ err = "none" /\ todo = NoTodo
  /\ found = NULL /\ pre = NULL /\ post = NULL
  /\ commands = Uncached /\ asked = NoQuestion /\ dropped = {} /\ count = 0

----------------------------------------------------------------------------
(* Kernel and C library                                                    *)

Digits == <<"0", "1", "2", "3">>

\* fnmatch with * and with lists and ranges of characters
Fnmatch(pat, s) ==
  LET Close(p) == Min({q \in p..Len(pat) : pat[q] = "]"})
      Between(a, c, b) == \E x, y, z \in DOMAIN Digits :
                            x <= y /\ y <= z /\ Digits[x] = a /\ Digits[y] = c /\ Digits[z] = b
      InRange(p, c) ==
        \E q \in p + 1..Close(p) - 1 :
          pat[q] = c \/ (q < Close(p) - 2 /\ pat[q+1] = "-" /\ Between(pat[q], c, pat[q+2]))
      match[p \in 1..Len(pat) + 1, k \in 1..Len(s) + 1] ==
        CASE p > Len(pat) -> k > Len(s)
          [] p <= Len(pat) /\ pat[p] = "*" -> match[p+1, k] \/ (k <= Len(s) /\ match[p, k+1])
          [] p <= Len(pat) /\ pat[p] = "[" -> k <= Len(s) /\ InRange(p, s[k]) /\ match[Close(p)+1, k+1]
          [] OTHER -> k <= Len(s) /\ pat[p] = s[k] /\ match[p+1, k+1]
  IN  match[1, 1]

----------------------------------------------------------------------------
(* kmod_module_new_from_lookup                                             *)

\* alias_normalize; the name, or Invalid for a bracket without its partner
Invalid == <<"invalid">>
alias_normalize(s) ==
  LET Step(st, c) ==
        CASE st.range -> [st EXCEPT !.out = Append(@, c), !.range = c # "]"]
          [] ~st.range /\ c = "]" -> [st EXCEPT !.bad = TRUE]
          [] OTHER -> [st EXCEPT !.out = Append(@, IF c = "-" THEN "_" ELSE c), !.range = c = "["]
      end == FoldLeft(Step, [out |-> <<>>, range |-> FALSE, bad |-> FALSE], s)
  IN  IF end.bad \/ end.range THEN Invalid ELSE end.out

\* A module is its name and alias, its key in the pool.
Mod(name, alias) == [name |-> name, alias |-> alias]

\* The elements of a sequence that match, in its order: those at the places K
Chosen(s, K) ==
  LET nth(j) == CHOOSE k \in K : Cardinality({x \in K : x <= k}) = j
  IN  [j \in 1..Cardinality(K) |-> s[nth(j)]]

Entries(l, P(_)) == LET is == Items(h, config[l]) IN Chosen(is, {k \in DOMAIN is : P(is[k])})

\* The values of the keys of an index file that match, or one module of that name
Wild(idx, name) ==
  LET keys == Chosen(idx, {k \in DOMAIN idx : Fnmatch(idx[k].key, name)})
  IN  [k \in DOMAIN keys |-> Mod(keys[k].value, name)]

FirstOf(s) == IF s = <<>> THEN s ELSE <<s[1]>>

\* kmod_lookup_alias_from_commands: the first install command of the name, else the
\* first remove command
CommandsOf(name) ==
  LET Of(kind, l) == FirstOf([k \in DOMAIN Entries(l, LAMBDA d : d.name = name) |->
                                [kind |-> kind, command |-> Entries(l, LAMBDA d : d.name = name)[k].value]])
      install == Of("install", "install_commands")
  IN  IF install # <<>> THEN install ELSE Of("remove", "remove_commands")

AliasesOf(name) ==
  LET aliases == Entries("aliases", LAMBDA d : Fnmatch(d.name, name))
  IN  [k \in DOMAIN aliases |-> Mod(aliases[k].value, aliases[k].name)]

Missing(idx) == idx \in world.missing

\* Mutant of Source: aliases of modules before the commands.
SourceAliasFirst(place, name) ==
  CASE place = 1 -> AliasesOf(name)
    [] place = 2 -> IF name \in world.dep /\ ~Missing("dep") THEN <<Mod(name, Null)>> ELSE <<>>
    [] place = 3 -> IF name[1] = "symbol:" THEN Wild(world.symbols, name) ELSE <<>>
    [] place = 4 -> Wild(world.alias, name)
    [] place = 5 -> [k \in DOMAIN CommandsOf(name) |-> Mod(name, Null)]
    [] place = 6 -> IF name \in world.builtin /\ ~Missing("builtin") THEN <<Mod(name, Null)>> ELSE <<>>

\* The modules that a place of kmod_module_new_from_lookup has for a name; modules.dep
\* is not asked for one with a colon, and modules.symbols only for symbols.
Source(place, name) ==
  CASE place = 1 -> AliasesOf(name)
    [] place = 2 -> IF name \in world.dep /\ ~Missing("dep") THEN <<Mod(name, Null)>> ELSE <<>>
    [] place = 3 -> IF name[1] = "symbol:" THEN Wild(world.symbols, name) ELSE <<>>
    [] place = 4 -> [k \in DOMAIN CommandsOf(name) |-> Mod(name, Null)]
    [] place = 5 -> Wild(world.alias, name)
    [] place = 6 -> IF name \in world.builtin /\ ~Missing("builtin") THEN <<Mod(name, Null)>> ELSE <<>>

\* Without these index files a place gives ENOSYS.
NeedsIndex(place, name) ==
  \/ place = 3 /\ name[1] = "symbol:" /\ Missing("symbols")
  \/ place = 5 /\ Missing("alias")

\* A place takes what kmod_list_append returns for the list: where there is no memory,
\* that is no list, and the nodes so far are lost.
AppendMod(s, m, fails) ==
  IF fails THEN [heap |-> s.heap, list |-> NULL, dropped |-> s.dropped \cup NodeSet(s.heap, s.list)]
  ELSE LET app == kmod_list_append(s.heap, s.list, m)
       IN  [heap |-> app.heap, list |-> app.list, dropped |-> s.dropped]

\* The loop of a place; at the modules F there is no memory.
AppendMods(mods, F) ==
  FoldLeft(LAMBDA s, k : AppendMod(s, mods[k], k \in F), [heap |-> h, list |-> NULL, dropped |-> dropped],
           [k \in 1..Len(mods) |-> k])

\* kmod_list_remove_n_latest
RemoveLatest(st, n) ==
  FoldLeft(LAMBDA s, k : kmod_list_remove(s.heap, kmod_list_last(s.heap, s.list)), st, [k \in 1..n |-> k])

Begin(into, given_alias) ==
  LET name == alias_normalize(given_alias) IN
  /\ job' = [into |-> into, name |-> name, place |-> IF name = Invalid THEN 7 ELSE 1]
  /\ err' = IF name = Invalid THEN "EINVAL" ELSE "none"

Idle == pc = "ready" /\ job = NoJob /\ todo = NoTodo

\* kmod_module_new_from_lookup
LookupName ==
  /\ Idle /\ count < MaxAsked /\ found = NULL /\ pre = NULL /\ post = NULL
  /\ \E name \in Names :
       Begin("found", name) /\ asked' = [about |-> "name", name |-> name, nomem |-> FALSE]
  /\ count' = count + 1
  /\ UNCHANGED <<configVars, lst, todo, found, pre, post, commands, dropped>>

\* The places that look at what kmod_list_append returns, and give ENOMEM
Checked == {4, 6}

\* The next place: its modules become the list, but for what is lost where there is no
\* memory for a node; if there is none for a module, the others are given back.
LookPlace ==
  /\ job.place \in 1..6 /\ lst = NULL /\ err = "none"
  /\ LET mods == Source(job.place, job.name)
         cmds == CommandsOf(job.name)
     IN  \/ /\ NeedsIndex(job.place, job.name)
            /\ err' = "ENOSYS" /\ UNCHANGED <<h, nomem, job, lst, commands, asked, dropped>>
         \/ /\ ~NeedsIndex(job.place, job.name)
            /\ \E F \in SUBSET DOMAIN mods :
                 /\ nomem + Cardinality(F) <= MaxNoMem /\ (job.place \in Checked => F = {})
                 /\ LET all == AppendMods(mods, F)
                    IN  h' = all.heap /\ lst' = all.list /\ dropped' = all.dropped
                 /\ nomem' = nomem + Cardinality(F)
                 /\ asked' = IF F = {} THEN asked ELSE [asked EXCEPT !.nomem = TRUE]
            /\ commands' = IF job.place = 4 /\ cmds # <<>>
                           THEN (<<cmds[1].kind, Mod(job.name, Null)>> :> cmds[1].command) @@ commands
                           ELSE commands
            /\ job' = [job EXCEPT !.place = @ + 1] /\ UNCHANGED err
         \/ /\ ~NeedsIndex(job.place, job.name)
            /\ \E n \in DOMAIN mods : \E F \in SUBSET (1..n - 1) :
                 /\ nomem + Cardinality(F) < MaxNoMem
                 /\ LET part == AppendMods(SubSeq(mods, 1, n - 1), F)
                        st == RemoveLatest([heap |-> part.heap, list |-> part.list], n - 1)
                    IN  h' = st.heap /\ lst' = st.list /\ dropped' = part.dropped
                 /\ nomem' = nomem + Cardinality(F) + 1
            /\ err' = "ENOMEM" /\ UNCHANGED <<job, commands, asked>>
  /\ UNCHANGED <<world, list, config, reading, given, lost, pc, todo, found, pre, post, count>>

\* The end of the lookup; lookup_softdep joins the list to those before it, and passes
\* over an error.
LookEnd ==
  /\ job # NoJob /\ (job.place = 7 \/ lst # NULL \/ err # "none")
  /\ job' = NoJob /\ lst' = NULL /\ err' = "none"
  /\ asked' = CASE job.into = "found" -> [about |-> "lookup", name |-> asked.name, err |-> err, nomem |-> asked.nomem]
               [] job.into # "found" /\ err = "ENOMEM" -> [asked EXCEPT !.nomem = TRUE]
               [] OTHER -> asked
  /\ \/ /\ job.into = "found"
        /\ found' = lst /\ UNCHANGED <<h, pre, post>>
     \/ /\ job.into = "pre" /\ LET joined == kmod_list_append_list(h, pre, lst)
                               IN  h' = joined.heap /\ pre' = joined.list
        /\ UNCHANGED <<found, post>>
     \/ /\ job.into = "post" /\ LET joined == kmod_list_append_list(h, post, lst)
                                IN  h' = joined.heap /\ post' = joined.list
        /\ UNCHANGED <<found, pre>>
  /\ UNCHANGED <<world, list, config, reading, history, pc, todo, commands, dropped, count>>

----------------------------------------------------------------------------
(* Questions about a module                                                *)

\* kmod_module_get_options: those of the module and of its alias, with a blank between
get_options(m) ==
  FoldLeft(LAMBDA opts, d : (IF opts = <<>> THEN <<>> ELSE Append(opts, " ")) \o d.value, <<>>,
           Entries("options", LAMBDA d : d.name = m.name \/ (m.alias # Null /\ d.name = m.alias)))

\* kmod_module_get_install_commands and kmod_module_get_remove_commands: the first
\* pattern that matches, unless the module has a command already
CommandList == [install |-> "install_commands", remove |-> "remove_commands"]
get_commands(kind, m) ==
  LET cmds == Entries(CommandList[kind], LAMBDA d : Fnmatch(d.name, m.name))
  IN  IF <<kind, m>> \in DOMAIN commands THEN commands[<<kind, m>>]
      ELSE IF cmds = <<>> THEN Null ELSE cmds[1].value

module_is_blacklisted(m) == Entries("blacklists", LAMBDA d : d.name = m.name) # <<>>

\* A module that was found is asked for everything; kmod_module_get_softdeps takes the
\* first pattern that matches.
Ask ==
  /\ Idle /\ count < MaxAsked /\ found # NULL /\ pre = NULL /\ post = NULL
  /\ \E m \in ToSet(Items(h, found)) :
       LET deps == FirstOf(Entries("softdeps", LAMBDA d : Fnmatch(d.name, m.name)))
           cached == [kind \in {"install", "remove"} |-> get_commands(kind, m)]
       IN  /\ todo' = IF deps = <<>> THEN NoTodo ELSE [pre |-> SubSeq(deps[1].pre, 1, deps[1].n_pre),
                                                      post |-> SubSeq(deps[1].post, 1, deps[1].n_post)]
           /\ commands' = (<<"install", m>> :> cached["install"]) @@ (<<"remove", m>> :> cached["remove"]) @@ commands
           /\ asked' = [about |-> "module", module |-> m, options |-> get_options(m), commands |-> cached,
                        blacklisted |-> module_is_blacklisted(m), nomem |-> FALSE]
  /\ count' = count + 1
  /\ UNCHANGED <<configVars, job, lst, err, found, pre, post, dropped>>

\* lookup_softdep: the next name
LookSoft ==
  /\ pc = "ready" /\ job = NoJob
  /\ \E into \in {"pre", "post"} :
       /\ todo[into] # <<>> /\ (into = "post" => todo["pre"] = <<>>)
       /\ Begin(into, Head(todo[into]))
       /\ todo' = [todo EXCEPT ![into] = Tail(@)]
  /\ UNCHANGED <<configVars, lst, answers>>

\* kmod_module_unref_list of the lists; the modules stay in the pool, or leave it when
\* nothing else refers to them.
Release ==
  /\ Idle /\ {found, pre, post} # {NULL}
  /\ h' = RemoveAll(RemoveAll(RemoveAll(h, found), pre), post)
  /\ found' = NULL /\ pre' = NULL /\ post' = NULL /\ asked' = NoQuestion
  /\ commands' \in {commands, Uncached}
  /\ UNCHANGED <<world, list, config, reading, history, pc, lookup, dropped, count>>

Read == ReadConfig /\ UNCHANGED <<lookup, answers>>
FreeUnused == Idle /\ {found, pre, post} = {NULL} /\ FreeConfig /\ UNCHANGED <<lookup, answers>>
Next == Read \/ LookupName \/ LookPlace \/ LookEnd \/ Ask \/ LookSoft \/ Release \/ FreeUnused
Spec == Init /\ [][Next]_vars

----------------------------------------------------------------------------
(* Properties                                                              *)

\* Who has a list, and its head
Owners == {"files", "lookup", "found", "pre", "post"} \cup Lists \cup {"paths"}
HeadOf ==
  [o \in Owners |->
     CASE o = "files" -> list [] o = "lookup" -> lst [] o = "found" -> found [] o = "pre" -> pre [] o = "post" -> post
       [] OTHER -> config[o]]

\* The lists are whole: every node on the heap can be reached from the head of one owner,
\* and of no other, and is its neighbours' neighbour, whatever was inserted in the middle,
\* joined or taken back, but for the nodes that lookups have lost: they are those of the
\* lists that were there when kmod_list_append failed, and they stay on the heap for ever,
\* linked with each other only.  Nothing else is left when the configuration is freed, and
\* nothing at all if no allocation has failed.
NodesOwned ==
  /\ Linked(h)
  /\ dropped \subseteq DOMAIN h
  /\ UNION {NodeSet(h, HeadOf[o]) : o \in Owners} = DOMAIN h \ dropped
  /\ \A o, p \in Owners : o # p => NodeSet(h, HeadOf[o]) \cap NodeSet(h, HeadOf[p]) = {}
  /\ pc \in {"failed", "freed"} => DOMAIN h = dropped
  /\ nomem = 0 => dropped = {}

\* The configuration is what the files say, in the order of their names and lines, and
\* then the command line: a file hides those of its name in later directories, escaped
\* newlines join lines, and no line is taken twice or left out, but for those for which
\* there was no memory.
ConfigRead ==
  pc = "ready" /\ count = 0 =>
    \A l \in Lists :
      LET is == Items(h, config[l])
          should == Expected(l)
          gone == SelectSeq(lost, LAMBDA it : it.list = l)
      IN  IF gone = <<>> THEN is = should
          ELSE \E k \in DOMAIN should : should[k] = gone[1].data /\ is = RemoveAt(should, k)

Configured(l) == Items(h, config[l])

\* The modules of a name: an alias of the configuration overrides all others; then a
\* module of that name; the name itself, if there is a command for it; and as a last
\* resort the modules that say they have this alias, and what is in the kernel.
Meant(n) ==
  LET aliases == SelectSeq(Configured("aliases"), LAMBDA d : Fnmatch(d.name, n))
      command == \E d \in ToSet(Configured("install_commands") \o Configured("remove_commands")) : d.name = n
      itself == <<Mod(n, Null)>>
  IN  CASE aliases # <<>> -> FlatMap(LAMBDA d : <<Mod(d.value, d.name)>>, aliases)
        [] aliases = <<>> /\ n \in world.dep /\ "dep" \notin world.missing -> itself
        [] OTHER ->
           CASE n[1] = "symbol:" /\ Wild(world.symbols, n) # <<>> -> Wild(world.symbols, n)
             [] n[1] # "symbol:" /\ command -> itself
             [] OTHER -> IF "alias" \in world.missing THEN <<>>
                         ELSE IF Wild(world.alias, n) # <<>> THEN Wild(world.alias, n)
                         ELSE IF n \in world.builtin /\ "builtin" \notin world.missing THEN itself ELSE <<>>

\* All that some place has for a name, in its order
Candidates(n) ==
  LET aliases == SelectSeq(Configured("aliases"), LAMBDA d : Fnmatch(d.name, n))
      command == \E d \in ToSet(Configured("install_commands") \o Configured("remove_commands")) : d.name = n
  IN  {FlatMap(LAMBDA d : <<Mod(d.value, d.name)>>, aliases), Wild(world.symbols, n), Wild(world.alias, n)}
        \cup (IF n \in world.dep \cup world.builtin \/ command THEN {<<Mod(n, Null)>>} ELSE {})

\* The modules of soft dependencies, and what a place has for any of them
SoftNames(m, which) ==
  LET deps == SelectSeq(Configured("softdeps"), LAMBDA d : Fnmatch(d.name, m.name))
  IN  IF deps = <<>> THEN <<>> ELSE [k \in DOMAIN deps[1][which] |-> Converted(deps[1][which][k])]
MeantSoft(m, which) == FlatMap(Meant, SoftNames(m, which))
SoftCandidates(m, which) ==
  UNION {UNION {ToSet(s) : s \in Candidates(n)} : n \in ToSet(SoftNames(m, which))}

\* A lookup gives all the modules of the first place that has any, in the order of the
\* configuration or the index; with an error it gives none.  It gives no error if there was
\* no memory for a node, and then what is found is the last modules of some place that has
\* any, or none.  The soft dependencies of a module are the modules of all the names before
\* it and after it; its options are all that were configured for it or for its alias, its
\* command of a kind is the first one configured, and it is blacklisted if its name is.
LookupExact ==
  CASE asked.about = "lookup" /\ asked.err = "none" ->
         IF asked.nomem THEN \E s \in Candidates(Converted(asked.name)) \cup {<<>>} : IsSuffix(Items(h, found), s)
         ELSE Items(h, found) = Meant(Converted(asked.name))
    [] asked.about = "lookup" /\ asked.err # "none" -> found = NULL
    [] asked.about = "module" /\ Idle ->
         LET m == asked.module
             options == SelectSeq(Configured("options"), LAMBDA d : d.name \in {m.name, m.alias} \ {Null})
             first(l, P(_)) == LET ds == SelectSeq(Configured(l), P) IN IF ds = <<>> THEN Null ELSE ds[1].value
         IN  /\ IF asked.nomem THEN /\ ToSet(Items(h, pre)) \subseteq SoftCandidates(m, "pre")
                                   /\ ToSet(Items(h, post)) \subseteq SoftCandidates(m, "post")
                ELSE Items(h, pre) = MeantSoft(m, "pre") /\ Items(h, post) = MeantSoft(m, "post")
             /\ asked.options = SubSeq(FlatMap(LAMBDA d : <<" ">> \o d.value, options), 2,
                                       Len(FlatMap(LAMBDA d : <<" ">> \o d.value, options)))
             /\ asked.blacklisted = (\E d \in ToSet(Configured("blacklists")) : d.name = m.name)
             /\ \A kind \in {"install", "remove"} :
                  \/ asked.commands[kind] = first(CommandList[kind], LAMBDA d : Fnmatch(d.name, m.name))
                  \/ /\ asked.commands[kind] # Null
                     /\ asked.commands[kind] = first(CommandList[kind], LAMBDA d : d.name = m.name)
    [] OTHER -> TRUE

\* A module that the kernel's command line blacklists is blacklisted, however its name is
\* written there: dashes and underscores are the same in names of modules.
BlacklistHonoured ==
  pc = "ready" /\ lost = <<>> =>
    \A w \in ToSet(WordsOf(world.cmdline)) :
      \A d \in ToSet(CmdlineMeaning("blacklists", w.word)) : module_is_blacklisted(Mod(Converted(d.name), Null))
=============================================================================
