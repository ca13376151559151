----------------------------- MODULE KmodConfig -----------------------------
(***************************************************************************)
(* The configuration of a context: its files in several directories, the   *)
(* lines of a file, the kernel's command line, and the lists made of them, *)
(* node by node on the heap.                                               *)
(*                                                                         *)
(* A text is a sequence of pieces: words, and the characters that mean     *)
(* something to the parser.                                                *)
(***************************************************************************)
EXTENDS KmodList, SequencesExt, FiniteSetsExt

CONSTANTS
  Worlds,     \* what a program may find: paths, command line and indexes
  MaxNoMem    \* allocations that may fail

\* The command line is a text, and an index file a sequence of keys with their values.
ASSUME WorldsAssumption ==
  \A w \in Worlds : /\ w.cmdline \in Seq(STRING)
                    /\ {w.symbols, w.alias} \subseteq Seq([key : Seq(STRING), value : Seq(STRING)])

Blanks == {" ", "\t"}
Null == <<>>                    \* a token that is not there
Unreadable == <<"unreadable">>  \* a file that cannot be opened
Lists == {"aliases", "blacklists", "options", "install_commands", "remove_commands", "softdeps"}

VARIABLES
  world,
  h,          \* the heap of list nodes
  list,       \* conf_files_list: files to read, in order
  config,     \* the lists of struct kmod_config, and its paths
  i,          \* the path that is looked at
  unread,     \* names in its directory that readdir has still to give
  text,       \* what is left of a file, or of the command line
  nomem,      \* allocations that failed
  given,      \* history: entries <<path, name>> that readdir gave, but for lost ones
  lost,       \* history: the items that were lost, with their list
  pc

reading == <<i, unread, text>>
history == <<nomem, given, lost>>
configVars == <<world, h, list, config, reading, history, pc>>

NoConfig == [l \in Lists \cup {"paths"} |-> NULL]

InitConfig ==
  /\ world \in Worlds
  /\ h = [n \in {} |-> NULL] /\ list = NULL /\ config = NoConfig
  /\ i = 1 /\ unread = {} /\ text = <<>>
  /\ nomem = 0 /\ given = {} /\ lost = <<>>
  /\ pc = "paths"

----------------------------------------------------------------------------
(* kmod_config_new: the files                                              *)

\* The first file of the list whose name is not before this one; names are numbers, in
\* the order of strcmp.
Lpos(name) ==
  LET ge == {k \in DOMAIN Nodes(h, list) : name <= Items(h, list)[k].name}
  IN  IF ge = {} THEN NULL ELSE Nodes(h, list)[Min(ge)]

Inserted(lpos, cf) ==
  CASE lpos = NULL -> kmod_list_append(h, list, cf)
    [] lpos # NULL /\ lpos = list -> kmod_list_prepend(h, list, cf)
    [] OTHER -> [heap |-> kmod_list_insert_before(h, lpos, cf).heap, list |-> list]

\* Mutant of InsertSorted: a file of the same name goes before the other.
InsertSortedTwice(cf) == [ins |-> Inserted(Lpos(cf.name), cf), new |-> TRUE]

\* conf_files_insert_sorted, which ignores a file whose name is in the list
InsertSorted(cf) ==
  LET lpos == Lpos(cf.name) IN
  IF lpos # NULL /\ h[lpos].data.name = cf.name THEN [ins |-> [heap |-> h, list |-> list], new |-> FALSE]
  ELSE [ins |-> Inserted(lpos, cf), new |-> TRUE]

\* An entry that passed the filter; for want of memory it is ignored.
ListFile(name, is_single) ==
  LET sorted == InsertSorted([path |-> i, name |-> name, is_single |-> is_single]) IN
  \/ /\ h' = sorted.ins.heap /\ list' = sorted.ins.list
     /\ given' = given \cup {<<i, name>>} /\ nomem' = nomem
  \/ /\ sorted.new /\ nomem < MaxNoMem
     /\ nomem' = nomem + 1 /\ UNCHANGED <<h, list, given>>

Path == world.paths[i]

\* conf_files_list of a path that is there
OpenPath ==
  /\ pc = "paths" /\ i <= Len(world.paths)
  /\ \/ Path.kind = "none" /\ i' = i + 1 /\ UNCHANGED <<h, list, given, nomem, unread, pc>>
     \/ Path.kind = "file" /\ ListFile(Path.name, TRUE) /\ pc' = "listed" /\ UNCHANGED <<i, unread>>
     \/ Path.kind = "dir" /\ unread' = DOMAIN Path.files /\ pc' = "dir" /\ UNCHANGED <<h, list, given, nomem, i>>
  /\ UNCHANGED <<world, config, text, lost>>

\* readdir gives an entry, any of them; conf_files_filter_out
ReadEntry ==
  /\ pc = "dir"
  /\ \E n \in unread :
       /\ unread' = unread \ {n}
       /\ IF Path.files[n].conf THEN ListFile(n, FALSE) ELSE UNCHANGED <<h, list, given, nomem>>
  /\ UNCHANGED <<world, config, i, text, lost, pc>>

\* The end of the directory, or an error of readdir_r, which is positive and so no
\* error to kmod_config_new
ReadEnd ==
  /\ pc = "dir"
  /\ unread = {} \/ Path.damaged
  /\ unread' = {} /\ pc' = "listed"
  /\ UNCHANGED <<world, h, list, config, i, text, history>>

\* out of memory: kmod_config_new gives back what it has
Oom ==
  /\ nomem < MaxNoMem /\ nomem' = nomem + 1
  /\ h' = RemoveAll(RemoveAll(h, list), config.paths)
  /\ list' = NULL /\ config' = NoConfig /\ pc' = "failed"
  /\ UNCHANGED <<world, reading, given, lost>>

\* The path is remembered, with its time.
AddPath ==
  /\ pc = "listed"
  /\ \/ /\ LET app == kmod_list_append(h, config.paths, [path |-> i])
           IN  h' = app.heap /\ config' = [config EXCEPT !.paths = app.list]
        /\ i' = i + 1 /\ pc' = "paths"
        /\ UNCHANGED <<world, list, unread, text, history>>
     \/ Oom

\* calloc of the configuration
Listed ==
  /\ pc = "paths" /\ i > Len(world.paths)
  /\ \/ pc' = "open" /\ UNCHANGED <<world, h, list, config, reading, history>>
     \/ Oom

TextOf(cf) == IF cf.is_single THEN world.paths[cf.path].text ELSE world.paths[cf.path].files[cf.name].text

\* The next file, or at last the command line
OpenFile ==
  /\ pc = "open"
  /\ IF list # NULL
     THEN /\ LET cf == h[list].data
                 rm == kmod_list_remove(h, list)
             IN  /\ h' = rm.heap /\ list' = rm.list
                 /\ text' = IF TextOf(cf) = Unreadable THEN <<>> ELSE TextOf(cf)
          /\ pc' = "parse"
     ELSE text' = world.cmdline /\ pc' = "cmdline" /\ UNCHANGED <<h, list>>
  /\ UNCHANGED <<world, config, i, unread, history>>

----------------------------------------------------------------------------
(* kmod_config_parse: a line                                               *)

\* getline_wrapped: a logical line and the text after it; a backslash before any other
\* character than a newline is dropped, and one at the end is followed by EOF.
getline_wrapped(t) ==
  LET Step(s, c) ==
        CASE s.done               -> [s EXCEPT !.rest = Append(@, c)]
          [] ~s.done /\ s.escaped -> [s EXCEPT !.escaped = FALSE, !.line = IF c = "\n" THEN @ ELSE Append(@, c)]
          [] ~s.done /\ ~s.escaped /\ c = "\\" -> [s EXCEPT !.escaped = TRUE]
          [] ~s.done /\ ~s.escaped /\ c = "\n" -> [s EXCEPT !.done = TRUE]
          [] OTHER -> [s EXCEPT !.line = Append(@, c)]
      end == FoldLeft(Step, [line |-> <<>>, rest |-> <<>>, escaped |-> FALSE, done |-> FALSE], t)
  IN  [end EXCEPT !.line = IF end.escaped THEN Append(@, "EOF") ELSE @]

\* strtok_r(..., "\t ", ...): the token, and what strtok_r(NULL, "\0", ...) would give
strtok(s) ==
  LET From(P(_), k) == Min({m \in k..Len(s) : P(s[m])} \cup {Len(s) + 1})
      a == From(LAMBDA c : c \notin Blanks, 1)
      b == From(LAMBDA c : c \in Blanks, a)
  IN  [token |-> SubSeq(s, a, b - 1), rest |-> SubSeq(s, b + 1, Len(s))]

\* underscores, which leaves dashes between brackets
underscores(s) ==
  LET Step(st, c) == [out |-> Append(st.out, IF c = "-" /\ ~st.range THEN "_" ELSE c),
                      range |-> c = "[" \/ (st.range /\ c # "]")]
  IN  FoldLeft(Step, [out |-> <<>>, range |-> FALSE], s).out

\* One of the two passes of kmod_config_add_softdep over the line; was_space is set
\* once for both. The end of the line is the character after the last.
SoftdepPass(line, was_space) ==
  LET AtEnd(s) == s = Len(line) + 1
      Token(st, s) ==
        LET w == SubSeq(line, st.p, s - 1) IN
        CASE w = <<"pre:">>  -> [st EXCEPT !.mode = "pre", !.p = s + 1]
          [] w = <<"post:">> -> [st EXCEPT !.mode = "post", !.p = s + 1]
          [] w \notin {<<"pre:">>, <<"post:">>} /\ st.mode # "none" /\ ~(AtEnd(s) /\ st.was_space) ->
               [st EXCEPT !.p = s + 1, ![st.mode] = Append(@, w)]
          [] OTHER -> [st EXCEPT !.p = s + 1]
      Step(st, s) ==
        CASE AtEnd(s) -> Token(st, s)
          [] ~AtEnd(s) /\ line[s] \notin Blanks -> [st EXCEPT !.was_space = FALSE]
          [] ~AtEnd(s) /\ line[s] \in Blanks /\ st.was_space -> [st EXCEPT !.p = s + 1]
          [] OTHER -> LET st1 == [st EXCEPT !.was_space = TRUE]
                      IN  IF st.p >= s THEN st1 ELSE Token(st1, s)
  IN  FoldLeft(Step, [p |-> 1, was_space |-> was_space, mode |-> "none", pre |-> <<>>, post |-> <<>>],
               [s \in 1..Len(line) + 1 |-> s])

\* kmod_config_add_softdep counts the names, and copies them in a second pass.
Softdep(modname, line) ==
  LET count == SoftdepPass(line, FALSE)
      copy  == SoftdepPass(line, count.was_space)
  IN  [name |-> modname, n_pre |-> Len(count.pre), n_post |-> Len(count.post),
       pre |-> copy.pre, post |-> copy.post]

Item(l, data) == <<[list |-> l, data |-> data]>>

\* What a line adds to the lists; nothing when it is a comment or has an error
ParseLine(line) ==
  LET cmd  == strtok(line)
      arg  == strtok(cmd.rest)
      arg2 == strtok(arg.rest)
      modname == underscores(arg.token)
      Is(c) == cmd.token = <<c>>
      ok == arg.token # Null /\ arg.rest # Null
  IN  CASE line # <<>> /\ line[1] = "#" -> <<>>
        [] Is("alias") /\ arg.token # Null /\ arg2.token # Null ->
             Item("aliases", [name |-> modname, value |-> underscores(arg2.token)])
        [] Is("blacklist") /\ arg.token # Null -> Item("blacklists", [name |-> modname])
        [] Is("options") /\ ok ->
             Item("options", [name |-> modname, value |-> ReplaceAll(arg.rest, "\t", " ")])
        [] Is("install") /\ ok -> Item("install_commands", [name |-> modname, value |-> arg.rest])
        [] Is("remove") /\ ok -> Item("remove_commands", [name |-> modname, value |-> arg.rest])
        [] Is("softdep") /\ ok -> Item("softdeps", Softdep(modname, arg.rest))
        [] OTHER -> <<>>

AddItem(st, it) ==
  LET app == kmod_list_append(st.heap, st.config[it.list], it.data)
  IN  [heap |-> app.heap, config |-> [st.config EXCEPT ![it.list] = app.list]]

\* kmod_config_add_...: for want of memory an item is lost, and nobody is told.
AddItems(items) ==
  \E k \in 0..Len(items) :
    /\ k > 0 => nomem < MaxNoMem
    /\ LET kept == IF k = 0 THEN items ELSE RemoveAt(items, k)
           st == FoldLeft(AddItem, [heap |-> h, config |-> config], kept)
       IN  h' = st.heap /\ config' = st.config
    /\ IF k = 0 THEN UNCHANGED <<nomem, lost>>
       ELSE nomem' = nomem + 1 /\ lost' = Append(lost, items[k])

ParseStep ==
  /\ pc = "parse"
  /\ LET l == getline_wrapped(text) IN
     IF l.done \/ l.line # <<>>
     THEN AddItems(ParseLine(l.line)) /\ text' = l.rest /\ pc' = pc
     ELSE pc' = "open" /\ UNCHANGED <<h, config, nomem, lost, text>>
  /\ UNCHANGED <<world, list, i, unread, given>>

----------------------------------------------------------------------------
(* kmod_config_parse_kcmdline                                              *)

\* strsep
Separated(s, c) ==
  FoldLeft(LAMBDA parts, x : IF x = c THEN Append(parts, <<>>)
                             ELSE [parts EXCEPT ![Len(parts)] = Append(@, x)], <<<<>>>>, s)

\* A word: the parameter follows the first dot, its value the last equal sign.
kcmdline_parse_result(word) ==
  LET dots == {k \in DOMAIN word : word[k] = "."}
      dot == Min(dots)
      eqs == {k \in DOMAIN word : word[k] = "=" /\ k > dot}
      modname == SubSeq(word, 1, dot - 1)
      param == SubSeq(word, dot + 1, Len(word))
      value == SubSeq(word, Max(eqs) + 1, Len(word))
  IN  IF dots = {} \/ eqs = {} THEN <<>>
      ELSE IF modname = <<"modprobe">> /\ IsPrefix(<<"blacklist", "=">>, param)
      THEN [k \in DOMAIN Separated(value, ",") |->
              [list |-> "blacklists", data |-> [name |-> Separated(value, ",")[k]]]]
      ELSE Item("options", [name |-> underscores(modname), value |-> param])

\* The next word of the command line
CmdlineStep ==
  /\ pc = "cmdline"
  /\ LET words == Separated(text, " ") IN
     /\ AddItems(kcmdline_parse_result(words[1]))
     /\ IF Len(words) > 1 THEN text' = SubSeq(text, Len(words[1]) + 2, Len(text)) /\ pc' = pc
        ELSE text' = <<>> /\ pc' = "ready"
  /\ UNCHANGED <<world, list, i, unread, given>>

\* kmod_config_free, one list after the other
Freed ==
  LET h1 == RemoveAll(h, config.aliases)
      h2 == RemoveAll(h1, config.blacklists)
      h3 == RemoveAll(h2, config.options)
      h4 == RemoveAll(h3, config.install_commands)
      h5 == RemoveAll(h4, config.remove_commands)
      h6 == RemoveAll(h5, config.softdeps)
  IN  RemoveAll(h6, config.paths)

FreeConfig ==
  /\ pc = "ready"
  /\ h' = Freed
  /\ config' = NoConfig /\ pc' = "freed"
  /\ UNCHANGED <<world, list, reading, history>>

ReadConfig == OpenPath \/ ReadEntry \/ ReadEnd \/ AddPath \/ Listed \/ OpenFile \/ ParseStep \/ CmdlineStep
=============================================================================
