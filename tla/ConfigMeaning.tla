--------------------------- MODULE ConfigMeaning ---------------------------
(***************************************************************************)
(* What a configuration means, said of whole texts instead of one          *)
(* character after the other: what the lists that are read must contain.   *)
(***************************************************************************)
EXTENDS KmodConfig

\* A set of positive numbers, in order
Ordered(S) == SelectSeq([k \in 1..Max(S \cup {0}) |-> k], LAMBDA k : k \in S)

\* The files that count, by name: of those with one name, that of the first path
Texts ==
  LET names == Ordered({e[2] : e \in given})
      first(n) == Min({e[1] : e \in {e \in given : e[2] = n}})
      text_of(n) == TextOf([path |-> first(n), name |-> n, is_single |-> world.paths[first(n)].kind = "file"])
  IN  [k \in DOMAIN names |-> IF text_of(names[k]) = Unreadable THEN <<>> ELSE text_of(names[k])]

\* A backslash escapes what follows, if the backslashes before it are of an even number.
Escapes(t) ==
  LET Run(k, r) == (\A m \in k - r..k - 1 : t[m] = "\\") /\ (r = k - 1 \/ t[k - r - 1] # "\\")
  IN  {k \in DOMAIN t : t[k] = "\\" /\ \E r \in 0..k - 1 : r % 2 = 0 /\ Run(k, r)}

LogicalLines(t) ==
  LET escaped == {k + 1 : k \in Escapes(t)}
      ends == {k \in DOMAIN t : t[k] = "\n" /\ k \notin escaped} \cup {Len(t) + 1}
      starts == {1} \cup {k + 1 : k \in ends \ {Len(t) + 1}}
      kept(a) == {k \in a..Min({b \in ends : b >= a}) - 1 : k \notin Escapes(t) /\ t[k] # "\n"}
      Line(a) == LET ks == Ordered(kept(a)) IN [m \in DOMAIN ks |-> t[ks[m]]]
      order == Ordered(starts)
  IN  [k \in DOMAIN order |-> Line(order[k])]

\* The words of a line, with the places where they start and end
WordsOf(s) ==
  LET starts == {k \in DOMAIN s : s[k] \notin Blanks /\ (k = 1 \/ s[k-1] \in Blanks)}
      end(k) == Min({m \in k..Len(s) : s[m] \in Blanks} \cup {Len(s) + 1}) - 1
      order == Ordered(starts)
  IN  [k \in DOMAIN order |-> [word |-> SubSeq(s, order[k], end(order[k])), end |-> end(order[k])]]

Converted(w) ==
  [k \in DOMAIN w |-> IF w[k] = "-" /\ ~\E m \in 1..k - 1 : w[m] = "[" /\ \A x \in m..k : w[x] # "]"
                      THEN "_" ELSE w[k]]

\* The names after the marker that is the last one before them
After(marker, words) ==
  LET marks == {<<"pre:">>, <<"post:">>}
      ks == {k \in DOMAIN words : words[k].word \notin marks /\
               \E m \in 1..k - 1 : words[m].word = marker /\ \A x \in m + 1..k : words[x].word \notin marks}
      order == Ordered(ks)
  IN  [k \in DOMAIN order |-> words[order[k]].word]

CommandOf == [aliases |-> "alias", blacklists |-> "blacklist", options |-> "options",
              install_commands |-> "install", remove_commands |-> "remove", softdeps |-> "softdep"]

Meaning(l, line) ==
  LET words == WordsOf(line)
      n == Len(words)
      name == Converted(words[2].word)
      value == SubSeq(line, words[2].end + 2, Len(line))
  IN  CASE n = 0 \/ line[1] = "#" -> <<>>
        [] n > 0 /\ line[1] # "#" /\ words[1].word # <<CommandOf[l]>> -> <<>>
        [] n < (IF l = "aliases" THEN 3 ELSE 2) -> <<>>
        [] OTHER ->
           CASE l = "aliases"    -> <<[name |-> name, value |-> Converted(words[3].word)]>>
             [] l = "blacklists" -> <<[name |-> name]>>
             [] l \in {"options", "install_commands", "remove_commands"} ->
                  IF value = <<>> THEN <<>>
                  ELSE <<[name |-> name,
                          value |-> IF l = "options" THEN [k \in DOMAIN value |-> IF value[k] = "\t" THEN " " ELSE value[k]]
                                    ELSE value]>>
             [] l = "softdeps" ->
                  LET deps == SubSeq(words, 3, n)
                      pre == After(<<"pre:">>, deps)
                      post == After(<<"post:">>, deps)
                  IN  IF value = <<>> THEN <<>>
                      ELSE <<[name |-> name, n_pre |-> Len(pre), n_post |-> Len(post), pre |-> pre, post |-> post]>>

\* The command line: options of modules, and modprobe.blacklist; its names are as they are
\* there.
CmdlineMeaning(l, word) ==
  LET at(c) == {k \in DOMAIN word : word[k] = c}
      dot == Min(at("."))
      name == SubSeq(word, 1, dot - 1)
      blacklist == name = <<"modprobe">> /\ SubSeq(word, dot + 1, dot + 2) = <<"blacklist", "=">>
      param == SubSeq(word, dot + 1, Len(word))
      cuts == {Max(at("="))} \cup {k \in at(",") : k > Max(at("="))}
      part(k) == SubSeq(word, k + 1, Min({m \in cuts : m > k} \cup {Len(word) + 1}) - 1)
      order == Ordered(cuts)
  IN  CASE at(".") = {} \/ at("=") = {} \/ (at(".") # {} /\ at("=") # {} /\ Max(at("=")) < dot) -> <<>>
        [] OTHER ->
           CASE l = "options" /\ ~blacklist -> <<[name |-> Converted(name), value |-> param]>>
             [] l = "blacklists" /\ blacklist -> [k \in DOMAIN order |-> [name |-> part(order[k])]]
             [] OTHER -> <<>>

FlatMap(f(_), s) == FoldLeft(LAMBDA acc, x : acc \o f(x), <<>>, s)

\* All that a list should have
Expected(l) ==
  FlatMap(LAMBDA t : FlatMap(LAMBDA line : Meaning(l, line), LogicalLines(t)), Texts)
    \o FlatMap(LAMBDA w : CmdlineMeaning(l, w.word), WordsOf(world.cmdline))
=============================================================================
