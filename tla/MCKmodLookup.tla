---------------------------- MODULE MCKmodLookup ----------------------------
(***************************************************************************)
(* Directories with files of the same name, lines of every kind, and       *)
(* indexes of which some are missing.                                      *)
(***************************************************************************)
EXTENDS KmodLookup

Conf(t) == [conf |-> TRUE, text |-> t]
Dir(files) == [kind |-> "dir", files |-> files, damaged |-> FALSE]
None == [kind |-> "none"]

\* alias e-* b_1; a line in two parts; a comment; a bad line
Aliases == <<"alias", " ", "e", "-", "*", "\t", "b", "-", "1", "\n", "#", "alias", "\n", "\n",
             "alias", " ", "e", "\\", "\n", "[", "0", "-", "2", "]", " ", " ", "a", "\n", "alias", " ", "a", "\n",
             "options", " ", "a", " ", "x", "=", "1", "\t", "y", "\n", "options", " ", "e", "-", "*", " ", "z">>
Commands1 == <<"install", " ", "*", " ", "c1", "\n", "install", " ", "i", "-", "1", " ", "c2", "\\", "\\", "\\", "\n",
               " ", "c3", "\n", "remove", " ", "r", " ", "c4", "\n", "blacklist", " ", "b", "-", "1", "\n">>
Soft == <<"softdep", " ", "a", " ", "none", " ", "pre:", " ", "e", "-", "1", " ", " ", "q", "\t", "post:", " ", "r", " ", "s", " ", "e", "0", "\n",
          "softdep", " ", "*", " ", "pre:", " ", "a", "\n", "include", " ", "x", "\n">>
Hidden == <<"blacklist", " ", "a", "\n">>

Line0 == <<"quiet", " ", "a", ".", "x", "=", "2", " ", "modprobe", ".", "blacklist", "=", "a", ",", "r", " ", "b", "-", "1", ".", "y", "=", "3">>

Indexes == [dep |-> {<<"a">>, <<"b", "_", "1">>, <<"s">>},
            symbols |-> <<[key |-> <<"symbol:", "f">>, value |-> <<"a">>], [key |-> <<"symbol:", "f">>, value |-> <<"s">>]>>,
            alias |-> <<[key |-> <<"pci", "*">>, value |-> <<"a">>], [key |-> <<"pci", "_", "1">>, value |-> <<"s">>],
                        [key |-> <<"r">>, value |-> <<"s">>]>>,
            builtin |-> {<<"k">>}, missing |-> {}]

World(paths, cmdline, missing) ==
  [Indexes EXCEPT !.missing = missing] @@ [paths |-> paths, cmdline |-> cmdline]

MCWorlds ==
  {World(<<Dir((2 :> Conf(Aliases)) @@ (1 :> Conf(Soft)) @@ (4 :> [conf |-> FALSE, text |-> Hidden])), None,
           Dir((2 :> Conf(Hidden)) @@ (3 :> Conf(Commands1)))>>, Line0, {}),
   World(<<Dir((3 :> Conf(Commands1)) @@ (5 :> Conf(Unreadable))), [kind |-> "file", name |-> 1, text |-> Aliases],
           Dir((1 :> Conf(Hidden)) @@ (3 :> Conf(Hidden)) @@ (2 :> Conf(Soft)))>>, <<"a", ".", "z">>, {"alias"}),
   World(<<[Dir((2 :> Conf(Commands1)) @@ (1 :> Conf(Hidden))) EXCEPT !.damaged = TRUE]>>, <<>>, {"dep", "builtin", "symbols"})}

MCNames == {<<"e", "-", "1">>, <<"a">>, <<"symbol:", "f">>, <<"i", "-", "1">>, <<"r">>, <<"pci", "-", "1">>, <<"k">>, <<"b", "]">>, <<"e", "0">>}

\* A name with a dash on the command line
MCDashed == {World(<<Dir(1 :> Conf(Hidden))>>, <<"modprobe", ".", "blacklist", "=", "b", "-", "1">>, {})}
=============================================================================
