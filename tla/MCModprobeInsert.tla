-------------------------- MODULE MCModprobeInsert --------------------------
(***************************************************************************)
(* Modules: b and c use a, d uses b and c, e stands alone and v is built   *)
(* in and in no index.  "x" and "y" are aliases of two modules.            *)
(***************************************************************************)
EXTENDS ModprobeInsert

MCMod == {"a", "b", "c", "d", "e", "v"}
MCUses == [a |-> {}, b |-> {"a"}, c |-> {"a"}, d |-> {"b", "c"}, e |-> {}, v |-> {}]
MCDeps == [a |-> <<>>, b |-> <<"a">>, c |-> <<"a">>, d |-> <<"a", "c", "b">>, e |-> <<>>, v |-> <<>>]

NoSoftdeps == [m \in MCMod |-> <<>>]
\* "softdep a post: b", where b needs a
PostB == [NoSoftdeps EXCEPT !["a"] = <<"b">>]
\* "softdep b pre: c"
PreC == [NoSoftdeps EXCEPT !["b"] = <<"c">>]

\* The target of an alias is not among the modules it needs (it would be another
\* object of the library there).
MCLookup == [a |-> <<"a">>, b |-> <<"b">>, c |-> <<"c">>, d |-> <<"d">>, e |-> <<"e">>, v |-> <<>>,
             x |-> <<"e", "d">>, y |-> <<"d", "e">>]

Calm == [args |-> [p1 |-> <<"d">>, p2 |-> <<"b">>, p3 |-> <<"e">>],
         options |-> [p1 |-> {}, p2 |-> {}, p3 |-> {}],
         blacklist |-> {}, commands |-> {}, endings |-> {}, fails |-> {}, nofile |-> {}]

\* Three processes with common dependencies
Common == [Calm EXCEPT !.args["p3"] = <<"d">>, !.options["p3"] = {"ignore_loaded"}]

\* The same with several arguments and an alias
Several == [Calm EXCEPT !.args = [p1 |-> <<"x">>, p2 |-> <<"b", "y">>, p3 |-> <<"e", "c">>]]

\* Two processes that want to be the first; the others apply the blacklist to
\* all, or only print; commands and init functions fail.
First == [Calm EXCEPT !.args = [p1 |-> <<"c">>, p2 |-> <<"c">>, p3 |-> <<"d">>],
                      !.options = [p1 |-> {"fail_on_loaded"}, p2 |-> {"fail_on_loaded"},
                                   p3 |-> {"blacklist_all"}],
                      !.blacklist = {"b"}]

Failing == [Calm EXCEPT !.args = [p1 |-> <<"x", "v">>, p2 |-> <<"y", "c">>, p3 |-> <<"v", "e", "a">>],
                        !.options["p3"] = {"blacklist"},
                        !.fails = {"e"}, !.blacklist = {"a"}]

NoFile == [Calm EXCEPT !.args = [p1 |-> <<"y", "c">>, p2 |-> <<"v", "x">>, p3 |-> <<"x", "e">>],
                       !.options["p2"] = {"fail_on_loaded"}, !.options["p3"] = {"dry_run"},
                       !.nofile = {"e"}]

\* A soft dependency of b that cannot be inserted ends the list of b.
SoftNoFile == [Calm EXCEPT !.args = [p1 |-> <<"b", "e">>, p2 |-> <<"b">>, p3 |-> <<"x">>], !.nofile = {"c"}]

Command == [Calm EXCEPT !.args = [p1 |-> <<"d">>, p2 |-> <<"x", "c">>, p3 |-> <<"y">>],
                        !.options["p1"] = {"ignore_command"}, !.options["p3"] = {"lookup_only"},
                        !.commands = {"e", "c"}, !.endings = {"0", "1", "EEXIST", "signal"}]

MCSituations == {Common, Several, First, Failing, NoFile, SoftNoFile, Command}
=============================================================================
