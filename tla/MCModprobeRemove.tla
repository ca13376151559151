-------------------------- MODULE MCModprobeRemove --------------------------
(***************************************************************************)
(* Five modules: b and c use a, d uses b and c, and e is on its own.       *)
(***************************************************************************)
EXTENDS ModprobeRemove

MCMod == {"a", "b", "c", "d", "e"}
MCUses == [a |-> {}, b |-> {"a"}, c |-> {"a"}, d |-> {"b", "c"}, e |-> {}]
MCDeps == [a |-> <<>>, b |-> <<"a">>, c |-> <<"a">>, d |-> <<"a", "c", "b">>, e |-> <<>>]

NoSoftdeps == [m \in MCMod |-> <<>>]

\* "softdep d pre: a post: c e" and "softdep e pre: d": from d the recursion comes to
\* e before it removes d, and from e back to d once e is gone
PreAD == [NoSoftdeps EXCEPT !["d"] = <<"a">>, !["e"] = <<"d">>]
PostCE == [NoSoftdeps EXCEPT !["d"] = <<"c", "e">>]

Targets == [p1 |-> "d", p2 |-> "d", p3 |-> "a"]
FirstTime == [p1 |-> {"first_time"}, p2 |-> {"first_time", "ignore_commands"},
              p3 |-> {"dry_run", "ignore_loaded", "ignore_commands"}]
=============================================================================
