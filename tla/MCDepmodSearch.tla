--------------------------- MODULE MCDepmodSearch ---------------------------
(***************************************************************************)
(* Modules a, b and c, of which a and b may be there several times, in     *)
(* directories of which two begin with the same characters.                *)
(***************************************************************************)
EXTENDS DepmodSearch

Kernel == <<"kernel">>
Extra == <<"extra">>
Extra2 == <<"extra", "2">>

M(dir, name, ext) == [dir |-> dir, name |-> name, ext |-> ext]
Candidates == {M(Kernel, "a", "ko"), M(Updates, "a", "ko.gz"), M(Extra, "a", "ko"), M(Extra2, "b", "ko"),
               M(Kernel, "b", "ko"), M(Kernel, "c", "ko.xz"), M(Kernel, "c", "ko")}
MCDisks == {d \in SUBSET Candidates : Cardinality(d) <= 5}

MCArguments == {<<>>, <<M(Kernel, "a", "ko"), M(Elsewhere, "b", "ko"), M(Kernel, "c", "ko.xz")>>,
                <<M(Kernel, "a", "ko"), M(Extra, "a", "ko")>>}

SearchLine(words) == [cmd |-> "search", words |-> words]
OverrideLine(name, matches, dir) == [cmd |-> "override", name |-> name, matches |-> matches, dir |-> dir]
Bad == [cmd |-> "bad"]

\* The files of two directories
NoFiles == [n \in {} |-> <<>>]
One(n, lines) == [k \in {n} |-> lines]
MCConfigurations ==
  {<<NoFiles, NoFiles>>,
   <<One(1, <<SearchLine(<<Updates, BuiltIn>>)>>), One(1, <<SearchLine(<<Extra>>)>>)>>,
   <<One(2, <<SearchLine(<<Extra, Updates>>), Bad>>), One(1, <<SearchLine(<<BuiltIn>>)>>)>>,
   <<One(2, <<OverrideLine("a", TRUE, Extra), OverrideLine("a", FALSE, Updates)>>),
     One(1, <<SearchLine(<<BuiltIn, Updates, Extra>>), OverrideLine("b", TRUE, Kernel)>>) @@ One(2, <<Bad>>)>>}

MCOrders == {NoOrder, Corrupted, <<Kernel \o <<"/", "c">>, Kernel \o <<"/", "a">>>>,
             <<Extra2 \o <<"/", "b">>, Kernel \o <<"/", "z">>, Kernel \o <<"/", "c">>>>}

MCExports == [a |-> <<"s", "t">>, b |-> <<"t">>, c |-> <<>>]
MCNeeds   == [a |-> <<"k">>, b |-> <<"s", "k", "x">>, c |-> <<"t", "s">>]
=============================================================================
