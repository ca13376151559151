--------------------------- MODULE MCModuleIndex ---------------------------
(***************************************************************************)
(* Characters * ? [ ] a b, and keys whose common parts end everywhere.     *)
(***************************************************************************)
EXTENDS ModuleIndex

a == 5
b == 6

Strings(S, n) == UNION {[1..k -> S] : k \in 0..n}
MCSearched == Strings({a, b}, 3)

\* Every key of up to two characters with *, longer ones, and the other patterns
MCKeys ==
  Strings({Star, a, b}, 2)
    \cup {<<a, a, b>>, <<a, a, Star>>, <<a, Star, b>>, <<b, a, b>>, <<a, Quest>>, <<Quest, b, a>>,
          <<a, Open, a, Close>>, <<Open, b, a, Close, Star>>}
=============================================================================
