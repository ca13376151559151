------------------------------- MODULE Loops -------------------------------
(***************************************************************************)
(* Loops over a list or an array of modules.                               *)
(***************************************************************************)
EXTENDS Integers, Sequences

\* call[t][m] is what the body of the loop makes of the state t for the module m.
ForEach(call, s, mods) ==
  LET after[i \in 0..Len(mods)] == IF i = 0 THEN s ELSE call[after[i-1]][mods[i]]
  IN  after[Len(mods)]
=============================================================================
