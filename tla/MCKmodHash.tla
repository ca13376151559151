----------------------------- MODULE MCKmodHash -----------------------------
(***************************************************************************)
(* Two buckets, step 4.  Four of the keys share a bucket, so that it grows *)
(* to two steps and shrinks again.                                         *)
(***************************************************************************)
EXTENDS KmodHash

MCKey == 1..5
MCHashOf == [k \in MCKey |-> IF k = 3 THEN 1 ELSE 0]
AddOrReplace == {"add", "add_unique"}
=============================================================================
