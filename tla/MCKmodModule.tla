---------------------------- MODULE MCKmodModule ----------------------------
(***************************************************************************)
(* Small instances of KmodModule.  In the first, a depends on b and c, b   *)
(* on c, and "ax" is the key of the object made for an alias x of a.       *)
(***************************************************************************)
EXTENDS KmodModule

MCKey == {"a", "b", "c", "ax"}
MCModOf == [k \in MCKey |-> IF k = "ax" THEN "a" ELSE k]
MCDepLine == [k \in MCKey |-> CASE k = "a" -> {"b", "c"}
                                [] k = "b" -> {"c"}
                                [] OTHER -> {}]
MCMaxHeld == [k \in MCKey |-> IF k \in {"a", "b"} THEN 2 ELSE 1]
AllIndexed == {"a", "b", "c"}
AllFiles == {"a", "b", "c"}

=============================================================================
