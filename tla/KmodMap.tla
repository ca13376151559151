------------------------------ MODULE KmodMap ------------------------------
(***************************************************************************)
(* What libkmod-hash.h promises: a map from keys to values.  KmodHash      *)
(* implements it.                                                          *)
(***************************************************************************)
EXTENDS Functions

CONSTANTS Key, Value, NoValue

VARIABLES
  map,   \* the pairs that exist in the hash
  ret    \* what the last call returned

Errors == {"0", "ENOMEM", "EEXIST", "ENOENT"}

\* hash_new
Init == map = [k \in {} |-> NoValue] /\ ret = "0"

Fail(e) == ret' = e /\ UNCHANGED map

With(k, v) == [j \in DOMAIN map \cup {k} |-> IF j = k THEN v ELSE map[j]]

\* hash_add: add or replace
Put(k, v) ==
  \/ map' = With(k, v) /\ ret' = "0"
  \/ Fail("ENOMEM")

\* hash_add_unique: fails if key already exists
PutNew(k, v) ==
  \/ k \notin DOMAIN map /\ map' = With(k, v) /\ ret' = "0"
  \/ k \in DOMAIN map /\ Fail("EEXIST")
  \/ Fail("ENOMEM")

\* hash_del
Remove(k) ==
  \/ k \in DOMAIN map /\ map' = Restrict(map, DOMAIN map \ {k}) /\ ret' = "0"
  \/ k \notin DOMAIN map /\ Fail("ENOENT")

\* hash_find
Get(k) ==
  /\ ret' = IF k \in DOMAIN map THEN map[k] ELSE NoValue
  /\ UNCHANGED map

\* hash_free, and a new table for the next user
Clear == map' = [k \in {} |-> NoValue] /\ ret' = "0"

Next ==
  \/ \E k \in Key : Remove(k) \/ Get(k) \/ \E v \in Value : Put(k, v) \/ PutNew(k, v)
  \/ Clear

Spec == Init /\ [][Next]_<<map, ret>>
=============================================================================
