------------------------------ MODULE KmodHash ------------------------------
(***************************************************************************)
(* The hash table of libkmod (libkmod-hash.c): an array of buckets, each a *)
(* sorted array of entries that grows and shrinks by whole steps, searched *)
(* by bisection.                                                           *)
(*                                                                         *)
(* A key is a natural number, and strcmp the order of the numbers.  The    *)
(* table copies neither keys nor values: an entry points at a value and at *)
(* a key, and the string of the key may be part of the value itself (a     *)
(* module that depmod found, an exported symbol).                          *)
(***************************************************************************)
EXTENDS Integers, SequencesExt

CONSTANTS
  HashKey,     \* strings, as the naturals of their strcmp order
  Value,       \* objects that are put in the table
  NoValue,     \* NULL, what hash_find returns of a key that is not there
  NBuckets,    \* hash->n_buckets
  HashOf,      \* HashOf[k] is hash_superfast(k) % n_buckets
  FreeValue,   \* whether hash->free_value is set
  Adds         \* the functions the user adds with: "add", "add_unique"

ASSUME KeyType == HashKey \subseteq Nat
ASSUME NoValueType == NoValue \notin Value
ASSUME BucketsType == NBuckets \in Nat \ {0} /\ HashOf \in [HashKey -> 0..NBuckets-1]

VARIABLES
  bucket,  \* hash->buckets: the used entries of each, and its total
  count,   \* hash->count
  live,    \* values that are allocated
  iter,    \* struct hash_iter, and the values it has returned
  ret      \* what the last call returned

hashVars == <<bucket, count, live, iter, ret>>

Bucket == 0..NBuckets-1

\* hash->step
Step == LET s == NBuckets \div 32
        IN  IF s = 0 THEN 4 ELSE IF s > 64 THEN 64 ELSE s

EmptyBucket == [entries |-> <<>>, total |-> 0]
NoIter == [bucket |-> NBuckets, entry |-> 0, seen |-> <<>>]

Used(b) == Len(b.entries)

----------------------------------------------------------------------------
\* bsearch (libc): the index of the entry with key k, 0 if it is not found
BSearch(es, k) ==
  LET between[r \in (0..Len(es)) \X (0..Len(es))] ==
        LET m == (r[1] + r[2]) \div 2
        IN  IF r[1] >= r[2] THEN 0
            ELSE IF es[m+1].key = k THEN m + 1
            ELSE between[IF k < es[m+1].key THEN <<r[1], m>> ELSE <<m + 1, r[2]>>]
  IN  between[<<0, Len(es)>>]

\* The scan of hash_add: the first entry whose key is not smaller, 0 if none
Scan(es, k) == SelectInSeq(es, LAMBDA e : k <= e.key)

Found(es, k) == LET i == Scan(es, k) IN i # 0 /\ es[i].key = k

\* The room made before an entry is added.
Grow(b) == [b EXCEPT !.total = IF Used(b) + 1 >= @ THEN @ + Step ELSE @]

\* realloc may fail only when it is called.
NoMem(b) == Used(b) + 1 >= b.total

\* Mutant of Insert: the entry is always put at the end.
InsertLast(b, k, v) ==
  [b EXCEPT !.entries = Append(@, [key |-> k, value |-> v])]

\* The new entry in its place among the used ones.
Insert(b, k, v) ==
  LET i == Scan(b.entries, k)
      e == [key |-> k, value |-> v]
  IN  [b EXCEPT !.entries = IF i = 0 THEN Append(@, e) ELSE InsertAt(@, i, e)]

\* Mutant of Shrink: no room is left for the entries in use.
ShrinkTight(b) ==
  LET u == Used(b) \div Step
  IN  IF u < b.total \div Step THEN [b EXCEPT !.total = u * Step] ELSE b

\* The room given back after an entry is removed.
Shrink(b) ==
  LET u == Used(b) \div Step
  IN  IF u + 1 < b.total \div Step THEN [b EXCEPT !.total = (u + 1) * Step] ELSE b

\* The entries of all buckets
Pairs == UNION {ToSet(bucket[p].entries) : p \in Bucket}
AllValues == {e.value : e \in Pairs}

----------------------------------------------------------------------------
(* Calls of the user.  Nobody changes a table while iterating over it.     *)

NotIterating == iter.bucket >= NBuckets

\* hash_add has no memory to grow the bucket; the user frees the value.
AddNoMem(k, v) ==
  /\ NotIterating /\ v \notin live
  /\ NoMem(bucket[HashOf[k]])
  /\ ret' = "ENOMEM"
  /\ UNCHANGED <<bucket, count, live, iter>>

\* hash_add and hash_add_unique of a key that is not in the table
AddNewEntry(k, v) ==
  LET p == HashOf[k] IN
  /\ NotIterating /\ v \notin live
  /\ ~Found(bucket[p].entries, k)
  /\ bucket' = [bucket EXCEPT ![p] = Insert(Grow(@), k, v)]
  /\ count' = count + 1
  /\ live' = live \cup {v}
  /\ ret' = "0"
  /\ iter' = NoIter

\* Mutant of AddReplace: the value that is replaced is not freed.
AddReplaceLeak(k, v) ==
  LET p == HashOf[k]
      i == Scan(bucket[p].entries, k) IN
  /\ "add" \in Adds
  /\ NotIterating /\ v \notin live
  /\ Found(bucket[p].entries, k)
  /\ bucket' = [bucket EXCEPT ![p] = [Grow(@) EXCEPT !.entries[i].value = v]]
  /\ live' = live \cup {v}
  /\ ret' = "0"
  /\ iter' = NoIter
  /\ UNCHANGED count

\* hash_add of a key that exists: the old value is freed and the new one takes
\* its place in the entry, whose key pointer stays.
AddReplace(k, v) ==
  LET p == HashOf[k]
      i == Scan(bucket[p].entries, k) IN
  /\ "add" \in Adds
  /\ NotIterating /\ v \notin live
  /\ Found(bucket[p].entries, k)
  /\ bucket' = [bucket EXCEPT ![p] = [Grow(@) EXCEPT !.entries[i].value = v]]
  /\ live' = (IF FreeValue THEN live \ {bucket[p].entries[i].value} ELSE live) \cup {v}
  /\ ret' = "0"
  /\ iter' = NoIter
  /\ UNCHANGED count

AddExists(k, v) ==
  LET p == HashOf[k] IN
  /\ "add_unique" \in Adds
  /\ NotIterating /\ v \notin live
  /\ Found(bucket[p].entries, k)
  /\ bucket' = [bucket EXCEPT ![p] = Grow(@)]
  /\ ret' = "EEXIST"
  /\ UNCHANGED <<count, live, iter>>

\* hash_find
Find(k) ==
  LET b == bucket[HashOf[k]]
      i == BSearch(b.entries, k) IN
  /\ ret' = IF i = 0 THEN NoValue ELSE b.entries[i].value
  /\ UNCHANGED <<bucket, count, live, iter>>

\* hash_del; the memory that is no longer needed is given back unless realloc
\* fails.  A value that the table does not free is freed by its owner.
Del(k) ==
  LET p == HashOf[k]
      b == bucket[p]
      i == BSearch(b.entries, k)
      left == [b EXCEPT !.entries = RemoveAt(@, i)] IN
  /\ NotIterating /\ i # 0
  /\ \E after \in {left, Shrink(left)} : bucket' = [bucket EXCEPT ![p] = after]
  /\ count' = count - 1
  /\ live' = live \ {b.entries[i].value}
  /\ ret' = "0"
  /\ iter' = NoIter

\* hash_del of a key that is not in the table
DelMissing(k) ==
  /\ NotIterating /\ BSearch(bucket[HashOf[k]].entries, k) = 0
  /\ ret' = "ENOENT"
  /\ UNCHANGED <<bucket, count, live, iter>>

\* hash_free: every value is freed, by the table or by its owner.  The model
\* goes on with the table that hash_new makes for the next user.
Free ==
  /\ NotIterating
  /\ bucket' = [p \in Bucket |-> EmptyBucket]
  /\ count' = 0
  /\ live' = live \ AllValues
  /\ ret' = "0"
  /\ iter' = NoIter

\* hash_iter_init: iter->entry is the unsigned -1 that the next call increments
\* to 0.
IterInit ==
  /\ NotIterating
  /\ iter' = [bucket |-> 0, entry |-> -1, seen |-> <<>>]
  /\ UNCHANGED <<bucket, count, live, ret>>

\* The first bucket after p that is not empty; NBuckets when there is none
NextBucket(p) ==
  CHOOSE q \in p+1..NBuckets :
    /\ q = NBuckets \/ Used(bucket[q]) > 0
    /\ \A r \in p+1..q-1 : Used(bucket[r]) = 0

\* Mutant of IterNext: the entry is not reset when the bucket changes.
IterNextNoReset ==
  LET e == iter.entry + 1
      more == e < Used(bucket[iter.bucket])
      q == IF more THEN iter.bucket ELSE NextBucket(iter.bucket)
      at == e IN
  /\ ~NotIterating
  /\ iter' = [bucket |-> q, entry |-> at,
              seen |-> IF q < NBuckets /\ at < Used(bucket[q])
                       THEN Append(iter.seen, bucket[q].entries[at+1].value)
                       ELSE iter.seen]
  /\ UNCHANGED <<bucket, count, live, ret>>

\* hash_iter_next
IterNext ==
  LET e == iter.entry + 1
      more == e < Used(bucket[iter.bucket])
      q == IF more THEN iter.bucket ELSE NextBucket(iter.bucket)
      at == IF more THEN e ELSE 0 IN
  /\ ~NotIterating
  /\ iter' = [bucket |-> q, entry |-> at,
              seen |-> IF q < NBuckets
                       THEN Append(iter.seen, bucket[q].entries[at+1].value)
                       ELSE iter.seen]
  /\ UNCHANGED <<bucket, count, live, ret>>

----------------------------------------------------------------------------
\* hash_new
HashInit ==
  /\ bucket = [p \in Bucket |-> EmptyBucket]
  /\ count = 0 /\ live = {} /\ iter = NoIter /\ ret = "0"

HashNext ==
  \/ \E k \in HashKey :
       \/ \E v \in Value : AddNoMem(k, v) \/ AddNewEntry(k, v)
                             \/ AddReplace(k, v) \/ AddExists(k, v)
       \/ Find(k) \/ Del(k) \/ DelMissing(k)
  \/ Free \/ IterInit \/ IterNext

HashSpec == HashInit /\ [][HashNext]_hashVars

----------------------------------------------------------------------------
(* Properties.                                                             *)

\* hash_del moves one entry more than it has to, the slot after the last used
\* one: it must be a part of the bucket's array, after any number of additions
\* and removals and whether or not realloc gave memory back.
Slack == \A p \in Bucket : LET b == bucket[p] IN Used(b) < b.total \/ (Used(b) = 0 /\ b.total = 0)

\* Memory of values: what is in the table is allocated, and a table that frees
\* its values leaves none behind when it replaces, removes or is freed.
ValuesOwned ==
  /\ AllValues \subseteq live
  /\ FreeValue => live = AllValues

\* The table does not change while it is iterated over, and what an iteration
\* returns before it ends is each value of the table once.
IterComplete ==
  /\ ToSet(iter.seen) \subseteq AllValues
  /\ Cardinality(ToSet(iter.seen)) = Len(iter.seen)
  /\ NotIterating /\ iter # NoIter => ToSet(iter.seen) = AllValues

\* The pairs that exist in the hash
AsMap(es) == [k \in {e.key : e \in es} |-> (CHOOSE e \in es : e.key = k).value]
Contents == AsMap(Pairs)

\* The table is the map that its header promises, through bisection, shifting
\* and resizing.
Map == INSTANCE KmodMap WITH map <- Contents, Key <- HashKey
IsAMap == Map!Spec
=============================================================================
