--------------------------- MODULE KmodLookupProof ---------------------------
(***************************************************************************)
(* The lists of libkmod, its arrays, and the lists of a configuration and  *)
(* of its lookups.                                                         *)
(***************************************************************************)
EXTENDS KmodLookup, KmodArray, SequenceTheorems, FiniteSetTheorems, WellFoundedInduction, TLAPS

----------------------------------------------------------------------------
(***************************************************************************)
(* Lists.  The operations keep every node its neighbours' neighbour,       *)
(* whatever lists are on the heap.                                         *)
(***************************************************************************)

\* A heap of linked nodes at the addresses D, with data of T
Heap(hp, D, T) ==
  /\ hp \in [D -> [next : D, prev : D, data : T]]
  /\ NULL \notin D
  /\ \A m \in D : hp[hp[m].next].prev = m /\ hp[hp[m].prev].next = m

\* The links of a heap g, which is hp with a node more, one less, or two lists joined
Starts(hp, D, n, g) == \A m \in D \cup {n} : g[m].next = IF m = n THEN n ELSE hp[m].next
Inserts(hp, D, head, n, g) ==
  \A m \in D \cup {n} : g[m].next = IF m = n THEN head ELSE IF m = hp[head].prev THEN n ELSE hp[m].next
Joins(hp, D, list1, list2, g) ==
  \A m \in D : g[m].next = IF m = hp[list2].prev THEN list1 ELSE IF m = hp[list1].prev THEN list2 ELSE hp[m].next
Removes(hp, D, n, g) ==
  \A m \in D \ {n} : g[m].next = IF m = hp[n].prev THEN hp[n].next ELSE hp[m].next

\* What is left of a list without its node n
Left(hp, n) == IF hp[n].next = n THEN NULL ELSE hp[n].next

\* A list alone: the new node is its own neighbour, and no other node changes.
LEMMA InitHeap ==
  ASSUME NEW D, NEW T, NEW hp, Heap(hp, D, T), NEW n, n \notin D, n # NULL, NEW data \in T
  PROVE  LET g == list_node_init(hp, n, data) IN Heap(g, D \cup {n}, T) /\ Starts(hp, D, n, g)
BY DEF Heap, list_node_init, Alloc, Starts

\* A new node at the end of a list, or before any of its nodes.
LEMMA AppendHeap ==
  ASSUME NEW D, NEW T, NEW hp, Heap(hp, D, T), NEW head \in D, NEW n, n \notin D, n # NULL, NEW data \in T
  PROVE  LET g == list_node_append(hp, head, n, data) IN Heap(g, D \cup {n}, T) /\ Inserts(hp, D, head, n, g)
<1> DEFINE p == hp[head].prev
           h1 == [hp EXCEPT ![p].next = n]
           h2 == [h1 EXCEPT ![head].prev = n]
           g == list_node_append(hp, head, n, data)
           Node == [next : D \cup {n}, prev : D \cup {n}, data : T]
<1>1. p \in D /\ hp[p].next = head BY DEF Heap
<1>2. h1 \in [D -> Node] /\ \A m \in D : /\ h1[m].next = IF m = p THEN n ELSE hp[m].next
                                         /\ h1[m].prev = hp[m].prev
  BY <1>1 DEF Heap
<1>3. h2 \in [D -> Node] /\ \A m \in D : /\ h2[m].next = h1[m].next
                                         /\ h2[m].prev = IF m = head THEN n ELSE h1[m].prev
  <2> HIDE DEF h1
  <2> QED BY <1>2
<1>4. g = [m \in D \cup {n} |-> IF m = n THEN [next |-> head, prev |-> p, data |-> data] ELSE h2[m]]
  BY <1>3 DEF list_node_append, Alloc
<1>5. g \in [D \cup {n} -> Node]
  <2> HIDE DEF h2, p
  <2> QED BY <1>1, <1>3, <1>4
<1>6. /\ g[n].next = head /\ g[n].prev = p
      /\ \A m \in D : /\ g[m].next = IF m = p THEN n ELSE hp[m].next
                      /\ g[m].prev = IF m = head THEN n ELSE hp[m].prev
  <2> HIDE DEF h1, h2, p, g
  <2> QED BY <1>2, <1>3, <1>4
<1>7. \A m \in D \cup {n} : g[g[m].next].prev = m /\ g[g[m].prev].next = m
  <2> HIDE DEF g
  <2> QED BY SMTT(30), <1>1, <1>6 DEF Heap
<1>8. Inserts(hp, D, head, n, g)
  <2>1. p = hp[head].prev OBVIOUS
  <2> HIDE DEF g, p
  <2> QED BY <1>6, <2>1 DEF Inserts
<1>9. Heap(g, D \cup {n}, T)
  <2> HIDE DEF g
  <2> QED BY <1>5, <1>7 DEF Heap
<1> HIDE DEF g
<1> QED BY <1>8, <1>9 DEF g

\* A new node after a node of a list.
LEMMA InsertAfterHeap ==
  ASSUME NEW D, NEW T, NEW hp, Heap(hp, D, T), NEW head \in D, NEW n, n \notin D, n # NULL, NEW data \in T
  PROVE  Heap(list_node_insert_after(hp, head, n, data), D \cup {n}, T)
<1> DEFINE p == hp[head].next
           h1 == [hp EXCEPT ![p].prev = n]
           h2 == [h1 EXCEPT ![head].next = n]
           g == list_node_insert_after(hp, head, n, data)
           Node == [next : D \cup {n}, prev : D \cup {n}, data : T]
<1>1. p \in D /\ hp[p].prev = head BY DEF Heap
<1>2. h1 \in [D -> Node] /\ \A m \in D : /\ h1[m].prev = IF m = p THEN n ELSE hp[m].prev
                                         /\ h1[m].next = hp[m].next
  BY <1>1 DEF Heap
<1>3. h2 \in [D -> Node] /\ \A m \in D : /\ h2[m].prev = h1[m].prev
                                         /\ h2[m].next = IF m = head THEN n ELSE h1[m].next
  <2> HIDE DEF h1
  <2> QED BY <1>2
<1>4. g = [m \in D \cup {n} |-> IF m = n THEN [next |-> p, prev |-> head, data |-> data] ELSE h2[m]]
  BY <1>3 DEF list_node_insert_after, Alloc
<1>5. g \in [D \cup {n} -> Node]
  <2> HIDE DEF h2, p
  <2> QED BY <1>1, <1>3, <1>4
<1>6. /\ g[n].prev = head /\ g[n].next = p
      /\ \A m \in D : /\ g[m].prev = IF m = p THEN n ELSE hp[m].prev
                      /\ g[m].next = IF m = head THEN n ELSE hp[m].next
  <2> HIDE DEF h1, h2, p, g
  <2> QED BY <1>2, <1>3, <1>4
<1>7. \A m \in D \cup {n} : g[g[m].next].prev = m /\ g[g[m].prev].next = m
  <2> HIDE DEF g
  <2> QED BY SMTT(30), <1>1, <1>6 DEF Heap
<1> QED BY <1>5, <1>7 DEF Heap

\* One next link is changed.
LEMMA SetNext ==
  ASSUME NEW D, NEW T, NEW k \in [D -> [next : D, prev : D, data : T]], NEW a \in D, NEW b \in D,
         NEW g, g = [k EXCEPT ![a].next = b]
  PROVE  /\ g \in [D -> [next : D, prev : D, data : T]]
         /\ \A m \in D : g[m].next = (IF m = a THEN b ELSE k[m].next) /\ g[m].prev = k[m].prev
OBVIOUS

\* One prev link is changed.
LEMMA SetPrev ==
  ASSUME NEW D, NEW T, NEW k \in [D -> [next : D, prev : D, data : T]], NEW a \in D, NEW b \in D,
         NEW g, g = [k EXCEPT ![a].prev = b]
  PROVE  /\ g \in [D -> [next : D, prev : D, data : T]]
         /\ \A m \in D : g[m].prev = (IF m = a THEN b ELSE k[m].prev) /\ g[m].next = k[m].next
OBVIOUS

\* Two lists become one; lists of one node are no exception, and two nodes of one list
\* part it in two.
LEMMA AppendListHeap ==
  ASSUME NEW D, NEW T, NEW hp, Heap(hp, D, T), NEW list1 \in D, NEW list2 \in D
  PROVE  LET g == list_node_append_list(hp, list1, list2) IN Heap(g, D, T) /\ Joins(hp, D, list1, list2, g)
<1> DEFINE Node == [next : D, prev : D, data : T]
           l1 == hp[list1].prev
           l2 == hp[list2].prev
           h1 == [hp EXCEPT ![l1].next = list2]
           h2 == [h1 EXCEPT ![l2].next = list1]
           h3 == [h2 EXCEPT ![list1].prev = l2]
           g == [h3 EXCEPT ![list2].prev = l1]
<1>1. /\ l1 \in D /\ hp[l1].next = list1
      /\ l2 \in D /\ hp[l2].next = list2
  BY DEF Heap
<1>2. h1 \in [D -> Node] /\ \A m \in D : /\ h1[m].next = IF m = l1 THEN list2 ELSE hp[m].next
                                         /\ h1[m].prev = hp[m].prev
  <2>1. h1 = [hp EXCEPT ![l1].next = list2] OBVIOUS
  <2>2. hp \in [D -> Node] BY DEF Heap
  <2> HIDE DEF h1, h2, h3, g, l1, l2
  <2> QED BY SMTT(30), <1>1, <2>1, <2>2, SetNext
<1>3. h2 \in [D -> Node] /\ \A m \in D : /\ h2[m].next = IF m = l2 THEN list1 ELSE h1[m].next
                                         /\ h2[m].prev = h1[m].prev
  <2>1. h2 = [h1 EXCEPT ![l2].next = list1] OBVIOUS
  <2>2. h1 \in [D -> Node] BY <1>2
  <2> HIDE DEF h1, h2, h3, g, l1, l2
  <2> QED BY <1>1, <2>1, <2>2, SetNext
<1>4. h3 \in [D -> Node] /\ \A m \in D : /\ h3[m].prev = IF m = list1 THEN l2 ELSE h2[m].prev
                                         /\ h3[m].next = h2[m].next
  <2>1. h3 = [h2 EXCEPT ![list1].prev = l2] OBVIOUS
  <2>2. h2 \in [D -> Node] BY <1>3
  <2> HIDE DEF h1, h2, h3, g, l1, l2
  <2> QED BY <1>1, <2>1, <2>2, SetPrev
<1>5. g \in [D -> Node] /\ \A m \in D : /\ g[m].prev = IF m = list2 THEN l1 ELSE h3[m].prev
                                        /\ g[m].next = h3[m].next
  <2>1. g = [h3 EXCEPT ![list2].prev = l1] OBVIOUS
  <2>2. h3 \in [D -> Node] BY <1>4
  <2> HIDE DEF h1, h2, h3, g, l1, l2
  <2> QED BY SMTT(30), <1>1, <2>1, <2>2, SetPrev
<1>6. \A m \in D : /\ g[m].next = IF m = l2 THEN list1 ELSE IF m = l1 THEN list2 ELSE hp[m].next
                  /\ g[m].prev = IF m = list2 THEN l1 ELSE IF m = list1 THEN l2 ELSE hp[m].prev
  <2> HIDE DEF h1, h2, h3, g, l1, l2, Node
  <2> QED BY <1>2, <1>3, <1>4, <1>5
<1>7. \A m \in D : g[g[m].next].prev = m /\ g[g[m].prev].next = m
  <2>1. \A m \in D : hp[m].next \in D /\ hp[m].prev \in D /\ hp[hp[m].next].prev = m /\ hp[hp[m].prev].next = m
    BY DEF Heap
  <2>2. l1 = hp[list1].prev /\ l2 = hp[list2].prev OBVIOUS
  <2> HIDE DEF g, l1, l2
  <2> QED BY SMTT(30), <1>1, <1>6, <2>1, <2>2
<1>8. g = list_node_append_list(hp, list1, list2) BY DEF list_node_append_list
<1>9. Joins(hp, D, list1, list2, g)
  <2> HIDE DEF g, h1, h2, h3
  <2> QED BY <1>6 DEF Joins
<1> HIDE DEF g
<1> QED BY <1>5, <1>7, <1>8, <1>9 DEF Heap

\* A node is taken out and freed; what is left of its list is on the heap.
LEMMA RemoveHeap ==
  ASSUME NEW D, NEW T, NEW hp, Heap(hp, D, T), NEW n \in D, NEW r, r = list_node_remove(hp, n)
  PROVE  /\ Heap(r.heap, D \ {n}, T) /\ Removes(hp, D, n, r.heap)
         /\ r.list \in (D \ {n}) \cup {NULL} /\ r.list = Left(hp, n)
<1> DEFINE p == hp[n].prev
           q == hp[n].next
           Node == [next : D, prev : D, data : T]
<1>1. /\ p \in D /\ q \in D /\ hp[p].next = n /\ hp[q].prev = n
      /\ \A m \in D : hp[m].next \in D /\ hp[m].prev \in D /\ hp[hp[m].next].prev = m /\ hp[hp[m].prev].next = m
  BY DEF Heap
<1>2. CASE p = n \/ q = n
  <2>1. r = [heap |-> Dealloc(hp, n), list |-> NULL]
    BY <1>2 DEF list_node_remove
  <2>2. p = n /\ q = n BY <1>1, <1>2
  <2>3. \A m \in D \ {n} : hp[m].next # n /\ hp[m].prev # n BY <1>1, <2>2
  <2>4. Dealloc(hp, n) \in [D \ {n} -> [next : D \ {n}, prev : D \ {n}, data : T]]
    BY <2>3 DEF Heap, Dealloc
  <2>5. Removes(hp, D, n, Dealloc(hp, n))
    BY <2>2 DEF Heap, Dealloc, Removes
  <2>6. Heap(Dealloc(hp, n), D \ {n}, T)
    BY <1>1, <2>3, <2>4 DEF Heap, Dealloc
  <2> QED BY <2>1, <2>2, <2>5, <2>6 DEF Left
<1>3. CASE p # n /\ q # n
  <2> DEFINE h1 == [hp EXCEPT ![p].next = q]
             h2 == [h1 EXCEPT ![q].prev = p]
             g == Dealloc(h2, n)
  <2>1. r = [heap |-> g, list |-> q]
    BY <1>3 DEF list_node_remove
  <2>2. h1 \in [D -> Node] /\ \A m \in D : /\ h1[m].next = IF m = p THEN q ELSE hp[m].next
                                           /\ h1[m].prev = hp[m].prev
    <3>1. h1 = [hp EXCEPT ![p].next = q] OBVIOUS
    <3>2. hp \in [D -> Node] BY DEF Heap
    <3>3. p \in D /\ q \in D BY <1>1
    <3> HIDE DEF h1, h2, g, p, q
    <3> QED BY <3>3, <3>1, <3>2, SetNext
  <2>3. h2 \in [D -> Node] /\ \A m \in D : /\ h2[m].prev = IF m = q THEN p ELSE h1[m].prev
                                           /\ h2[m].next = h1[m].next
    <3>1. h2 = [h1 EXCEPT ![q].prev = p] OBVIOUS
    <3>2. h1 \in [D -> Node] BY <2>2
    <3>3. p \in D /\ q \in D BY <1>1
    <3> HIDE DEF h1, h2, g, p, q
    <3> QED BY SMTT(30), <3>1, <3>2, <3>3, SetPrev
  <2>4. \A m \in D \ {n} : /\ h2[m].next = IF m = p THEN q ELSE hp[m].next
                           /\ h2[m].prev = IF m = q THEN p ELSE hp[m].prev
    <3> HIDE DEF h1, h2, p, q
    <3> QED BY <2>2, <2>3
  <2>5. g = [m \in D \ {n} |-> h2[m]] BY <2>3 DEF Dealloc
  <2>6. \A m \in D \ {n} : h2[m].next \in D \ {n} /\ h2[m].prev \in D \ {n}
    <3>1. p = hp[n].prev /\ q = hp[n].next OBVIOUS
    <3> HIDE DEF h2, p, q
    <3> QED BY <1>1, <1>3, <2>4, <3>1
  <2>7. g \in [D \ {n} -> [next : D \ {n}, prev : D \ {n}, data : T]]
    <3>1. \A m \in D \ {n} : h2[m] \in [next : D \ {n}, prev : D \ {n}, data : T]
      <4> HIDE DEF h2
      <4> QED BY <2>3, <2>6
    <3> HIDE DEF g, h2
    <3> QED BY <2>5, <3>1
  <2>8. \A m \in D \ {n} : g[g[m].next].prev = m /\ g[g[m].prev].next = m
    <3>1. p = hp[n].prev /\ q = hp[n].next OBVIOUS
    <3> HIDE DEF g, h2, p, q
    <3> QED BY SMTT(30), <1>1, <1>3, <2>4, <2>5, <2>6, <3>1
  <2>9. Heap(g, D \ {n}, T)
    <3> HIDE DEF g
    <3> QED BY <2>7, <2>8 DEF Heap
  <2>10. Removes(hp, D, n, g)
    <3>1. p = hp[n].prev /\ q = hp[n].next OBVIOUS
    <3> HIDE DEF g, h2, p, q
    <3> QED BY <2>4, <2>5, <3>1 DEF Removes
  <2> HIDE DEF g, h1, h2
  <2> QED BY <1>1, <1>3, <2>1, <2>9, <2>10 DEF Left
<1> QED BY <1>2, <1>3

----------------------------------------------------------------------------
(* The functions of the library                                            *)

\* There is always an address that is free.
LEMMA FreeAddress ==
  ASSUME NEW hp, IsFiniteSet(DOMAIN hp)
  PROVE  Free(hp) \in Nat /\ Free(hp) \notin DOMAIN hp /\ Free(hp) # NULL
<1> DEFINE D == DOMAIN hp
           I == 1..Cardinality(D) + 1
<1>1. Cardinality(D) \in Nat BY FS_CardinalityType
<1>2. IsFiniteSet(I) /\ Cardinality(I) = Cardinality(D) + 1
  <2>1. Cardinality(D) + 1 \in Int BY <1>1
  <2> HIDE DEF D
  <2> QED BY <1>1, <2>1, FS_Interval
<1>3. ~(I \subseteq D)
  <2>1. ASSUME I \subseteq D PROVE Cardinality(I) <= Cardinality(D) BY <2>1, FS_Subset
  <2> HIDE DEF I, D
  <2> QED BY <1>1, <1>2, <2>1
<1>4. \E n \in I : n \notin D BY <1>3
<1>5. Free(hp) \in I /\ Free(hp) \notin D BY <1>4 DEF Free
<1> QED BY <1>1, <1>5 DEF NULL

\* Every function that inserts into a list, a list that may be empty, joins two lists or
\* removes a node leaves a heap of linked nodes, and gives a list that is on it or empty:
\* no order of insertions, joins and removals can break a list or leave a dangling one.
THEOREM ListsStayWhole ==
  ASSUME NEW D, IsFiniteSet(D), NEW T, NEW hp, Heap(hp, D, T), NEW head \in D \cup {NULL}, NEW data \in T
  PROVE  /\ LET r == kmod_list_append(hp, head, data)
            IN  Heap(r.heap, D \cup {Free(hp)}, T) /\ r.list \in D \cup {Free(hp)}
         /\ LET r == kmod_list_prepend(hp, head, data)
            IN  Heap(r.heap, D \cup {Free(hp)}, T) /\ r.list \in D \cup {Free(hp)}
         /\ LET r == kmod_list_insert_before(hp, head, data)
            IN  Heap(r.heap, D \cup {Free(hp)}, T) /\ r.list \in D \cup {Free(hp)}
         /\ LET r == kmod_list_insert_after(hp, head, data)
            IN  Heap(r.heap, D \cup {Free(hp)}, T) /\ r.list \in D \cup {Free(hp)}
         /\ \A list2 \in D \cup {NULL} :
              LET r == kmod_list_append_list(hp, head, list2) IN Heap(r.heap, D, T) /\ r.list \in D \cup {NULL}
         /\ LET r == kmod_list_remove(hp, head)
            IN  Heap(r.heap, D \ {head}, T) /\ r.list \in (D \ {head}) \cup {NULL}
<1> DEFINE n == Free(hp)
<1>1. DOMAIN hp = D BY DEF Heap
<1>2. n \notin D /\ n # NULL BY <1>1, FreeAddress
<1>3. Heap(list_node_init(hp, n, data), D \cup {n}, T) BY <1>2, InitHeap
<1>4. ASSUME head \in D
      PROVE  /\ Heap(list_node_append(hp, head, n, data), D \cup {n}, T)
             /\ Heap(list_node_insert_after(hp, head, n, data), D \cup {n}, T)
  BY <1>2, <1>4, AppendHeap, InsertAfterHeap
<1>5. \A l1 \in D, l2 \in D : Heap(list_node_append_list(hp, l1, l2), D, T)
  BY AppendListHeap
<1>6. ASSUME head \in D
      PROVE  /\ Heap(list_node_remove(hp, head).heap, D \ {head}, T)
             /\ list_node_remove(hp, head).list \in (D \ {head}) \cup {NULL}
  BY <1>6, RemoveHeap
<1>7. NULL \notin D BY DEF Heap
<1>8. LET r == kmod_list_append(hp, head, data) IN Heap(r.heap, D \cup {n}, T) /\ r.list \in D \cup {n}
  BY <1>3, <1>4 DEF kmod_list_append
<1>9. LET r == kmod_list_prepend(hp, head, data) IN Heap(r.heap, D \cup {n}, T) /\ r.list \in D \cup {n}
  BY <1>3, <1>4 DEF kmod_list_prepend
<1>10. LET r == kmod_list_insert_before(hp, head, data) IN Heap(r.heap, D \cup {n}, T) /\ r.list \in D \cup {n}
  BY <1>3, <1>4 DEF kmod_list_insert_before
<1>11. LET r == kmod_list_insert_after(hp, head, data) IN Heap(r.heap, D \cup {n}, T) /\ r.list \in D \cup {n}
  BY <1>3, <1>4 DEF kmod_list_insert_after
<1>12. ASSUME NEW list2 \in D \cup {NULL}
       PROVE  LET r == kmod_list_append_list(hp, head, list2) IN Heap(r.heap, D, T) /\ r.list \in D \cup {NULL}
  BY <1>5 DEF kmod_list_append_list
<1>13. LET r == kmod_list_remove(hp, head) IN Heap(r.heap, D \ {head}, T) /\ r.list \in (D \ {head}) \cup {NULL}
  <2>1. CASE head = NULL
    <3>1. D \ {head} = D BY <1>7, <2>1
    <3> QED BY <2>1, <3>1 DEF kmod_list_remove
  <2>2. CASE head \in D BY <1>6, <1>7, <2>2 DEF kmod_list_remove
  <2> QED BY <2>1, <2>2
<1> HIDE DEF n
<1> QED BY <1>8, <1>9, <1>10, <1>11, <1>12, <1>13 DEF n

----------------------------------------------------------------------------
(***************************************************************************)
(* Arrays.  The elements are always in the memory that the array has,      *)
(* however it grows and shrinks, and the operations do to them what is     *)
(* said of them.                                                           *)
(***************************************************************************)

\* An array of elements of T
Arrays(T) == [elements : Seq(T), total : Nat, step : Nat \ {0}]

\* What an array is with other elements, and with another size.
LEMMA Updated ==
  ASSUME NEW T, NEW a \in Arrays(T), NEW s, NEW n
  PROVE  /\ [a EXCEPT !.elements = s] = [elements |-> s, total |-> a.total, step |-> a.step]
         /\ [a EXCEPT !.elements = s, !.total = n] = [elements |-> s, total |-> n, step |-> a.step]
<1>1. a = [elements |-> a.elements, total |-> a.total, step |-> a.step]
  BY DEF Arrays
<1>2. [a EXCEPT !.elements = s] = [elements |-> s, total |-> a.total, step |-> a.step]
  BY <1>1
<1>3. [a EXCEPT !.elements = s, !.total = n] = [elements |-> s, total |-> n, step |-> a.step]
  <2> DEFINE b == [a EXCEPT !.elements = s]
  <2>1. [b EXCEPT !.total = n] = [elements |-> s, total |-> n, step |-> a.step]
    <3>1. b = [elements |-> s, total |-> a.total, step |-> a.step]
      BY <1>2
    <3> HIDE DEF b
    <3> QED BY <3>1
  <2> QED BY <2>1
<1> QED BY <1>2, <1>3

\* A new array has no elements and no memory.
LEMMA InitSound ==
  ASSUME NEW T, NEW step \in Nat \ {0}
  PROVE  ArrayInit(step) \in Arrays(T) /\ Fits(ArrayInit(step))
BY DEF ArrayInit, Arrays, Fits, Count

\* array_append writes into memory that is allocated, and adds its element at the end.
LEMMA AppendSound ==
  ASSUME NEW T, NEW e \in T, NEW a \in Arrays(T), Fits(a)
  PROVE  /\ ArrayAppend(a, e) \in Arrays(T) /\ Fits(ArrayAppend(a, e))
         /\ ArrayAppend(a, e).elements = Append(a.elements, e)
<1> DEFINE s == Append(a.elements, e)
           n == IF Full(a) THEN a.total + a.step ELSE a.total
<1>1. /\ s \in Seq(T) /\ Len(s) = Len(a.elements) + 1 /\ Len(a.elements) \in Nat
      /\ a.total \in Nat /\ a.step \in Nat \ {0} /\ DOMAIN a = {"elements", "total", "step"}
  BY DEF Arrays
<1>2. n \in Nat /\ Len(s) <= n
  BY <1>1 DEF Full, Fits, Count
<1>3. ArrayAppend(a, e) = [elements |-> s, total |-> n, step |-> a.step]
  BY Updated DEF ArrayAppend
<1> HIDE DEF s, n
<1>4. ArrayAppend(a, e) \in Arrays(T) /\ Fits(ArrayAppend(a, e)) /\ ArrayAppend(a, e).elements = s
  BY <1>1, <1>2, <1>3 DEF Arrays, Fits, Count
<1> QED BY <1>4 DEF s

\* array_append_unique leaves an array without duplicates without them.
LEMMA AppendUniqueSound ==
  ASSUME NEW T, NEW e \in T, NEW a \in Arrays(T), Fits(a),
         \A k, j \in 1..Count(a) : a.elements[k] = a.elements[j] => k = j
  PROVE  LET b == ArrayAppendUnique(a, e) IN
         /\ b \in Arrays(T) /\ Fits(b) /\ Has(b, e)
         /\ \A k, j \in 1..Count(b) : b.elements[k] = b.elements[j] => k = j
<1>1. CASE Has(a, e)
  BY <1>1 DEF ArrayAppendUnique
<1>2. CASE ~Has(a, e)
  <2> DEFINE b == ArrayAppend(a, e)
  <2>1. b \in Arrays(T) /\ Fits(b) /\ b.elements = Append(a.elements, e)
    BY AppendSound
  <2>2. Count(b) = Count(a) + 1 /\ Count(a) \in Nat
    BY <2>1 DEF Count, Arrays
  <2>3. /\ \A k \in 1..Count(a) : b.elements[k] = a.elements[k]
        /\ b.elements[Count(a) + 1] = e
    BY <2>1 DEF Count, Arrays
  <2>4. \A k \in 1..Count(a) : a.elements[k] # e
    BY <1>2 DEF Has
  <2>5. \A k, j \in 1..Count(b) : b.elements[k] = b.elements[j] => k = j
    BY <2>2, <2>3, <2>4
  <2>6. Has(b, e)
    BY <2>2, <2>3 DEF Has
  <2> QED BY <1>2, <2>1, <2>5, <2>6 DEF ArrayAppendUnique
<1> QED BY <1>1, <1>2

\* Less memory is still enough.
LEMMA ShrinkSound ==
  ASSUME NEW T, NEW a \in Arrays(T), Fits(a), NEW mem \in BOOLEAN
  PROVE  /\ Shrink(a, mem) \in Arrays(T) /\ Fits(Shrink(a, mem))
         /\ Shrink(a, mem).elements = a.elements
<1>1. Len(a.elements) \in Nat /\ a.total \in Nat /\ a.step \in Nat \ {0}
  BY DEF Arrays
<1> QED BY <1>1 DEF Shrink, Arrays, Fits, Count

\* No order of appends, pops and removals puts an element outside of the memory of the
\* array, whatever its step: arrays grow one element early and shrink with a margin of
\* a step, and the memory that is given back is none that holds an element.
THEOREM ArraysStaySound ==
  ASSUME NEW T, NEW a \in Arrays(T), Fits(a), NEW mem \in BOOLEAN, NEW pos \in Nat
  PROVE  /\ \A e \in T : /\ ArrayAppend(a, e) \in Arrays(T) /\ Fits(ArrayAppend(a, e))
                         /\ ArrayAppendUnique(a, e) \in Arrays(T) /\ Fits(ArrayAppendUnique(a, e))
         /\ Count(a) > 0 => ArrayPop(a, mem) \in Arrays(T) /\ Fits(ArrayPop(a, mem))
         /\ ArrayRemoveAt(a, pos, mem) \in Arrays(T) /\ Fits(ArrayRemoveAt(a, pos, mem))
         /\ ArrayFree(a) \in Arrays(T) /\ Fits(ArrayFree(a))
<1>1. \A e \in T : /\ ArrayAppend(a, e) \in Arrays(T) /\ Fits(ArrayAppend(a, e))
                   /\ ArrayAppendUnique(a, e) \in Arrays(T) /\ Fits(ArrayAppendUnique(a, e))
  BY AppendSound DEF ArrayAppendUnique
<1>2. ASSUME Count(a) > 0 PROVE ArrayPop(a, mem) \in Arrays(T) /\ Fits(ArrayPop(a, mem))
  <2> DEFINE s == SubSeq(a.elements, 1, Len(a.elements) - 1)
             b == [a EXCEPT !.elements = SubSeq(@, 1, Len(@) - 1)]
  <2>1. a.elements \in Seq(T) /\ Len(a.elements) \in Nat \ {0}
    BY <1>2 DEF Arrays, Count
  <2>2. s \in Seq(T) /\ Len(s) = Len(a.elements) - 1
    BY <2>1
  <2>3. b = [elements |-> s, total |-> a.total, step |-> a.step]
    BY Updated
  <2> HIDE DEF s, b
  <2>4. b \in Arrays(T) /\ Fits(b)
    BY <2>1, <2>2, <2>3 DEF Arrays, Fits, Count
  <2> USE DEF b
  <2> QED BY <2>4, ShrinkSound DEF ArrayPop
<1>3. ArrayRemoveAt(a, pos, mem) \in Arrays(T) /\ Fits(ArrayRemoveAt(a, pos, mem))
  <2>1. CASE Count(a) <= pos
    BY <2>1 DEF ArrayRemoveAt
  <2>2. CASE ~(Count(a) <= pos)
    <3> DEFINE s == a.elements
               r == SubSeq(s, 1, pos) \o SubSeq(s, pos + 2, Len(s))
               b == [a EXCEPT !.elements = SubSeq(@, 1, pos) \o SubSeq(@, pos + 2, Len(@))]
    <3>1. s \in Seq(T) /\ Len(s) \in Nat /\ pos < Len(s)
      BY <2>2 DEF Arrays, Count
    <3>2. SubSeq(s, 1, pos) \in Seq(T) /\ Len(SubSeq(s, 1, pos)) = pos
      BY <3>1
    <3>3. /\ SubSeq(s, pos + 2, Len(s)) \in Seq(T)
          /\ Len(SubSeq(s, pos + 2, Len(s))) = Len(s) - pos - 1
      BY <3>1
    <3>4. r \in Seq(T) /\ Len(r) = Len(s) - 1
      <4> DEFINE u == SubSeq(s, 1, pos)
                 v == SubSeq(s, pos + 2, Len(s))
      <4>1. u \in Seq(T) /\ v \in Seq(T) /\ Len(u) = pos /\ Len(v) = Len(s) - pos - 1
        BY <3>2, <3>3
      <4>2. r = u \o v
        OBVIOUS
      <4> HIDE DEF s, r, u, v
      <4>3. r \in Seq(T) /\ Len(r) = Len(u) + Len(v)
        BY <4>1, <4>2
      <4> QED BY <3>1, <4>1, <4>3
    <3>5. b = [elements |-> r, total |-> a.total, step |-> a.step]
      BY Updated
    <3> HIDE DEF r, b
    <3>6. b \in Arrays(T) /\ Fits(b)
      BY <3>1, <3>4, <3>5 DEF Arrays, Fits, Count
    <3> USE DEF r, b
    <3> QED BY <2>2, <3>6, ShrinkSound DEF ArrayRemoveAt
  <2> QED BY <2>1, <2>2
<1>4. ArrayFree(a) \in Arrays(T) /\ Fits(ArrayFree(a))
  <2>1. ArrayFree(a) = [elements |-> <<>>, total |-> 0, step |-> a.step]
    BY Updated DEF ArrayFree
  <2>2. a.step \in Nat \ {0}
    BY DEF Arrays
  <2> QED BY <2>1, <2>2 DEF Arrays, Fits, Count
<1> QED BY <1>1, <1>2, <1>3, <1>4

----------------------------------------------------------------------------
(***************************************************************************)
(* Whose nodes they are.  Every node belongs to one owner, whose list is a *)
(* single ring: who follows the links from a node of it meets them all.    *)
(***************************************************************************)

\* The nodes of an owner follow each other, and no two rings are of the same owner.
Rings(hp, D, own) ==
  /\ \A m \in D : own[hp[m].next] = own[m]
  /\ \A S \in SUBSET D : (\A m \in S : hp[m].next \in S) => \A a \in S, b \in D : own[b] = own[a] => b \in S

\* An owner with a list has its head, the others have no nodes.
Headed(hd, D, own) ==
  /\ hd \in [Owners -> D \cup {NULL}]
  /\ \A o \in Owners : IF hd[o] = NULL THEN \A m \in D : own[m] # o ELSE own[hd[o]] = o

\* A heap with nodes at the addresses D, and their owners; those of a lost list are still
\* of one owner, but it is no longer one of the program's.
Owned(hp, D, T, own, hd, L) ==
  /\ D \in SUBSET Nat /\ IsFiniteSet(D)
  /\ Heap(hp, D, T) /\ Rings(hp, D, own) /\ Headed(hd, D, own)
  /\ L = {m \in D : own[m] \notin Owners}

\* The lists with these heads are all that is on the heap, but for the nodes L.
Whole(hp, T, hd, L) == \E D \in SUBSET Nat : \E own : Owned(hp, D, T, own, hd, L)

\* A node is added to a ring, before any of its nodes.
LEMMA InsertRings ==
  ASSUME NEW D, NEW T, NEW hp, Heap(hp, D, T), NEW own, Rings(hp, D, own),
         NEW x \in D, NEW n, n \notin D, NEW g, Inserts(hp, D, x, n, g), NEW o, o = own[x]
  PROVE  Rings(g, D \cup {n}, [m \in D \cup {n} |-> IF m = n THEN o ELSE own[m]])
<1> DEFINE E == D \cup {n}
           own2 == [m \in E |-> IF m = n THEN o ELSE own[m]]
<1>1. /\ \A m \in D : hp[m].next \in D /\ hp[m].prev \in D
      /\ hp[hp[x].prev].next = x
  BY DEF Heap
<1>0. \A m \in E : g[m].next = IF m = n THEN x ELSE IF m = hp[x].prev THEN n ELSE hp[m].next
  BY DEF Inserts
<1> USE <1>0
<1>2. \A m \in D : own[hp[m].next] = own[m]
  BY DEF Rings
<1>3. own2[n] = own[x] /\ \A m \in D : own2[m] = own[m]
  OBVIOUS
<1>4. own[hp[x].prev] = own[x] /\ hp[x].prev \in D
  BY <1>1, <1>2
<1>5. ASSUME NEW m \in E PROVE own2[g[m].next] = own2[m]
  <2> HIDE DEF own2
  <2>1. CASE m = n BY <1>3, <2>1
  <2>2. CASE m = hp[x].prev BY <1>3, <1>4, <2>2
  <2>3. CASE m # n /\ m # hp[x].prev
    <3>1. m \in D /\ g[m].next = hp[m].next /\ hp[m].next \in D BY <1>1, <2>3
    <3> QED BY <1>2, <1>3, <3>1
  <2> QED BY <2>1, <2>2, <2>3
<1>6. ASSUME NEW S \in SUBSET E, \A m \in S : g[m].next \in S, NEW a \in S, NEW b \in E, own2[b] = own2[a]
      PROVE  b \in S
  <2> DEFINE R == S \ {n}
  <2>1. R \in SUBSET D OBVIOUS
  <2>2. n \in S => x \in R BY <1>6
  <2>3. ASSUME NEW m \in R PROVE hp[m].next \in R
    <3>1. CASE m = hp[x].prev
      <4>1. n \in S BY <1>6, <2>1, <3>1
      <4> QED BY <1>1, <2>2, <3>1, <4>1
    <3>2. CASE m # hp[x].prev
      <4>1. m \in D /\ m # n /\ m \in S BY <2>1
      <4>2. g[m].next = hp[m].next /\ g[m].next \in S BY <1>6, <3>2, <4>1
      <4> QED BY <1>1, <4>1, <4>2
    <3> QED BY <3>1, <3>2
  <2>4. \A c \in R, d \in D : own[d] = own[c] => d \in R
    <3> HIDE DEF R
    <3> QED BY <2>1, <2>3 DEF Rings
  <2>5. PICK c \in R : own[c] = own2[a]
    <3> HIDE DEF own2
    <3> QED BY <1>3, <2>2
  <2>6. CASE b # n
    <3>1. b \in D /\ own[b] = own[c]
      <4> HIDE DEF own2
      <4> QED BY <1>3, <1>6, <2>5, <2>6
    <3> QED BY <2>4, <3>1
  <2>7. CASE b = n
    <3>1. own[hp[x].prev] = own[c]
      <4> HIDE DEF own2
      <4> QED BY <1>3, <1>4, <1>6, <2>5, <2>7
    <3>2. hp[x].prev \in R BY <1>4, <2>4, <3>1
    <3> QED BY <1>6, <2>1, <2>7, <3>2
  <2> QED BY <2>6, <2>7
<1> HIDE DEF own2, E
<1>7. Rings(g, E, own2) BY <1>3, <1>5, <1>6 DEF Rings
<1> QED BY <1>7 DEF E, own2

\* A node on its own is a ring of an owner that has no other.
LEMMA InitRings ==
  ASSUME NEW D, NEW T, NEW hp, Heap(hp, D, T), NEW own, Rings(hp, D, own),
         NEW o \in Owners, \A m \in D : own[m] # o, NEW n, n \notin D, NEW g, Starts(hp, D, n, g)
  PROVE  Rings(g, D \cup {n}, [m \in D \cup {n} |-> IF m = n THEN o ELSE own[m]])
<1> DEFINE E == D \cup {n}
           own2 == [m \in E |-> IF m = n THEN o ELSE own[m]]
<1>0. \A m \in E : g[m].next = IF m = n THEN n ELSE hp[m].next
  BY DEF Starts
<1> USE <1>0
<1>1. \A m \in D : hp[m].next \in D
  BY DEF Heap
<1>2. \A m \in D : own[hp[m].next] = own[m]
  BY DEF Rings
<1>3. own2[n] = o /\ \A m \in D : own2[m] = own[m]
  BY <1>2
<1>4. \A m \in E : own2[g[m].next] = own2[m]
  <2> HIDE DEF own2
  <2> QED BY <1>1, <1>2, <1>3
<1>5. ASSUME NEW S \in SUBSET E, \A m \in S : g[m].next \in S, NEW a \in S, NEW b \in E, own2[b] = own2[a]
      PROVE  b \in S
  <2> DEFINE R == S \ {n}
  <2>1. R \in SUBSET D OBVIOUS
  <2>2. \A m \in R : hp[m].next \in R BY <1>1, <1>5
  <2>3. \A c \in R, d \in D : own[d] = own[c] => d \in R
    <3> HIDE DEF R
    <3> QED BY <2>1, <2>2 DEF Rings
  <2>4. CASE a = n
    <3> HIDE DEF own2
    <3> QED BY <1>3, <1>5, <2>4
  <2>5. CASE a # n
    <3>1. a \in D /\ b \in D /\ own[b] = own[a]
      <4> HIDE DEF own2
      <4> QED BY <1>3, <1>5, <2>5
    <3> QED BY <2>3, <2>5, <3>1
  <2> QED BY <2>4, <2>5
<1> HIDE DEF own2, E
<1>6. Rings(g, E, own2) BY <1>3, <1>4, <1>5 DEF Rings
<1> QED BY <1>6 DEF E, own2

\* The next node is of the same owner, and when there is none, no other.
Remaining(hp, D, own, n) ==
  /\ own[hp[n].next] = own[n]
  /\ hp[n].next = n => \A m \in D \ {n} : own[m] # own[n]

\* A node is taken out of its ring.
LEMMA RemoveRings ==
  ASSUME NEW D, NEW T, NEW hp, Heap(hp, D, T), NEW own, Rings(hp, D, own), NEW n \in D, NEW g, Removes(hp, D, n, g)
  PROVE  Rings(g, D \ {n}, [m \in D \ {n} |-> own[m]]) /\ Remaining(hp, D, own, n)
<1> DEFINE E == D \ {n}
           own2 == [m \in E |-> own[m]]
           p == hp[n].prev
           q == hp[n].next
<1>0. \A m \in E : g[m].next = IF m = p THEN q ELSE hp[m].next
  BY DEF Removes
<1> USE <1>0
<1>1. /\ \A m \in D : hp[m].next \in D /\ hp[m].prev \in D /\ hp[hp[m].next].prev = m /\ hp[hp[m].prev].next = m
      /\ p \in D /\ q \in D /\ hp[p].next = n /\ hp[q].prev = n
  BY DEF Heap
<1>2. \A m \in D : own[hp[m].next] = own[m]
  BY DEF Rings
<1>3. \A m \in E : own2[m] = own[m]
  BY <1>2
<1>4. own[p] = own[n] /\ own[q] = own[n]
  BY <1>1, <1>2
<1>5. ASSUME NEW m \in E PROVE own2[g[m].next] = own2[m]
  <2> HIDE DEF own2
  <2>1. CASE m = p
    <3>1. q \in E BY <1>1, <2>1
    <3> QED BY <1>3, <1>4, <2>1, <3>1
  <2>2. CASE m # p
    <3>1. hp[m].next \in E /\ g[m].next = hp[m].next BY <1>1, <2>2
    <3> QED BY <1>2, <1>3, <3>1
  <2> QED BY <2>1, <2>2
<1>6. ASSUME NEW S \in SUBSET E, \A m \in S : g[m].next \in S, NEW a \in S, NEW b \in E, own2[b] = own2[a]
      PROVE  b \in S
  <2> DEFINE R == IF p \in S THEN S \cup {n} ELSE S
  <2>1. R \in SUBSET D /\ S \in SUBSET R OBVIOUS
  <2>2. ASSUME NEW m \in R PROVE hp[m].next \in R
    <3>1. CASE m = p
      <4>1. CASE p = n BY <1>1, <2>2, <3>1, <4>1
      <4>2. CASE p # n BY <1>1, <2>2, <3>1, <4>2
      <4> QED BY <4>1, <4>2
    <3>2. CASE m = n
      <4>1. p \in S /\ g[p].next = q BY <1>6, <2>2, <3>2
      <4> QED BY <1>6, <2>1, <3>2, <4>1
    <3>3. CASE m # p /\ m # n
      <4>1. m \in S /\ g[m].next = hp[m].next BY <1>6, <2>2, <3>3
      <4> QED BY <1>6, <2>1, <4>1
    <3> QED BY <3>1, <3>2, <3>3
  <2>3. \A c \in R, d \in D : own[d] = own[c] => d \in R
    <3> HIDE DEF R
    <3> QED BY <2>1, <2>2 DEF Rings
  <2>4. b \in D /\ b # n /\ a \in R /\ own[b] = own[a]
    <3> HIDE DEF own2
    <3> QED BY <1>3, <1>6
  <2>5. b \in R
    <3> HIDE DEF R
    <3> QED BY <2>3, <2>4
  <2> QED BY <2>4, <2>5
<1>7. ASSUME q = n, NEW m \in E PROVE own[m] # own[n]
  <2> DEFINE R == {n}
  <2>1. \A k \in R : hp[k].next \in R BY <1>7
  <2>2. \A c \in R, d \in D : own[d] = own[c] => d \in R
    <3>1. R \in SUBSET D OBVIOUS
    <3> HIDE DEF R
    <3> QED BY <2>1, <3>1 DEF Rings
  <2> QED BY <2>2
<1> HIDE DEF own2, E
<1>8. Rings(g, E, own2) BY <1>3, <1>5, <1>6 DEF Rings
<1> QED BY <1>4, <1>7, <1>8 DEF E, own2, Remaining

\* Two rings become one, of the first owner.
LEMMA AppendListRings ==
  ASSUME NEW D, NEW T, NEW hp, Heap(hp, D, T), NEW own, Rings(hp, D, own),
         NEW x1 \in D, NEW x2 \in D, own[x1] # own[x2], NEW g, Joins(hp, D, x1, x2, g)
  PROVE  Rings(g, D, [m \in D |-> IF own[m] = own[x2] THEN own[x1] ELSE own[m]])
<1> DEFINE own2 == [m \in D |-> IF own[m] = own[x2] THEN own[x1] ELSE own[m]]
           l1 == hp[x1].prev
           l2 == hp[x2].prev
<1>0. \A m \in D : g[m].next = IF m = l2 THEN x1 ELSE IF m = l1 THEN x2 ELSE hp[m].next
  BY DEF Joins
<1> USE <1>0
<1>1. /\ \A m \in D : hp[m].next \in D /\ hp[m].prev \in D
      /\ l1 \in D /\ l2 \in D /\ hp[l1].next = x1 /\ hp[l2].next = x2
  BY DEF Heap
<1>2. \A m \in D : own[hp[m].next] = own[m]
  BY DEF Rings
<1>3. \A m \in D : own2[m] = IF own[m] = own[x2] THEN own[x1] ELSE own[m]
  BY <1>2
<1>4. own[l1] = own[x1] /\ own[l2] = own[x2]
  BY <1>1, <1>2
<1>5. ASSUME NEW m \in D PROVE own2[g[m].next] = own2[m]
  <2>1. CASE m = l2 BY <1>3, <1>4, <2>1
  <2>2. CASE m # l2 /\ m = l1 BY <1>3, <1>4, <2>2
  <2>3. CASE m # l2 /\ m # l1
    <3>1. g[m].next = hp[m].next /\ hp[m].next \in D /\ own[hp[m].next] = own[m] BY <1>1, <1>2, <2>3
    <3> HIDE DEF own2
    <3> QED BY <1>3, <3>1
  <2> QED BY <2>1, <2>2, <2>3
<1>6. ASSUME NEW S \in SUBSET D, \A m \in S : g[m].next \in S
      PROVE  /\ \A m \in S : hp[m].next \in S
             /\ \A a \in S, b \in D : own2[b] = own2[a] => b \in S
  <2> DEFINE R1 == {m \in S : own[m] = own[x1]}
             R2 == {m \in S : own[m] = own[x2]}
  <2>1. ASSUME NEW a \in R2 PROVE l2 \in S
    <3> SUFFICES ASSUME l2 \notin S PROVE FALSE OBVIOUS
    <3>1. \A m \in R2 : hp[m].next \in R2
      <4> TAKE m \in R2
      <4>1. m # l2 /\ m # l1 BY <1>4
      <4>2. g[m].next = hp[m].next /\ g[m].next \in S /\ own[hp[m].next] = own[m] BY <1>2, <1>6, <4>1
      <4> QED BY <4>2
    <3>2. R2 \in SUBSET D OBVIOUS
    <3>3. own[l2] = own[a] BY <1>4
    <3> HIDE DEF R2
    <3>4. l2 \in R2 BY <1>1, <2>1, <3>1, <3>2, <3>3 DEF Rings
    <3> QED BY <3>4 DEF R2
  <2>2. ASSUME NEW a \in R1 PROVE l1 \in S
    <3> SUFFICES ASSUME l1 \notin S PROVE FALSE OBVIOUS
    <3>1. \A m \in R1 : hp[m].next \in R1
      <4> TAKE m \in R1
      <4>1. m # l2 /\ m # l1 BY <1>4
      <4>2. g[m].next = hp[m].next /\ g[m].next \in S /\ own[hp[m].next] = own[m] BY <1>2, <1>6, <4>1
      <4> QED BY <4>2
    <3>2. R1 \in SUBSET D OBVIOUS
    <3>3. own[l1] = own[a] BY <1>4
    <3> HIDE DEF R1
    <3>4. l1 \in R1 BY <1>1, <2>2, <3>1, <3>2, <3>3 DEF Rings
    <3> QED BY <3>4 DEF R1
  <2>3. l1 # l2 BY <1>4
  <2>4. l1 \in S => x2 \in S BY <1>6, <2>3
  <2>5. l2 \in S => x1 \in S BY <1>6
  <2>6. x2 \in S => l2 \in S BY <2>1
  <2>7. x1 \in S => l1 \in S BY <2>2
  <2>8. \A m \in S : hp[m].next \in S
    <3> TAKE m \in S
    <3>1. CASE m = l1 BY <1>1, <2>4, <2>5, <2>6, <3>1
    <3>2. CASE m = l2 BY <1>1, <2>4, <2>5, <2>7, <3>2
    <3>3. CASE m # l1 /\ m # l2 BY <1>6, <3>3
    <3> QED BY <3>1, <3>2, <3>3
  <2>9. \A a \in S, b \in D : own[b] = own[a] => b \in S
    BY <1>6, <2>8 DEF Rings
  <2>10. ASSUME NEW a \in S, NEW b \in D, own2[b] = own2[a] PROVE b \in S
    <3> HIDE DEF own2, l1, l2
    <3>1. CASE own[b] = own[a] BY <2>9, <3>1
    <3>2. CASE own[b] # own[a]
      <4>1. own[a] \in {own[x1], own[x2]} /\ own[b] \in {own[x1], own[x2]} BY <1>3, <2>10, <3>2
      <4>2. x1 \in S /\ x2 \in S
        <5>1. x1 \in S \/ x2 \in S BY <2>9, <4>1
        <5> QED BY <2>4, <2>5, <2>6, <2>7, <5>1
      <4> QED BY <2>9, <4>1, <4>2
    <3> QED BY <3>1, <3>2
  <2> QED BY <2>8, <2>10
<1> HIDE DEF own2
<1>7. Rings(g, D, own2) BY <1>3, <1>5, <1>6 DEF Rings
<1> QED BY <1>7 DEF own2

\* A node is inserted before one of an owner, whose head may then be the new node.
LEMMA InsertOwned ==
  ASSUME NEW D, NEW T, NEW L, NEW hp, NEW own, NEW hd, Owned(hp, D, T, own, hd, L),
         NEW x \in D, own[x] \in Owners, NEW data \in T, NEW y \in {hd[own[x]], Free(hp)}
  PROVE  Whole(list_node_append(hp, x, Free(hp), data), T, [hd EXCEPT ![own[x]] = y], L)
<1> DEFINE n == Free(hp)
           E == D \cup {n}
           g == list_node_append(hp, x, n, data)
           own2 == [m \in E |-> IF m = n THEN own[x] ELSE own[m]]
           hd2 == [hd EXCEPT ![own[x]] = y]
<1>1. D \in SUBSET Nat /\ IsFiniteSet(D) /\ Heap(hp, D, T) /\ Rings(hp, D, own) /\ Headed(hd, D, own)
  BY DEF Owned
<1>2. DOMAIN hp = D BY <1>1 DEF Heap
<1>3. n \in Nat /\ n \notin D /\ n # NULL BY <1>1, <1>2, FreeAddress
<1> HIDE DEF n
<1>4. Heap(g, E, T) /\ Inserts(hp, D, x, n, g)
  <2>1. Heap(hp, D, T) BY <1>1
  <2> QED BY <1>3, <2>1, AppendHeap
<1> HIDE DEF g
<1>5. Rings(g, E, own2)
  <2> DEFINE o == own[x]
  <2>1. Heap(hp, D, T) /\ Rings(hp, D, own) /\ o = own[x] BY <1>1
  <2> HIDE DEF o
  <2>2. Rings(g, D \cup {n}, [m \in D \cup {n} |-> IF m = n THEN o ELSE own[m]])
    BY <1>3, <1>4, <2>1, InsertRings
  <2> QED BY <2>1, <2>2
<1>6. own2[n] = own[x] /\ \A m \in D : own2[m] = own[m]
  BY <1>3
<1> HIDE DEF own2
<1>7. hd \in [Owners -> D \cup {NULL}] /\ \A o \in Owners : IF hd[o] = NULL THEN \A m \in D : own[m] # o ELSE own[hd[o]] = o
  BY <1>1 DEF Headed
<1>8. hd[own[x]] \in D /\ own[hd[own[x]]] = own[x] BY <1>7
<1>9. y \in E /\ own2[y] = own[x] /\ y # NULL
  <2>1. NULL \notin D BY <1>1 DEF Heap
  <2> QED BY <1>3, <1>6, <1>8, <2>1 DEF n
<1>10. hd2 \in [Owners -> E \cup {NULL}] /\ \A o \in Owners : hd2[o] = IF o = own[x] THEN y ELSE hd[o]
  BY <1>6, <1>7, <1>9
<1> HIDE DEF hd2
<1>11. ASSUME NEW o \in Owners PROVE IF hd2[o] = NULL THEN \A m \in E : own2[m] # o ELSE own2[hd2[o]] = o
  <2>1. CASE o = own[x] BY <1>9, <1>10, <2>1
  <2>2. CASE o # own[x]
    <3>1. hd2[o] = hd[o] BY <1>10, <2>2
    <3>2. hd[o] = NULL => \A m \in E : own2[m] # o BY <1>6, <1>7, <2>2
    <3>3. hd[o] # NULL => own2[hd[o]] = o BY <1>6, <1>7
    <3> QED BY <3>1, <3>2, <3>3
  <2> QED BY <2>1, <2>2
<1>12. Headed(hd2, E, own2) BY <1>10, <1>11 DEF Headed
<1>13. E \in SUBSET Nat /\ IsFiniteSet(E) BY <1>1, <1>3, FS_AddElement
<1>16. L = {m \in E : own2[m] \notin Owners} BY <1>3, <1>6 DEF Owned
<1>14. Owned(g, E, T, own2, hd2, L) BY <1>4, <1>5, <1>12, <1>13, <1>16 DEF Owned
<1> HIDE DEF E
<1>15. Whole(g, T, hd2, L) BY <1>13, <1>14 DEF Whole
<1> QED BY <1>15 DEF g, hd2, n

\* It is inserted before another than the head, which stays.
LEMMA InsertWhole ==
  ASSUME NEW D, NEW T, NEW L, NEW hp, NEW own, NEW hd, Owned(hp, D, T, own, hd, L),
         NEW x \in D, NEW o \in Owners, o = own[x], NEW data \in T, NEW y, y = hd[o]
  PROVE  Whole(list_node_append(hp, x, Free(hp), data), T, [hd EXCEPT ![o] = y], L)
<1>1. y \in {hd[own[x]], Free(hp)} OBVIOUS
<1> QED BY <1>1, InsertOwned

\* The first node of an owner
LEMMA InitOwned ==
  ASSUME NEW D, NEW T, NEW L, NEW hp, NEW own, NEW hd, Owned(hp, D, T, own, hd, L),
         NEW o \in Owners, hd[o] = NULL, NEW data \in T
  PROVE  Whole(list_node_init(hp, Free(hp), data), T, [hd EXCEPT ![o] = Free(hp)], L)
<1> DEFINE n == Free(hp)
           E == D \cup {n}
           g == list_node_init(hp, n, data)
           own2 == [m \in E |-> IF m = n THEN o ELSE own[m]]
           hd2 == [hd EXCEPT ![o] = n]
<1>1. D \in SUBSET Nat /\ IsFiniteSet(D) /\ Heap(hp, D, T) /\ Rings(hp, D, own) /\ Headed(hd, D, own)
  BY DEF Owned
<1>2. DOMAIN hp = D BY <1>1 DEF Heap
<1>3. n \in Nat /\ n \notin D /\ n # NULL BY <1>1, <1>2, FreeAddress
<1> HIDE DEF n
<1>4. Heap(g, E, T) /\ Starts(hp, D, n, g)
  <2>1. Heap(hp, D, T) BY <1>1
  <2> QED BY <1>3, <2>1, InitHeap
<1> HIDE DEF g
<1>5. hd \in [Owners -> D \cup {NULL}] /\ \A p \in Owners : IF hd[p] = NULL THEN \A m \in D : own[m] # p ELSE own[hd[p]] = p
  BY <1>1 DEF Headed
<1>6. \A m \in D : own[m] # o BY <1>5
<1>7. Rings(g, E, own2)
  <2>1. Heap(hp, D, T) /\ Rings(hp, D, own) BY <1>1
  <2> QED BY <1>3, <1>4, <1>6, <2>1, InitRings
<1>8. own2[n] = o /\ \A m \in D : own2[m] = own[m]
  BY <1>3
<1> HIDE DEF own2
<1>9. hd2 \in [Owners -> E \cup {NULL}] /\ \A p \in Owners : hd2[p] = IF p = o THEN n ELSE hd[p]
  BY <1>5
<1> HIDE DEF hd2
<1>10. ASSUME NEW p \in Owners PROVE IF hd2[p] = NULL THEN \A m \in E : own2[m] # p ELSE own2[hd2[p]] = p
  <2>1. CASE p = o BY <1>3, <1>8, <1>9, <2>1
  <2>2. CASE p # o
    <3>1. hd2[p] = hd[p] BY <1>9, <2>2
    <3>2. hd[p] = NULL => \A m \in E : own2[m] # p BY <1>5, <1>8, <2>2
    <3>3. hd[p] # NULL => own2[hd[p]] = p BY <1>5, <1>8
    <3> QED BY <3>1, <3>2, <3>3
  <2> QED BY <2>1, <2>2
<1>11. Headed(hd2, E, own2) BY <1>9, <1>10 DEF Headed
<1>12. E \in SUBSET Nat /\ IsFiniteSet(E) BY <1>1, <1>3, FS_AddElement
<1>15. L = {m \in E : own2[m] \notin Owners} BY <1>3, <1>8 DEF Owned
<1>13. Owned(g, E, T, own2, hd2, L) BY <1>4, <1>7, <1>11, <1>12, <1>15 DEF Owned
<1> HIDE DEF E
<1>14. Whole(g, T, hd2, L) BY <1>12, <1>13 DEF Whole
<1> QED BY <1>14 DEF g, hd2, n

\* A node is removed; the list of its owner is then that of the next one, or empty.
LEMMA RemoveOwned ==
  ASSUME NEW D, NEW T, NEW L, NEW hp, NEW own, NEW hd, Owned(hp, D, T, own, hd, L), NEW x \in D, own[x] \in Owners,
         NEW r, r = list_node_remove(hp, x)
  PROVE  \E own2 :
           Owned(r.heap, D \ {x}, T, own2, [hd EXCEPT ![own[x]] = r.list], L)
<1> DEFINE E == D \ {x}
           g == r.heap
           y == r.list
           own2 == [m \in E |-> own[m]]
           hd2 == [hd EXCEPT ![own[x]] = y]
<1>1. D \in SUBSET Nat /\ IsFiniteSet(D) /\ Heap(hp, D, T) /\ Rings(hp, D, own) /\ Headed(hd, D, own)
  BY DEF Owned
<1>2. Heap(g, E, T) /\ Removes(hp, D, x, g) /\ y \in E \cup {NULL} /\ y = Left(hp, x)
  <2>1. Heap(hp, D, T) BY <1>1
  <2> QED BY <2>1, RemoveHeap
<1> HIDE DEF g, y
<1>3. Rings(g, E, own2) /\ Remaining(hp, D, own, x)
  <2>1. Heap(hp, D, T) /\ Rings(hp, D, own) BY <1>1
  <2> QED BY <1>2, <2>1, RemoveRings
<1>4. \A m \in E : own2[m] = own[m]
  OBVIOUS
<1> HIDE DEF own2
<1>5. hd \in [Owners -> D \cup {NULL}] /\ \A p \in Owners : IF hd[p] = NULL THEN \A m \in D : own[m] # p ELSE own[hd[p]] = p
  BY <1>1 DEF Headed
<1>6. \A p \in Owners : p # own[x] => hd[p] \in E \cup {NULL} BY <1>5
<1>7. hd2 \in [Owners -> E \cup {NULL}] /\ \A p \in Owners : hd2[p] = IF p = own[x] THEN y ELSE hd[p]
  <2>1. hd2 = [p \in Owners |-> IF p = own[x] THEN y ELSE hd[p]] BY <1>5
  <2> HIDE DEF hd2, E
  <2> QED BY <1>2, <1>6, <2>1
<1> HIDE DEF hd2
<1>8. ASSUME NEW p \in Owners PROVE IF hd2[p] = NULL THEN \A m \in E : own2[m] # p ELSE own2[hd2[p]] = p
  <2>1. CASE p = own[x]
    <3>1. hd2[p] = y BY <1>7, <2>1
    <3>2. CASE hp[x].next = x BY <1>2, <1>3, <1>4, <2>1, <3>1, <3>2 DEF Left, Remaining
    <3>3. CASE hp[x].next # x
      <4>1. y = hp[x].next BY <1>2, <3>3 DEF Left
      <4>2. hp[x].next \in E /\ NULL \notin D
        <5>1. hp[x].next \in D /\ NULL \notin D BY <1>1 DEF Heap
        <5> QED BY <3>3, <5>1
      <4> QED BY <1>3, <1>4, <2>1, <3>1, <4>1, <4>2 DEF Remaining
    <3> QED BY <3>2, <3>3
  <2>2. CASE p # own[x]
    <3>1. hd2[p] = hd[p] BY <1>7, <2>2
    <3>2. hd[p] = NULL => \A m \in E : own2[m] # p BY <1>4, <1>5
    <3>3. hd[p] # NULL => own2[hd[p]] = p BY <1>4, <1>5, <1>6, <2>2
    <3> QED BY <3>1, <3>2, <3>3
  <2> QED BY <2>1, <2>2
<1>9. Headed(hd2, E, own2) BY <1>7, <1>8 DEF Headed
<1>10. E \in SUBSET Nat /\ IsFiniteSet(E) BY <1>1, FS_RemoveElement
<1>12. L = {m \in E : own2[m] \notin Owners} BY <1>4 DEF Owned
<1>11. Owned(g, E, T, own2, hd2, L) BY <1>2, <1>3, <1>9, <1>10, <1>12 DEF Owned
<1> HIDE DEF E
<1> QED BY <1>4, <1>11 DEF E, g, y, hd2

\* An owner takes the list of another one.
LEMMA JoinOwned ==
  ASSUME NEW D, NEW T, NEW L, NEW hp, NEW own, NEW hd, Owned(hp, D, T, own, hd, L),
         NEW o1 \in Owners, NEW o2 \in Owners, o1 # o2, NEW r, r = kmod_list_append_list(hp, hd[o1], hd[o2])
  PROVE  Whole(r.heap, T, [hd EXCEPT ![o1] = r.list, ![o2] = NULL], L)
<1> DEFINE own2 == [m \in D |-> IF own[m] = o2 THEN o1 ELSE own[m]]
           hd2 == [hd EXCEPT ![o1] = r.list, ![o2] = NULL]
           x1 == hd[o1]
           x2 == hd[o2]
           g == r.heap
<1>1. D \in SUBSET Nat /\ IsFiniteSet(D) /\ Heap(hp, D, T) /\ Rings(hp, D, own) /\ Headed(hd, D, own)
  BY DEF Owned
<1>3. hd \in [Owners -> D \cup {NULL}] /\ \A o \in Owners : IF hd[o] = NULL THEN \A m \in D : own[m] # o ELSE own[hd[o]] = o
  BY <1>1 DEF Headed
<1>4. NULL \notin D BY <1>1 DEF Heap
<1>5. \A m \in D : own2[m] = IF own[m] = o2 THEN o1 ELSE own[m] OBVIOUS
<1>6. /\ Heap(g, D, T) /\ Rings(g, D, own2)
      /\ r.list = IF x1 = NULL THEN x2 ELSE x1
  <2>1. CASE x1 = NULL
    <3>1. r = [heap |-> hp, list |-> x2] BY <2>1 DEF kmod_list_append_list
    <3>2. \A m \in D : own[m] # o1 BY <1>3, <2>1
    <3>3. ASSUME NEW m \in D PROVE own2[hp[m].next] = own2[m]
      <4>1. hp[m].next \in D /\ own[hp[m].next] = own[m] BY <1>1 DEF Heap, Rings
      <4> HIDE DEF own2
      <4> QED BY <1>5, <4>1
    <3>4. \A a, b \in D : own2[a] = own2[b] => own[a] = own[b]
      <4> HIDE DEF own2
      <4> QED BY <1>5, <3>2
    <3>5. Rings(hp, D, own2)
      <4> HIDE DEF own2
      <4> QED BY <1>1, <1>5, <3>3, <3>4 DEF Rings
    <3> HIDE DEF own2
    <3> QED BY <1>1, <2>1, <3>1, <3>5
  <2>2. CASE x1 # NULL /\ x2 = NULL
    <3>1. r = [heap |-> hp, list |-> x1] BY <2>2 DEF kmod_list_append_list
    <3>2. \A m \in D : own[m] # o2 BY <1>3, <2>2
    <3>3. \A m \in D : own2[m] = own[m] BY <1>5, <3>2
    <3>4. \A m \in D : hp[m].next \in D BY <1>1 DEF Heap
    <3> HIDE DEF own2
    <3>5. Rings(hp, D, own2) BY <1>1, <3>3, <3>4 DEF Rings
    <3> QED BY <1>1, <2>2, <3>1, <3>5
  <2>3. CASE x1 # NULL /\ x2 # NULL
    <3>1. r = [heap |-> list_node_append_list(hp, x1, x2), list |-> x1]
      BY <2>3 DEF kmod_list_append_list
    <3>2. x1 \in D /\ x2 \in D /\ own[x1] = o1 /\ own[x2] = o2 BY <1>3, <2>3
    <3>3. g = list_node_append_list(hp, x1, x2) BY <3>1
    <3> HIDE DEF g, x1, x2
    <3>4. Heap(hp, D, T) /\ Rings(hp, D, own) BY <1>1
    <3>5. Heap(g, D, T) /\ Joins(hp, D, x1, x2, g) BY <3>2, <3>3, <3>4, AppendListHeap
    <3>6. Rings(g, D, own2)
      <4>1. own[x1] # own[x2] BY <3>2
      <4>2. Rings(g, D, [m \in D |-> IF own[m] = own[x2] THEN own[x1] ELSE own[m]])
        BY <3>2, <3>4, <3>5, <4>1, AppendListRings
      <4> QED BY <3>2, <4>2
    <3> HIDE DEF own2
    <3> QED BY <2>3, <3>1, <3>5, <3>6
  <2> QED BY <2>1, <2>2, <2>3
<1>7. r.list \in D \cup {NULL} /\ IF r.list = NULL THEN x1 = NULL /\ x2 = NULL ELSE own2[r.list] = o1
  <2> HIDE DEF own2
  <2> QED BY <1>3, <1>4, <1>5, <1>6
<1>8. hd2 \in [Owners -> D \cup {NULL}] /\ \A o \in Owners : hd2[o] = IF o = o2 THEN NULL ELSE IF o = o1 THEN r.list ELSE hd[o]
  BY <1>3, <1>7
<1>9. Headed(hd2, D, own2)
  <2> SUFFICES ASSUME NEW o \in Owners
               PROVE  IF hd2[o] = NULL THEN \A m \in D : own2[m] # o ELSE own2[hd2[o]] = o
    <3> HIDE DEF hd2, own2
    <3> QED BY <1>8 DEF Headed
  <2> HIDE DEF hd2, own2, g
  <2>1. CASE o = o1 BY <1>3, <1>5, <1>7, <1>8, <2>1
  <2>2. CASE o = o2 BY <1>5, <1>8, <2>2
  <2>3. CASE o # o1 /\ o # o2 BY <1>3, <1>5, <1>8, <2>3
  <2> QED BY <2>1, <2>2, <2>3
<1> HIDE DEF own2, hd2, g
<1>12. L = {m \in D : own2[m] \notin Owners} BY <1>5 DEF Owned
<1>10. Owned(g, D, T, own2, hd2, L) BY <1>1, <1>6, <1>9, <1>12 DEF Owned
<1>11. Whole(g, T, hd2, L) BY <1>1, <1>10 DEF Whole
<1> QED BY <1>11 DEF g, hd2

----------------------------------------------------------------------------
(* Numbers                                                                 *)

\* The least of some numbers
LEMMA Least ==
  ASSUME NEW I, I \subseteq Nat, I # {}
  PROVE  Min(I) \in I /\ \A j \in I : Min(I) <= j
<1> DEFINE R == OpToRel(<, Nat)
<1>1. \A x, y \in Nat : x < y => <<x, y>> \in R
  BY DEF OpToRel
<1>2. IsWellFoundedOn(R, Nat)
  BY NatLessThanWellFounded, Zenon
<1> HIDE DEF R
<1>3. PICK x \in I : \A j \in I : ~ (<<j, x>> \in R)
  BY <1>2, WFMin, ZenonT(30)
<1>4. ASSUME NEW j \in I PROVE x <= j
  <2>1. x \in Nat /\ j \in Nat /\ (j < x => <<j, x>> \in R)
    BY <1>1
  <2> QED BY <1>3, <2>1
<1> QED BY <1>4 DEF Min

\* A set of numbers up to n has a greatest,
LEMMA Greatest ==
  ASSUME NEW n \in Nat, NEW S \in SUBSET (0..n), S # {}
  PROVE  Max(S) \in S /\ \A y \in S : y <= Max(S)
<1> DEFINE T == {k \in Nat : n - k \in S}
<1>1. PICK x \in S : TRUE
  OBVIOUS
<1>2. n - x \in T
  BY <1>1
<1>3. T \subseteq Nat /\ T # {}
  BY <1>2
<1>4. PICK k \in T : \A l \in T : k <= l
  <2> HIDE DEF T
  <2> QED BY <1>3, Least
<1>5. n - k \in S /\ k \in Nat
  BY <1>4
<1>6. \A y \in S : n - y \in T
  OBVIOUS
<1>7. \A y \in S : n - k >= y
  BY <1>4, <1>5, <1>6
<1>8. \E z \in S : \A y \in S : z >= y
  BY <1>5, <1>7
<1>9. Max(S) \in S /\ \A y \in S : Max(S) >= y
  <2> HIDE <1>4, <1>5
  <2> QED BY <1>8, Zenon DEF Max
<1> QED BY <1>9

\* Induction up to n
LEMMA UpTo ==
  ASSUME NEW n \in Nat, NEW S, 0 \in S, \A k \in 1..n : k - 1 \in S => k \in S
  PROVE  \A k \in 0..n : k \in S
<1> DEFINE I == {k \in 0..n : k \notin S}
<1> SUFFICES ASSUME I # {} PROVE FALSE
  OBVIOUS
<1>1. I \subseteq Nat
  OBVIOUS
<1> DEFINE k == Min(I)
<1>2. k \in I /\ \A j \in I : k <= j
  <2> HIDE DEF I
  <2> QED BY <1>1, Least
<1> HIDE DEF k
<1>3. k \in 0..n /\ k \notin S
  BY <1>2
<1>4. k # 0
  BY <1>3
<1>5. k \in 1..n /\ k - 1 \in 0..n
  BY <1>3, <1>4
<1>6. k - 1 \notin S
  BY <1>3, <1>5
<1>7. k - 1 \in I
  BY <1>5, <1>6
<1>8. k <= k - 1
  BY <1>2, <1>7
<1> QED BY <1>3, <1>8

----------------------------------------------------------------------------
(* The functions of the library keep the lists of all owners whole.        *)

\* kmod_list_append, whose list may be empty
LEMMA AppendWhole ==
  ASSUME NEW T, NEW L, NEW hp, NEW hd, Whole(hp, T, hd, L), NEW o \in Owners, NEW data \in T,
         NEW r, r = kmod_list_append(hp, hd[o], data)
  PROVE  Whole(r.heap, T, [hd EXCEPT ![o] = r.list], L)
<1>1. PICK D \in SUBSET Nat : \E own : Owned(hp, D, T, own, hd, L) BY DEF Whole
<1>2. PICK own : Owned(hp, D, T, own, hd, L) BY <1>1
<1>3. hd \in [Owners -> D \cup {NULL}] /\ (hd[o] # NULL => own[hd[o]] = o)
  BY <1>2 DEF Owned, Headed
<1>4. CASE hd[o] = NULL
  <2>1. r = [heap |-> list_node_init(hp, Free(hp), data), list |-> Free(hp)]
    BY <1>4 DEF kmod_list_append
  <2> QED BY <1>2, <1>4, <2>1, InitOwned
<1>5. CASE hd[o] # NULL
  <2> DEFINE x == hd[o]
  <2>1. r = [heap |-> list_node_append(hp, x, Free(hp), data), list |-> x]
    BY <1>5 DEF kmod_list_append
  <2>2. x \in D /\ own[x] = o /\ x \in {hd[own[x]], Free(hp)} BY <1>3, <1>5
  <2> HIDE DEF x
  <2>3. Whole(list_node_append(hp, x, Free(hp), data), T, [hd EXCEPT ![own[x]] = x], L)
    BY <1>2, <2>2, InsertOwned
  <2> QED BY <2>1, <2>2, <2>3
<1> QED BY <1>4, <1>5

\* kmod_list_prepend
LEMMA PrependWhole ==
  ASSUME NEW T, NEW L, NEW hp, NEW hd, Whole(hp, T, hd, L), NEW o \in Owners, NEW data \in T, hd[o] # NULL,
         NEW r, r = kmod_list_prepend(hp, hd[o], data)
  PROVE  Whole(r.heap, T, [hd EXCEPT ![o] = r.list], L)
<1>1. PICK D \in SUBSET Nat : \E own : Owned(hp, D, T, own, hd, L) BY DEF Whole
<1>2. PICK own : Owned(hp, D, T, own, hd, L) BY <1>1
<1> DEFINE x == hd[o]
           n == Free(hp)
<1>3. hd \in [Owners -> D \cup {NULL}] /\ own[x] = o
  BY <1>2 DEF Owned, Headed
<1>4. r = [heap |-> list_node_append(hp, x, n, data), list |-> n]
  BY DEF kmod_list_prepend
<1>5. x \in D /\ own[x] \in Owners /\ n \in {hd[own[x]], n} BY <1>3
<1> HIDE DEF x
<1>6. Whole(list_node_append(hp, x, n, data), T, [hd EXCEPT ![own[x]] = n], L)
  BY <1>2, <1>5, InsertOwned
<1> QED BY <1>3, <1>4, <1>6

\* kmod_list_remove of the first node, and of the last
LEMMA RemoveWhole ==
  ASSUME NEW T, NEW L, NEW hp, NEW hd, Whole(hp, T, hd, L), NEW o \in Owners,
         NEW x \in {hd[o], kmod_list_last(hp, hd[o])}, NEW r, r = kmod_list_remove(hp, x)
  PROVE  Whole(r.heap, T, [hd EXCEPT ![o] = r.list], L)
<1>1. PICK D \in SUBSET Nat : \E own : Owned(hp, D, T, own, hd, L) BY DEF Whole
<1>2. PICK own : Owned(hp, D, T, own, hd, L) BY <1>1
<1>3. hd \in [Owners -> D \cup {NULL}] /\ (hd[o] # NULL => own[hd[o]] = o)
  BY <1>2 DEF Owned, Headed
<1>4. CASE hd[o] = NULL
  <2>1. r = [heap |-> hp, list |-> NULL] BY <1>4 DEF kmod_list_remove, kmod_list_last
  <2>2. [hd EXCEPT ![o] = NULL] = hd BY <1>3, <1>4
  <2> QED BY <2>1, <2>2
<1>5. CASE hd[o] # NULL
  <2> DEFINE y == hd[o]
  <2>1. y \in D /\ own[y] = o BY <1>3, <1>5
  <2>2. x \in D /\ own[x] = o /\ x # NULL
    <3>1. Heap(hp, D, T) /\ Rings(hp, D, own) BY <1>2 DEF Owned
    <3>2. x = y \/ x = hp[y].prev BY <1>5 DEF kmod_list_last
    <3> HIDE DEF y
    <3>3. hp[y].prev \in D /\ hp[hp[y].prev].next = y BY <2>1, <3>1 DEF Heap
    <3>4. own[hp[y].prev] = own[y] BY <3>1, <3>3 DEF Rings
    <3> QED BY <2>1, <3>1, <3>2, <3>3, <3>4 DEF Heap
  <2>3. r = list_node_remove(hp, x) BY <2>2 DEF kmod_list_remove
  <2>4. PICK own2 : Owned(r.heap, D \ {x}, T, own2, [hd EXCEPT ![own[x]] = r.list], L)
    BY <1>2, <2>2, <2>3, RemoveOwned
  <2>5. Owned(r.heap, D \ {x}, T, own2, [hd EXCEPT ![o] = r.list], L) BY <2>2, <2>4
  <2>6. D \ {x} \in SUBSET Nat OBVIOUS
  <2> QED BY <2>5, <2>6 DEF Whole
<1> QED BY <1>4, <1>5

\* A list o that is freed: what is on the heap after k nodes of N
Freeing(st, T, hd, o, k, N, L) ==
  \E D \in SUBSET Nat : \E own :
    /\ Owned(st.heap, D, T, own, [hd EXCEPT ![o] = st.list], L)
    /\ st.list # NULL => Cardinality(D) = N - k

\* One more is freed.
LEMMA FreeOne ==
  ASSUME NEW T, NEW L, NEW hd, NEW o \in Owners, NEW N \in Nat, NEW k \in 1..N, NEW st,
         Freeing(st, T, hd, o, k - 1, N, L), NEW r, r = kmod_list_remove(st.heap, st.list)
  PROVE  Freeing(r, T, hd, o, k, N, L)
<1> DEFINE hd1 == [hd EXCEPT ![o] = st.list]
           x == st.list
           g == st.heap
<1>1. PICK D \in SUBSET Nat : \E own :
         Owned(g, D, T, own, hd1, L) /\ (x # NULL => Cardinality(D) = N - (k - 1))
  BY Zenon DEF Freeing
<1>2. PICK own : Owned(g, D, T, own, hd1, L) /\ (x # NULL => Cardinality(D) = N - (k - 1))
  BY <1>1
<1>3. hd1 \in [Owners -> D \cup {NULL}] /\ \A p \in Owners : IF hd1[p] = NULL THEN \A m \in D : own[m] # p ELSE own[hd1[p]] = p
  BY <1>2 DEF Owned, Headed
<1>4. DOMAIN hd = Owners
  <2>1. DOMAIN hd1 = DOMAIN hd OBVIOUS
  <2> HIDE DEF hd1
  <2> QED BY <1>3, <2>1
<1>5. hd1[o] = x BY <1>4
<1>6. CASE x = NULL
  <2>1. r = [heap |-> g, list |-> NULL] BY <1>6 DEF kmod_list_remove
  <2>2. r.heap = g /\ r.list = x /\ r.list = NULL BY <1>6, <2>1
  <2>3. Owned(r.heap, D, T, own, [hd EXCEPT ![o] = r.list], L) BY <1>2, <2>2
  <2> HIDE DEF g, x
  <2> QED BY <2>2, <2>3 DEF Freeing
<1>7. CASE x # NULL
  <2>1. r = list_node_remove(g, x) BY <1>7 DEF kmod_list_remove
  <2>2. x \in D /\ own[x] = o
    <3> HIDE DEF hd1, x
    <3> QED BY <1>3, <1>5, <1>7
  <2>3. IsFiniteSet(D) BY <1>2 DEF Owned
  <2>4. Cardinality(D \ {x}) = N - k
    <3>1. Cardinality(D \ {x}) = Cardinality(D) - 1 BY <2>2, <2>3, FS_RemoveElement
    <3> QED BY <1>2, <1>7, <3>1
  <2>5. PICK own2 : Owned(r.heap, D \ {x}, T, own2, [hd1 EXCEPT ![own[x]] = r.list], L)
    <3> HIDE DEF hd1, x, g
    <3> QED BY <1>2, <2>1, <2>2, RemoveOwned
  <2>6. [hd1 EXCEPT ![own[x]] = r.list] = [hd EXCEPT ![o] = r.list]
    <3>1. own[x] = o BY <2>2
    <3>2. [[hd EXCEPT ![o] = x] EXCEPT ![o] = r.list] = [hd EXCEPT ![o] = r.list]
      <4> HIDE DEF x
      <4> QED BY <1>4
    <3> HIDE DEF x
    <3> QED BY <3>1, <3>2
  <2>7. D \ {x} \in SUBSET Nat OBVIOUS
  <2>8. Owned(r.heap, D \ {x}, T, own2, [hd EXCEPT ![o] = r.list], L) BY <2>5, <2>6
  <2> HIDE DEF x
  <2> QED BY <2>4, <2>7, <2>8 DEF Freeing
<1> QED BY <1>6, <1>7

\* RemoveAll frees the list of an owner, all of it.
LEMMA RemoveAllWhole ==
  ASSUME NEW T, NEW L, NEW hp, NEW hd, Whole(hp, T, hd, L), NEW o \in Owners, NEW x, x = hd[o]
  PROVE  Whole(RemoveAll(hp, x), T, [hd EXCEPT ![o] = NULL], L)
<1>1. PICK D \in SUBSET Nat : \E own : Owned(hp, D, T, own, hd, L) BY DEF Whole
<1>2. PICK own : Owned(hp, D, T, own, hd, L) BY <1>1
<1> DEFINE N == Cardinality(D)
           Next1(st) == kmod_list_remove(st.heap, st.list)
           base == [heap |-> hp, list |-> x]
           Is(f, k) == f = [j \in 0..k |-> IF j = 0 THEN base ELSE Next1(f[j-1])]
           S == {k \in 0..N : \E f : Is(f, k)}
<1>3. N \in Nat /\ DOMAIN hp = D BY <1>2, FS_CardinalityType DEF Owned, Heap
<1> HIDE DEF N, Next1, base
<1>4. 0 \in S
  <2>1. Is([j \in 0..0 |-> base], 0) OBVIOUS
  <2> HIDE DEF Is
  <2> QED BY <1>3, <2>1
<1>5. ASSUME NEW k \in 1..N, k - 1 \in S PROVE k \in S
  <2>1. PICK f : Is(f, k - 1) BY <1>5
  <2> DEFINE g == [j \in 0..k |-> IF j = k THEN Next1(f[k-1]) ELSE f[j]]
  <2>2. ASSUME NEW j \in 0..k PROVE g[j] = IF j = 0 THEN base ELSE Next1(g[j-1])
    <3>1. CASE j = k
      <4>1. g[j] = Next1(f[k-1]) /\ g[j-1] = f[k-1] /\ j # 0 BY <1>3, <3>1
      <4> QED BY <3>1, <4>1
    <3>2. CASE j # k
      <4>1. j \in 0..k-1 /\ g[j] = f[j] BY <3>2
      <4>2. f[j] = IF j = 0 THEN base ELSE Next1(f[j-1]) BY <2>1, <4>1
      <4>3. j # 0 => g[j-1] = f[j-1] BY <4>1
      <4> HIDE DEF g
      <4> QED BY <4>1, <4>2, <4>3
    <3> QED BY <3>1, <3>2
  <2>3. Is(g, k)
    <3>1. g = [j \in 0..k |-> g[j]] OBVIOUS
    <3> HIDE DEF g
    <3> QED BY <2>2, <3>1
  <2> HIDE DEF g, Is
  <2> QED BY <2>3
<1> HIDE DEF S
<1>6. N \in S BY <1>3, <1>4, <1>5, UpTo
<1> DEFINE rest == CHOOSE f : Is(f, N)
<1>7. Is(rest, N)
  <2>1. \E f : Is(f, N) BY <1>6 DEF S
  <2> HIDE DEF Is
  <2> QED BY <2>1
<1>8. RemoveAll(hp, x) = rest[N].heap
  <2>1. N = Cardinality(DOMAIN hp) BY <1>3 DEF N
  <2> QED BY <2>1, Zenon DEF RemoveAll, base, Next1
<1> HIDE DEF rest
<1>9. rest[0] = base /\ \A k \in 1..N : rest[k] = Next1(rest[k-1])
  BY <1>3, <1>7
<1> HIDE DEF Is
<1> DEFINE R == {k \in 0..N : Freeing(rest[k], T, hd, o, k, N, L)}
<1>10. 0 \in R
  <2>1. hd \in [Owners -> D \cup {NULL}] BY <1>2 DEF Owned, Headed
  <2>2. [hd EXCEPT ![o] = x] = hd BY <2>1
  <2>3. rest[0].heap = hp /\ rest[0].list = x BY <1>9 DEF base
  <2>4. Owned(rest[0].heap, D, T, own, [hd EXCEPT ![o] = rest[0].list], L) BY <1>2, <2>2, <2>3
  <2>5. Cardinality(D) = N - 0 BY <1>3 DEF N
  <2>6. Freeing(rest[0], T, hd, o, 0, N, L) BY <2>4, <2>5 DEF Freeing
  <2> QED BY <1>3, <2>6
<1>11. ASSUME NEW k \in 1..N, k - 1 \in R PROVE k \in R
  <2>1. rest[k] = kmod_list_remove(rest[k-1].heap, rest[k-1].list) BY <1>9 DEF Next1
  <2>2. Freeing(rest[k-1], T, hd, o, k - 1, N, L) BY <1>11
  <2>3. Freeing(rest[k], T, hd, o, k, N, L) BY <1>3, <2>1, <2>2, FreeOne
  <2> QED BY <2>3
<1> HIDE DEF R
<1>12. N \in R BY <1>3, <1>10, <1>11, UpTo
<1>13. Freeing(rest[N], T, hd, o, N, N, L) BY <1>12 DEF R
<1>14. PICK E \in SUBSET Nat : \E own2 :
         /\ Owned(rest[N].heap, E, T, own2, [hd EXCEPT ![o] = rest[N].list], L)
         /\ rest[N].list # NULL => Cardinality(E) = N - N
  BY <1>13, Zenon DEF Freeing
<1>15. PICK own2 :
         /\ Owned(rest[N].heap, E, T, own2, [hd EXCEPT ![o] = rest[N].list], L)
         /\ rest[N].list # NULL => Cardinality(E) = N - N
  BY <1>14
<1>16. rest[N].list = NULL
  <2> SUFFICES ASSUME rest[N].list # NULL PROVE FALSE OBVIOUS
  <2>1. IsFiniteSet(E) /\ Cardinality(E) = 0 BY <1>3, <1>15 DEF Owned
  <2>2. E = {} BY <2>1, FS_EmptySet
  <2> DEFINE hd2 == [hd EXCEPT ![o] = rest[N].list]
  <2>3. hd2 \in [Owners -> E \cup {NULL}] BY <1>15 DEF Owned, Headed
  <2>4. DOMAIN hd = DOMAIN hd2 OBVIOUS
  <2>5. hd2[o] = rest[N].list
    <3>1. o \in DOMAIN hd BY <2>3, <2>4
    <3> QED BY <3>1
  <2> HIDE DEF hd2
  <2> QED BY <2>2, <2>3, <2>5
<1>17. Owned(rest[N].heap, E, T, own2, [hd EXCEPT ![o] = NULL], L) BY <1>15, <1>16
<1> QED BY <1>8, <1>17 DEF Whole

----------------------------------------------------------------------------
(* kmod_list_foreach visits the nodes of an owner, each of them once.      *)

\* The first nodes of a list from x, up to k + 1
Visited(v, hp, D, x, k) ==
  /\ v \in Seq(D) /\ Len(v) \in 1..k+1 /\ v[1] = x
  /\ \A j \in 1..Len(v) - 1 : hp[v[j]].next = v[j+1]
  /\ \A a \in 2..Len(v) : v[a] # x
  /\ \A a, b \in 1..Len(v) : v[a] = v[b] => a = b
  /\ Len(v) < k + 1 => hp[v[Len(v)]].next = x

\* One more is visited, unless the next one is the first.
LEMMA VisitOne ==
  ASSUME NEW D, NEW T, NEW hp, Heap(hp, D, T), NEW x \in D, NEW k \in Nat \ {0}, NEW v, Visited(v, hp, D, x, k - 1),
         NEW next, next = kmod_list_next(hp, x, v[Len(v)]),
         NEW w, w = IF Len(v) < k \/ next = NULL THEN v ELSE Append(v, next)
  PROVE  Visited(w, hp, D, x, k)
<1> DEFINE L == Len(v)
           y == hp[v[L]].next
<1>1. /\ v \in Seq(D) /\ L \in 1..k /\ v[1] = x
      /\ \A j \in 1..L - 1 : hp[v[j]].next = v[j+1]
      /\ \A a \in 2..L : v[a] # x
      /\ \A a, b \in 1..L : v[a] = v[b] => a = b
      /\ L < k => y = x
  <2>1. (k - 1) + 1 = k OBVIOUS
  <2> QED BY <2>1 DEF Visited
<1>2. v[L] \in D /\ L \in Nat BY <1>1
<1>3. y \in D /\ hp[y].prev = v[L] /\ NULL \notin D /\ \A m \in D : hp[hp[m].next].prev = m
  BY <1>2 DEF Heap
<1>4. next = IF y = x THEN NULL ELSE y BY DEF kmod_list_next
<1> HIDE DEF y
<1>5. CASE y = x
  <2>1. w = v BY <1>4, <1>5
  <2> QED BY <1>1, <1>5, <2>1 DEF Visited, y
<1>6. CASE y # x
  <2>1. L = k /\ next = y /\ next # NULL BY <1>1, <1>3, <1>4, <1>6
  <2>2. w = Append(v, y) BY <2>1
  <2>3. w \in Seq(D) /\ Len(w) = k + 1 /\ w[k+1] = y /\ \A j \in 1..k : w[j] = v[j] BY <1>1, <1>3, <2>1, <2>2
  <2>4. \A a \in 1..k : v[a] # y
    <3> SUFFICES ASSUME NEW a \in 1..k, v[a] = y PROVE FALSE OBVIOUS
    <3>1. a # 1 BY <1>1, <1>6
    <3>2. a - 1 \in 1..L - 1 /\ a - 1 \in 1..L BY <2>1, <3>1
    <3>3. hp[v[a-1]].next = v[(a-1)+1] /\ v[a-1] \in D BY <1>1, <3>2
    <3>4. v[a-1] = v[L] BY <1>3, <3>3
    <3> QED BY <1>1, <2>1, <3>2, <3>4
  <2>5. \A j \in 1..k : hp[w[j]].next = w[j+1]
    <3> TAKE j \in 1..k
    <3>1. CASE j = k BY <2>1, <2>3, <3>1 DEF y
    <3>2. CASE j # k
      <4>1. j \in 1..L - 1 /\ j + 1 \in 1..k BY <2>1, <3>2
      <4> QED BY <1>1, <2>3, <4>1
    <3> QED BY <3>1, <3>2
  <2>6. \A a \in 2..k+1 : w[a] # x
    <3> TAKE a \in 2..k+1
    <3>1. CASE a = k + 1 BY <1>6, <2>3, <3>1
    <3>2. CASE a # k + 1
      <4>1. a \in 2..L /\ a \in 1..k BY <2>1, <3>2
      <4> QED BY <1>1, <2>3, <4>1
    <3> QED BY <3>1, <3>2
  <2>7. \A a, b \in 1..k+1 : w[a] = w[b] => a = b
    <3>1. \A a, b \in 1..k : w[a] = w[b] => a = b BY <1>1, <2>1, <2>3
    <3>2. \A a \in 1..k : w[a] # w[k+1] BY <2>3, <2>4
    <3>3. \A a \in 1..k+1 : a \in 1..k \/ a = k + 1 OBVIOUS
    <3> QED BY <3>1, <3>2, <3>3
  <2>8. w[1] = x BY <1>1, <2>1, <2>3
  <2>9. (k + 1) - 1 = k OBVIOUS
  <2> QED BY <2>3, <2>5, <2>6, <2>7, <2>8, <2>9 DEF Visited
<1> QED BY <1>5, <1>6

\* The nodes of a list are those of its owner.
LEMMA NodesOf ==
  ASSUME NEW D, NEW T, NEW L, NEW hp, NEW own, NEW hd, Owned(hp, D, T, own, hd, L), NEW o \in Owners, NEW x, x = hd[o]
  PROVE  Nodes(hp, x) \in Seq(D) /\ NodeSet(hp, x) = {m \in D : own[m] = o}
<1>1. Heap(hp, D, T) /\ Rings(hp, D, own) /\ IsFiniteSet(D) BY DEF Owned
<1>2. x \in D \cup {NULL} /\ IF x = NULL THEN \A m \in D : own[m] # o ELSE own[x] = o BY DEF Owned, Headed
<1>3. CASE x = NULL
  <2>1. Nodes(hp, x) = <<>> BY <1>3 DEF Nodes
  <2>2. NodeSet(hp, x) = {} BY <2>1 DEF NodeSet
  <2> QED BY <1>2, <1>3, <2>1, <2>2
<1>4. CASE x # NULL
  <2> DEFINE N == Cardinality(D)
             Next1(v, k) == LET next == kmod_list_next(hp, x, v[Len(v)])
                            IN  IF Len(v) < k \/ next = NULL THEN v ELSE Append(v, next)
             Is(f, k) == f = [j \in 0..k |-> IF j = 0 THEN <<x>> ELSE Next1(f[j-1], j)]
             S == {k \in 0..N : \E f : Is(f, k)}
  <2>1. N \in Nat /\ DOMAIN hp = D /\ x \in D /\ own[x] = o BY <1>1, <1>2, <1>4, FS_CardinalityType DEF Heap
  <2> HIDE DEF N, Next1
  <2>2. 0 \in S
    <3>1. Is([j \in 0..0 |-> <<x>>], 0) OBVIOUS
    <3> HIDE DEF Is
    <3> QED BY <2>1, <3>1
  <2>3. ASSUME NEW k \in 1..N, k - 1 \in S PROVE k \in S
    <3>1. PICK f : Is(f, k - 1) BY <2>3
    <3> DEFINE g == [j \in 0..k |-> IF j = k THEN Next1(f[k-1], k) ELSE f[j]]
    <3>2. ASSUME NEW j \in 0..k PROVE g[j] = IF j = 0 THEN <<x>> ELSE Next1(g[j-1], j)
      <4>1. CASE j = k
        <5>1. g[j] = Next1(f[k-1], k) /\ g[j-1] = f[k-1] /\ j # 0 BY <2>1, <4>1
        <5> QED BY <4>1, <5>1
      <4>2. CASE j # k
        <5>1. j \in 0..k-1 /\ g[j] = f[j] BY <4>2
        <5>2. f[j] = IF j = 0 THEN <<x>> ELSE Next1(f[j-1], j) BY <3>1, <5>1
        <5>3. j # 0 => g[j-1] = f[j-1] BY <5>1
        <5> HIDE DEF g
        <5> QED BY <5>1, <5>2, <5>3
      <4> QED BY <4>1, <4>2
    <3>3. Is(g, k)
      <4>1. g = [j \in 0..k |-> g[j]] OBVIOUS
      <4> HIDE DEF g
      <4> QED BY <3>2, <4>1
    <3> HIDE DEF g, Is
    <3> QED BY <3>3
  <2> HIDE DEF S
  <2>4. N \in S BY <2>1, <2>2, <2>3, UpTo
  <2> DEFINE visit == CHOOSE f : Is(f, N)
  <2>5. Is(visit, N)
    <3>1. \E f : Is(f, N) BY <2>4 DEF S
    <3> HIDE DEF Is
    <3> QED BY <3>1
  <2>6. Nodes(hp, x) = visit[N]
    <3>1. N = Cardinality(DOMAIN hp) BY <2>1 DEF N
    <3> QED BY <1>4, <3>1, Zenon DEF Nodes, Next1
  <2> HIDE DEF visit
  <2>7. visit[0] = <<x>> /\ \A k \in 1..N : visit[k] = Next1(visit[k-1], k)
    BY <2>1, <2>5
  <2> HIDE DEF Is
  <2> DEFINE R == {k \in 0..N : Visited(visit[k], hp, D, x, k)}
  <2>8. 0 \in R
    <3>1. Visited(<<x>>, hp, D, x, 0) BY <2>1 DEF Visited
    <3> QED BY <2>1, <2>7, <3>1
  <2>9. ASSUME NEW k \in 1..N, k - 1 \in R PROVE k \in R
    <3> DEFINE v == visit[k-1]
               next == kmod_list_next(hp, x, v[Len(v)])
               w == visit[k]
    <3>1. w = IF Len(v) < k \/ next = NULL THEN v ELSE Append(v, next) BY <2>7 DEF Next1
    <3>2. Visited(v, hp, D, x, k - 1) /\ k \in Nat \ {0} BY <2>9
    <3>3. next = kmod_list_next(hp, x, v[Len(v)]) OBVIOUS
    <3> HIDE DEF v, next, w
    <3>4. Visited(w, hp, D, x, k) BY <1>1, <2>1, <3>1, <3>2, <3>3, VisitOne
    <3> QED BY <3>4 DEF w
  <2> HIDE DEF R
  <2>10. N \in R BY <2>1, <2>8, <2>9, UpTo
  <2> DEFINE v == visit[N]
             len == Len(v)
             V == {v[k] : k \in DOMAIN v}
  <2>11. Visited(v, hp, D, x, N) BY <2>10 DEF R
  <2> HIDE DEF v
  <2>12. v \in Seq(D) /\ len \in 1..N+1 /\ v[1] = x /\ V \in SUBSET D /\ DOMAIN v = 1..len
    BY <2>11 DEF Visited
  <2>13. len <= N
    <3>1. v \in [1..len -> D] BY <2>12
    <3>2. \A a, b \in 1..len : v[a] = v[b] => a = b BY <2>11 DEF Visited
    <3>3. IsFiniteSet(1..len) /\ Cardinality(1..len) = len BY <2>1, <2>12, FS_Interval
    <3>4. v \in Injection(1..len, D) BY <3>1, <3>2 DEF Injection, IsInjective
    <3>5. Cardinality(1..len) <= Cardinality(D) BY <1>1, <3>4, FS_Injection
    <3> QED BY <3>3, <3>5 DEF N
  <2>14. hp[v[len]].next = x /\ \A j \in 1..len-1 : hp[v[j]].next = v[j+1]
    <3>1. len < N + 1 BY <2>1, <2>12, <2>13
    <3> QED BY <2>11, <3>1 DEF Visited
  <2>15. \A m \in V : hp[m].next \in V
    <3> TAKE m \in V
    <3>1. PICK j \in 1..len : m = v[j] BY <2>12
    <3>2. CASE j = len BY <2>12, <2>14, <3>1, <3>2
    <3>3. CASE j # len
      <4>1. j \in 1..len-1 /\ j + 1 \in 1..len
        <5>1. len \in Nat BY <2>12
        <5> HIDE DEF len
        <5> QED BY <3>3, <5>1
      <4> QED BY <2>12, <2>14, <3>1, <4>1
    <3> QED BY <3>2, <3>3
  <2>16. x \in V BY <2>12
  <2>17. ASSUME NEW m \in D, own[m] = o PROVE m \in V
    <3> HIDE DEF V
    <3> QED BY <1>1, <2>1, <2>12, <2>15, <2>16, <2>17 DEF Rings
  <2>18. \A m \in V : own[m] = o
    <3> DEFINE O == {j \in 0..len-1 : own[v[j+1]] = o}
    <3>1. 0 \in O BY <2>1, <2>12
    <3>2. ASSUME NEW j \in 1..len-1, j - 1 \in O PROVE j \in O
      <4>1. hp[v[j]].next = v[j+1] /\ v[j] \in D /\ own[v[(j-1)+1]] = o /\ (j - 1) + 1 = j BY <2>12, <2>14, <3>2
      <4>2. own[v[j+1]] = own[v[j]] BY <1>1, <4>1 DEF Rings
      <4> QED BY <4>1, <4>2
    <3>3. len - 1 \in Nat BY <2>12
    <3> HIDE DEF O
    <3>4. \A j \in 0..len-1 : j \in O BY <3>1, <3>2, <3>3, UpTo
    <3>5. ASSUME NEW j \in 1..len PROVE own[v[j]] = o
      <4>1. j - 1 \in 0..len-1 /\ (j - 1) + 1 = j BY <2>12
      <4> QED BY <3>4, <4>1 DEF O
    <3> QED BY <2>12, <3>5
  <2>19. NodeSet(hp, x) = V
    <3>1. Nodes(hp, x) = v BY <2>6 DEF v
    <3> QED BY <3>1 DEF NodeSet
  <2>20. V = {m \in D : own[m] = o}
    <3> HIDE DEF V
    <3> QED BY <2>12, <2>17, <2>18
  <2> QED BY <2>6, <2>12, <2>19, <2>20 DEF v
<1> QED BY <1>3, <1>4

----------------------------------------------------------------------------
(* Folds.                                                                  *)

\* One more element in a set of the first numbers, and the greatest of it
LEMMA MaxLast ==
  ASSUME NEW k \in Nat, NEW s \in SUBSET (1..k+1), k + 1 \in s
  PROVE  Max(s) = k + 1 /\ s \ {Max(s)} \in SUBSET (1..k)
<1>1. s \in SUBSET (0..k+1) /\ k + 1 \in Nat
  OBVIOUS
<1>2. Max(s) \in s /\ \A y \in s : y <= Max(s)
  BY <1>1, Greatest
<1> DEFINE x == Max(s)
<1>3. x \in 1..k+1 /\ k + 1 <= x
  BY <1>2
<1> HIDE DEF x
<1>4. x = k + 1 /\ s \ {x} \in SUBSET (1..k)
  BY <1>3
<1> QED BY <1>4 DEF x

\* The recursion of a fold over 1..n with values in D has a solution.
Solves(f, k, base, G) ==
  f = [s \in SUBSET (1..k) |-> IF s = {} THEN base ELSE G[Max(s)][f[s \ {Max(s)}]]]

\* A fold over a sequence is well defined: its recursion has a solution.
LEMMA FoldExists ==
  ASSUME NEW D, NEW n \in Nat, NEW base \in D, NEW G \in [1..n -> [D -> D]]
  PROVE  \E f \in [SUBSET (1..n) -> D] : Solves(f, n, base, G)
<1> DEFINE S == {k \in 0..n : \E f \in [SUBSET (1..k) -> D] : Solves(f, k, base, G)}
<1>1. 0 \in S
  <2> DEFINE f == [s \in SUBSET (1..0) |-> base]
  <2>1. \A s \in SUBSET (1..0) : s = {}
    OBVIOUS
  <2>2. f \in [SUBSET (1..0) -> D]
    OBVIOUS
  <2>3. Solves(f, 0, base, G)
    BY <2>1 DEF Solves
  <2> QED BY <2>2, <2>3
<1>2. ASSUME NEW j \in 1..n, j - 1 \in S PROVE j \in S
  <2> DEFINE k == j - 1
  <2>1. k \in 0..n /\ j = k + 1 /\ k \in Nat
    OBVIOUS
  <2>2. PICK f \in [SUBSET (1..k) -> D] : Solves(f, k, base, G)
    BY <1>2
  <2> HIDE DEF k, S
  <2> DEFINE g == [s \in SUBSET (1..j) |-> IF j \in s THEN G[j][f[s \ {j}]] ELSE f[s]]
  <2>3. \A s \in SUBSET (1..j) : /\ j \in s => Max(s) = j /\ s # {}
                                 /\ s \ {j} \in SUBSET (1..k)
                                 /\ j \notin s => s \in SUBSET (1..k)
    BY <2>1, MaxLast
  <2>4. \A s \in SUBSET (1..k) : s \in SUBSET (1..j) /\ j \notin s
    BY <2>1
  <2>5. g \in [SUBSET (1..j) -> D]
    <3>1. ASSUME NEW s \in SUBSET (1..j) PROVE (IF j \in s THEN G[j][f[s \ {j}]] ELSE f[s]) \in D
      <4>1. j \in s => f[s \ {j}] \in D /\ G[j] \in [D -> D]
        BY <2>2, <2>3
      <4>2. j \notin s => f[s] \in D
        BY <2>2, <2>3
      <4> QED BY <4>1, <4>2
    <3> QED BY <3>1
  <2>6. \A s \in SUBSET (1..k) : g[s] = f[s]
    BY <2>4
  <2>7. ASSUME NEW s \in SUBSET (1..j)
        PROVE  g[s] = IF s = {} THEN base ELSE G[Max(s)][g[s \ {Max(s)}]]
    <3>1. CASE j \in s
      <4>1. g[s] = G[j][f[s \ {j}]]
        BY <3>1
      <4>2. g[s \ {j}] = f[s \ {j}]
        BY <2>3, <2>6
      <4> HIDE DEF g
      <4> QED BY <2>3, <3>1, <4>1, <4>2
    <3>2. CASE j \notin s
      <4>1. s \in SUBSET (1..k) /\ g[s] = f[s]
        BY <2>3, <3>2
      <4>2. f[s] = IF s = {} THEN base ELSE G[Max(s)][f[s \ {Max(s)}]]
        BY <2>2, <4>1 DEF Solves
      <4>3. s \ {Max(s)} \in SUBSET (1..k)
        BY <4>1
      <4>4. g[s \ {Max(s)}] = f[s \ {Max(s)}]
        BY <2>6, <4>3
      <4> HIDE DEF g
      <4> QED BY <4>1, <4>2, <4>4
    <3> QED BY <3>1, <3>2
  <2>8. g = [s \in SUBSET (1..j) |-> g[s]]
    OBVIOUS
  <2>9. Solves(g, j, base, G)
    <3> DEFINE e(s) == IF s = {} THEN base ELSE G[Max(s)][g[s \ {Max(s)}]]
    <3>1. \A s \in SUBSET (1..j) : g[s] = e(s)
      BY <2>7
    <3>2. [s \in SUBSET (1..j) |-> g[s]] = [s \in SUBSET (1..j) |-> e(s)]
      <4> HIDE DEF g, e
      <4> QED BY <3>1
    <3>3. g = [s \in SUBSET (1..j) |-> e(s)]
      BY <2>8, <3>2
    <3> HIDE DEF g
    <3> QED BY <3>3, Zenon DEF Solves
  <2>10. j \in 0..n
    OBVIOUS
  <2> HIDE DEF g
  <2> QED BY <2>5, <2>9, <2>10, Zenon DEF S
<1> HIDE DEF S
<1>3. \A k \in 0..n : k \in S
  BY <1>1, <1>2, UpTo
<1>4. n \in S
  BY <1>3
<1> QED BY <1>4 DEF S

\* A function on sets of numbers that stays in D, from the first ones to one more of them
Stays(fun, D, n) == fun[{}] \in D /\ \A k \in 1..n : fun[1..k-1] \in D => fun[1..k] \in D

\* It is in D at the end.
LEMMA FoldStays ==
  ASSUME NEW D, NEW n \in Nat, NEW fun, Stays(fun, D, n)
  PROVE  fun[1..n] \in D
<1>0. fun[{}] \in D /\ \A k \in 1..n : fun[1..k-1] \in D => fun[1..k] \in D
  BY DEF Stays
<1> DEFINE S == {k \in 0..n : fun[1..k] \in D}
<1>1. 0 \in S
  <2>1. 1..0 = {}
    OBVIOUS
  <2> QED BY <1>0, <2>1
<1>2. ASSUME NEW k \in 1..n, k - 1 \in S PROVE k \in S
  BY <1>0, <1>2
<1> HIDE DEF S
<1>3. n \in S
  BY <1>1, <1>2, UpTo
<1> QED BY <1>3 DEF S

\* The greatest of the first numbers
LEMMA MaxOf ==
  ASSUME NEW n \in Nat
  PROVE  /\ \A k \in 1..n : 1..k # {} /\ Max(1..k) = k /\ (1..k) \ {k} = 1..k-1 /\ 1..k \in SUBSET (1..n)
         /\ \A s \in SUBSET (1..n) : s # {} => Max(s) \in 1..n /\ s \ {Max(s)} \in SUBSET (1..n)
<1>1. ASSUME NEW k \in 1..n
      PROVE  1..k # {} /\ Max(1..k) = k /\ (1..k) \ {k} = 1..k-1 /\ 1..k \in SUBSET (1..n)
  <2>1. k - 1 \in Nat /\ 1..k \in SUBSET (1..(k-1)+1) /\ (k-1)+1 \in 1..k /\ k = (k-1)+1
    OBVIOUS
  <2>2. Max(1..k) = k
    BY <2>1, MaxLast
  <2> QED BY <2>2
<1>2. ASSUME NEW s \in SUBSET (1..n), s # {} PROVE Max(s) \in 1..n /\ s \ {Max(s)} \in SUBSET (1..n)
  <2>1. s \in SUBSET (0..n)
    OBVIOUS
  <2>2. Max(s) \in s
    BY <1>2, <2>1, Greatest
  <2> QED BY <2>2
<1> QED BY <1>1, <1>2

\* What is on a heap of nodes with data of T
Heaps(T) == UNION {[S -> [next : S, prev : S, data : T]] : S \in SUBSET Nat}

\* A heap whose lists are whole, and one of its lists
ListStates(T, hd, o, L) ==
  {st \in [heap : Heaps(T), list : Nat] : Whole(st.heap, T, [hd EXCEPT ![o] = st.list], L)}

\* What is whole is a heap, and heads are addresses or NULL.
LEMMA WholeTypes ==
  ASSUME NEW T, NEW L, NEW hp, NEW hd, Whole(hp, T, hd, L)
  PROVE  hp \in Heaps(T) /\ hd \in [Owners -> Nat]
<1>1. PICK D \in SUBSET Nat : \E own : Owned(hp, D, T, own, hd, L) BY DEF Whole
<1>2. PICK own : Owned(hp, D, T, own, hd, L) BY <1>1
<1>3. hp \in [D -> [next : D, prev : D, data : T]] BY <1>2 DEF Owned, Heap
<1>4. hp \in Heaps(T) BY <1>3 DEF Heaps
<1>5. hd \in [Owners -> D \cup {NULL}] /\ NULL \in Nat BY <1>2 DEF Owned, Headed, NULL
<1>6. hd \in [Owners -> Nat] BY <1>5
<1> QED BY <1>4, <1>6

\* What is done to a list that is replaced anyway
LEMMA Replaced ==
  ASSUME NEW T, NEW L, NEW hd, DOMAIN hd = Owners, NEW o \in Owners, NEW st \in ListStates(T, hd, o, L),
         NEW hd1, hd1 = [hd EXCEPT ![o] = st.list], NEW g, NEW y, NEW r, r = [heap |-> g, list |-> y],
         Whole(g, T, [hd1 EXCEPT ![o] = y], L)
  PROVE  r \in ListStates(T, hd, o, L)
<1>1. [hd1 EXCEPT ![o] = y] = [hd EXCEPT ![o] = y] OBVIOUS
<1> DEFINE hd2 == [hd EXCEPT ![o] = y]
<1>2. Whole(g, T, hd2, L) BY <1>1
<1>3. hd2[o] = y OBVIOUS
<1> HIDE DEF hd2
<1>4. g \in Heaps(T) /\ y \in Nat BY <1>2, <1>3, WholeTypes
<1>5. r \in [heap : Heaps(T), list : Nat] /\ r.heap = g /\ r.list = y BY <1>4
<1> QED BY <1>2, <1>5 DEF ListStates, hd2

\* kmod_list_append, and kmod_list_remove of the last node, of such a list
LEMMA ListStep ==
  ASSUME NEW T, NEW L, NEW hd, DOMAIN hd = Owners, NEW o \in Owners, NEW st \in ListStates(T, hd, o, L)
  PROVE  /\ \A data \in T : kmod_list_append(st.heap, st.list, data) \in ListStates(T, hd, o, L)
         /\ kmod_list_remove(st.heap, kmod_list_last(st.heap, st.list)) \in ListStates(T, hd, o, L)
<1> DEFINE hd1 == [hd EXCEPT ![o] = st.list]
           g == st.heap
           x == st.list
<1>1. Whole(g, T, hd1, L) /\ x \in Nat BY DEF ListStates
<1>2. hd1[o] = x OBVIOUS
<1>3. hd1 = [hd EXCEPT ![o] = st.list] OBVIOUS
<1> HIDE DEF hd1
<1>4. ASSUME NEW data \in T PROVE kmod_list_append(g, x, data) \in ListStates(T, hd, o, L)
  <2> DEFINE r == kmod_list_append(g, x, data)
  <2>1. r = [heap |-> r.heap, list |-> r.list] BY DEF kmod_list_append
  <2>2. r = kmod_list_append(g, hd1[o], data) BY <1>2
  <2> HIDE DEF r, g, x
  <2>3. Whole(r.heap, T, [hd1 EXCEPT ![o] = r.list], L) BY <1>1, <2>2, AppendWhole
  <2>4. r \in ListStates(T, hd, o, L) BY <1>3, <2>1, <2>3, Replaced
  <2> QED BY <2>4 DEF r
<1>5. kmod_list_remove(g, kmod_list_last(g, x)) \in ListStates(T, hd, o, L)
  <2> DEFINE y == kmod_list_last(g, x)
             r == kmod_list_remove(g, y)
  <2>1. r = [heap |-> r.heap, list |-> r.list] BY DEF kmod_list_remove, list_node_remove
  <2>2. y \in {hd1[o], kmod_list_last(g, hd1[o])} BY <1>2
  <2>3. r = kmod_list_remove(g, y) OBVIOUS
  <2> HIDE DEF r, g, x, y
  <2>4. Whole(r.heap, T, [hd1 EXCEPT ![o] = r.list], L) BY <1>1, <2>2, <2>3, RemoveWhole
  <2>5. r \in ListStates(T, hd, o, L) BY <1>3, <2>1, <2>4, Replaced
  <2> QED BY <2>5 DEF r, y
<1> QED BY <1>4, <1>5

\* A loop that removes the last node
LEMMA RemoveFold ==
  ASSUME NEW T, NEW L, NEW hd, DOMAIN hd = Owners, NEW o \in Owners, NEW n \in Nat, NEW seq \in [1..n -> Nat], NEW base \in ListStates(T, hd, o, L)
  PROVE  FoldLeft(LAMBDA s, k : kmod_list_remove(s.heap, kmod_list_last(s.heap, s.list)), base, seq) \in ListStates(T, hd, o, L)
<1> DEFINE D == ListStates(T, hd, o, L)
           G == [k \in 1..n |-> [d \in D |-> kmod_list_remove(d.heap, kmod_list_last(d.heap, d.list))]]
           Is(f) == f = [s \in SUBSET DOMAIN seq |->
                           IF s = {} THEN base ELSE kmod_list_remove(f[s \ {Max(s)}].heap, kmod_list_last(f[s \ {Max(s)}].heap, f[s \ {Max(s)}].list))]
           fun == CHOOSE f : Is(f)
<1>1. \A d \in D : \A k \in 1..n : kmod_list_remove(d.heap, kmod_list_last(d.heap, d.list)) \in D
  BY ListStep
<1> HIDE DEF D
<1>2. G \in [1..n -> [D -> D]] /\ base \in D
  BY <1>1 DEF D
<1>3. \A k \in 1..n : \A d \in D : G[k][d] = kmod_list_remove(d.heap, kmod_list_last(d.heap, d.list))
  OBVIOUS
<1> HIDE DEF G
<1>4. PICK f \in [SUBSET (1..n) -> D] : Solves(f, n, base, G)
  BY <1>2, FoldExists
<1>5. \A s \in SUBSET (1..n) :
        (IF s = {} THEN base ELSE G[Max(s)][f[s \ {Max(s)}]]) =
        (IF s = {} THEN base ELSE kmod_list_remove(f[s \ {Max(s)}].heap, kmod_list_last(f[s \ {Max(s)}].heap, f[s \ {Max(s)}].list)))
  BY <1>3, MaxOf
<1>6. Is(f)
  <2>1. DOMAIN seq = 1..n
    OBVIOUS
  <2>2. f = [s \in SUBSET (1..n) |-> IF s = {} THEN base ELSE G[Max(s)][f[s \ {Max(s)}]]]
    BY <1>4, Zenon DEF Solves
  <2> QED BY <1>5, <2>1, <2>2
<1>7. Is(fun)
  <2> HIDE DEF Is
  <2> QED BY <1>6, Zenon
<1>8. fun[1..n] = FoldLeft(LAMBDA s, k : kmod_list_remove(s.heap, kmod_list_last(s.heap, s.list)), base, seq)
  <2>1. DOMAIN seq = 1..n
    OBVIOUS
  <2>2. fun[DOMAIN seq] = FoldLeft(LAMBDA s, k : kmod_list_remove(s.heap, kmod_list_last(s.heap, s.list)), base, seq)
    BY Zenon DEF FoldLeft, MapThenFoldSet
  <2> HIDE DEF fun
  <2> QED BY <2>1, <2>2
<1> HIDE DEF fun
<1>9. \A s \in SUBSET (1..n) : fun[s] = IF s = {} THEN base ELSE kmod_list_remove(fun[s \ {Max(s)}].heap, kmod_list_last(fun[s \ {Max(s)}].heap, fun[s \ {Max(s)}].list))
  <2>1. DOMAIN seq = 1..n
    OBVIOUS
  <2> QED BY <1>7, <2>1
<1> HIDE DEF Is
<1>10. fun[{}] \in D
  BY <1>2, <1>9
<1>11. ASSUME NEW k \in 1..n, fun[1..k-1] \in D PROVE fun[1..k] \in D
  <2>1. 1..k \in SUBSET (1..n) /\ 1..k # {} /\ Max(1..k) = k /\ (1..k) \ {k} = 1..k-1
    BY MaxOf
  <2>2. fun[1..k] = kmod_list_remove(fun[1..k-1].heap, kmod_list_last(fun[1..k-1].heap, fun[1..k-1].list))
    BY <1>9, <2>1
  <2> QED BY <1>1, <1>11, <2>2
<1>12. fun[1..n] \in D
  <2>1. Stays(fun, D, n) BY <1>10, <1>11, Zenon DEF Stays
  <2> QED BY <2>1, FoldStays
<1> QED BY <1>8, <1>12 DEF D

\* The heads of the lists, when those of the configuration are c
WithConfig(hd, c) == [o \in Owners |-> IF o \in Lists \cup {"paths"} THEN c[o] ELSE hd[o]]

\* A heap whose lists are whole, and the lists of the configuration
ConfigStates(T, hd, L) ==
  {st \in [heap : Heaps(T), config : [Lists \cup {"paths"} -> Nat]] : Whole(st.heap, T, WithConfig(hd, st.config), L)}

\* kmod_list_append to one of them
LEMMA AddStep ==
  ASSUME NEW T, NEW L, NEW hd, NEW st \in ConfigStates(T, hd, L), NEW it \in [list : Lists, data : T]
  PROVE  AddItem(st, it) \in ConfigStates(T, hd, L)
<1> DEFINE c == st.config
           l == it.list
           r == kmod_list_append(st.heap, c[l], it.data)
           hd1 == WithConfig(hd, c)
           c2 == [c EXCEPT ![l] = r.list]
<1>1. /\ c \in [Lists \cup {"paths"} -> Nat] /\ l \in Lists /\ it.data \in T
      /\ Whole(st.heap, T, hd1, L)
  BY DEF ConfigStates
<1>2. l \in Owners BY <1>1 DEF Owners
<1>3. hd1[l] = c[l] /\ hd1 = [o \in Owners |-> IF o \in Lists \cup {"paths"} THEN c[o] ELSE hd[o]]
  BY <1>1, <1>2 DEF WithConfig
<1>4. r = kmod_list_append(st.heap, hd1[l], it.data) BY <1>3
<1>5. AddItem(st, it) = [heap |-> r.heap, config |-> c2] BY DEF AddItem
<1> DEFINE hd2 == [hd1 EXCEPT ![l] = r.list]
<1> HIDE DEF r, hd1
<1>6. Whole(r.heap, T, hd2, L)
  <2> HIDE DEF c, l, c2
  <2> QED BY <1>1, <1>2, <1>4, AppendWhole
<1>7. r.heap \in Heaps(T) /\ r.list \in Nat
  <2>1. hd2[l] = r.list BY <1>2, <1>3
  <2> HIDE DEF hd2, l
  <2> QED BY <1>2, <1>6, <2>1, WholeTypes
<1>8. c2 \in [Lists \cup {"paths"} -> Nat] BY <1>1, <1>7
<1>9. hd2 = WithConfig(hd, c2)
  <2>1. \A o \in Owners : hd2[o] = IF o \in Lists \cup {"paths"} THEN c2[o] ELSE hd[o]
    <3> HIDE DEF c, l
    <3> QED BY <1>1, <1>3
  <2>2. DOMAIN hd2 = Owners BY <1>3
  <2>3. hd2 = [o \in Owners |-> hd2[o]] BY <1>3
  <2> HIDE DEF hd2, c2
  <2> QED BY <2>1, <2>3 DEF WithConfig
<1> HIDE DEF c2, hd2
<1> QED BY <1>5, <1>6, <1>7, <1>8, <1>9 DEF ConfigStates

\* The items of a line
LEMMA ItemsFold ==
  ASSUME NEW T, NEW L, NEW hd, NEW n \in Nat, NEW seq \in [1..n -> [list : Lists, data : T]], NEW base \in ConfigStates(T, hd, L)
  PROVE  FoldLeft(AddItem, base, seq) \in ConfigStates(T, hd, L)
<1> DEFINE D == ConfigStates(T, hd, L)
           G == [k \in 1..n |-> [d \in D |-> AddItem(d, seq[k])]]
           Is(f) == f = [s \in SUBSET DOMAIN seq |->
                           IF s = {} THEN base ELSE AddItem(f[s \ {Max(s)}], seq[Max(s)])]
           fun == CHOOSE f : Is(f)
<1>1. \A d \in D : \A k \in 1..n : AddItem(d, seq[k]) \in D
  BY AddStep
<1> HIDE DEF D
<1>2. G \in [1..n -> [D -> D]] /\ base \in D
  BY <1>1 DEF D
<1>3. \A k \in 1..n : \A d \in D : G[k][d] = AddItem(d, seq[k])
  OBVIOUS
<1> HIDE DEF G
<1>4. PICK f \in [SUBSET (1..n) -> D] : Solves(f, n, base, G)
  BY <1>2, FoldExists
<1>5. \A s \in SUBSET (1..n) :
        (IF s = {} THEN base ELSE G[Max(s)][f[s \ {Max(s)}]]) =
        (IF s = {} THEN base ELSE AddItem(f[s \ {Max(s)}], seq[Max(s)]))
  BY <1>3, MaxOf
<1>6. Is(f)
  <2>1. DOMAIN seq = 1..n
    OBVIOUS
  <2>2. f = [s \in SUBSET (1..n) |-> IF s = {} THEN base ELSE G[Max(s)][f[s \ {Max(s)}]]]
    BY <1>4, Zenon DEF Solves
  <2> QED BY <1>5, <2>1, <2>2
<1>7. Is(fun)
  <2> HIDE DEF Is
  <2> QED BY <1>6, Zenon
<1>8. fun[1..n] = FoldLeft(AddItem, base, seq)
  <2>1. DOMAIN seq = 1..n
    OBVIOUS
  <2>2. fun[DOMAIN seq] = FoldLeft(AddItem, base, seq)
    BY Zenon DEF FoldLeft, MapThenFoldSet
  <2> HIDE DEF fun
  <2> QED BY <2>1, <2>2
<1> HIDE DEF fun
<1>9. \A s \in SUBSET (1..n) : fun[s] = IF s = {} THEN base ELSE AddItem(fun[s \ {Max(s)}], seq[Max(s)])
  <2>1. DOMAIN seq = 1..n
    OBVIOUS
  <2> QED BY <1>7, <2>1
<1> HIDE DEF Is
<1>10. fun[{}] \in D
  BY <1>2, <1>9
<1>11. ASSUME NEW k \in 1..n, fun[1..k-1] \in D PROVE fun[1..k] \in D
  <2>1. 1..k \in SUBSET (1..n) /\ 1..k # {} /\ Max(1..k) = k /\ (1..k) \ {k} = 1..k-1
    BY MaxOf
  <2>2. fun[1..k] = AddItem(fun[1..k-1], seq[k])
    BY <1>9, <2>1
  <2> QED BY <1>1, <1>11, <2>2
<1>12. fun[1..n] \in D
  <2>1. Stays(fun, D, n) BY <1>10, <1>11, Zenon DEF Stays
  <2> QED BY <2>1, FoldStays
<1> QED BY <1>8, <1>12 DEF D

\* A character more of a text that strsep parts
Part(p, c, x) == IF x = c THEN Append(p, <<>>) ELSE [p EXCEPT ![Len(p)] = Append(@, x)]

\* strsep parts a text in at least one.
LEMMA SeparatedTexts ==
  ASSUME NEW c, NEW n \in Nat, NEW seq \in [1..n -> STRING]
  PROVE  Separated(seq, c) \in {p \in Seq(Seq(STRING)) : p # <<>>}
<1> DEFINE base == <<<<>>>>
           D == {p \in Seq(Seq(STRING)) : p # <<>>}
           G == [k \in 1..n |-> [d \in D |-> Part(d, c, seq[k])]]
           Is(f) == f = [s \in SUBSET DOMAIN seq |->
                           IF s = {} THEN base ELSE Part(f[s \ {Max(s)}], c, seq[Max(s)])]
           fun == CHOOSE f : Is(f)
<1>1. \A d \in D : \A k \in 1..n : Part(d, c, seq[k]) \in D
  <2> SUFFICES ASSUME NEW p \in D, NEW k \in 1..n, NEW x, x = seq[k]
               PROVE  Part(p, c, x) \in D
    OBVIOUS
  <2>1. p \in Seq(Seq(STRING)) /\ p # <<>> /\ x \in STRING /\ Len(p) \in DOMAIN p OBVIOUS
  <2>2. Append(p, <<>>) \in D
    <3>1. Append(p, <<>>) \in Seq(Seq(STRING)) /\ Len(Append(p, <<>>)) = Len(p) + 1 BY <2>1
    <3>2. Len(p) + 1 # 0 /\ Len(<<>>) = 0 BY <2>1
    <3> QED BY <3>1, <3>2
  <2>3. [p EXCEPT ![Len(p)] = Append(@, x)] \in D
    <3>1. p[Len(p)] \in Seq(STRING) BY <2>1
    <3>2. Append(p[Len(p)], x) \in Seq(STRING) BY <2>1, <3>1
    <3> DEFINE q == [p EXCEPT ![Len(p)] = Append(p[Len(p)], x)]
    <3>3. q \in Seq(Seq(STRING)) /\ Len(q) = Len(p) BY <2>1, <3>2
    <3> QED BY <2>1, <3>3
  <2> QED BY <2>2, <2>3 DEF Part
<1> HIDE DEF D
<1>2. G \in [1..n -> [D -> D]] /\ base \in D
  BY <1>1 DEF D
<1>3. \A k \in 1..n : \A d \in D : G[k][d] = Part(d, c, seq[k])
  OBVIOUS
<1> HIDE DEF G
<1>4. PICK f \in [SUBSET (1..n) -> D] : Solves(f, n, base, G)
  BY <1>2, FoldExists
<1>5. \A s \in SUBSET (1..n) :
        (IF s = {} THEN base ELSE G[Max(s)][f[s \ {Max(s)}]]) =
        (IF s = {} THEN base ELSE Part(f[s \ {Max(s)}], c, seq[Max(s)]))
  BY <1>3, MaxOf
<1>6. Is(f)
  <2>1. DOMAIN seq = 1..n
    OBVIOUS
  <2>2. f = [s \in SUBSET (1..n) |-> IF s = {} THEN base ELSE G[Max(s)][f[s \ {Max(s)}]]]
    BY <1>4, Zenon DEF Solves
  <2> QED BY <1>5, <2>1, <2>2
<1>7. Is(fun)
  <2> HIDE DEF Is
  <2> QED BY <1>6, Zenon
<1>8. fun[1..n] = Separated(seq, c)
  <2>1. DOMAIN seq = 1..n
    OBVIOUS
  <2>2. fun[DOMAIN seq] = Separated(seq, c)
    BY Zenon DEF Separated, Part, FoldLeft, MapThenFoldSet
  <2> HIDE DEF fun
  <2> QED BY <2>1, <2>2
<1> HIDE DEF fun
<1>9. \A s \in SUBSET (1..n) : fun[s] = IF s = {} THEN base ELSE Part(fun[s \ {Max(s)}], c, seq[Max(s)])
  <2>1. DOMAIN seq = 1..n
    OBVIOUS
  <2> QED BY <1>7, <2>1
<1> HIDE DEF Is
<1>10. fun[{}] \in D
  BY <1>2, <1>9
<1>11. ASSUME NEW k \in 1..n, fun[1..k-1] \in D PROVE fun[1..k] \in D
  <2>1. 1..k \in SUBSET (1..n) /\ 1..k # {} /\ Max(1..k) = k /\ (1..k) \ {k} = 1..k-1
    BY MaxOf
  <2>2. fun[1..k] = Part(fun[1..k-1], c, seq[k])
    BY <1>9, <2>1
  <2> QED BY <1>1, <1>11, <2>2
<1>12. fun[1..n] \in D
  <2>1. Stays(fun, D, n) BY <1>10, <1>11, Zenon DEF Stays
  <2> QED BY <2>1, FoldStays
<1> QED BY <1>8, <1>12 DEF D

----------------------------------------------------------------------------
(* The heads of the lists.                                                 *)

\* The heads of the owners, one by one
Heads(files, looked, a, b, c, cf) ==
  [o \in Owners |->
     CASE o = "files" -> files [] o = "lookup" -> looked [] o = "found" -> a [] o = "pre" -> b [] o = "post" -> c
       [] OTHER -> cf[o]]

\* Functions of the owners are the same if they agree on each of them.
Agree(f, g) ==
  /\ f["files"] = g["files"] /\ f["lookup"] = g["lookup"]
  /\ f["found"] = g["found"] /\ f["pre"] = g["pre"] /\ f["post"] = g["post"]
  /\ \A l \in Lists \cup {"paths"} : f[l] = g[l]

\* There are no other owners.
LEMMA SameHeads ==
  ASSUME NEW f, NEW g, f = [o \in Owners |-> f[o]], g = [o \in Owners |-> g[o]], Agree(f, g)
  PROVE  f = g
<1>1. \A o \in Owners : f[o] = g[o] BY DEF Agree, Owners
<1> QED BY <1>1

\* What the heads are
LEMMA HeadValues ==
  ASSUME NEW files, NEW looked, NEW a, NEW b, NEW c, NEW cf, NEW f, f = Heads(files, looked, a, b, c, cf)
  PROVE  /\ f = [o \in Owners |-> f[o]] /\ DOMAIN f = Owners
         /\ f["files"] = files /\ f["lookup"] = looked /\ f["found"] = a /\ f["pre"] = b /\ f["post"] = c
         /\ \A l \in Lists \cup {"paths"} : f[l] = cf[l]
<1>1. \A l \in Lists \cup {"paths"} : l \notin {"files", "lookup", "found", "pre", "post"} /\ l \in Owners
  BY DEF Lists, Owners
<1>2. {"files", "lookup", "found", "pre", "post"} \subseteq Owners BY DEF Owners
<1> QED BY <1>1, <1>2 DEF Heads

\* The heads when the owners of S have freed their lists
Emptied(hd, S) == [o \in Owners |-> IF o \in S THEN NULL ELSE hd[o]]

\* One more owner frees its list.
LEMMA FreeNext ==
  ASSUME NEW T, NEW L, NEW hd, NEW S, NEW hp, Whole(hp, T, Emptied(hd, S), L), NEW o \in Owners \ S, NEW x, x = hd[o]
  PROVE  Whole(RemoveAll(hp, x), T, Emptied(hd, S \cup {o}), L)
<1> DEFINE hd1 == Emptied(hd, S)
<1>1. x = hd1[o] BY DEF Emptied
<1>2. [hd1 EXCEPT ![o] = NULL] = Emptied(hd, S \cup {o}) BY DEF Emptied
<1> HIDE DEF hd1
<1>3. Whole(hp, T, hd1, L) /\ o \in Owners BY DEF hd1
<1>4. Whole(RemoveAll(hp, x), T, [hd1 EXCEPT ![o] = NULL], L) BY <1>1, <1>3, RemoveAllWhole
<1> QED BY <1>2, <1>4

\* Nobody has freed a list yet.
LEMMA FreeNone ==
  ASSUME NEW T, NEW L, NEW hd, NEW hp, Whole(hp, T, hd, L)
  PROVE  Whole(hp, T, Emptied(hd, {}), L)
<1>1. hd \in [Owners -> Nat] BY WholeTypes
<1>2. Emptied(hd, {}) = hd BY <1>1 DEF Emptied
<1> QED BY <1>2

\* Nothing is left when all are empty.
LEMMA NothingLeft ==
  ASSUME NEW T, NEW L, NEW hd, NEW hp, Whole(hp, T, hd, L), \A o \in Owners : hd[o] = NULL
  PROVE  DOMAIN hp = L
<1>1. PICK D \in SUBSET Nat : \E own : Owned(hp, D, T, own, hd, L) BY DEF Whole
<1>2. PICK own : Owned(hp, D, T, own, hd, L) BY <1>1
<1>3. \A m \in D : own[m] \notin Owners BY <1>2 DEF Owned, Headed
<1>4. DOMAIN hp = D /\ L = {m \in D : own[m] \notin Owners} BY <1>2 DEF Owned, Heap
<1> QED BY <1>3, <1>4

\* Other data may be there as well.
LEMMA WiderWhole ==
  ASSUME NEW T, NEW L, NEW U, T \subseteq U, NEW hd, NEW hp, Whole(hp, T, hd, L)
  PROVE  Whole(hp, U, hd, L)
<1>1. PICK D \in SUBSET Nat : \E own : Owned(hp, D, T, own, hd, L) BY DEF Whole
<1>2. PICK own : Owned(hp, D, T, own, hd, L) BY <1>1
<1>3. hp \in [D -> [next : D, prev : D, data : U]] BY <1>2 DEF Owned, Heap
<1>4. Heap(hp, D, U) BY <1>2, <1>3 DEF Owned, Heap
<1>5. Owned(hp, D, U, own, hd, L) BY <1>2, <1>4 DEF Owned
<1> QED BY <1>5 DEF Whole

\* kmod_list_append_list takes the list of another owner.
LEMMA JoinWhole ==
  ASSUME NEW T, NEW L, NEW hp, NEW hd, Whole(hp, T, hd, L), NEW o1 \in Owners, NEW o2 \in Owners, o1 # o2,
         NEW r, r = kmod_list_append_list(hp, hd[o1], hd[o2])
  PROVE  Whole(r.heap, T, [hd EXCEPT ![o1] = r.list, ![o2] = NULL], L)
<1>1. PICK D \in SUBSET Nat : \E own : Owned(hp, D, T, own, hd, L) BY DEF Whole
<1>2. PICK own : Owned(hp, D, T, own, hd, L) BY <1>1
<1> QED BY <1>2, JoinOwned

\* A list whose head is lost: its nodes stay where they are, and belong to nobody.
LEMMA DropOwned ==
  ASSUME NEW D, NEW T, NEW L, NEW hp, NEW own, NEW hd, Owned(hp, D, T, own, hd, L), NEW o \in Owners
  PROVE  \E own2 : Owned(hp, D, T, own2, [hd EXCEPT ![o] = NULL], L \cup {m \in D : own[m] = o})
<1> DEFINE S == Owners \cup {own[m] : m \in D}
           z == {y \in S : y \notin y}
           own2 == [m \in D |-> IF own[m] = o THEN z ELSE own[m]]
           hd2 == [hd EXCEPT ![o] = NULL]
<1>1. Heap(hp, D, T) /\ Rings(hp, D, own) /\ Headed(hd, D, own) /\ L = {m \in D : own[m] \notin Owners}
  BY DEF Owned
<1>2. z \notin Owners /\ \A m \in D : own[m] # z
  <2>1. z \notin S
    <3>1. \A y : y \in z <=> y \in S /\ y \notin y OBVIOUS
    <3> HIDE DEF z, S
    <3> QED BY <3>1
  <2> HIDE DEF z
  <2> QED BY <2>1
<1> HIDE DEF z, S
<1>3. \A m \in D : own2[m] = IF own[m] = o THEN z ELSE own[m] OBVIOUS
<1> HIDE DEF own2
<1>4. Rings(hp, D, own2)
  <2>1. \A m \in D : hp[m].next \in D BY <1>1 DEF Heap
  <2>2. \A m \in D : own2[hp[m].next] = own2[m] BY <1>1, <1>3, <2>1 DEF Rings
  <2>3. \A a, b \in D : own2[b] = own2[a] => own[b] = own[a] BY <1>2, <1>3
  <2>4. ASSUME NEW R \in SUBSET D, \A m \in R : hp[m].next \in R, NEW a \in R, NEW b \in D, own2[b] = own2[a]
        PROVE  b \in R
    <3>1. own[b] = own[a] BY <2>3, <2>4
    <3> QED BY <1>1, <2>4, <3>1 DEF Rings
  <2> QED BY <2>2, <2>4 DEF Rings
<1>5. Headed(hd2, D, own2)
  <2>1. hd \in [Owners -> D \cup {NULL}]
        /\ \A p \in Owners : IF hd[p] = NULL THEN \A m \in D : own[m] # p ELSE own[hd[p]] = p
    BY <1>1 DEF Headed
  <2>2. hd2 \in [Owners -> D \cup {NULL}] /\ \A p \in Owners : hd2[p] = IF p = o THEN NULL ELSE hd[p] BY <2>1
  <2> HIDE DEF hd2
  <2>3. ASSUME NEW p \in Owners PROVE IF hd2[p] = NULL THEN \A m \in D : own2[m] # p ELSE own2[hd2[p]] = p
    <3>1. CASE p = o BY <1>2, <1>3, <2>2, <3>1
    <3>2. CASE p # o
      <4>1. hd2[p] = hd[p] BY <2>2, <3>2
      <4>2. CASE hd[p] = NULL BY <1>2, <1>3, <2>1, <4>1, <4>2
      <4>3. CASE hd[p] # NULL
        <5>1. hd[p] \in D /\ own[hd[p]] = p BY <2>1, <4>3
        <5> QED BY <1>3, <3>2, <4>1, <4>3, <5>1
      <4> QED BY <4>2, <4>3
    <3> QED BY <3>1, <3>2
  <2> QED BY <2>2, <2>3 DEF Headed
<1>6. L \cup {m \in D : own[m] = o} = {m \in D : own2[m] \notin Owners}
  <2>1. \A m \in D : own2[m] \notin Owners <=> (own[m] \notin Owners \/ own[m] = o) BY <1>2, <1>3
  <2> QED BY <1>1, <2>1
<1> HIDE DEF hd2
<1>7. Owned(hp, D, T, own2, hd2, L \cup {m \in D : own[m] = o}) BY <1>4, <1>5, <1>6 DEF Owned
<1> QED BY <1>7 DEF hd2

\* The list of an owner is lost.
LEMMA DropWhole ==
  ASSUME NEW T, NEW L, NEW hp, NEW hd, Whole(hp, T, hd, L), NEW o \in Owners, NEW x, x = hd[o]
  PROVE  Whole(hp, T, [hd EXCEPT ![o] = NULL], L \cup NodeSet(hp, x)) /\ L \cup NodeSet(hp, x) \in SUBSET Nat
<1>1. PICK D \in SUBSET Nat : \E own : Owned(hp, D, T, own, hd, L) BY DEF Whole
<1>2. PICK own : Owned(hp, D, T, own, hd, L) BY <1>1
<1>3. NodeSet(hp, x) = {m \in D : own[m] = o} BY <1>2, NodesOf
<1>4. L = {m \in D : own[m] \notin Owners} BY <1>2 DEF Owned
<1>5. L \cup NodeSet(hp, x) \in SUBSET Nat BY <1>3, <1>4
<1>6. PICK own2 : Owned(hp, D, T, own2, [hd EXCEPT ![o] = NULL], L \cup NodeSet(hp, x)) BY <1>2, <1>3, DropOwned
<1>7. Whole(hp, T, [hd EXCEPT ![o] = NULL], L \cup NodeSet(hp, x)) BY <1>6 DEF Whole
<1> QED BY <1>5, <1>7

\* The nodes that are reached from the heads
Reached(hp, hd) == UNION {NodeSet(hp, hd[o]) : o \in Owners}

\* What NodesOwned says of the heap and the heads
LEMMA WholeNodes ==
  ASSUME NEW T, NEW L, NEW hp, NEW hd, Whole(hp, T, hd, L)
  PROVE  /\ Linked(hp)
         /\ L \subseteq DOMAIN hp /\ Reached(hp, hd) = DOMAIN hp \ L
         /\ \A o, p \in Owners : o # p => NodeSet(hp, hd[o]) \cap NodeSet(hp, hd[p]) = {}
         /\ \A o \in Owners : \E n \in Nat : Nodes(hp, hd[o]) \in [1..n -> DOMAIN hp]
<1>1. PICK D \in SUBSET Nat : \E own : Owned(hp, D, T, own, hd, L) BY DEF Whole
<1>2. PICK own : Owned(hp, D, T, own, hd, L) BY <1>1
<1>3. Heap(hp, D, T) /\ DOMAIN hp = D BY <1>2 DEF Owned, Heap
<1>4. Linked(hp) BY <1>3 DEF Heap, Linked
<1>5. \A o \in Owners : Nodes(hp, hd[o]) \in Seq(D) /\ NodeSet(hp, hd[o]) = {m \in D : own[m] = o}
  BY <1>2, NodesOf
<1>10. L = {m \in D : own[m] \notin Owners} BY <1>2 DEF Owned
<1>6. UNION {NodeSet(hp, hd[o]) : o \in Owners} = D \ L
  <2>1. UNION {NodeSet(hp, hd[o]) : o \in Owners} \subseteq D \ L BY <1>5, <1>10
  <2>2. ASSUME NEW m \in D \ L PROVE m \in UNION {NodeSet(hp, hd[o]) : o \in Owners}
    <3>1. own[m] \in Owners /\ m \in NodeSet(hp, hd[own[m]]) BY <1>5, <1>10
    <3> QED BY <3>1
  <2> QED BY <2>1, <2>2
<1>7. ASSUME NEW o \in Owners, NEW p \in Owners, o # p PROVE NodeSet(hp, hd[o]) \cap NodeSet(hp, hd[p]) = {}
  BY <1>5, <1>7
<1>8. ASSUME NEW o \in Owners PROVE \E n \in Nat : Nodes(hp, hd[o]) \in [1..n -> D]
  <2>1. Nodes(hp, hd[o]) \in Seq(D) BY <1>5
  <2> QED BY <2>1
<1>9. Reached(hp, hd) = D \ L BY <1>6 DEF Reached
<1> QED BY <1>3, <1>4, <1>7, <1>8, <1>9, <1>10

\* A heap with the list of a lookup, and what has been lost since it was K: nothing, unless
\* some append has failed
LookStates(T, hd, o, F, K) ==
  {st \in [heap : Heaps(T), list : Nat, dropped : SUBSET Nat] :
     Whole(st.heap, T, [hd EXCEPT ![o] = st.list], st.dropped) /\ (F = {} => st.dropped = K)}

\* A module more is appended, or the list is lost.
LEMMA LookStep ==
  ASSUME NEW T, NEW hd, DOMAIN hd = Owners, NEW o \in Owners, NEW F, NEW K, NEW st \in LookStates(T, hd, o, F, K),
         NEW m \in T, NEW fails \in BOOLEAN, fails => F # {}, NEW r, r = AppendMod(st, m, fails)
  PROVE  r \in LookStates(T, hd, o, F, K)
<1> DEFINE L == st.dropped
           g == st.heap
           x == st.list
           hd1 == [hd EXCEPT ![o] = x]
<1>1. Whole(g, T, hd1, L) /\ x \in Nat /\ L \in SUBSET Nat /\ (F = {} => L = K) /\ g \in Heaps(T) BY DEF LookStates
<1>2. CASE fails
  <2>1. r = [heap |-> g, list |-> NULL, dropped |-> L \cup NodeSet(g, x)] BY <1>2 DEF AppendMod
  <2>2. hd1[o] = x /\ [hd1 EXCEPT ![o] = NULL] = [hd EXCEPT ![o] = NULL] OBVIOUS
  <2>3. Whole(g, T, [hd EXCEPT ![o] = NULL], L \cup NodeSet(g, x)) /\ L \cup NodeSet(g, x) \in SUBSET Nat
    <3> HIDE DEF hd1, L, g, x
    <3> QED BY <1>1, <2>2, DropWhole
  <2>4. r \in [heap : Heaps(T), list : Nat, dropped : SUBSET Nat] /\ r.heap = g /\ r.list = NULL
        /\ r.dropped = L \cup NodeSet(g, x)
    <3> HIDE DEF L, g, x
    <3> QED BY <1>1, <2>1, <2>3 DEF NULL
  <2> QED BY <1>2, <2>3, <2>4 DEF LookStates
<1>3. CASE ~fails
  <2> DEFINE s == [heap |-> g, list |-> x]
             app == kmod_list_append(g, x, m)
  <2>1. s \in ListStates(T, hd, o, L) /\ s.heap = g /\ s.list = x BY <1>1 DEF ListStates
  <2>2. r = [heap |-> app.heap, list |-> app.list, dropped |-> L] BY <1>3 DEF AppendMod
  <2> HIDE DEF s, L
  <2>3. kmod_list_append(s.heap, s.list, m) \in ListStates(T, hd, o, L) BY <2>1, ListStep
  <2>4. app \in ListStates(T, hd, o, L) BY <2>1, <2>3
  <2> HIDE DEF app
  <2>5. app.heap \in Heaps(T) /\ app.list \in Nat /\ Whole(app.heap, T, [hd EXCEPT ![o] = app.list], L)
    BY <2>4 DEF ListStates
  <2>6. r \in [heap : Heaps(T), list : Nat, dropped : SUBSET Nat] /\ r.heap = app.heap /\ r.list = app.list /\ r.dropped = L
    BY <1>1, <2>2, <2>5
  <2> QED BY <1>1, <2>5, <2>6 DEF LookStates
<1> QED BY <1>2, <1>3

\* The loop of a place
LEMMA LookFold ==
  ASSUME NEW T, NEW hd, DOMAIN hd = Owners, NEW o \in Owners, NEW n \in Nat, NEW mods \in [1..n -> T],
         NEW F \in SUBSET (1..n), NEW K, NEW seq, seq = [k \in 1..n |-> k], NEW base \in LookStates(T, hd, o, F, K)
  PROVE  FoldLeft(LAMBDA s, k : AppendMod(s, mods[k], k \in F), base, seq) \in LookStates(T, hd, o, F, K)
<1> DEFINE D == LookStates(T, hd, o, F, K)
           G == [k \in 1..n |-> [d \in D |-> AppendMod(d, mods[seq[k]], seq[k] \in F)]]
           Is(f) == f = [s \in SUBSET DOMAIN seq |->
                           IF s = {} THEN base ELSE AppendMod(f[s \ {Max(s)}], mods[seq[Max(s)]], seq[Max(s)] \in F)]
           fun == CHOOSE f : Is(f)
<1>1. \A d \in D : \A k \in 1..n : AppendMod(d, mods[seq[k]], seq[k] \in F) \in D
  <2> TAKE d \in D
  <2> TAKE k \in 1..n
  <2>1. mods[k] \in T /\ (k \in F) \in BOOLEAN /\ (k \in F => F # {}) /\ seq[k] = k OBVIOUS
  <2> HIDE DEF D
  <2>2. d \in LookStates(T, hd, o, F, K) BY DEF D
  <2>3. AppendMod(d, mods[k], k \in F) \in LookStates(T, hd, o, F, K) BY <2>1, <2>2, LookStep
  <2> QED BY <2>1, <2>3 DEF D
<1> HIDE DEF D
<1>2. G \in [1..n -> [D -> D]] /\ base \in D
  BY <1>1 DEF D
<1>3. \A k \in 1..n : \A d \in D : G[k][d] = AppendMod(d, mods[seq[k]], seq[k] \in F)
  OBVIOUS
<1> HIDE DEF G
<1>4. PICK f \in [SUBSET (1..n) -> D] : Solves(f, n, base, G)
  BY <1>2, FoldExists
<1>5. \A s \in SUBSET (1..n) :
        (IF s = {} THEN base ELSE G[Max(s)][f[s \ {Max(s)}]]) =
        (IF s = {} THEN base ELSE AppendMod(f[s \ {Max(s)}], mods[seq[Max(s)]], seq[Max(s)] \in F))
  BY <1>3, MaxOf
<1>6. Is(f)
  <2>1. DOMAIN seq = 1..n
    OBVIOUS
  <2>2. f = [s \in SUBSET (1..n) |-> IF s = {} THEN base ELSE G[Max(s)][f[s \ {Max(s)}]]]
    BY <1>4, Zenon DEF Solves
  <2> QED BY <1>5, <2>1, <2>2
<1>7. Is(fun)
  <2> HIDE DEF Is
  <2> QED BY <1>6, Zenon
<1>8. fun[1..n] = FoldLeft(LAMBDA s, k : AppendMod(s, mods[k], k \in F), base, seq)
  <2>1. DOMAIN seq = 1..n
    OBVIOUS
  <2>2. fun[DOMAIN seq] = FoldLeft(LAMBDA s, k : AppendMod(s, mods[k], k \in F), base, seq)
    BY Zenon DEF FoldLeft, MapThenFoldSet
  <2> HIDE DEF fun
  <2> QED BY <2>1, <2>2
<1> HIDE DEF fun
<1>9. \A s \in SUBSET (1..n) : fun[s] = IF s = {} THEN base ELSE AppendMod(fun[s \ {Max(s)}], mods[seq[Max(s)]], seq[Max(s)] \in F)
  <2>1. DOMAIN seq = 1..n
    OBVIOUS
  <2> QED BY <1>7, <2>1
<1> HIDE DEF Is
<1>10. fun[{}] \in D
  BY <1>2, <1>9
<1>11. ASSUME NEW k \in 1..n, fun[1..k-1] \in D PROVE fun[1..k] \in D
  <2>1. 1..k \in SUBSET (1..n) /\ 1..k # {} /\ Max(1..k) = k /\ (1..k) \ {k} = 1..k-1
    BY MaxOf
  <2>2. fun[1..k] = AppendMod(fun[1..k-1], mods[seq[k]], seq[k] \in F)
    BY <1>9, <2>1
  <2> QED BY <1>1, <1>11, <2>2
<1>12. fun[1..n] \in D
  <2>1. Stays(fun, D, n) BY <1>10, <1>11, Zenon DEF Stays
  <2> QED BY <2>1, FoldStays
<1> QED BY <1>8, <1>12 DEF D

----------------------------------------------------------------------------
(* What is appended to the lists are sequences.                            *)

\* A function on the first numbers
Sequenced(s) == \E n \in Nat : s = [k \in 1..n |-> s[k]]

\* A constructed one, an empty one and one of a single element
LEMMA Sequences3 ==
  /\ Sequenced(<<>>)
  /\ \A x : Sequenced(<<x>>)
<1>1. Sequenced(<<>>)
  <2>1. <<>> = [k \in 1..0 |-> <<>>[k]] OBVIOUS
  <2> QED BY <2>1 DEF Sequenced
<1>2. ASSUME NEW x PROVE Sequenced(<<x>>)
  <2>1. <<x>> = [k \in 1..1 |-> <<x>>[k]] OBVIOUS
  <2> QED BY <2>1 DEF Sequenced
<1> QED BY <1>1, <1>2

\* The elements at some places
LEMMA ChosenSequenced ==
  ASSUME NEW s, NEW K, IsFiniteSet(K)
  PROVE  Sequenced(Chosen(s, K)) /\ \E n \in Nat : DOMAIN Chosen(s, K) = 1..n
<1> DEFINE n == Cardinality(K)
           c == Chosen(s, K)
<1>1. n \in Nat BY FS_CardinalityType
<1>2. DOMAIN c = 1..n /\ c = [k \in 1..n |-> c[k]] BY DEF Chosen
<1> HIDE DEF n, c
<1>3. Sequenced(c) BY <1>1, <1>2 DEF Sequenced
<1> QED BY <1>1, <1>2, <1>3 DEF c

\* The configuration has finitely many items of each kind.
ItemsFinite == \A l \in Lists : \E n \in Nat : DOMAIN Items(h, config[l]) = 1..n

\* The first install or remove command of a name is one, or none.
LEMMA CommandsSequenced ==
  ASSUME NEW name
  PROVE  CommandsOf(name) = <<>> \/ \E x : CommandsOf(name) = <<x>>
<1>1. \A s : FirstOf(s) = <<>> \/ \E x : FirstOf(s) = <<x>> BY DEF FirstOf
<1> QED BY <1>1, Zenon DEF CommandsOf

\* The aliases of the configuration that match a name
LEMMA AliasesSequenced ==
  ASSUME ItemsFinite, NEW name
  PROVE  Sequenced(AliasesOf(name))
<1> DEFINE is == Items(h, config["aliases"])
           K == {k \in DOMAIN is : Fnmatch(is[k].name, name)}
           c == Chosen(is, K)
<1>1. PICK n \in Nat : DOMAIN is = 1..n BY DEF ItemsFinite, Lists
<1>2. IsFiniteSet(1..n) BY FS_Interval
<1>3. IsFiniteSet(K)
  <2>1. K \subseteq 1..n BY <1>1
  <2> QED BY <1>2, <2>1, FS_Subset
<1>4. PICK m \in Nat : DOMAIN c = 1..m
  <2> HIDE DEF K, is
  <2> QED BY <1>3, ChosenSequenced
<1>5. AliasesOf(name) = [k \in DOMAIN c |-> Mod(c[k].value, c[k].name)]
  BY DEF AliasesOf, Entries
<1> DEFINE a == AliasesOf(name)
<1> HIDE DEF c
<1>6. a = [k \in 1..m |-> a[k]] BY <1>4, <1>5
<1> HIDE DEF a
<1>7. Sequenced(a) BY <1>6 DEF Sequenced
<1> QED BY <1>7 DEF a

\* The entries of an index that match
LEMMA WildSequenced ==
  ASSUME NEW T, NEW idx \in Seq(T), NEW name
  PROVE  Sequenced(Wild(idx, name))
<1> DEFINE K == {k \in DOMAIN idx : Fnmatch(idx[k].key, name)}
           c == Chosen(idx, K)
           w == Wild(idx, name)
<1>1. Len(idx) \in Nat /\ K \subseteq 1..Len(idx) OBVIOUS
<1>2. IsFiniteSet(1..Len(idx)) BY <1>1, FS_Interval
<1>3. IsFiniteSet(K)
  <2> HIDE DEF K
  <2> QED BY <1>1, <1>2, FS_Subset
<1>4. PICK m \in Nat : DOMAIN c = 1..m
  <2> HIDE DEF K
  <2> QED BY <1>3, ChosenSequenced
<1>5. w = [k \in DOMAIN c |-> Mod(c[k].value, name)]
  BY DEF Wild
<1> HIDE DEF c
<1>6. w = [k \in 1..m |-> w[k]] BY <1>4, <1>5
<1> HIDE DEF w
<1>7. Sequenced(w) BY <1>6 DEF Sequenced
<1> QED BY <1>7 DEF w

\* The modules that a place has for a name
LEMMA SourceSequenced ==
  ASSUME ItemsFinite, world \in Worlds, NEW place \in 1..6, NEW name
  PROVE  Sequenced(Source(place, name))
<1>1. Sequenced(<<>>) /\ \A x : Sequenced(<<x>>) BY Sequences3
<1>2. Sequenced(AliasesOf(name)) BY AliasesSequenced
<1>3. Sequenced(Wild(world.symbols, name)) /\ Sequenced(Wild(world.alias, name))
  <2> DEFINE T == [key : Seq(STRING), value : Seq(STRING)]
  <2>1. world.symbols \in Seq(T) /\ world.alias \in Seq(T) BY WorldsAssumption
  <2> HIDE DEF T
  <2> QED BY <2>1, WildSequenced
<1>4. Sequenced([k \in DOMAIN CommandsOf(name) |-> Mod(name, Null)])
  <2> DEFINE c == CommandsOf(name)
             m == [k \in DOMAIN c |-> Mod(name, Null)]
  <2>1. \E n \in Nat : DOMAIN c = 1..n
    <3>1. c = <<>> \/ \E x : c = <<x>> BY CommandsSequenced
    <3> HIDE DEF c
    <3>2. CASE c = <<>>
      <4>1. DOMAIN c = 1..0 BY <3>2
      <4> QED BY <4>1
    <3>3. CASE \E x : c = <<x>>
      <4>1. DOMAIN c = 1..1 BY <3>3
      <4> QED BY <4>1
    <3> QED BY <3>1, <3>2, <3>3
  <2> HIDE DEF c
  <2>2. PICK n \in Nat : DOMAIN c = 1..n BY <2>1
  <2>3. m = [k \in 1..n |-> m[k]] BY <2>2
  <2> HIDE DEF m
  <2>4. Sequenced(m) BY <2>3 DEF Sequenced
  <2> QED BY <2>4 DEF m, c
<1>5. place = 1 \/ place = 2 \/ place = 3 \/ place = 4 \/ place = 5 \/ place = 6 OBVIOUS
<1>6. CASE place = 1 BY <1>2, <1>6 DEF Source
<1>7. CASE place = 2 BY <1>1, <1>7 DEF Source
<1>8. CASE place = 3 BY <1>1, <1>3, <1>8 DEF Source
<1>9. CASE place = 4 BY <1>4, <1>9 DEF Source
<1>10. CASE place = 5 BY <1>3, <1>10 DEF Source
<1>11. CASE place = 6 BY <1>1, <1>11 DEF Source
<1> QED BY <1>5, <1>6, <1>7, <1>8, <1>9, <1>10, <1>11

\* An item of the configuration
ItemOf(it) == it = [list |-> it.list, data |-> it.data] /\ it.list \in Lists

\* A sequence of items
ItemSequence(items) == \E n \in Nat : items = [k \in 1..n |-> items[k]] /\ \A k \in 1..n : ItemOf(items[k])

\* No item, and one
LEMMA ItemSequences ==
  /\ ItemSequence(<<>>)
  /\ \A l \in Lists : \A data : ItemSequence(Item(l, data))
<1>1. ItemSequence(<<>>)
  <2>1. <<>> = [k \in 1..0 |-> <<>>[k]] /\ \A k \in 1..0 : ItemOf(<<>>[k]) OBVIOUS
  <2> QED BY <2>1 DEF ItemSequence
<1>2. ASSUME NEW l \in Lists, NEW data PROVE ItemSequence(Item(l, data))
  <2> DEFINE it == [list |-> l, data |-> data]
             s == <<it>>
  <2>1. ItemOf(it) BY DEF ItemOf
  <2> HIDE DEF it
  <2>2. s = [k \in 1..1 |-> s[k]] /\ \A k \in 1..1 : ItemOf(s[k]) BY <2>1
  <2>3. Item(l, data) = s BY DEF Item, it
  <2> HIDE DEF s
  <2>4. ItemSequence(s) BY <2>2 DEF ItemSequence
  <2> QED BY <2>3, <2>4
<1> QED BY <1>1, <1>2

\* kmod_config_parse: a line gives one item or none.
LEMMA ParsedItems ==
  ASSUME NEW line
  PROVE  ItemSequence(ParseLine(line))
<1>1. /\ ItemSequence(<<>>)
      /\ \A data : /\ ItemSequence(Item("aliases", data)) /\ ItemSequence(Item("blacklists", data))
                   /\ ItemSequence(Item("options", data)) /\ ItemSequence(Item("install_commands", data))
                   /\ ItemSequence(Item("remove_commands", data)) /\ ItemSequence(Item("softdeps", data))
  BY ItemSequences DEF Lists
<1> DEFINE cmd == strtok(line)
           arg == strtok(cmd.rest)
           arg2 == strtok(arg.rest)
           modname == underscores(arg.token)
           Is(c) == cmd.token = <<c>>
           ok == arg.token # Null /\ arg.rest # Null
           c0 == line # <<>> /\ line[1] = "#"
           c1 == Is("alias") /\ arg.token # Null /\ arg2.token # Null
           c2 == Is("blacklist") /\ arg.token # Null
           c3 == Is("options") /\ ok
           c4 == Is("install") /\ ok
           c5 == Is("remove") /\ ok
           c6 == Is("softdep") /\ ok
           d1 == [name |-> modname, value |-> underscores(arg2.token)]
           d2 == [name |-> modname]
           d3 == [name |-> modname, value |-> ReplaceAll(arg.rest, "\t", " ")]
           d4 == [name |-> modname, value |-> arg.rest]
           d6 == Softdep(modname, arg.rest)
<1>2. ParseLine(line) =
        CASE c0 -> <<>>
          [] c1 -> Item("aliases", d1)
          [] c2 -> Item("blacklists", d2)
          [] c3 -> Item("options", d3)
          [] c4 -> Item("install_commands", d4)
          [] c5 -> Item("remove_commands", d4)
          [] c6 -> Item("softdeps", d6)
          [] OTHER -> <<>>
  BY Zenon DEF ParseLine
<1> HIDE DEF c0, c1, c2, c3, c4, c5, c6, d1, d2, d3, d4, d6
<1>3. ParseLine(line) \in {<<>>, Item("aliases", d1), Item("blacklists", d2), Item("options", d3),
                          Item("install_commands", d4), Item("remove_commands", d4), Item("softdeps", d6)}
  BY <1>2
<1>4. \A p \in {<<>>, Item("aliases", d1), Item("blacklists", d2), Item("options", d3),
               Item("install_commands", d4), Item("remove_commands", d4), Item("softdeps", d6)} : ItemSequence(p)
  BY <1>1
<1> QED BY <1>3, <1>4, Zenon

\* The rest of a sequence
LEMMA RestSequence ==
  ASSUME NEW T, NEW s \in Seq(T), NEW m \in Nat \ {0}
  PROVE  SubSeq(s, m, Len(s)) \in Seq(T)
OBVIOUS

\* kmod_config_parse_kcmdline: a word gives items, or none.
LEMMA CmdlineItems ==
  ASSUME NEW word \in Seq(STRING)
  PROVE  ItemSequence(kcmdline_parse_result(word))
<1> DEFINE dots == {k \in DOMAIN word : word[k] = "."}
           dot == Min(dots)
           eqs == {k \in DOMAIN word : word[k] = "=" /\ k > dot}
           value == SubSeq(word, Max(eqs) + 1, Len(word))
           parts == Separated(value, ",")
           items == [k \in DOMAIN parts |-> [list |-> "blacklists", data |-> [name |-> parts[k]]]]
           modname == SubSeq(word, 1, dot - 1)
           param == SubSeq(word, dot + 1, Len(word))
<1>1. ItemSequence(<<>>) /\ \A data : ItemSequence(Item("options", data))
  BY ItemSequences DEF Lists
<1>2. ASSUME eqs # {} PROVE ItemSequence(items)
  <2>1. eqs \in SUBSET (0..Len(word)) /\ Len(word) \in Nat OBVIOUS
  <2>2. Max(eqs) \in eqs
    <3> HIDE DEF eqs
    <3> QED BY <1>2, <2>1, Greatest
  <2>3. Max(eqs) + 1 \in Nat \ {0}
    <3> DEFINE e == Max(eqs)
    <3>1. e \in 0..Len(word) BY <2>1, <2>2
    <3> HIDE DEF e
    <3>2. e + 1 \in Nat \ {0} BY <3>1
    <3> QED BY <3>2 DEF e
  <2> DEFINE n0 == Max(eqs) + 1
  <2> HIDE DEF n0
  <2>4. value \in Seq(STRING)
    <3>1. SubSeq(word, n0, Len(word)) \in Seq(STRING) BY <2>3, RestSequence DEF n0
    <3> QED BY <3>1 DEF n0
  <2> HIDE DEF value
  <2>5. value \in [1..Len(value) -> STRING] /\ Len(value) \in Nat BY <2>4
  <2>6. parts \in Seq(Seq(STRING)) BY <2>5, SeparatedTexts
  <2> HIDE DEF parts
  <2>7. Len(parts) \in Nat /\ DOMAIN parts = 1..Len(parts) BY <2>6
  <2>8. items = [k \in 1..Len(parts) |-> items[k]] BY <2>7
  <2>9. ASSUME NEW k \in 1..Len(parts) PROVE ItemOf(items[k]) BY <2>7 DEF ItemOf, Lists
  <2> HIDE DEF items
  <2> QED BY <2>7, <2>8, <2>9 DEF ItemSequence
<1>3. kcmdline_parse_result(word) =
        IF dots = {} \/ eqs = {} THEN <<>>
        ELSE IF modname = <<"modprobe">> /\ IsPrefix(<<"blacklist", "=">>, param) THEN items
        ELSE Item("options", [name |-> underscores(modname), value |-> param])
  BY DEF kcmdline_parse_result
<1> HIDE DEF items, eqs, dots, modname, param
<1> QED BY <1>1, <1>2, <1>3

----------------------------------------------------------------------------
(***************************************************************************)
(* The configuration and the lookups.  The invariant says where the parts  *)
(* of the program are, so that no list is overwritten that has nodes.      *)
(***************************************************************************)

\* The lists that are empty at each stage
Stages ==
  /\ pc \in {"cmdline", "ready", "failed", "freed"} => list = NULL
  /\ pc \in {"paths", "dir", "listed", "failed", "freed"} => \A l \in Lists : config[l] = NULL
  /\ pc \in {"failed", "freed"} => config["paths"] = NULL
  /\ pc # "ready" => job = NoJob /\ found = NULL /\ pre = NULL /\ post = NULL
  /\ job = NoJob => lst = NULL
  /\ job.into = "found" => found = NULL

\* What the invariants of the data are
Shapes ==
  /\ world \in Worlds
  /\ config = [l \in Lists \cup {"paths"} |-> config[l]]
  /\ job = [into |-> job.into, name |-> job.name, place |-> job.place]
  /\ pc = "cmdline" => text \in Seq(STRING)

\* All that is on the heap is in the lists of the owners.
HeapWhole == \E T : Whole(h, T, HeadOf, dropped)

\* Nodes are only lost when there was no memory.
NothingLost == nomem \in Nat /\ (nomem = 0 => dropped = {})

\* The inductive invariant
ListsInv == Shapes /\ Stages /\ HeapWhole /\ NothingLost

\* The heads of the owners, by name
Headings(f, files, looked, a, b, c, cf) ==
  /\ f = [o \in Owners |-> f[o]] /\ DOMAIN f = Owners
  /\ f["files"] = files /\ f["lookup"] = looked /\ f["found"] = a /\ f["pre"] = b /\ f["post"] = c
  /\ \A l \in Lists \cup {"paths"} : f[l] = cf[l]

\* HeadOf has them, before and after a step.
LEMMA NowHeads ==
  /\ Headings(HeadOf, list, lst, found, pre, post, config)
  /\ Headings(HeadOf', list', lst', found', pre', post', config')
<1>1. HeadOf = Heads(list, lst, found, pre, post, config) BY DEF HeadOf, Heads
<1>2. HeadOf' = Heads(list', lst', found', pre', post', config') BY DEF HeadOf, Heads
<1> QED BY <1>1, <1>2, HeadValues DEF Headings

\* The lists that change hands in a step are those of some heads.
LEMMA NextHeads ==
  ASSUME NEW g, g = [o \in Owners |-> g[o]],
         g["files"] = list', g["lookup"] = lst', g["found"] = found', g["pre"] = pre', g["post"] = post',
         \A l \in Lists \cup {"paths"} : g[l] = config'[l]
  PROVE  HeadOf' = g
<1> DEFINE f == HeadOf'
<1>1. Headings(f, list', lst', found', pre', post', config') BY NowHeads
<1> HIDE DEF f
<1>2. Agree(f, g) /\ f = [o \in Owners |-> f[o]] BY <1>1 DEF Headings, Agree
<1>3. f = g BY <1>2, SameHeads
<1> QED BY <1>3 DEF f

\* Nothing changes.
LEMMA SameHeap ==
  ASSUME HeapWhole, UNCHANGED <<h, list, lst, found, pre, post, config, dropped>>
  PROVE  HeapWhole'
<1>1. Headings(HeadOf, list, lst, found, pre, post, config) BY NowHeads
<1>2. HeadOf' = HeadOf
  <2> DEFINE g == HeadOf
  <2>1. Headings(g, list', lst', found', pre', post', config') BY <1>1
  <2> HIDE DEF g
  <2>2. HeadOf' = g BY <2>1, NextHeads DEF Headings
  <2> QED BY <2>2 DEF g
<1>3. PICK T : Whole(h, T, HeadOf, dropped) BY DEF HeapWhole
<1>4. Whole(h', T, HeadOf', dropped') BY <1>2, <1>3
<1> QED BY <1>4 DEF HeapWhole

\* One list of the program changes.
LEMMA OneHead ==
  ASSUME NEW o \in {"files", "lookup", "found", "pre", "post"}, NEW y, NEW g,
         g = [HeadOf EXCEPT ![o] = y],
         list' = IF o = "files" THEN y ELSE list, lst' = IF o = "lookup" THEN y ELSE lst,
         found' = IF o = "found" THEN y ELSE found, pre' = IF o = "pre" THEN y ELSE pre,
         post' = IF o = "post" THEN y ELSE post, config' = config
  PROVE  HeadOf' = g
<1> DEFINE f == HeadOf
<1>1. Headings(f, list, lst, found, pre, post, config) BY NowHeads
<1>2. g = [f EXCEPT ![o] = y] OBVIOUS
<1> HIDE DEF f
<1>3. o \in Owners /\ o \notin Lists \cup {"paths"} /\ Lists \cup {"paths"} \subseteq Owners BY DEF Owners, Lists
<1>4. g = [p \in Owners |-> g[p]] /\ \A p \in Owners : g[p] = IF p = o THEN y ELSE f[p]
  BY <1>1, <1>2, <1>3 DEF Headings
<1>5. {"files", "lookup", "found", "pre", "post"} \subseteq Owners BY DEF Owners
<1>6. /\ g["files"] = list' /\ g["lookup"] = lst' /\ g["found"] = found' /\ g["pre"] = pre' /\ g["post"] = post'
  BY <1>1, <1>4, <1>5 DEF Headings
<1>7. \A l \in Lists \cup {"paths"} : g[l] = config'[l] BY <1>1, <1>3, <1>4 DEF Headings
<1> QED BY <1>4, <1>6, <1>7, NextHeads

\* The file that conf_files_insert_sorted finds is in the list.
LEMMA LposOwned ==
  ASSUME NEW D, NEW T, NEW own, Owned(h, D, T, own, HeadOf, dropped), NEW name, NEW x, x = Lpos(name), x # NULL
  PROVE  x \in D /\ own[x] = "files"
<1> DEFINE ns == Nodes(h, list)
           ge == {k \in DOMAIN ns : name <= Items(h, list)[k].name}
<1>1. list = HeadOf["files"] /\ "files" \in Owners BY NowHeads DEF Headings, Owners
<1>2. ns \in Seq(D) /\ NodeSet(h, list) = {m \in D : own[m] = "files"} BY <1>1, NodesOf
<1>3. x = IF ge = {} THEN NULL ELSE ns[Min(ge)] BY DEF Lpos
<1>4. ge # {} BY <1>3
<1>5. ge \subseteq DOMAIN ns /\ ge \subseteq Nat BY <1>2
<1>6. Min(ge) \in DOMAIN ns
  <2> HIDE DEF ge, ns
  <2> QED BY <1>4, <1>5, Least
<1>7. x = ns[Min(ge)] BY <1>3, <1>4
<1> HIDE DEF ge
<1>8. x \in NodeSet(h, list) BY <1>6, <1>7 DEF NodeSet
<1> QED BY <1>2, <1>8

\* An entry of a directory, or a file that is a path, goes into the list.
LEMMA ListFileWhole ==
  ASSUME HeapWhole, NEW name, NEW is_single, ListFile(name, is_single),
         UNCHANGED <<lst, found, pre, post, config, dropped>>
  PROVE  HeapWhole'
<1> DEFINE cf == [path |-> i, name |-> name, is_single |-> is_single]
           sorted == InsertSorted(cf)
           lpos == Lpos(cf.name)
           hd == HeadOf
<1>1. CASE UNCHANGED <<h, list>> BY <1>1, SameHeap
<1>2. CASE h' = sorted.ins.heap /\ list' = sorted.ins.list
  <2>1. PICK T0 : Whole(h, T0, hd, dropped) BY DEF HeapWhole
  <2> DEFINE T == T0 \cup {cf}
  <2>2. cf \in T /\ T0 \subseteq T OBVIOUS
  <2> HIDE DEF T, cf
  <2>3. Whole(h, T, hd, dropped) BY <2>1, <2>2, WiderWhole
  <2>4. list = hd["files"] /\ "files" \in Owners BY NowHeads DEF Headings, Owners
  <2> SUFFICES Whole(h', T, [hd EXCEPT !["files"] = list'], dropped)
    <3> DEFINE g == [hd EXCEPT !["files"] = list']
    <3>1. g = [HeadOf EXCEPT !["files"] = list'] OBVIOUS
    <3> HIDE DEF g
    <3>2. HeadOf' = g BY <3>1, OneHead
    <3> QED BY <3>1, <3>2 DEF HeapWhole
  <2>5. CASE lpos # NULL /\ h[lpos].data.name = cf.name
    <3>1. h' = h /\ list' = list BY <1>2, <2>5 DEF InsertSorted
    <3>2. hd \in [Owners -> Nat] BY <2>3, WholeTypes
    <3>3. [hd EXCEPT !["files"] = list] = hd
      <4> HIDE DEF hd
      <4> QED BY <2>4, <3>2
    <3> QED BY <2>3, <3>1, <3>3
  <2>6. CASE ~(lpos # NULL /\ h[lpos].data.name = cf.name)
    <3> DEFINE ins == Inserted(lpos, cf)
    <3>1. h' = ins.heap /\ list' = ins.list BY <1>2, <2>6 DEF InsertSorted
    <3>2. CASE lpos = NULL
      <4>1. ins = kmod_list_append(h, list, cf) BY <3>2 DEF Inserted
      <4> HIDE DEF ins, hd, lpos
      <4> QED BY <2>2, <2>3, <2>4, <3>1, <4>1, AppendWhole
    <3>3. CASE lpos # NULL /\ lpos = list
      <4>1. ins = kmod_list_prepend(h, list, cf) BY <3>3 DEF Inserted
      <4>2. hd["files"] # NULL BY <2>4, <3>3
      <4> HIDE DEF ins, hd, lpos
      <4> QED BY <2>2, <2>3, <2>4, <3>1, <4>1, <4>2, PrependWhole
    <3>4. CASE lpos # NULL /\ lpos # list
      <4> DEFINE g == list_node_append(h, lpos, Free(h), cf)
      <4>1. ins = [heap |-> g, list |-> list]
        BY <3>4 DEF Inserted, kmod_list_insert_before
      <4>2. PICK D \in SUBSET Nat : \E own : Owned(h, D, T, own, hd, dropped) BY <2>3, Zenon DEF Whole
      <4>3. PICK own : Owned(h, D, T, own, hd, dropped) BY <4>2
      <4>4. lpos \in D /\ own[lpos] = "files"
        <5> HIDE DEF ins, g
        <5> QED BY <3>4, <4>3, LposOwned
      <4>5. own[lpos] = "files" /\ "files" \in Owners /\ list = hd["files"] BY <2>4, <4>4
      <4> HIDE DEF ins, hd, lpos
      <4>6. Whole(g, T, [hd EXCEPT !["files"] = list], dropped) BY <2>2, <4>3, <4>4, <4>5, InsertWhole
      <4> QED BY <3>1, <4>1, <4>6
    <3> QED BY <3>2, <3>3, <3>4
  <2> QED BY <2>5, <2>6
<1> QED BY <1>1, <1>2 DEF ListFile

\* An item is added to its list, and another is not.
LEMMA AddItemsWhole ==
  ASSUME HeapWhole, config = [l \in Lists \cup {"paths"} |-> config[l]], NEW items, ItemSequence(items), AddItems(items),
         UNCHANGED <<list, lst, found, pre, post, dropped>>
  PROVE  HeapWhole' /\ config' = [l \in Lists \cup {"paths"} |-> config'[l]]
<1>1. PICK n \in Nat : items = [k \in 1..n |-> items[k]] /\ \A k \in 1..n : ItemOf(items[k]) BY DEF ItemSequence
<1>2. PICK T0 : Whole(h, T0, HeadOf, dropped) BY DEF HeapWhole
<1> DEFINE T == T0 \cup {items[k].data : k \in 1..n}
           E == [list : Lists, data : T]
           C == Lists \cup {"paths"}
           hd == HeadOf
           base == [heap |-> h, config |-> config]
<1>3. T0 \subseteq T OBVIOUS
<1>4. ASSUME NEW k \in 1..n PROVE items[k] \in E
  <2>1. items[k].data \in T OBVIOUS
  <2> HIDE DEF T
  <2> QED BY <1>1, <2>1 DEF ItemOf
<1>5. \E kept \in Seq(E) : h' = FoldLeft(AddItem, base, kept).heap /\ config' = FoldLeft(AddItem, base, kept).config
  <2>1. PICK k \in 0..Len(items) :
          LET kept == IF k = 0 THEN items ELSE RemoveAt(items, k)
              st == FoldLeft(AddItem, [heap |-> h, config |-> config], kept)
          IN  h' = st.heap /\ config' = st.config
    BY DEF AddItems
  <2> DEFINE kept == IF k = 0 THEN items ELSE RemoveAt(items, k)
  <2>2. h' = FoldLeft(AddItem, base, kept).heap /\ config' = FoldLeft(AddItem, base, kept).config BY <2>1
  <2> HIDE DEF E, base
  <2>3. items \in [1..n -> E] BY <1>1, <1>4
  <2>4. items \in Seq(E) /\ Len(items) = n BY <2>3
  <2>5. kept \in Seq(E)
    <3>1. CASE k = 0 BY <2>4, <3>1
    <3>2. CASE k # 0
      <4>1. SubSeq(items, 1, k - 1) \in Seq(E) BY <2>4, <3>2
      <4>2. SubSeq(items, k + 1, Len(items)) \in Seq(E) BY <2>4, <3>2
      <4>3. kept = SubSeq(items, 1, k - 1) \o SubSeq(items, k + 1, Len(items)) BY <3>2 DEF RemoveAt
      <4> HIDE DEF kept
      <4> QED BY <4>1, <4>2, <4>3
    <3> QED BY <3>1, <3>2
  <2> HIDE DEF kept
  <2> QED BY <2>2, <2>5
<1> HIDE DEF E, T, base
<1>6. PICK kept \in Seq(E) : h' = FoldLeft(AddItem, base, kept).heap /\ config' = FoldLeft(AddItem, base, kept).config
  BY <1>5
<1>7. Headings(hd, list, lst, found, pre, post, config) /\ C \subseteq Owners BY NowHeads DEF Owners
<1> HIDE DEF hd
<1>8. Whole(h, T, hd, dropped) BY <1>2, <1>3, WiderWhole DEF hd
<1>9. h \in Heaps(T) /\ hd \in [Owners -> Nat] BY <1>8, WholeTypes
<1>10. config \in [C -> Nat]
  <2>1. \A l \in C : config[l] \in Nat BY <1>7, <1>9 DEF Headings
  <2> QED BY <2>1
<1>11. WithConfig(hd, config) = hd
  <2>1. \A o \in Owners : WithConfig(hd, config)[o] = hd[o] BY <1>7 DEF WithConfig, Headings
  <2>2. WithConfig(hd, config) = [o \in Owners |-> WithConfig(hd, config)[o]] BY DEF WithConfig
  <2> QED BY <1>9, <2>1, <2>2
<1>12. base \in ConfigStates(T, hd, dropped) BY <1>8, <1>9, <1>10, <1>11 DEF ConfigStates, base
<1>13. FoldLeft(AddItem, base, kept) \in ConfigStates(T, hd, dropped)
  <2>1. kept \in [1..Len(kept) -> E] /\ Len(kept) \in Nat OBVIOUS
  <2>2. kept \in [1..Len(kept) -> [list : Lists, data : T]] BY <2>1 DEF E
  <2> QED BY <1>12, <2>1, <2>2, ItemsFold
<1>14. config' \in [C -> Nat] /\ Whole(h', T, WithConfig(hd, config'), dropped) BY <1>6, <1>13 DEF ConfigStates
<1> DEFINE g == WithConfig(hd, config')
<1>15. HeadOf' = g
  <2>1. g = [o \in Owners |-> g[o]] BY DEF WithConfig
  <2>2. \A o \in Owners : g[o] = IF o \in C THEN config'[o] ELSE hd[o] BY DEF WithConfig
  <2>3. {"files", "lookup", "found", "pre", "post"} \subseteq Owners \ C BY DEF Owners, Lists
  <2> HIDE DEF g
  <2>4. /\ g["files"] = list' /\ g["lookup"] = lst' /\ g["found"] = found' /\ g["pre"] = pre' /\ g["post"] = post'
    BY <1>7, <2>2, <2>3 DEF Headings
  <2>5. \A l \in C : g[l] = config'[l] BY <1>7, <2>2
  <2> QED BY <2>1, <2>4, <2>5, NextHeads
<1> QED BY <1>14, <1>15 DEF HeapWhole

\* The files of a list, and the paths
LEMMA FilesAndPaths ==
  {"files", "paths"} \subseteq Owners /\ {"files", "paths"} \cap Lists = {} /\ "lookup" \in Owners
BY DEF Owners, Lists

\* A path is remembered.
LEMMA PathWhole ==
  ASSUME HeapWhole, NEW data, NEW app, app = kmod_list_append(h, config.paths, data), Shapes,
         h' = app.heap, config' = [config EXCEPT !.paths = app.list], UNCHANGED <<list, lst, found, pre, post, dropped>>
  PROVE  HeapWhole'
<1>1. PICK T0 : Whole(h, T0, HeadOf, dropped) BY DEF HeapWhole
<1> DEFINE T == T0 \cup {data}
           hd == HeadOf
           g == [hd EXCEPT !["paths"] = app.list]
<1>2. T0 \subseteq T /\ data \in T OBVIOUS
<1>3. Headings(hd, list, lst, found, pre, post, config) BY NowHeads
<1> HIDE DEF T, hd
<1>4. Whole(h, T, hd, dropped) BY <1>1, <1>2, WiderWhole DEF hd
<1>5. hd["paths"] = config.paths BY <1>3 DEF Headings
<1>6. Whole(app.heap, T, g, dropped) BY <1>2, <1>4, <1>5, FilesAndPaths, AppendWhole
<1>7. HeadOf' = g
  <2>1. \A o \in Owners : g[o] = IF o = "paths" THEN app.list ELSE hd[o] BY <1>3 DEF Headings
  <2>2. g = [o \in Owners |-> g[o]] BY <1>3 DEF Headings
  <2> HIDE DEF g
  <2>3. {"files", "lookup", "found", "pre", "post"} \cup Lists \subseteq Owners \ {"paths"} BY DEF Owners, Lists
  <2>4. \A l \in Lists \cup {"paths"} : config'[l] = IF l = "paths" THEN app.list ELSE config[l] BY DEF Shapes
  <2>5. /\ g["files"] = list' /\ g["lookup"] = lst' /\ g["found"] = found' /\ g["pre"] = pre' /\ g["post"] = post'
    BY <1>3, <2>1, <2>3 DEF Headings
  <2>6. \A l \in Lists \cup {"paths"} : g[l] = config'[l] BY <1>3, <2>1, <2>3, <2>4, FilesAndPaths DEF Headings
  <2> QED BY <2>2, <2>5, <2>6, NextHeads
<1> QED BY <1>6, <1>7 DEF HeapWhole

\* The file that is read next leaves the list.
LEMMA NextFileWhole ==
  ASSUME HeapWhole, NEW rm, rm = kmod_list_remove(h, list),
         h' = rm.heap, list' = rm.list, UNCHANGED <<lst, found, pre, post, config, dropped>>
  PROVE  HeapWhole'
<1>1. PICK T : Whole(h, T, HeadOf, dropped) BY DEF HeapWhole
<1> DEFINE hd == HeadOf
           g == [hd EXCEPT !["files"] = rm.list]
<1>2. hd["files"] = list BY NowHeads DEF Headings
<1>3. Whole(h, T, hd, dropped) BY <1>1
<1>4. HeadOf' = [HeadOf EXCEPT !["files"] = rm.list]
  <2> DEFINE f == [HeadOf EXCEPT !["files"] = rm.list]
  <2>1. f = [HeadOf EXCEPT !["files"] = rm.list] OBVIOUS
  <2> HIDE DEF f
  <2>2. HeadOf' = f BY <2>1, OneHead
  <2> QED BY <2>1, <2>2
<1> HIDE DEF hd
<1>5. list \in {hd["files"], kmod_list_last(h, hd["files"])} BY <1>2
<1>6. Whole(rm.heap, T, g, dropped) BY <1>3, <1>5, FilesAndPaths, RemoveWhole
<1>7. HeadOf' = g BY <1>4 DEF hd
<1> HIDE DEF g
<1> QED BY <1>6, <1>7 DEF HeapWhole

\* Lists that have been freed, of owners whose lists are gone
LEMMA EmptiedWhole ==
  ASSUME NEW T, NEW S, NEW hd, NEW hp, Whole(hp, T, Emptied(hd, S), dropped), NEW g, g = [o \in Owners |-> g[o]],
         \A o \in Owners : g[o] = IF o \in S THEN NULL ELSE hd[o]
  PROVE  Whole(hp, T, g, dropped)
<1>1. g = Emptied(hd, S) BY DEF Emptied
<1> QED BY <1>1

\* kmod_config_new gives back what it has.
LEMMA OomWhole ==
  ASSUME HeapWhole, Stages, Oom, pc \in {"paths", "listed"}, UNCHANGED <<lst, found, pre, post, dropped>>
  PROVE  HeapWhole'
<1>1. PICK T : Whole(h, T, HeadOf, dropped) BY DEF HeapWhole
<1> DEFINE hd == HeadOf
           h1 == RemoveAll(h, list)
           h2 == RemoveAll(h1, config.paths)
           g == HeadOf'
<1>2. h' = h2 /\ list' = NULL /\ config' = NoConfig BY DEF Oom
<1>3. Headings(hd, list, lst, found, pre, post, config) /\ Headings(g, list', lst', found', pre', post', config') BY NowHeads
<1>4. Whole(h, T, hd, dropped) BY <1>1
<1> HIDE DEF hd, g
<1>5. hd["files"] = list /\ hd["paths"] = config.paths BY <1>3 DEF Headings
<1>6. Whole(h, T, Emptied(hd, {}), dropped) BY <1>4, FreeNone
<1>7. Whole(h1, T, Emptied(hd, {} \cup {"files"}), dropped) BY <1>5, <1>6, FilesAndPaths, FreeNext
<1> HIDE DEF h1
<1>8. "paths" \in Owners \ ({} \cup {"files"}) BY FilesAndPaths
<1>9. Whole(h2, T, Emptied(hd, ({} \cup {"files"}) \cup {"paths"}), dropped) BY <1>5, <1>7, <1>8, FreeNext
<1> DEFINE S == ({} \cup {"files"}) \cup {"paths"}
<1>10. \A o \in Owners : g[o] = IF o \in S THEN NULL ELSE hd[o]
  <2>1. lst = NULL /\ found = NULL /\ pre = NULL /\ post = NULL /\ \A l \in Lists : config[l] = NULL
    BY DEF Stages
  <2>2. \A l \in Lists \cup {"paths"} : config'[l] = NULL BY <1>2 DEF NoConfig
  <2> QED BY <1>2, <1>3, <2>1, <2>2 DEF Headings, Owners
<1>11. g = [o \in Owners |-> g[o]] BY <1>3 DEF Headings
<1> HIDE DEF S, h2
<1>12. Whole(h2, T, Emptied(hd, S), dropped) BY <1>9 DEF S
<1>13. Whole(h2, T, g, dropped) BY <1>10, <1>11, <1>12, EmptiedWhole
<1> QED BY <1>2, <1>13 DEF HeapWhole, g

\* kmod_config_free
LEMMA FreeWhole ==
  ASSUME HeapWhole, Stages, h' = Freed, config' = NoConfig, pc = "ready", UNCHANGED <<list, lst, found, pre, post, dropped>>,
         job = NoJob, found = NULL, pre = NULL, post = NULL
  PROVE  HeapWhole'
<1>1. PICK T : Whole(h, T, HeadOf, dropped) BY DEF HeapWhole
<1> DEFINE hd == HeadOf
           h1 == RemoveAll(h, config.aliases)
           h2 == RemoveAll(h1, config.blacklists)
           h3 == RemoveAll(h2, config.options)
           h4 == RemoveAll(h3, config.install_commands)
           h5 == RemoveAll(h4, config.remove_commands)
           h6 == RemoveAll(h5, config.softdeps)
           h7 == RemoveAll(h6, config.paths)
           S1 == {} \cup {"aliases"}
           S2 == S1 \cup {"blacklists"}
           S3 == S2 \cup {"options"}
           S4 == S3 \cup {"install_commands"}
           S5 == S4 \cup {"remove_commands"}
           S6 == S5 \cup {"softdeps"}
           S7 == S6 \cup {"paths"}
           g == HeadOf'
<1>2. h' = h7 BY DEF Freed
<1>3. Headings(hd, list, lst, found, pre, post, config) /\ Headings(g, list', lst', found', pre', post', config') BY NowHeads
<1>4. Whole(h, T, hd, dropped) BY <1>1
<1> HIDE DEF hd, g
<1>5. /\ "aliases" \in Owners \ {} /\ "blacklists" \in Owners \ S1 /\ "options" \in Owners \ S2
      /\ "install_commands" \in Owners \ S3 /\ "remove_commands" \in Owners \ S4 /\ "softdeps" \in Owners \ S5
      /\ "paths" \in Owners \ S6
  BY DEF Owners, Lists
<1>6. /\ config.aliases = hd["aliases"] /\ config.blacklists = hd["blacklists"] /\ config.options = hd["options"]
      /\ config.install_commands = hd["install_commands"] /\ config.remove_commands = hd["remove_commands"]
      /\ config.softdeps = hd["softdeps"] /\ config.paths = hd["paths"]
  BY <1>3 DEF Headings, Lists
<1>7. \A o \in Owners : g[o] = IF o \in S7 THEN NULL ELSE hd[o]
  <2>1. lst = NULL /\ found = NULL /\ pre = NULL /\ post = NULL /\ list = NULL BY DEF Stages
  <2>2. \A l \in Lists \cup {"paths"} : config'[l] = NULL BY DEF NoConfig
  <2>3. S7 = Lists \cup {"paths"} BY DEF Lists
  <2>4. Owners = {"files", "lookup", "found", "pre", "post"} \cup S7 /\ {"files", "lookup", "found", "pre", "post"} \cap S7 = {}
    BY <2>3 DEF Owners, Lists
  <2> HIDE DEF S7
  <2> QED BY <1>3, <2>1, <2>2, <2>3, <2>4 DEF Headings
<1> HIDE DEF S1, S2, S3, S4, S5, S6, S7
<1>8. Whole(h, T, Emptied(hd, {}), dropped) BY <1>4, FreeNone
<1>9. Whole(h1, T, Emptied(hd, S1), dropped) BY <1>5, <1>6, <1>8, FreeNext DEF S1
<1> HIDE DEF h1
<1>10. Whole(h2, T, Emptied(hd, S2), dropped) BY <1>5, <1>6, <1>9, FreeNext DEF S2
<1> HIDE DEF h2
<1>11. Whole(h3, T, Emptied(hd, S3), dropped) BY <1>5, <1>6, <1>10, FreeNext DEF S3
<1> HIDE DEF h3
<1>12. Whole(h4, T, Emptied(hd, S4), dropped) BY <1>5, <1>6, <1>11, FreeNext DEF S4
<1> HIDE DEF h4
<1>13. Whole(h5, T, Emptied(hd, S5), dropped) BY <1>5, <1>6, <1>12, FreeNext DEF S5
<1> HIDE DEF h5
<1>14. Whole(h6, T, Emptied(hd, S6), dropped) BY <1>5, <1>6, <1>13, FreeNext DEF S6
<1> HIDE DEF h6
<1>15. Whole(h7, T, Emptied(hd, S7), dropped) BY <1>5, <1>6, <1>14, FreeNext DEF S7
<1> HIDE DEF h7
<1>16. g = [o \in Owners |-> g[o]] BY <1>3 DEF Headings
<1>17. Whole(h7, T, g, dropped) BY <1>7, <1>15, <1>16, EmptiedWhole
<1> QED BY <1>2, <1>17 DEF HeapWhole, g

\* kmod_module_unref_list of the answers
LEMMA ReleaseWhole ==
  ASSUME HeapWhole, Release
  PROVE  HeapWhole'
<1>1. PICK T : Whole(h, T, HeadOf, dropped) BY DEF HeapWhole
<1> DEFINE hd == HeadOf
           h1 == RemoveAll(h, found)
           h2 == RemoveAll(h1, pre)
           h3 == RemoveAll(h2, post)
           S1 == {} \cup {"found"}
           S2 == S1 \cup {"pre"}
           S3 == S2 \cup {"post"}
           g == HeadOf'
<1>2. h' = h3 /\ found' = NULL /\ pre' = NULL /\ post' = NULL /\ UNCHANGED <<list, config, lst, dropped>>
  BY DEF Release, lookup
<1>3. Headings(hd, list, lst, found, pre, post, config) /\ Headings(g, list', lst', found', pre', post', config') BY NowHeads
<1>4. Whole(h, T, hd, dropped) BY <1>1
<1> HIDE DEF hd, g
<1>5. "found" \in Owners \ {} /\ "pre" \in Owners \ S1 /\ "post" \in Owners \ S2 BY DEF Owners
<1>6. found = hd["found"] /\ pre = hd["pre"] /\ post = hd["post"] BY <1>3 DEF Headings
<1>7. \A o \in Owners : g[o] = IF o \in S3 THEN NULL ELSE hd[o]
  <2>1. Owners = {"files", "lookup", "found", "pre", "post"} \cup Lists \cup {"paths"}
        /\ S3 = {"found", "pre", "post"} /\ (Lists \cup {"paths"}) \cap {"found", "pre", "post"} = {}
    BY DEF Owners, Lists
  <2> HIDE DEF S3
  <2> QED BY <1>2, <1>3, <2>1 DEF Headings
<1> HIDE DEF S1, S2, S3
<1>8. Whole(h, T, Emptied(hd, {}), dropped) BY <1>4, FreeNone
<1>9. Whole(h1, T, Emptied(hd, S1), dropped) BY <1>5, <1>6, <1>8, FreeNext DEF S1
<1> HIDE DEF h1
<1>10. Whole(h2, T, Emptied(hd, S2), dropped) BY <1>5, <1>6, <1>9, FreeNext DEF S2
<1> HIDE DEF h2
<1>11. Whole(h3, T, Emptied(hd, S3), dropped) BY <1>5, <1>6, <1>10, FreeNext DEF S3
<1> HIDE DEF h3
<1>12. g = [o \in Owners |-> g[o]] BY <1>3 DEF Headings
<1>13. Whole(h3, T, g, dropped) BY <1>7, <1>11, <1>12, EmptiedWhole
<1> QED BY <1>2, <1>13 DEF HeapWhole, g

\* One of the lists of answers takes that of the lookup.
LEMMA TakenWhole ==
  ASSUME HeapWhole, NEW o \in {"found", "pre", "post"}, NEW x, x = HeadOf[o], NEW r, r = kmod_list_append_list(h, x, lst),
         h' = r.heap, lst' = NULL, found' = IF o = "found" THEN r.list ELSE found, pre' = IF o = "pre" THEN r.list ELSE pre,
         post' = IF o = "post" THEN r.list ELSE post, UNCHANGED <<list, config, dropped>>
  PROVE  HeapWhole'
<1>1. PICK T : Whole(h, T, HeadOf, dropped) BY DEF HeapWhole
<1> DEFINE hd == HeadOf
           g == [hd EXCEPT ![o] = r.list, !["lookup"] = NULL]
<1>2. Headings(hd, list, lst, found, pre, post, config) BY NowHeads
<1>3. Whole(h, T, hd, dropped) /\ x = hd[o] BY <1>1
<1> HIDE DEF hd
<1>4. o \in Owners /\ "lookup" \in Owners /\ o # "lookup" /\ lst = hd["lookup"] BY <1>2 DEF Owners, Headings
<1>5. Whole(r.heap, T, g, dropped) BY <1>3, <1>4, JoinWhole
<1>6. HeadOf' = g
  <2>1. \A p \in Owners : g[p] = IF p = "lookup" THEN NULL ELSE IF p = o THEN r.list ELSE hd[p] BY <1>2 DEF Headings
  <2>2. g = [p \in Owners |-> g[p]] BY <1>2 DEF Headings
  <2> HIDE DEF g
  <2>3. {"files", "lookup", "found", "pre", "post"} \subseteq Owners BY DEF Owners
  <2>4. /\ g["files"] = list' /\ g["lookup"] = lst' /\ g["found"] = found' /\ g["pre"] = pre' /\ g["post"] = post'
    BY <1>2, <2>1, <2>3 DEF Headings
  <2>5. Lists \cup {"paths"} \subseteq Owners \ {"lookup", "found", "pre", "post"} BY DEF Owners, Lists
  <2>6. \A l \in Lists \cup {"paths"} : g[l] = config'[l] BY <1>2, <2>1, <2>5 DEF Headings
  <2> QED BY <2>2, <2>4, <2>6, NextHeads
<1> QED BY <1>5, <1>6 DEF HeapWhole

\* The end of a lookup
LEMMA LookEndWhole ==
  ASSUME HeapWhole, Stages, LookEnd
  PROVE  HeapWhole'
<1>1. HeadOf["found"] = found /\ HeadOf["pre"] = pre /\ HeadOf["post"] = post BY NowHeads DEF Headings
<1>2. lst' = NULL /\ UNCHANGED <<list, config, dropped>> BY DEF LookEnd
<1>3. CASE job.into = "found" /\ found' = lst /\ UNCHANGED <<h, pre, post>>
  <2>1. found = NULL BY <1>3 DEF Stages
  <2> DEFINE r == kmod_list_append_list(h, found, lst)
  <2>2. r = [heap |-> h, list |-> lst] BY <2>1 DEF kmod_list_append_list
  <2>3. r = kmod_list_append_list(h, found, lst) OBVIOUS
  <2> HIDE DEF r
  <2>4. h' = r.heap /\ found' = r.list BY <1>3, <2>2
  <2> QED BY <1>1, <1>2, <1>3, <2>3, <2>4, TakenWhole
<1>4. CASE /\ LET joined == kmod_list_append_list(h, pre, lst) IN h' = joined.heap /\ pre' = joined.list
           /\ UNCHANGED <<found, post>>
  <2> DEFINE r == kmod_list_append_list(h, pre, lst)
  <2>1. r = kmod_list_append_list(h, pre, lst) /\ h' = r.heap /\ pre' = r.list BY <1>4
  <2> HIDE DEF r
  <2> QED BY <1>1, <1>2, <1>4, <2>1, TakenWhole
<1>5. CASE /\ LET joined == kmod_list_append_list(h, post, lst) IN h' = joined.heap /\ post' = joined.list
           /\ UNCHANGED <<found, pre>>
  <2> DEFINE r == kmod_list_append_list(h, post, lst)
  <2>1. r = kmod_list_append_list(h, post, lst) /\ h' = r.heap /\ post' = r.list BY <1>5
  <2> HIDE DEF r
  <2> QED BY <1>1, <1>2, <1>5, <2>1, TakenWhole
<1> QED BY <1>3, <1>4, <1>5 DEF LookEnd

\* The lists of the configuration are finite.
LEMMA ListsFinite ==
  ASSUME HeapWhole
  PROVE  ItemsFinite
<1>1. PICK T : Whole(h, T, HeadOf, dropped) BY DEF HeapWhole
<1>2. \A o \in Owners : \E n \in Nat : Nodes(h, HeadOf[o]) \in [1..n -> DOMAIN h] BY <1>1, WholeNodes
<1>3. ASSUME NEW l \in Lists PROVE l \in Owners /\ HeadOf[l] = config[l] BY NowHeads DEF Headings, Owners
<1>4. ASSUME NEW l \in Lists PROVE \E n \in Nat : DOMAIN Items(h, config[l]) = 1..n
  <2>1. PICK n \in Nat : Nodes(h, config[l]) \in [1..n -> DOMAIN h] BY <1>2, <1>3
  <2> DEFINE ns == Nodes(h, config[l])
  <2>2. DOMAIN ns = 1..n BY <2>1
  <2> HIDE DEF ns
  <2>3. DOMAIN Items(h, config[l]) = 1..n BY <2>2 DEF Items, ns
  <2> QED BY <2>3
<1> QED BY <1>4 DEF ItemsFinite

\* A place gives a list, or none; some of its nodes may be lost.
LEMMA LookPlaceWhole ==
  ASSUME HeapWhole, Shapes, NothingLost, LookPlace
  PROVE  HeapWhole' /\ NothingLost'
<1> DEFINE mods == Source(job.place, job.name)
           hd == HeadOf
           base == [heap |-> h, list |-> NULL, dropped |-> dropped]
<1>1. job.place \in 1..6 /\ lst = NULL /\ UNCHANGED <<list, config, found, pre, post>> BY DEF LookPlace
<1>2. Sequenced(mods)
  <2>1. ItemsFinite /\ world \in Worlds BY ListsFinite DEF Shapes
  <2> QED BY <1>1, <2>1, SourceSequenced
<1>3. \/ UNCHANGED <<h, lst, nomem, dropped>>
      \/ \E F \in SUBSET DOMAIN mods :
           /\ LET all == AppendMods(mods, F) IN h' = all.heap /\ lst' = all.list /\ dropped' = all.dropped
           /\ nomem' = nomem + Cardinality(F)
      \/ \E k \in DOMAIN mods : \E F \in SUBSET (1..k - 1) :
           /\ LET part == AppendMods(SubSeq(mods, 1, k - 1), F)
                  st == RemoveLatest([heap |-> part.heap, list |-> part.list], k - 1)
              IN  h' = st.heap /\ lst' = st.list /\ dropped' = part.dropped
           /\ nomem' = nomem + Cardinality(F) + 1
  <2> HIDE DEF mods
  <2> QED BY <1>1 DEF LookPlace, mods
<1> HIDE DEF mods
<1>4. PICK n \in Nat : mods = [k \in 1..n |-> mods[k]] BY <1>2 DEF Sequenced
<1>5. PICK T0 : Whole(h, T0, HeadOf, dropped) BY DEF HeapWhole
<1> DEFINE T == T0 \cup {mods[k] : k \in 1..n}
<1>6. T0 \subseteq T /\ mods \in [1..n -> T] BY <1>4
<1> HIDE DEF T
<1>7. Whole(h, T, HeadOf, dropped) BY <1>5, <1>6, WiderWhole
<1>8. HeadOf["lookup"] = NULL /\ "lookup" \in Owners BY <1>1, NowHeads DEF Headings, Owners
<1> HIDE DEF hd, base
<1>9. h \in Heaps(T) /\ hd \in [Owners -> Nat] /\ hd["lookup"] = NULL /\ DOMAIN hd = Owners BY <1>7, <1>8, WholeTypes DEF hd
<1>10. ASSUME NEW F PROVE base \in LookStates(T, hd, "lookup", F, dropped)
  <2>1. [hd EXCEPT !["lookup"] = NULL] = hd BY <1>9
  <2>2. Whole(h, T, hd, dropped) BY <1>7 DEF hd
  <2>3. dropped \in SUBSET Nat
    <3>1. PICK D \in SUBSET Nat : \E own : Owned(h, D, T, own, hd, dropped) BY <2>2 DEF Whole
    <3>2. PICK own : Owned(h, D, T, own, hd, dropped) BY <3>1
    <3> QED BY <3>2 DEF Owned
  <2>4. base \in [heap : Heaps(T), list : Nat, dropped : SUBSET Nat]
        /\ base.heap = h /\ base.list = NULL /\ base.dropped = dropped
    BY <1>9, <2>3 DEF base, NULL
  <2> QED BY <2>1, <2>2, <2>4 DEF LookStates
<1>11. ASSUME NEW m \in Nat, NEW seq \in [1..m -> T], NEW F \in SUBSET (1..m)
       PROVE  AppendMods(seq, F) \in LookStates(T, hd, "lookup", F, dropped)
  <2> DEFINE nums == [k \in 1..Len(seq) |-> k]
  <2>1. Len(seq) = m BY <1>11
  <2>2. nums = [k \in 1..m |-> k] BY <2>1
  <2> HIDE DEF nums
  <2>3. FoldLeft(LAMBDA s, k : AppendMod(s, seq[k], k \in F), base, nums) \in LookStates(T, hd, "lookup", F, dropped)
    BY <1>8, <1>9, <1>10, <2>2, LookFold
  <2> QED BY <2>3 DEF AppendMods, base, nums
<1>12. ASSUME NEW g \in Heaps(T), NEW x \in Nat, Whole(g, T, [hd EXCEPT !["lookup"] = x], dropped'), h' = g, lst' = x PROVE HeapWhole'
  <2> DEFINE f == [HeadOf EXCEPT !["lookup"] = x]
  <2>1. Whole(h', T, f, dropped') BY <1>12 DEF hd
  <2>2. f = [HeadOf EXCEPT !["lookup"] = x] OBVIOUS
  <2> HIDE DEF f
  <2>3. HeadOf' = f BY <1>1, <1>12, <2>2, OneHead
  <2> QED BY <2>1, <2>3 DEF HeapWhole
<1>13. CASE UNCHANGED <<h, lst, nomem, dropped>> BY <1>1, <1>13, SameHeap DEF NothingLost
<1>14. ASSUME NEW F \in SUBSET DOMAIN mods, NEW all, all = AppendMods(mods, F), h' = all.heap, lst' = all.list,
              dropped' = all.dropped, nomem' = nomem + Cardinality(F)
       PROVE  HeapWhole' /\ NothingLost'
  <2>1. F \in SUBSET (1..n) BY <1>6
  <2>2. all \in LookStates(T, hd, "lookup", F, dropped) BY <1>6, <1>11, <1>14, <2>1
  <2>3. all.heap \in Heaps(T) /\ all.list \in Nat /\ Whole(all.heap, T, [hd EXCEPT !["lookup"] = all.list], all.dropped)
        /\ (F = {} => all.dropped = dropped)
    BY <2>2 DEF LookStates
  <2>4. HeapWhole' BY <1>12, <1>14, <2>3
  <2>5. IsFiniteSet(F)
    <3>1. IsFiniteSet(1..n) BY FS_Interval
    <3> QED BY <2>1, <3>1, FS_Subset
  <2>6. Cardinality(F) \in Nat /\ (Cardinality(F) = 0 <=> F = {}) BY <2>5, FS_CardinalityType, FS_EmptySet
  <2>7. NothingLost' BY <1>14, <2>3, <2>6 DEF NothingLost
  <2> QED BY <2>4, <2>7
<1>15. ASSUME NEW k \in DOMAIN mods, NEW F \in SUBSET (1..k - 1), NEW part, part = AppendMods(SubSeq(mods, 1, k - 1), F),
              NEW st0, st0 = [heap |-> part.heap, list |-> part.list],
              h' = RemoveLatest(st0, k - 1).heap, lst' = RemoveLatest(st0, k - 1).list,
              dropped' = part.dropped, nomem' = nomem + Cardinality(F) + 1
       PROVE  HeapWhole' /\ NothingLost'
  <2> DEFINE seq == SubSeq(mods, 1, k - 1)
             nums == [x \in 1..k - 1 |-> x]
             L == part.dropped
  <2>1. k \in 1..n BY <1>4
  <2>2. seq \in [1..k - 1 -> T] /\ k - 1 \in Nat
    <3>1. mods \in Seq(T) /\ Len(mods) = n BY <1>6
    <3>2. seq \in Seq(T) /\ Len(seq) = k - 1 BY <2>1, <3>1
    <3> HIDE DEF seq
    <3> QED BY <2>1, <3>2
  <2>3. part = AppendMods(seq, F) BY <1>15
  <2> HIDE DEF seq
  <2>4. part \in LookStates(T, hd, "lookup", F, dropped) BY <1>11, <2>2, <2>3
  <2>5. st0 \in ListStates(T, hd, "lookup", L) BY <1>15, <2>4 DEF LookStates, ListStates
  <2>6. nums \in [1..k - 1 -> Nat] BY <2>1
  <2> HIDE DEF nums, L
  <2>7. FoldLeft(LAMBDA s, x : kmod_list_remove(s.heap, kmod_list_last(s.heap, s.list)), st0, nums) \in ListStates(T, hd, "lookup", L)
    BY <1>8, <1>9, <2>2, <2>5, <2>6, RemoveFold
  <2>8. RemoveLatest(st0, k - 1) \in ListStates(T, hd, "lookup", L) BY <2>7 DEF RemoveLatest, nums
  <2> DEFINE st == RemoveLatest(st0, k - 1)
  <2>9. h' = st.heap /\ lst' = st.list /\ dropped' = L BY <1>15 DEF L
  <2>10. st \in ListStates(T, hd, "lookup", L) BY <2>8
  <2> HIDE DEF st
  <2>11. st.heap \in Heaps(T) /\ st.list \in Nat /\ Whole(st.heap, T, [hd EXCEPT !["lookup"] = st.list], L)
    BY <2>10 DEF ListStates
  <2>12. HeapWhole' BY <1>12, <2>9, <2>11
  <2>13. IsFiniteSet(F)
    <3>1. IsFiniteSet(1..k - 1) BY <2>2, FS_Interval
    <3> QED BY <3>1, FS_Subset
  <2>14. Cardinality(F) \in Nat BY <2>13, FS_CardinalityType
  <2>15. NothingLost' BY <1>15, <2>14 DEF NothingLost
  <2> QED BY <2>12, <2>15
<1>16. CASE \E F \in SUBSET DOMAIN mods :
              /\ LET all == AppendMods(mods, F) IN h' = all.heap /\ lst' = all.list /\ dropped' = all.dropped
              /\ nomem' = nomem + Cardinality(F)
  <2>1. PICK F \in SUBSET DOMAIN mods :
              /\ LET all == AppendMods(mods, F) IN h' = all.heap /\ lst' = all.list /\ dropped' = all.dropped
              /\ nomem' = nomem + Cardinality(F)
    BY <1>16
  <2> QED BY <1>14, <2>1
<1>17. CASE \E k \in DOMAIN mods : \E F \in SUBSET (1..k - 1) :
              /\ LET part == AppendMods(SubSeq(mods, 1, k - 1), F)
                     st == RemoveLatest([heap |-> part.heap, list |-> part.list], k - 1)
                 IN  h' = st.heap /\ lst' = st.list /\ dropped' = part.dropped
              /\ nomem' = nomem + Cardinality(F) + 1
  <2>1. PICK k \in DOMAIN mods : \E F \in SUBSET (1..k - 1) :
              /\ LET part == AppendMods(SubSeq(mods, 1, k - 1), F)
                     st == RemoveLatest([heap |-> part.heap, list |-> part.list], k - 1)
                 IN  h' = st.heap /\ lst' = st.list /\ dropped' = part.dropped
              /\ nomem' = nomem + Cardinality(F) + 1
    BY <1>17
  <2>2. PICK F \in SUBSET (1..k - 1) :
              /\ LET part == AppendMods(SubSeq(mods, 1, k - 1), F)
                     st == RemoveLatest([heap |-> part.heap, list |-> part.list], k - 1)
                 IN  h' = st.heap /\ lst' = st.list /\ dropped' = part.dropped
              /\ nomem' = nomem + Cardinality(F) + 1
    BY <2>1
  <2> QED BY <1>15, <2>2
<1> QED BY <1>3, <1>13, <1>16, <1>17

\* The steps that read files and leave the configuration's lists alone, but for the paths
LEMMA OpenStages ==
  ASSUME Shapes, Stages, OpenPath \/ ReadEntry \/ ReadEnd, UNCHANGED <<lookup, answers>>
  PROVE  Shapes' /\ Stages'
<1>1. UNCHANGED <<world, config, job, lst, found, pre, post>> BY DEF OpenPath, ReadEntry, ReadEnd, lookup, answers
<1>2. pc \in {"paths", "dir"} /\ pc' \in {"paths", "dir", "listed"} BY DEF OpenPath, ReadEntry, ReadEnd
<1> QED BY <1>1, <1>2 DEF Shapes, Stages

\* kmod_config_new gives up.
LEMMA OomStages ==
  ASSUME Shapes, Stages, Oom, pc \in {"paths", "listed"}, UNCHANGED <<lookup, answers>>
  PROVE  Shapes' /\ Stages'
<1>1. UNCHANGED <<world, job, lst, found, pre, post>> BY DEF Oom, lookup, answers
<1>2. pc' = "failed" /\ list' = NULL /\ config' = NoConfig BY DEF Oom
<1>3. config' = [l \in Lists \cup {"paths"} |-> config'[l]] /\ \A l \in Lists \cup {"paths"} : config'[l] = NULL
  BY <1>2 DEF NoConfig
<1> QED BY <1>1, <1>2, <1>3 DEF Shapes, Stages

\* A path is remembered, and the list of files is complete.
LEMMA PathStages ==
  ASSUME Shapes, Stages, AddPath \/ Listed, UNCHANGED <<lookup, answers>>
  PROVE  Shapes' /\ Stages'
<1>1. CASE Oom /\ pc \in {"paths", "listed"} BY <1>1, OomStages
<1>2. CASE ~Oom /\ AddPath
  <2>1. UNCHANGED <<world, list, job, lst, found, pre, post>> /\ pc = "listed" /\ pc' = "paths"
    BY <1>2 DEF AddPath, lookup, answers
  <2>2. PICK x : config' = [config EXCEPT !.paths = x] BY <1>2 DEF AddPath
  <2>3. config' = [l \in Lists \cup {"paths"} |-> config'[l]] /\ \A l \in Lists : config'[l] = config[l]
    BY <2>2 DEF Shapes, Lists
  <2> QED BY <2>1, <2>3 DEF Shapes, Stages
<1>3. CASE ~Oom /\ Listed
  <2>1. UNCHANGED <<world, list, config, job, lst, found, pre, post>> /\ pc = "paths" /\ pc' = "open"
    BY <1>3 DEF Listed, lookup, answers
  <2> QED BY <2>1 DEF Shapes, Stages
<1> QED BY <1>1, <1>2, <1>3 DEF AddPath, Listed

\* The next file, or the command line
LEMMA OpenFileStages ==
  ASSUME Shapes, Stages, OpenFile, UNCHANGED <<lookup, answers>>
  PROVE  Shapes' /\ Stages'
<1>1. UNCHANGED <<world, config, job, lst, found, pre, post>> /\ pc = "open" BY DEF OpenFile, lookup, answers
<1>2. pc' = "parse" \/ (pc' = "cmdline" /\ list' = NULL /\ text' = world.cmdline) BY DEF OpenFile
<1>3. world.cmdline \in Seq(STRING) BY WorldsAssumption DEF Shapes
<1> QED BY <1>1, <1>2, <1>3 DEF Shapes, Stages

\* A line of a file, and a word of the command line
LEMMA LineStages ==
  ASSUME Shapes, Stages, HeapWhole, ParseStep \/ CmdlineStep, UNCHANGED <<lookup, answers>>
  PROVE  Shapes' /\ Stages' /\ HeapWhole'
<1>1. UNCHANGED <<world, list, job, lst, found, pre, post, dropped>> BY DEF ParseStep, CmdlineStep, lookup, answers
<1>2. config = [l \in Lists \cup {"paths"} |-> config[l]] BY DEF Shapes
<1>3. CASE ParseStep
  <2>1. pc = "parse" /\ pc' \in {"parse", "open"} BY <1>3 DEF ParseStep
  <2>2. HeapWhole' /\ config' = [l \in Lists \cup {"paths"} |-> config'[l]]
    <3> DEFINE ln == getline_wrapped(text)
    <3>1. CASE AddItems(ParseLine(ln.line)) BY <1>1, <1>2, <3>1, ParsedItems, AddItemsWhole
    <3>2. CASE UNCHANGED <<h, config>> BY <1>1, <1>2, <3>2, SameHeap
    <3> HIDE DEF ln
    <3> QED BY <1>3, <3>1, <3>2 DEF ParseStep, ln
  <2> QED BY <1>1, <2>1, <2>2 DEF Shapes, Stages
<1>4. CASE CmdlineStep
  <2> DEFINE words == Separated(text, " ")
  <2>1. pc = "cmdline" /\ pc' \in {"cmdline", "ready"} BY <1>4 DEF CmdlineStep
  <2>2. text \in Seq(STRING) BY <2>1 DEF Shapes
  <2>3. words \in Seq(Seq(STRING)) /\ words # <<>>
    <3>1. text \in [1..Len(text) -> STRING] /\ Len(text) \in Nat BY <2>2
    <3> QED BY <3>1, SeparatedTexts
  <2>4. AddItems(kcmdline_parse_result(words[1])) BY <1>4 DEF CmdlineStep
  <2>5. pc' = "cmdline" => text' = SubSeq(text, Len(words[1]) + 2, Len(text)) BY <1>4 DEF CmdlineStep
  <2> HIDE DEF words
  <2>6. words[1] \in Seq(STRING) BY <2>3
  <2>7. HeapWhole' /\ config' = [l \in Lists \cup {"paths"} |-> config'[l]]
    BY <1>1, <1>2, <2>4, <2>6, CmdlineItems, AddItemsWhole
  <2>8. SubSeq(text, Len(words[1]) + 2, Len(text)) \in Seq(STRING)
    <3> DEFINE w == words[1]
    <3>1. w \in Seq(STRING) BY <2>6
    <3> HIDE DEF w
    <3>2. Len(w) + 2 \in Nat \ {0} BY <3>1
    <3>3. SubSeq(text, Len(w) + 2, Len(text)) \in Seq(STRING) BY <2>2, <3>2, RestSequence
    <3> QED BY <3>3 DEF w
  <2>9. pc' = "cmdline" => text' \in Seq(STRING) BY <2>5, <2>8
  <2> QED BY <1>1, <2>1, <2>7, <2>9 DEF Shapes, Stages
<1> QED BY <1>3, <1>4

\* A lookup begins.
LEMMA BeginShape ==
  ASSUME NEW into, NEW name, Begin(into, name)
  PROVE  job' = [into |-> into, name |-> job'.name, place |-> job'.place] /\ job' # NoJob
<1>1. PICK n, p : job' = [into |-> into, name |-> n, place |-> p] /\ p \in {1, 7} BY DEF Begin
<1>2. job'.place # NoJob.place BY <1>1 DEF NoJob
<1> QED BY <1>1, <1>2

\* Questions, and the names of soft dependencies
LEMMA AskStages ==
  ASSUME Shapes, Stages, LookupName \/ Ask \/ LookSoft
  PROVE  Shapes' /\ Stages'
<1>1. UNCHANGED <<world, list, config, text, pc, lst, found, pre, post>> /\ pc = "ready" /\ job = NoJob
  BY DEF LookupName, Ask, LookSoft, Idle, configVars, reading, answers
<1>2. \/ job' = job
      \/ /\ job' = [into |-> job'.into, name |-> job'.name, place |-> job'.place] /\ job' # NoJob
         /\ job'.into = "found" => found = NULL
  <2>1. CASE LookupName
    <3>1. PICK name : Begin("found", name) BY <2>1 DEF LookupName
    <3>2. found = NULL BY <2>1 DEF LookupName
    <3>3. job' = [into |-> "found", name |-> job'.name, place |-> job'.place] /\ job' # NoJob BY <3>1, BeginShape
    <3> QED BY <3>2, <3>3
  <2>2. CASE Ask BY <2>2 DEF Ask
  <2>3. CASE LookSoft
    <3>1. PICK into \in {"pre", "post"} : Begin(into, Head(todo[into])) BY <2>3 DEF LookSoft
    <3>2. job' = [into |-> into, name |-> job'.name, place |-> job'.place] /\ job' # NoJob BY <3>1, BeginShape
    <3>3. job'.into = into BY <3>2
    <3> QED BY <3>2, <3>3
  <2> QED BY <2>1, <2>2, <2>3
<1> QED BY <1>1, <1>2 DEF Shapes, Stages

\* The next place
LEMMA LookPlaceStages ==
  ASSUME Shapes, Stages, LookPlace
  PROVE  Shapes' /\ Stages'
<1>1. UNCHANGED <<world, list, config, text, pc, found, pre, post>> /\ job.place \in 1..6 BY DEF LookPlace, reading
<1>2. job # NoJob BY <1>1 DEF NoJob
<1>3. job' = job \/ job' = [job EXCEPT !.place = @ + 1] BY DEF LookPlace
<1>4. /\ job' = [into |-> job'.into, name |-> job'.name, place |-> job'.place]
      /\ job'.into = job.into /\ job'.place # 0
  BY <1>1, <1>3 DEF Shapes
<1>5. job' # NoJob BY <1>4 DEF NoJob
<1> QED BY <1>1, <1>2, <1>4, <1>5 DEF Shapes, Stages

\* A lookup ends, and the answers are given back.
LEMMA EndStages ==
  ASSUME Shapes, Stages, LookEnd \/ Release
  PROVE  Shapes' /\ Stages'
<1>1. UNCHANGED <<world, list, config, text, pc>> /\ job' = NoJob /\ lst' = NULL
  BY DEF LookEnd, Release, Idle, lookup, reading, Stages
<1>2. pc = "ready"
  <2>1. CASE LookEnd BY <2>1 DEF LookEnd, Stages
  <2>2. CASE Release BY <2>2 DEF Release, Idle
  <2> QED BY <2>1, <2>2
<1>3. job' = [into |-> job'.into, name |-> job'.name, place |-> job'.place] /\ job'.into # "found" BY <1>1 DEF NoJob
<1> QED BY <1>1, <1>2, <1>3 DEF Shapes, Stages

\* The context is given back.
LEMMA FreeStages ==
  ASSUME Shapes, Stages, FreeUnused
  PROVE  Shapes' /\ Stages'
<1>1. UNCHANGED <<world, list, job, lst, found, pre, post>> /\ pc = "ready" /\ pc' = "freed" /\ config' = NoConfig
  BY DEF FreeUnused, FreeConfig, lookup, answers
<1>2. job = NoJob /\ found = NULL /\ pre = NULL /\ post = NULL BY DEF FreeUnused, Idle
<1>3. config' = [l \in Lists \cup {"paths"} |-> config'[l]] /\ \A l \in Lists \cup {"paths"} : config'[l] = NULL
  BY <1>1 DEF NoConfig
<1> QED BY <1>1, <1>2, <1>3 DEF Shapes, Stages

\* Only a lookup loses nodes.
LEMMA ReadLosesNothing ==
  ASSUME NothingLost, ReadConfig, UNCHANGED dropped
  PROVE  NothingLost'
<1>1. nomem' = nomem \/ nomem' = nomem + 1
  <2>1. ASSUME NEW name, NEW single, ListFile(name, single) PROVE nomem' = nomem \/ nomem' = nomem + 1
    BY <2>1 DEF ListFile
  <2>2. CASE OpenPath BY <2>1, <2>2 DEF OpenPath
  <2>3. CASE ReadEntry BY <2>1, <2>3 DEF ReadEntry
  <2>4. CASE ReadEnd BY <2>4 DEF ReadEnd, history
  <2>5. ASSUME Oom PROVE nomem' = nomem + 1 BY <2>5 DEF Oom
  <2>6. CASE AddPath BY <2>5, <2>6 DEF AddPath, history
  <2>7. CASE Listed BY <2>5, <2>7 DEF Listed, history
  <2>8. CASE OpenFile BY <2>8 DEF OpenFile, history
  <2>9. ASSUME NEW items, AddItems(items) PROVE nomem' = nomem \/ nomem' = nomem + 1 BY <2>9 DEF AddItems
  <2>10. CASE ParseStep
    <3>1. nomem' = nomem \/ \E items : AddItems(items) BY <2>10 DEF ParseStep
    <3> QED BY <2>9, <3>1
  <2>11. CASE CmdlineStep
    <3>1. \E items : AddItems(items) BY <2>11 DEF CmdlineStep
    <3> QED BY <2>9, <3>1
  <2> QED BY <2>2, <2>3, <2>4, <2>6, <2>7, <2>8, <2>10, <2>11 DEF ReadConfig
<1> QED BY <1>1 DEF NothingLost

\* The lists stay whole while the configuration is read.
LEMMA ReadInv ==
  ASSUME ListsInv, Read
  PROVE  ListsInv'
<1>1. Shapes /\ Stages /\ HeapWhole /\ UNCHANGED <<lookup, answers>> /\ UNCHANGED <<lst, found, pre, post, dropped>>
  BY DEF ListsInv, Read, lookup, answers
<1>9. NothingLost' BY <1>1, ReadLosesNothing DEF ListsInv, Read
<1>2. CASE OpenPath
  <2>1. UNCHANGED config BY <1>2 DEF OpenPath
  <2>2. HeapWhole'
    <3>1. CASE UNCHANGED <<h, list>> BY <1>1, <2>1, <3>1, SameHeap
    <3>2. CASE ListFile(Path.name, TRUE) BY <1>1, <2>1, <3>2, ListFileWhole
    <3> QED BY <1>2, <3>1, <3>2 DEF OpenPath
  <2> QED BY <1>1, <1>2, <2>2, OpenStages, <1>9 DEF ListsInv
<1>3. CASE ReadEntry
  <2>1. UNCHANGED config BY <1>3 DEF ReadEntry
  <2>2. HeapWhole'
    <3>1. CASE UNCHANGED <<h, list>> BY <1>1, <2>1, <3>1, SameHeap
    <3>2. ASSUME NEW n, ListFile(n, FALSE) PROVE HeapWhole' BY <1>1, <2>1, <3>2, ListFileWhole
    <3> QED BY <1>3, <3>1, <3>2 DEF ReadEntry
  <2> QED BY <1>1, <1>3, <2>2, OpenStages, <1>9 DEF ListsInv
<1>4. CASE ReadEnd
  <2>1. HeapWhole' BY <1>1, <1>4, SameHeap DEF ReadEnd
  <2> QED BY <1>1, <1>4, <2>1, OpenStages, <1>9 DEF ListsInv
<1>5. CASE AddPath
  <2>1. HeapWhole'
    <3>1. CASE Oom BY <1>1, <1>5, <3>1, OomWhole DEF AddPath
    <3>2. CASE ~Oom
      <4> DEFINE app == kmod_list_append(h, config.paths, [path |-> i])
      <4>1. h' = app.heap /\ config' = [config EXCEPT !.paths = app.list] /\ UNCHANGED list BY <1>5, <3>2 DEF AddPath
      <4>2. app = kmod_list_append(h, config.paths, [path |-> i]) OBVIOUS
      <4> HIDE DEF app
      <4> QED BY <1>1, <4>1, <4>2, PathWhole
    <3> QED BY <3>1, <3>2
  <2> QED BY <1>1, <1>5, <2>1, PathStages, <1>9 DEF ListsInv
<1>6. CASE Listed
  <2>1. HeapWhole'
    <3>1. CASE Oom BY <1>1, <1>6, <3>1, OomWhole DEF Listed
    <3>2. CASE ~Oom BY <1>1, <1>6, <3>2, SameHeap DEF Listed
    <3> QED BY <3>1, <3>2
  <2> QED BY <1>1, <1>6, <2>1, PathStages, <1>9 DEF ListsInv
<1>7. CASE OpenFile
  <2>1. UNCHANGED config BY <1>7 DEF OpenFile
  <2>2. HeapWhole'
    <3>1. CASE list # NULL
      <4> DEFINE rm == kmod_list_remove(h, list)
      <4>1. h' = rm.heap /\ list' = rm.list BY <1>7, <3>1 DEF OpenFile
      <4>2. rm = kmod_list_remove(h, list) OBVIOUS
      <4> HIDE DEF rm
      <4> QED BY <1>1, <2>1, <4>1, <4>2, NextFileWhole
    <3>2. CASE list = NULL BY <1>1, <1>7, <2>1, <3>2, SameHeap DEF OpenFile
    <3> QED BY <3>1, <3>2
  <2> QED BY <1>1, <1>7, <2>2, OpenFileStages, <1>9 DEF ListsInv
<1>8. CASE ParseStep \/ CmdlineStep BY <1>1, <1>8, LineStages, <1>9 DEF ListsInv
<1> QED BY <1>2, <1>3, <1>4, <1>5, <1>6, <1>7, <1>8 DEF Read, ReadConfig

\* They stay whole in every step.
LEMMA ListsNext ==
  ASSUME ListsInv, [Next]_vars
  PROVE  ListsInv'
<1>1. Shapes /\ Stages /\ HeapWhole /\ NothingLost BY DEF ListsInv
<1>2. CASE Read BY <1>2, ReadInv
<1>3. CASE LookupName \/ Ask \/ LookSoft
  <2>1. UNCHANGED <<h, list, lst, found, pre, post, config, nomem, dropped>>
    BY <1>3 DEF LookupName, Ask, LookSoft, configVars, history, answers
  <2>2. HeapWhole' /\ NothingLost' BY <1>1, <2>1, SameHeap DEF NothingLost
  <2> QED BY <1>1, <1>3, <2>2, AskStages DEF ListsInv
<1>4. CASE LookPlace BY <1>1, <1>4, LookPlaceWhole, LookPlaceStages DEF ListsInv
<1>5. CASE LookEnd
  <2>1. NothingLost' BY <1>1, <1>5 DEF LookEnd, history, NothingLost
  <2> QED BY <1>1, <1>5, <2>1, LookEndWhole, EndStages DEF ListsInv
<1>6. CASE Release
  <2>1. NothingLost' BY <1>1, <1>6 DEF Release, history, NothingLost
  <2> QED BY <1>1, <1>6, <2>1, ReleaseWhole, EndStages DEF ListsInv
<1>7. CASE FreeUnused
  <2>1. /\ h' = Freed /\ config' = NoConfig /\ pc = "ready" /\ UNCHANGED <<list, lst, found, pre, post, nomem, dropped>>
        /\ job = NoJob /\ found = NULL /\ pre = NULL /\ post = NULL
    BY <1>7 DEF FreeUnused, FreeConfig, Idle, history, lookup, answers
  <2>2. HeapWhole' /\ NothingLost' BY <1>1, <2>1, FreeWhole DEF NothingLost
  <2> QED BY <1>1, <1>7, <2>2, FreeStages DEF ListsInv
<1>8. CASE UNCHANGED vars
  <2>1. UNCHANGED <<world, h, list, config, text, pc, job, lst, found, pre, post, nomem, dropped>>
    BY <1>8 DEF vars, configVars, reading, history, lookup, answers
  <2>2. HeapWhole' /\ NothingLost' BY <1>1, <2>1, SameHeap DEF NothingLost
  <2>3. Shapes' /\ Stages' BY <1>1, <2>1 DEF Shapes, Stages
  <2> QED BY <2>2, <2>3 DEF ListsInv
<1> QED BY <1>2, <1>3, <1>4, <1>5, <1>6, <1>7, <1>8 DEF Next

\* An empty heap is whole.
LEMMA ListsInit ==
  ASSUME Init
  PROVE  ListsInv
<1>1. h = [n \in {} |-> NULL] /\ list = NULL /\ config = NoConfig /\ pc = "paths" /\ world \in Worlds
      /\ job = NoJob /\ lst = NULL /\ found = NULL /\ pre = NULL /\ post = NULL /\ nomem = 0 /\ dropped = {}
  BY DEF Init, InitConfig
<1>2. \A l \in Lists \cup {"paths"} : config[l] = NULL BY <1>1 DEF NoConfig
<1>3. Shapes /\ Stages BY <1>1, <1>2 DEF Shapes, Stages, NoJob, NoConfig
<1>4. HeapWhole
  <2> DEFINE hd == HeadOf
             own == [n \in {} |-> NULL]
  <2>1. Headings(hd, list, lst, found, pre, post, config) BY NowHeads
  <2> HIDE DEF hd
  <2>2. hd = [o \in Owners |-> hd[o]] /\ \A o \in Owners : hd[o] = NULL BY <1>1, <1>2, <2>1 DEF Headings, Owners
  <2>3. IsFiniteSet({}) BY FS_EmptySet
  <2> HIDE DEF own
  <2>4. Headed(hd, {}, own) BY <2>2 DEF Headed
  <2>5. Rings(h, {}, own) BY <2>3 DEF Rings
  <2>6. Heap(h, {}, {}) BY <1>1 DEF Heap
  <2>7. Owned(h, {}, {}, own, hd, dropped) BY <1>1, <2>3, <2>4, <2>5, <2>6 DEF Owned
  <2>8. Whole(h, {}, hd, dropped) BY <2>3, <2>7 DEF Whole
  <2> QED BY <2>8 DEF HeapWhole, hd
<1>5. NothingLost BY <1>1 DEF NothingLost
<1> QED BY <1>3, <1>4, <1>5 DEF ListsInv

\* What the program says of its lists follows.
LEMMA ListsOwned ==
  ASSUME ListsInv
  PROVE  NodesOwned
<1>1. PICK T : Whole(h, T, HeadOf, dropped) BY DEF ListsInv, HeapWhole
<1>2. /\ Linked(h)
      /\ dropped \subseteq DOMAIN h
      /\ UNION {NodeSet(h, HeadOf[o]) : o \in Owners} = DOMAIN h \ dropped
      /\ \A o, p \in Owners : o # p => NodeSet(h, HeadOf[o]) \cap NodeSet(h, HeadOf[p]) = {}
  <2> DEFINE hd == HeadOf
  <2>1. Whole(h, T, hd, dropped) BY <1>1
  <2> HIDE DEF hd
  <2>2. Linked(h) BY <2>1, WholeNodes
  <2>3. dropped \subseteq DOMAIN h /\ Reached(h, hd) = DOMAIN h \ dropped BY <2>1, WholeNodes
  <2>4. \A o, p \in Owners : o # p => NodeSet(h, hd[o]) \cap NodeSet(h, hd[p]) = {} BY <2>1, WholeNodes
  <2> QED BY <2>2, <2>3, <2>4 DEF hd, Reached
<1>3. ASSUME pc \in {"failed", "freed"} PROVE DOMAIN h = dropped
  <2> DEFINE hd == HeadOf
  <2>1. Headings(hd, list, lst, found, pre, post, config) BY NowHeads
  <2>2. list = NULL /\ lst = NULL /\ found = NULL /\ pre = NULL /\ post = NULL /\ \A l \in Lists \cup {"paths"} : config[l] = NULL
    BY <1>3 DEF ListsInv, Stages
  <2>3. Whole(h, T, hd, dropped) BY <1>1
  <2> HIDE DEF hd
  <2>4. \A o \in Owners : hd[o] = NULL BY <2>1, <2>2 DEF Headings, Owners
  <2> QED BY <2>3, <2>4, NothingLeft
<1>4. nomem = 0 => dropped = {} BY DEF ListsInv, NothingLost
<1> QED BY <1>2, <1>3, <1>4 DEF NodesOwned

\* At any time every node on the heap is in the list of one owner, and of no other, however
\* the lists of files, items, paths and modules were made, joined or taken back, but for
\* the nodes that lookups lost where kmod_list_append had no memory and nobody looked;
\* these are all that is left of a configuration that failed or was freed, and there are
\* none if no allocation has failed.
THEOREM ListsNeverLeak == Spec => []NodesOwned
<1>1. Init => ListsInv BY ListsInit
<1>2. ListsInv /\ [Next]_vars => ListsInv' BY ListsNext
<1>3. ListsInv => NodesOwned BY ListsOwned
<1> QED BY <1>1, <1>2, <1>3, PTL DEF Spec
=============================================================================
