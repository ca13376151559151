------------------------------ MODULE KmodList ------------------------------
(***************************************************************************)
(* The lists of libkmod: circular, doubly linked nodes in memory.  A list  *)
(* is its head, and NULL when it is empty.  The heap h has the nodes that  *)
(* are allocated; an operation gives the heap and the list it returns.     *)
(***************************************************************************)
EXTENDS Integers, Sequences, FiniteSets

NULL == 0

\* The address malloc gives: any that is free will do.
Free(h) == CHOOSE n \in 1..Cardinality(DOMAIN h) + 1 : n \notin DOMAIN h

Alloc(h, n, node) == [m \in DOMAIN h \cup {n} |-> IF m = n THEN node ELSE h[m]]
Dealloc(h, n) == [m \in DOMAIN h \ {n} |-> h[m]]

\* list_node_init
list_node_init(h, n, data) == Alloc(h, n, [next |-> n, prev |-> n, data |-> data])

\* list_node_append and list_node_insert_before, which are the same: a new node before
\* that of the list, so that it is the last one when the list is given by its head
list_node_append(h, list, n, data) ==
  LET prev == h[list].prev
      linked == [h EXCEPT ![prev].next = n]
  IN  Alloc([linked EXCEPT ![list].prev = n], n, [next |-> list, prev |-> prev, data |-> data])

\* list_node_insert_after
list_node_insert_after(h, list, n, data) ==
  LET next == h[list].next
      linked == [h EXCEPT ![next].prev = n]
  IN  Alloc([linked EXCEPT ![list].next = n], n, [next |-> next, prev |-> list, data |-> data])

\* Mutant of list_node_append_list: the second list's head still leads back to its end.
list_node_append_list_half(h, list1, list2) ==
  LET last1 == h[list1].prev
      last2 == h[list2].prev
      h1 == [h EXCEPT ![last1].next = list2]
      h2 == [h1 EXCEPT ![last2].next = list1]
  IN  [h2 EXCEPT ![list1].prev = last2]

\* list_node_append_list
list_node_append_list(h, list1, list2) ==
  LET last1 == h[list1].prev
      last2 == h[list2].prev
      h1 == [h EXCEPT ![last1].next = list2]
      h2 == [h1 EXCEPT ![last2].next = list1]
      h3 == [h2 EXCEPT ![list1].prev = last2]
  IN  [h3 EXCEPT ![list2].prev = last1]

\* list_node_remove, and the free of its callers; the next node, or NULL
list_node_remove(h, n) ==
  IF h[n].prev = n \/ h[n].next = n THEN [heap |-> Dealloc(h, n), list |-> NULL]
  ELSE LET h1 == [h EXCEPT ![h[n].prev].next = h[n].next]
       IN  [heap |-> Dealloc([h1 EXCEPT ![h[n].next].prev = h[n].prev], n), list |-> h[n].next]

----------------------------------------------------------------------------
(* The functions with an allocation, when it succeeds.                     *)

kmod_list_append(h, list, data) ==
  LET n == Free(h) IN
  IF list = NULL THEN [heap |-> list_node_init(h, n, data), list |-> n]
  ELSE [heap |-> list_node_append(h, list, n, data), list |-> list]

kmod_list_prepend(h, list, data) ==
  LET n == Free(h) IN
  IF list = NULL THEN [heap |-> list_node_init(h, n, data), list |-> n]
  ELSE [heap |-> list_node_append(h, list, n, data), list |-> n]

kmod_list_insert_before(h, list, data) ==
  LET n == Free(h) IN
  IF list = NULL THEN [heap |-> list_node_init(h, n, data), list |-> n]
  ELSE [heap |-> list_node_append(h, list, n, data), list |-> n]

kmod_list_insert_after(h, list, data) ==
  LET n == Free(h) IN
  IF list = NULL THEN [heap |-> list_node_init(h, n, data), list |-> n]
  ELSE [heap |-> list_node_insert_after(h, list, n, data), list |-> list]

kmod_list_append_list(h, list1, list2) ==
  IF list1 = NULL THEN [heap |-> h, list |-> list2]
  ELSE IF list2 = NULL THEN [heap |-> h, list |-> list1]
  ELSE [heap |-> list_node_append_list(h, list1, list2), list |-> list1]

kmod_list_remove(h, list) ==
  IF list = NULL THEN [heap |-> h, list |-> NULL] ELSE list_node_remove(h, list)

kmod_list_next(h, list, curr) == IF h[curr].next = list THEN NULL ELSE h[curr].next
kmod_list_prev(h, list, curr) == IF list = curr THEN NULL ELSE h[curr].prev
kmod_list_last(h, list) == IF list = NULL THEN NULL ELSE h[list].prev

\* kmod_list_foreach: the nodes it visits; a list that does not lead back to its head
\* is cut off.
Nodes(h, list) ==
  LET visit[k \in 0..Cardinality(DOMAIN h)] ==
        IF k = 0 THEN <<list>>
        ELSE LET v == visit[k-1]
                 next == kmod_list_next(h, list, v[Len(v)])
             IN  IF Len(v) < k \/ next = NULL THEN v ELSE Append(v, next)
  IN  IF list = NULL THEN <<>> ELSE visit[Cardinality(DOMAIN h)]

Items(h, list) == LET ns == Nodes(h, list) IN [k \in DOMAIN ns |-> h[ns[k]].data]
NodeSet(h, list) == LET ns == Nodes(h, list) IN {ns[k] : k \in DOMAIN ns}

\* for (; list != NULL; list = kmod_list_remove(list)), which frees a list
RemoveAll(h, list) ==
  LET rest[k \in 0..Cardinality(DOMAIN h)] ==
        IF k = 0 THEN [heap |-> h, list |-> list]
        ELSE LET r == rest[k-1] IN kmod_list_remove(r.heap, r.list)
  IN  rest[Cardinality(DOMAIN h)].heap

\* Every node is its neighbours' neighbour.
Linked(h) ==
  \A n \in DOMAIN h :
    /\ h[n].next \in DOMAIN h /\ h[n].prev \in DOMAIN h
    /\ h[h[n].next].prev = n /\ h[h[n].prev].next = n
=============================================================================
