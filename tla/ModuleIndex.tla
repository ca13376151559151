---------------------------- MODULE ModuleIndex ----------------------------
(***************************************************************************)
(* The binary indexes: the trie that depmod builds of keys with priorities *)
(* and writes to a file, and the two readers of libkmod, one that reads    *)
(* nodes with stdio and one that maps the file.                            *)
(*                                                                         *)
(* A key is a sequence of characters and may be a pattern of fnmatch.  A   *)
(* value is a module; entries of one key are kept by priority.             *)
(***************************************************************************)
EXTENDS Integers, Sequences, FiniteSets, SequencesExt

CONSTANTS
  INDEX_CHILDMAX,    \* characters are below
  Star, Quest, Open, Close,   \* the characters * ? [ ]
  Keys,              \* keys that may be inserted
  Searched,          \* strings that are looked up, without special characters
  Priorities,        \* indexes of modules; the value is the module
  MaxEntries         \* bound: entries of the index

Wild == {Star, Quest, Open}

ASSUME CharsType == Wild \cup {Close} \subseteq 1 .. INDEX_CHILDMAX - 1
ASSUME KeysType ==
  /\ Keys \subseteq Seq(1 .. INDEX_CHILDMAX - 1) /\ Priorities \subseteq Nat
  /\ Searched \subseteq Seq((1 .. INDEX_CHILDMAX - 1) \ (Wild \cup {Close}))

VARIABLES
  trie,      \* the root node in depmod
  inserted,  \* history: what was inserted, in this order
  file       \* the nodes in the file by their offset; the root is the last

vars == <<trie, inserted, file>>

From(s, k) == SubSeq(s, k, Len(s))
Range1(a, b) == [k \in 1 .. b - a + 1 |-> a + k - 1]

----------------------------------------------------------------------------
(* depmod                                                                  *)

\* index_create, and the leaf of index_insert
Leaf(prefix) == [prefix |-> prefix, first |-> INDEX_CHILDMAX, last |-> 0, children |-> <<>>, values |-> <<>>]

\* Mutant of AddValue: a value is always put in front.
AddValueFront(values, v) == <<v>> \o values

\* index_add_value, add_value: before the first value that has no smaller priority
AddValue(values, v) ==
  LET less == SelectSeq(values, LAMBDA w : w.priority < v.priority)
  IN  less \o <<v>> \o From(values, Len(less) + 1)

\* How far a prefix agrees with a key
Agrees(prefix, key) ==
  LET ks == {k \in 0 .. Len(prefix) : k <= Len(key) /\ SubSeq(prefix, 1, k) = SubSeq(key, 1, k)}
  IN  CHOOSE k \in ks : \A l \in ks : l <= k

\* Mutant of Split: the values stay with the first part of the prefix.
SplitKeepsValues(node, k) ==
  LET ch == node.prefix[k+1] IN
  [prefix |-> SubSeq(node.prefix, 1, k), first |-> ch, last |-> ch,
   children |-> ch :> [node EXCEPT !.prefix = From(@, k + 2), !.values = <<>>], values |-> node.values]

\* A node whose prefix differs from the key after k characters becomes the child
\* of a new node with these k characters.
Split(node, k) ==
  LET ch == node.prefix[k+1] IN
  [prefix |-> SubSeq(node.prefix, 1, k), first |-> ch, last |-> ch,
   children |-> ch :> [node EXCEPT !.prefix = From(@, k + 2)], values |-> <<>>]

RECURSIVE Insert(_, _, _)

\* index_insert
Insert(node, key, v) ==
  LET k    == Agrees(node.prefix, key)
      at   == IF k < Len(node.prefix) THEN Split(node, k) ELSE node
      rest == From(key, k + 1)
      ch   == rest[1]
      leaf == [Leaf(Tail(rest)) EXCEPT !.values = <<v>>]
  IN  IF rest = <<>> THEN [at EXCEPT !.values = AddValue(@, v)]
      ELSE IF ch \in DOMAIN at.children
           THEN [at EXCEPT !.children[ch] = Insert(@, Tail(rest), v)]
           ELSE [at EXCEPT !.first = IF ch < @ THEN ch ELSE @,
                           !.last = IF ch > @ THEN ch ELSE @,
                           !.children = (ch :> leaf) @@ @]

RECURSIVE WriteNode(_, _)

\* index_write__node: the children, from first to last, and then the node with
\* their offsets, 0 for a child that is not there
WriteNode(node, f) ==
  LET child(s, ch) ==
        IF ch \in DOMAIN node.children
        THEN LET g == WriteNode(node.children[ch], s.f)
             IN  [f |-> g, offs |-> Append(s.offs, Len(g))]
        ELSE [s EXCEPT !.offs = Append(@, 0)]
      written == FoldLeft(child, [f |-> f, offs |-> <<>>], Range1(node.first, node.last))
  IN  Append(written.f,
             [prefix |-> node.prefix, first |-> node.first, last |-> node.last,
              child_offs |-> written.offs, values |-> node.values])

----------------------------------------------------------------------------
(* libkmod                                                                 *)

\* index_read: the values go through add_value once more
IndexRead(offset) == [file[offset] EXCEPT !.values = FoldLeft(AddValue, <<>>, @)]
FileNodes == [o \in 1..Len(file) |-> IndexRead(o)]

\* index_mm_read_node
MmReadNode(offset) == file[offset]
MmNodes == [o \in 1..Len(file) |-> MmReadNode(o)]

\* Mutant of ReadChild: the last child is out of range.
ReadChildShort(node, ch) ==
  IF node.first <= ch /\ ch < node.last THEN node.child_offs[ch - node.first + 1] ELSE 0

\* index_readchild: an offset, 0 for NULL
ReadChild(node, ch) ==
  IF node.first <= ch /\ ch <= node.last THEN node.child_offs[ch - node.first + 1] ELSE 0

RECURSIVE SearchNode(_, _, _), WildAll(_, _, _, _, _), WildNode(_, _, _, _), DumpNode(_, _, _)

\* index_search__node: the first value of a key, 0 without one
SearchNode(nodes, offset, key) ==
  IF offset = 0 THEN 0
  ELSE LET node == nodes[offset]
           rest == From(key, Len(node.prefix) + 1)
       IN  IF Agrees(node.prefix, key) < Len(node.prefix) THEN 0
           ELSE IF rest = <<>>
           THEN IF node.values = <<>> THEN 0 ELSE node.values[1].value
           ELSE SearchNode(nodes, ReadChild(node, rest[1]), Tail(rest))

RECURSIVE Fnmatch(_, _)

\* fnmatch without flags; a bracket that is not closed is a character
Fnmatch(p, s) ==
  IF p = <<>> THEN s = <<>>
  ELSE LET closes == {k \in 3..Len(p) : p[k] = Close} IN
       CASE p[1] = Star -> \E k \in 1 .. Len(s) + 1 : Fnmatch(Tail(p), From(s, k))
         [] p[1] = Open /\ closes # {} ->
              LET c == CHOOSE k \in closes : \A l \in closes : k <= l IN
              s # <<>> /\ (\E k \in 2..c-1 : p[k] = s[1]) /\ Fnmatch(From(p, c + 1), Tail(s))
         [] OTHER -> s # <<>> /\ p[1] \in {Quest, s[1]} /\ Fnmatch(Tail(p), Tail(s))

\* index_searchwild__all: all nodes below a wildcard.  buf has the key from the
\* wildcard on, subkey the part of the searched string it has to match.
WildAll(nodes, node, buf, subkey, out) ==
  LET b == buf \o node.prefix
      child(o, ch) ==
        LET c == ReadChild(node, ch)
        IN  IF c = 0 THEN o ELSE WildAll(nodes, nodes[c], Append(b, ch), subkey, o)
      below == FoldLeft(child, out, Range1(node.first, node.last))
  IN  IF Fnmatch(b, subkey) THEN FoldLeft(AddValue, below, node.values) ELSE below

\* Mutant of WildNode: a wildcard is looked for in prefixes only.
WildNodePrefix(nodes, offset, key, out) ==
  IF offset = 0 THEN out
  ELSE LET node == nodes[offset]
           k == Agrees(node.prefix, key)
           rest == From(key, k + 1)
       IN  IF k < Len(node.prefix)
           THEN IF node.prefix[k+1] \in Wild
                THEN WildAll(nodes, [node EXCEPT !.prefix = From(@, k + 1)], <<>>, rest, out) ELSE out
           ELSE IF rest = <<>> THEN FoldLeft(AddValue, out, node.values)
           ELSE WildNode(nodes, ReadChild(node, rest[1]), Tail(rest), out)

\* index_searchwild__node: down to the first wildcard, and on along the key
WildNode(nodes, offset, key, out) ==
  IF offset = 0 THEN out
  ELSE LET node == nodes[offset]
           k == Agrees(node.prefix, key)
           rest == From(key, k + 1)
           wild(o, ch) ==
             LET c == ReadChild(node, ch)
             IN  IF c = 0 THEN o ELSE WildAll(nodes, nodes[c], <<ch>>, rest, o)
           o == FoldLeft(wild, out, <<Star, Quest, Open>>)
       IN  IF k < Len(node.prefix)
           THEN IF node.prefix[k+1] \in Wild
                THEN WildAll(nodes, [node EXCEPT !.prefix = From(@, k + 1)], <<>>, rest, out) ELSE out
           ELSE IF rest = <<>> THEN FoldLeft(AddValue, o, node.values)
           ELSE WildNode(nodes, ReadChild(node, rest[1]), Tail(rest), o)

\* index_dump_node: the lines, a key and a value each
DumpNode(nodes, offset, buf) ==
  LET node == nodes[offset]
      b == buf \o node.prefix
      child(s, ch) ==
        LET c == ReadChild(node, ch) IN IF c = 0 THEN s ELSE s \o DumpNode(nodes, c, Append(b, ch))
  IN  FoldLeft(child, [k \in 1..Len(node.values) |-> <<b, node.values[k]>>], Range1(node.first, node.last))

\* Both readers start at the root, and have the functions above for their nodes.
IndexSearch(key) == SearchNode(FileNodes, Len(file), key)
IndexSearchwild(key) == WildNode(FileNodes, Len(file), key, <<>>)
IndexDump == DumpNode(FileNodes, Len(file), <<>>)
IndexMmSearch(key) == SearchNode(MmNodes, Len(file), key)
IndexMmSearchwild(key) == WildNode(MmNodes, Len(file), key, <<>>)
IndexMmDump == DumpNode(MmNodes, Len(file), <<>>)

----------------------------------------------------------------------------
Init == trie = Leaf(<<>>) /\ inserted = <<>> /\ file = <<>>

\* One call of index_insert by output_deps_bin, output_aliases_bin or
\* output_symbols_bin
IndexInsert(key, priority) ==
  /\ file = <<>> /\ Len(inserted) < MaxEntries
  /\ LET v == [value |-> priority, priority |-> priority] IN
       /\ trie' = Insert(trie, key, v)
       /\ inserted' = Append(inserted, <<key, v>>)
  /\ UNCHANGED file

\* index_write, index_destroy
IndexWrite ==
  /\ file = <<>>
  /\ file' = WriteNode(trie, <<>>)
  /\ trie' = Leaf(<<>>)
  /\ UNCHANGED inserted

Next == IndexWrite \/ \E key \in Keys, p \in Priorities : IndexInsert(key, p)

Spec == Init /\ [][Next]_vars

----------------------------------------------------------------------------
(* Properties.                                                             *)

Written == file # <<>>

\* The entries whose keys satisfy a condition
Entries(Holds(_)) == SelectSeq(inserted, LAMBDA e : Holds(e[1]))
Smallest(es) == IF es = <<>> THEN 0 ELSE CHOOSE p \in Priorities :
  /\ \E k \in DOMAIN es : es[k][2].priority = p
  /\ \A k \in DOMAIN es : p <= es[k][2].priority
Count(s, x) == Cardinality({k \in DOMAIN s : s[k] = x})
\* A list has the values of the entries, and has them by priority
ByPriority(list, es) ==
  /\ Len(list) = Len(es)
  /\ \A p \in Priorities : LET v == [value |-> p, priority |-> p] IN
       Count(list, v) = Cardinality({k \in DOMAIN es : es[k][2] = v})
  /\ \A k \in 1 .. Len(list) - 1 : list[k].priority <= list[k+1].priority

\* However the trie was split while it grew, both readers find for every key the
\* value of the highest priority that was inserted under it, and nothing for a key
\* that was not inserted.
SearchExact ==
  Written => \A key \in Searched \cup Keys :
    LET v == Smallest(Entries(LAMBDA e : e = key))
    IN  IndexSearch(key) = v /\ IndexMmSearch(key) = v

\* Both readers find the modules of all patterns that match a string, no module
\* too often or too seldom, ordered by priority: the search that skips what lies
\* beside the path of the string misses no wildcard.
WildExact ==
  Written => \A key \in Searched :
    LET es == Entries(LAMBDA e : Fnmatch(e, key))
    IN  ByPriority(IndexSearchwild(key), es) /\ ByPriority(IndexMmSearchwild(key), es)

\* Keys in the order of strcmp
RECURSIVE Before(_, _)
Before(a, b) ==
  IF a = <<>> \/ b = <<>> THEN a = <<>> ELSE a[1] < b[1] \/ (a[1] = b[1] /\ Before(Tail(a), Tail(b)))

\* What modprobe --showconfig dumps of an index is what depmod put in it, sorted.
DumpExact ==
  Written => \A dump \in {IndexDump, IndexMmDump} :
    /\ Len(dump) = Len(inserted)
    /\ \A k \in DOMAIN inserted : Count(dump, inserted[k]) = Count(inserted, inserted[k])
    /\ \A k, l \in DOMAIN dump : k < l => Before(dump[k][1], dump[l][1])
=============================================================================
