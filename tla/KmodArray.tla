----------------------------- MODULE KmodArray -----------------------------
(***************************************************************************)
(* The pointer arrays of libkmod: elements, and how many the allocated     *)
(* memory has room for, which grows and shrinks in steps.                  *)
(***************************************************************************)
EXTENDS Integers, Sequences

\* array_init
ArrayInit(step) == [elements |-> <<>>, total |-> 0, step |-> step]

Count(a) == Len(a.elements)

\* array_append gets more memory one element early.
Full(a) == Count(a) + 1 >= a.total

ArrayAppend(a, e) ==
  [a EXCEPT !.elements = Append(@, e), !.total = IF Full(a) THEN @ + a.step ELSE @]

Has(a, e) == \E k \in 1..Count(a) : a.elements[k] = e

\* array_append_unique; -EEXIST leaves the array as it is.
ArrayAppendUnique(a, e) == IF Has(a, e) THEN a ELSE ArrayAppend(a, e)

\* What array_pop and array_remove_at do when fewer elements are left, unless there
\* is no memory for the smaller array
Shrink(a, mem) ==
  IF mem /\ Count(a) + a.step < a.total THEN [a EXCEPT !.total = @ - a.step] ELSE a

\* array_pop
ArrayPop(a, mem) == Shrink([a EXCEPT !.elements = SubSeq(@, 1, Len(@) - 1)], mem)

\* array_remove_at; -ENOENT leaves the array as it is.
ArrayRemoveAt(a, pos, mem) ==
  IF Count(a) <= pos THEN a
  ELSE Shrink([a EXCEPT !.elements = SubSeq(@, 1, pos) \o SubSeq(@, pos + 2, Len(@))], mem)

\* array_free_array
ArrayFree(a) == [a EXCEPT !.elements = <<>>, !.total = 0]

\* The elements are in the allocated memory.
Fits(a) == Count(a) <= a.total
=============================================================================
