------------------------------- MODULE Vectors -------------------------------
(***************************************************************************)
(* What the code does to its vectors (Vec::retain, slice::sort_by), in the *)
(* form of loops.                                                          *)
(***************************************************************************)
EXTENDS Integers, Sequences, SequencesExt

\* retain: the elements that are in T, in their order.
Keep(s, T) == FoldLeft(LAMBDA kept, x : IF x \in T THEN Append(kept, x) ELSE kept, <<>>, s)

\* x goes after the elements whose key is not greater, as a stable sort has it.
InsertBy(key, s, x) ==
  LET upTo == {y \in ToSet(s) : key[y] <= key[x]}
  IN Keep(s, upTo) \o <<x>> \o Keep(s, ToSet(s) \ upTo)

\* sort_by_key: the elements by a key that is a number.
SortBy(key, s) == FoldLeft(LAMBDA sorted, x : InsertBy(key, sorted, x), <<>>, s)
=============================================================================
