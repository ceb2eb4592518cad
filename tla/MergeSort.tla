------------------------------ MODULE MergeSort ------------------------------
(***************************************************************************)
(* The bottom-up merge sort of linked lists that HASH_SRT (uthash.h) and    *)
(* the LL_SORT, DL_SORT and CDL_SORT macros (utlist.h) share: passes over   *)
(* the list merge neighbouring runs of insize elements, insize doubles, and *)
(* the pass that made at most one merge is the last.  A run is a sequence   *)
(* here; how the links are rewritten is said where the sort is used.        *)
(***************************************************************************)
EXTENDS Integers, Sequences

\* One merge: the first of p goes out unless the first of q is smaller.
RECURSIVE Merge(_, _, _)
Merge(p, q, rank) ==
  IF p = << >> THEN q
  ELSE IF q = << >> THEN p
  ELSE IF rank[Head(p)] <= rank[Head(q)]
       THEN << Head(p) >> \o Merge(Tail(p), q, rank)
       ELSE << Head(q) >> \o Merge(p, Tail(q), rank)

Least(a, b) == IF a < b THEN a ELSE b

\* One pass with runs of insize.
RECURSIVE Pass(_, _, _)
Pass(s, insize, rank) ==
  IF s = << >> THEN << >>
  ELSE LET p == SubSeq(s, 1, Least(insize, Len(s)))
           q == SubSeq(s, insize + 1, Least(2 * insize, Len(s)))
       IN  Merge(p, q, rank)
           \o Pass(SubSeq(s, 2 * insize + 1, Len(s)), insize, rank)

\* Passes until one of them made at most one merge.
RECURSIVE SortFrom(_, _, _)
SortFrom(s, insize, rank) ==
  LET t == Pass(s, insize, rank)
  IN  IF Len(s) <= 2 * insize THEN t ELSE SortFrom(t, 2 * insize, rank)

Sort(s, rank) == SortFrom(s, 1, rank)

=============================================================================
