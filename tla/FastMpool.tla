----------------------------- MODULE FastMpool -----------------------------
(***************************************************************************)
(* fast_mpool.c: an arena.  Blocks of any size are cut off the trunks in   *)
(* the free chain and never freed one by one; reset takes all back.        *)
(***************************************************************************)
EXTENDS Integers, Sequences, Functions

CONSTANTS
  SizeOnce,     \* alloc_size_once
  Discard,      \* discard_size: a trunk with no more than that left is full
  BlockSizes,   \* the sizes asked for
  MaxTrunks     \* bound: trunks malloc'ed

VARIABLES
  trunks,    \* the malloc chain, oldest first: alloc_size, free_ptr - base_ptr
  chain,     \* the free chain, as indices of trunks
  blocks     \* the blocks given out since the last reset: << trunk, from, size >>

vars == << trunks, chain, blocks >>

Init == trunks = << >> /\ chain = << >> /\ blocks = {}

Left(t) == trunks[t].size - trunks[t].off

\* fast_mpool_remove_free_node, of the node at place i.
Removed(c, i) == SubSeq(c, 1, i - 1) \o SubSeq(c, i + 1, Len(c))

\* fast_mpool_do_alloc on the i-th trunk of the free chain c, of the trunks ts.
Cut(ts, c, i, size) ==
  LET t    == c[i]
      off  == ts[t].off
      left == ts[t].size - off - size IN
  /\ trunks' = [ts EXCEPT ![t].off = off + size]
  /\ chain' = IF left <= Discard THEN Removed(c, i) ELSE c
  /\ blocks' = blocks \cup {<< t, off, size >>}

\* fast_mpool_alloc: the first trunk of the free chain with room, else a new
\* one at its head (fast_mpool_prealloc).
AllocCut(size) ==
  \E i \in DOMAIN chain :
    /\ Left(chain[i]) >= size
    /\ \A j \in 1..(i - 1) : Left(chain[j]) < size
    /\ Cut(trunks, chain, i, size)

AllocTrunk(size) ==
  LET new == Append(trunks, [size |-> IF size < SizeOnce THEN SizeOnce ELSE size, off |-> 0]) IN
  /\ \A i \in DOMAIN chain : Left(chain[i]) < size
  /\ Len(trunks) < MaxTrunks
  /\ Cut(new, << Len(new) >> \o chain, 1, size)

\* Mutant: the free chain is not emptied first.
ResetTwice ==
  /\ trunks' = [t \in DOMAIN trunks |-> [trunks[t] EXCEPT !.off = 0]]
  /\ chain' = [i \in DOMAIN trunks |-> i] \o chain
  /\ blocks' = {}

\* fast_mpool_reset: every trunk is empty, and the free chain is rebuilt from
\* the malloc chain, in reverse.
Reset ==
  /\ trunks' = [t \in DOMAIN trunks |-> [trunks[t] EXCEPT !.off = 0]]
  /\ chain' = [i \in DOMAIN trunks |-> i]
  /\ blocks' = {}

Destroy == trunks' = << >> /\ chain' = << >> /\ blocks' = {}

Next ==
  \/ \E size \in BlockSizes : AllocCut(size) \/ AllocTrunk(size)
  \/ Reset \/ Destroy

Spec == Init /\ [][Next]_vars

-----------------------------------------------------------------------------

Bytes(b) == {<< b[1], i >> : i \in b[2]..(b[2] + b[3] - 1)}

\* No two blocks share a byte and none reaches past its trunk; a trunk is in
\* the free chain at most once, and it is there if it has more than the discard
\* size left.
Sound ==
  /\ \A b, c \in blocks : b # c => Bytes(b) \cap Bytes(c) = {}
  /\ \A b \in blocks : b[2] + b[3] <= trunks[b[1]].off /\ trunks[b[1]].off <= trunks[b[1]].size
  /\ IsInjective(chain) /\ Range(chain) \subseteq DOMAIN trunks
  /\ \A t \in DOMAIN trunks : Left(t) > Discard => t \in Range(chain)

=============================================================================
