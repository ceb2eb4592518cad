----------------------------- MODULE Skiplists -----------------------------
(***************************************************************************)
(* The three skip lists of libfastcommon behind skiplist.h: flat_skiplist  *)
(* (equal elements in nodes of their own, linked backwards too), multi_    *)
(* skiplist (equal elements chained in one node) and skiplist_set (no      *)
(* equal elements).  They share their search and linking code; `kind' says *)
(* which one is used.                                                      *)
(*                                                                         *)
(* One thread writes.  An insertion publishes its node level by level, "//  *)
(* thread safe for one write with many read model", so each store another  *)
(* thread can see is an action, and a reader's search takes one step per   *)
(* node it looks at.  Deletion makes no such promise: it happens while     *)
(* nobody reads.                                                           *)
(***************************************************************************)
EXTENDS Integers, Sequences, FiniteSets, SequencesExt

CONSTANTS
  Keys,        \* what compare_func compares: a set of integers
  Nodes,       \* the nodes the mblocks can supply: a set of positive integers
  TopLevel,    \* sl->top_level_index
  MaxBorn      \* bound: how many elements are ever made for insertion

Top     == 0
TailN   == -1
Garbage == -2      \* a pointer in memory that was not written yet
None    == << >>   \* a NULL result

Levels == 0..TopLevel
Kinds  == {"flat", "multi", "set"}

VARIABLES
  kind,    \* sl->type
  sl,      \* the nodes in memory: links, prev and the chain of elements
  free,    \* nodes the mblocks have to give
  w,       \* the insertion in progress
  r,       \* the search of one reading thread
  born,    \* the next element's number
  bag      \* the elements inserted and not yet given to free_func, oldest first

vars == << kind, sl, free, w, r, born, bag >>

\* An element as its owner sees it: what it compares by and which one it is.
Element(k) == [key |-> k, id |-> born]

Ids(S) == {S[i].id : i \in DOMAIN S}

-----------------------------------------------------------------------------
(* Searching.  The flat list is linked from the largest element down, the  *)
(* others from the smallest up: Before is the order of the links.          *)

Before(a, b) == IF kind = "flat" THEN a > b ELSE a < b

KeyOf(l, n) == l.items[n][1].key

\* Goes on at level i until the next node is not before key k.
RECURSIVE Advance(_, _, _, _)
Advance(l, p, i, k) ==
  LET n == l.links[p][i] IN
  IF n # TailN /\ Before(KeyOf(l, n), k) THEN Advance(l, n, i, k) ELSE p

\* get_previous: the node before an equal one, and the highest level on which
\* it is that; None when there is no equal node.
RECURSIVE PreviousFrom(_, _, _, _)
PreviousFrom(l, p, i, k) ==
  LET a == Advance(l, p, i, k)
      n == l.links[a][i] IN
  CASE n # TailN /\ KeyOf(l, n) = k -> << a, i >>
    [] i = 0                       -> None
    [] OTHER                       -> PreviousFrom(l, a, i - 1, k)

GetPrevious(l, k) == PreviousFrom(l, Top, TopLevel, k)

\* sl->tmp_previous, for every level.
TmpPrevious(l, k) ==
  LET at[i \in Levels] ==
        Advance(l, IF i = TopLevel THEN Top ELSE at[i + 1], i, k)
  IN at

-----------------------------------------------------------------------------
(* Reading the list while nobody writes: iterators, find_all, find_range.  *)

\* The nodes from n up to end along the links of level i.
RECURSIVE Walk(_, _, _, _)
Walk(l, n, end, i) ==
  IF n = end THEN << >> ELSE << n >> \o Walk(l, l.links[n][i], end, i)

\* The nodes from n back to end along prev.
RECURSIVE WalkBack(_, _, _)
WalkBack(l, n, end) ==
  IF n = end THEN << >> ELSE << n >> \o WalkBack(l, l.prev[n], end)

\* What an iterator (from, to) returns, call after call of *_next.
Iterated(l, it) ==
  FlattenSeq([i \in DOMAIN it |-> l.items[it[i]]])

\* flat_, multi_skiplist_iterator, skiplist_set_iterator.
Iterate(l) ==
  Iterated(l, IF kind = "flat" THEN WalkBack(l, l.prev[TailN], Top)
                               ELSE Walk(l, l.links[Top][0], TailN, 0))

\* From node n on, the first node along level 0 that does not compare equal.
RECURSIVE PastEqual(_, _, _)
PastEqual(l, n, k) ==
  IF n # TailN /\ KeyOf(l, n) = k THEN PastEqual(l, l.links[n][0], k) ELSE n

\* From node n back, the first node that does not compare equal.
RECURSIVE BackPastEqual(_, _, _)
BackPastEqual(l, n, k) ==
  IF n # Top /\ KeyOf(l, n) = k THEN BackPastEqual(l, l.prev[n], k) ELSE n

\* The node that GetPrevious found to be equal.
Equal(l, found) == l.links[found[1]][found[2]]

FlatFindAll(l, k, n) ==
  WalkBack(l, l.prev[PastEqual(l, l.links[n][0], k)], BackPastEqual(l, l.prev[n], k))

FindAll(l, k) ==
  LET found == GetPrevious(l, k)
      n     == Equal(l, found) IN
  IF found = None THEN << >>
  ELSE Iterated(l, IF kind = "flat" THEN FlatFindAll(l, k, n)
                                    ELSE Walk(l, n, l.links[n][0], 0))

\* get_first_larger_or_equal and get_first_larger.  Where the search ends
\* without an equal node, at level 0, the flat list answers with the last node
\* passed and the others with the one after it.
FlatFirstLargerOrEqual(l, k) ==
  LET found == GetPrevious(l, k) IN
  IF found = None THEN TmpPrevious(l, k)[0]
  ELSE l.prev[PastEqual(l, l.links[Equal(l, found)][0], k)]

FirstLargerOrEqual(l, k) ==
  LET found == GetPrevious(l, k) IN
  IF found = None THEN l.links[TmpPrevious(l, k)[0]][0] ELSE Equal(l, found)

FlatFirstLarger(l, k) ==
  LET found == GetPrevious(l, k) IN
  IF found = None THEN TmpPrevious(l, k)[0]
  ELSE BackPastEqual(l, l.prev[Equal(l, found)], k)

FirstLarger(l, k) ==
  LET found == GetPrevious(l, k) IN
  l.links[IF found = None THEN TmpPrevious(l, k)[0] ELSE Equal(l, found)][0]

\* An empty range when nothing is as large as a, or from and to are the same.
FlatFindRange(l, a, b) ==
  LET from == FlatFirstLargerOrEqual(l, a) IN
  IF from = Top THEN << >> ELSE WalkBack(l, from, FlatFirstLarger(l, b))

FindRange(l, a, b) ==
  LET from == FirstLargerOrEqual(l, a) IN
  Iterated(l, CASE kind = "flat" -> FlatFindRange(l, a, b)
                [] from = TailN  -> << >>
                [] OTHER         -> Walk(l, from, FirstLarger(l, b), 0))

-----------------------------------------------------------------------------
(* Deleting.                                                               *)

\* At level i and below, the node in front of d: delete goes on from the node
\* the search ended at until the next one is d.
RECURSIVE AdvanceTo(_, _, _, _)
AdvanceTo(l, p, i, d) ==
  IF l.links[p][i] \in {TailN, d} THEN p ELSE AdvanceTo(l, l.links[p][i], i, d)

InFrontOf(l, found, d) ==
  LET at[i \in 0..found[2]] ==
        AdvanceTo(l, IF i = found[2] THEN found[1] ELSE at[i + 1], i, d)
  IN at

\* Takes the node found out of every level, and out of the backward chain.
Unlink(l, found) ==
  LET d  == Equal(l, found)
      at == InFrontOf(l, found, d) IN
  [l EXCEPT
     !.links = [n \in DOMAIN l.links |->
       [i \in DOMAIN l.links[n] |->
          IF i \in DOMAIN at /\ at[i] = n THEN l.links[d][i] ELSE l.links[n][i]]],
     !.prev = IF kind = "flat" THEN [@ EXCEPT ![l.links[d][0]] = at[0]] ELSE @]

\* flat_skiplist_delete_all: delete until there is none.
RECURSIVE UnlinkAll(_, _)
UnlinkAll(l, k) ==
  LET found == GetPrevious(l, k) IN
  IF found = None THEN l ELSE UnlinkAll(Unlink(l, found), k)

-----------------------------------------------------------------------------
(* The state.                                                              *)

Idle     == [pc |-> "idle"]
AtRest   == w = Idle
Alive    == w.pc # "destroyed"
InUse(l) == {n \in Nodes : l.items[n] # << >>}

\* *_skiplist_init_ex: top and tail nodes, every level empty.
EmptyList ==
  [links |-> [n \in {Top} \cup Nodes |->
                IF n = Top THEN [i \in Levels |-> TailN] ELSE << >>],
   prev  |-> [n \in {TailN} \cup Nodes |-> IF n = TailN THEN Top ELSE Garbage],
   items |-> [n \in Nodes |-> << >>]]

Init ==
  /\ kind \in Kinds
  /\ sl = EmptyList
  /\ free = Nodes
  /\ w = Idle
  /\ r = Idle
  /\ born = 1
  /\ bag = << >>

\* multi_skiplist_insert: the element is chained to an equal one.
ChainTo(n, k) ==
  /\ sl' = [sl EXCEPT !.items[n] = Append(@, Element(k))]
  /\ bag' = Append(bag, Element(k))
  /\ UNCHANGED << free, w >>

\* The new node before its first link is set; its height is what
\* get_level_index drew.
NewNode(k, h) ==
  LET at == TmpPrevious(sl, k)
      n  == CHOOSE m \in free : TRUE IN
  /\ free' = free \ {n}
  /\ sl' = [sl EXCEPT !.items[n] = << Element(k) >>,
                      !.links[n] = [i \in 0..h |-> Garbage],
                      !.prev[n]  = IF kind = "flat" THEN at[0] ELSE @]
  /\ w' = [pc |-> IF kind = "flat" THEN "prev" ELSE "set",
           node |-> n, at |-> at, level |-> 0, height |-> h]
  /\ UNCHANGED bag

\* Insertion up to its first store another thread can see.  A set refuses an
\* element equal to one it has (EEXIST), and without a node there is ENOMEM.
BeginInsert(k, h) ==
  LET found == GetPrevious(sl, k) IN
  /\ AtRest /\ born <= MaxBorn
  /\ born' = born + 1
  /\ CASE kind = "multi" /\ found # None -> ChainTo(Equal(sl, found), k)
       [] kind = "set" /\ found # None   -> UNCHANGED << sl, free, w, bag >>
       [] OTHER                          -> IF free = {} THEN UNCHANGED << sl, free, w, bag >>
                                            ELSE NewNode(k, h)
  /\ UNCHANGED << kind, r >>

\* flat_skiplist_insert: previous->links[0]->prev = node.
SetPrev ==
  /\ w.pc = "prev"
  /\ sl' = [sl EXCEPT !.prev[sl.links[w.at[0]][0]] = w.node]
  /\ w' = [w EXCEPT !.pc = "set"]
  /\ UNCHANGED << kind, free, r, born, bag >>

\* node->links[i] = tmp_previous[i]->links[i].
SetLink ==
  /\ w.pc = "set"
  /\ sl' = [sl EXCEPT !.links[w.node][w.level] = sl.links[w.at[w.level]][w.level]]
  /\ w' = [w EXCEPT !.pc = "publish"]
  /\ UNCHANGED << kind, free, r, born, bag >>

\* tmp_previous[i]->links[i] = node, from level 0 up.  On level 0 the element
\* is in the list.
PublishLink ==
  /\ w.pc = "publish"
  /\ sl' = [sl EXCEPT !.links[w.at[w.level]][w.level] = w.node]
  /\ bag' = IF w.level = 0 THEN Append(bag, sl.items[w.node][1]) ELSE bag
  /\ w' = IF w.level = w.height THEN Idle
          ELSE [w EXCEPT !.pc = "set", !.level = @ + 1]
  /\ UNCHANGED << kind, free, r, born >>

\* What the list no longer holds is given to free_func, its nodes to mblocks.
Release(l, gone) ==
  /\ sl' = [l EXCEPT !.items = [n \in Nodes |->
              SelectSeq(@[n], LAMBDA e : e.id \notin gone)]]
  /\ bag' = SelectSeq(bag, LAMBDA e : e.id \notin gone)
  /\ free' = {n \in Nodes : sl'.items[n] = << >>}

\* Mutant: the multi list's delete takes the node whatever is chained to it.
DeleteNode(k) ==
  LET found == GetPrevious(sl, k) IN
  /\ AtRest /\ r = Idle
  /\ found # None
  /\ Release(Unlink(sl, found), {sl.items[Equal(sl, found)][1].id})
  /\ UNCHANGED << kind, w, r, born >>

\* *_skiplist_delete: the oldest element of a multi list's node, the node with
\* its last; ENOENT when there is none.
Delete(k) ==
  LET found == GetPrevious(sl, k)
      d     == Equal(sl, found) IN
  /\ AtRest /\ r = Idle
  /\ found # None
  /\ Release(IF kind = "multi" /\ Len(sl.items[d]) > 1 THEN sl ELSE Unlink(sl, found),
             {sl.items[d][1].id})
  /\ UNCHANGED << kind, w, r, born >>

\* *_skiplist_delete_all; a set deletes its one element.
DeleteAll(k) ==
  LET gone == {e.id : e \in {x \in ToSet(Iterate(sl)) : x.key = k}} IN
  /\ AtRest /\ r = Idle
  /\ GetPrevious(sl, k) # None
  /\ Release(UnlinkAll(sl, k), gone)
  /\ UNCHANGED << kind, w, r, born >>

\* *_skiplist_destroy: free_func for every element of level 0 in turn, then
\* every mblock; a second call finds mblocks NULL and returns.
Destroy ==
  /\ AtRest /\ r = Idle
  /\ Release(sl, Ids(Iterated(sl, Walk(sl, sl.links[Top][0], TailN, 0))))
  /\ w' = [pc |-> "destroyed"]
  /\ UNCHANGED << kind, r, born >>

DestroyAgain == w.pc = "destroyed" /\ UNCHANGED vars

-----------------------------------------------------------------------------
(* *_skiplist_find of another thread.  Every use of previous->links[i] in  *)
(* the source loads it again.                                              *)

\* `had' remembers whether an equal element was in the list at the start.
BeginFind(k) ==
  /\ Alive /\ r = Idle
  /\ r' = [pc |-> "look", key |-> k, at |-> Top, level |-> TopLevel,
           had |-> \E i \in DOMAIN bag : bag[i].key = k]
  /\ UNCHANGED << kind, sl, free, w, born, bag >>

\* Mutant: a level is given up when the search has moved on it.
LookNoDescent ==
  /\ r.pc = "look"
  /\ LET n == sl.links[r.at][r.level] IN
     IF n = TailN \/ Before(r.key, KeyOf(sl, n))
     THEN r' = IF r.level = 0 \/ r.at # Top
               THEN [pc |-> "done", key |-> r.key, had |-> r.had, result |-> None]
               ELSE [r EXCEPT !.level = @ - 1]
     ELSE r' = [r EXCEPT !.pc = IF KeyOf(sl, n) = r.key THEN "found" ELSE "on"]
  /\ UNCHANGED << kind, sl, free, w, born, bag >>

\* The test for the tail and the comparison: down a level, on, or found.
Look ==
  /\ r.pc = "look"
  /\ LET n == sl.links[r.at][r.level] IN
     IF n = TailN \/ Before(r.key, KeyOf(sl, n))
     THEN r' = IF r.level = 0 THEN [pc |-> "done", key |-> r.key, had |-> r.had,
                                    result |-> None]
               ELSE [r EXCEPT !.level = @ - 1]
     ELSE r' = [r EXCEPT !.pc = IF KeyOf(sl, n) = r.key THEN "found" ELSE "on"]
  /\ UNCHANGED << kind, sl, free, w, born, bag >>

\* previous = previous->links[i].
GoOn ==
  /\ r.pc = "on"
  /\ r' = [r EXCEPT !.pc = "look", !.at = sl.links[r.at][r.level]]
  /\ UNCHANGED << kind, sl, free, w, born, bag >>

\* Back in find: previous->links[level_index]->data.
ReadResult ==
  /\ r.pc = "found"
  /\ r' = [pc |-> "done", key |-> r.key, had |-> r.had,
           result |-> << KeyOf(sl, sl.links[r.at][r.level]) >>]
  /\ UNCHANGED << kind, sl, free, w, born, bag >>

EndFind ==
  /\ r.pc = "done"
  /\ r' = Idle
  /\ UNCHANGED << kind, sl, free, w, born, bag >>

Next ==
  \/ \E k \in Keys, h \in Levels : BeginInsert(k, h)
  \/ SetPrev \/ SetLink \/ PublishLink
  \/ \E k \in Keys : Delete(k) \/ DeleteAll(k) \/ BeginFind(k)
  \/ Destroy \/ DestroyAgain
  \/ Look \/ GoOn \/ ReadResult \/ EndFind

Spec == Init /\ [][Next]_vars

-----------------------------------------------------------------------------
(* Properties.                                                             *)

Sorted(S) == SortSeq(S, LAMBDA a, b : a.key < b.key \/ (a.key = b.key /\ a.id < b.id))

\* The levels of a skip list nest, every node is on the levels of its height,
\* prev (flat) undoes the links of level 0, and memory is accounted for: the
\* nodes in use are exactly those on level 0.
Shape ==
  LET on == [i \in Levels |-> Walk(sl, sl.links[Top][i], TailN, i)] IN
  /\ \A i \in Levels : on[i] = SelectSeq(on[0], LAMBDA n : i \in DOMAIN sl.links[n])
  /\ ToSet(on[0]) = Nodes \ free
  /\ kind = "flat" => WalkBack(sl, sl.prev[TailN], Top) = Reverse(on[0])

\* Whenever no insertion is in progress the list is well formed and iterates,
\* in every kind, over exactly the elements it was given and not told to
\* delete, by key and equal ones oldest first ("support stable sort",
\* skiplist.h).  Destroying it hands every element to free_func.
IteratesInOrder ==
  /\ AtRest => Shape /\ Iterate(sl) = Sorted(bag)
  /\ ~Alive => bag = << >>

\* find_all and find_range give, for all bounds, what filtering the whole list
\* would, in the same order.
RangesExact ==
  AtRest =>
    \A a \in Keys :
      /\ FindAll(sl, a) = Sorted(SelectSeq(bag, LAMBDA e : e.key = a))
      /\ \A b \in Keys : a <= b =>
           FindRange(sl, a, b) = Sorted(SelectSeq(bag, LAMBDA e : a <= e.key /\ e.key <= b))

\* A search that runs while an insertion links its node never follows a link
\* that was not written yet, and never misses an element that was in the list
\* before it began.
SearchSafe ==
  /\ r.pc \in {"look", "found", "on"} =>
       /\ r.at # Garbage /\ r.level \in DOMAIN sl.links[r.at]
       /\ sl.links[r.at][r.level] # Garbage
  /\ r.pc = "done" /\ r.had => r.result # None

\* The comment in insert, "thread safe for one write with many read model",
\* for find: what a search returns compares equal to what was sought.
FindReturnsEqual ==
  r.pc = "done" /\ r.result # None => r.result[1] = r.key

=============================================================================
