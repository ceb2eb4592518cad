------------------------------- MODULE PQueue -------------------------------
(***************************************************************************)
(* pqueue.c: a priority queue as a binary heap in an array.  The elements  *)
(* belong to the caller, and hold their priority (getpri, setpri) and their*)
(* place in the array (getpos, setpos), which remove and change_priority   *)
(* rely on.  Array element 0 is unused, so the array is the sequence d[1.. *)
(* size-1].  cmppri(a, b) means that b goes before a: here, a > b.         *)
(***************************************************************************)
EXTENDS Integers, Sequences, FiniteSets

CONSTANTS
  Elements,     \* the caller's elements
  Priorities,   \* a set of integers; the least is served first
  Step          \* n of pqueue_init

VARIABLES
  q,        \* d, each queued element's place and priority, the space allocated
  queued    \* the elements inserted and neither removed nor popped

vars == << q, queued >>

cmppri(a, b) == a > b

Pri(h, i) == h.pri[h.d[i]]

\* q->d[i] = e, q->setpos(e, i).
Place(h, i, e) == [h EXCEPT !.d[i] = e, !.pos[e] = i]

RECURSIVE BubbleUp(_, _, _)
BubbleUp(h, i, e) ==
  LET parent == i \div 2 IN
  IF i > 1 /\ cmppri(Pri(h, parent), h.pri[e])
  THEN BubbleUp(Place(h, i, h.d[parent]), parent, e)
  ELSE Place(h, i, e)

\* maxchild: the child to be served first, 0 when there is none.
MaxChild(h, i) ==
  LET left == 2 * i IN
  CASE left > Len(h.d)                                            -> 0
    [] left + 1 <= Len(h.d) /\ cmppri(Pri(h, left), Pri(h, left + 1)) -> left + 1
    [] OTHER                                                      -> left

RECURSIVE PercolateDown(_, _, _)
PercolateDown(h, i, e) ==
  LET child == MaxChild(h, i) IN
  IF child # 0 /\ cmppri(h.pri[e], Pri(h, child))
  THEN PercolateDown(Place(h, i, h.d[child]), child, e)
  ELSE Place(h, i, e)

-----------------------------------------------------------------------------

\* pqueue_init.  The fields of an element that is not queued are its owner's
\* business: here they are 0.
Init ==
  /\ q = [d |-> << >>, pos |-> [e \in Elements |-> 0],
          pri |-> [e \in Elements |-> 0], avail |-> Step + 1]
  /\ queued = {}

Free(h, e) == [h EXCEPT !.pos[e] = 0, !.pri[e] = 0]

\* pqueue_insert, growing the array by another step when it is full; size is
\* one more than the number of elements.  Which element is inserted makes no
\* difference before it is queued.
Insert(p) ==
  LET e    == CHOOSE x \in Elements \ queued : TRUE
      size == Len(q.d) + 1
      room == IF size >= q.avail THEN size + Step + 1 ELSE q.avail
      h    == [q EXCEPT !.d = Append(@, e), !.pri[e] = p, !.avail = room] IN
  /\ queued # Elements
  /\ q' = BubbleUp(h, size, e)
  /\ queued' = queued \cup {e}

\* The realloc of a full array fails: 1, and nothing happened.
InsertNoMemory ==
  /\ Len(q.d) + 1 >= q.avail
  /\ UNCHANGED vars

ChangePriority(e, p) ==
  LET h == [q EXCEPT !.pri[e] = p] IN
  /\ e \in queued
  /\ q' = IF cmppri(q.pri[e], p) THEN BubbleUp(h, q.pos[e], e)
                                 ELSE PercolateDown(h, q.pos[e], e)
  /\ UNCHANGED queued

\* The last element takes the place of e, moving up or down from there, and the
\* array ends before it.
MoveLast(e, up) ==
  LET n    == Len(q.d)
      i    == q.pos[e]
      last == q.d[n]
      h    == [q EXCEPT !.d = SubSeq(@, 1, n - 1)] IN
  Free(IF i = n THEN h
       ELSE IF up THEN BubbleUp(h, i, last) ELSE PercolateDown(h, i, last), e)

\* Mutant: the element moved into the gap only ever goes down.
RemoveDown(e) ==
  /\ e \in queued
  /\ q' = MoveLast(e, FALSE)
  /\ queued' = queued \ {e}

\* pqueue_remove, of an element that is queued.
Remove(e) ==
  /\ e \in queued
  /\ q' = MoveLast(e, cmppri(q.pri[e], q.pri[q.d[Len(q.d)]]))
  /\ queued' = queued \ {e}

\* pqueue_pop takes the element pqueue_peek shows.
Pop ==
  /\ q.d # << >>
  /\ q' = MoveLast(q.d[1], FALSE)
  /\ queued' = queued \ {q.d[1]}

Next ==
  \/ \E p \in Priorities : Insert(p) \/ \E e \in Elements : ChangePriority(e, p)
  \/ \E e \in Elements : Remove(e)
  \/ InsertNoMemory \/ Pop

Spec == Init /\ [][Next]_vars

-----------------------------------------------------------------------------

\* subtree_is_valid, from the root.
RECURSIVE SubtreeIsValid(_)
SubtreeIsValid(i) ==
  \A c \in {2 * i, 2 * i + 1} :
    c <= Len(q.d) => ~cmppri(Pri(q, i), Pri(q, c)) /\ SubtreeIsValid(c)

\* After any sequence of operations pqueue_is_valid holds, so the root is first
\* of all; the array holds each queued element once, at the place it thinks it
\* is (else remove and change_priority take another one's); and it never
\* exceeds what was allocated.
Sound ==
  /\ SubtreeIsValid(1)
  /\ \A e \in queued : ~cmppri(Pri(q, 1), q.pri[e])
  /\ {q.d[i] : i \in DOMAIN q.d} = queued
  /\ \A i \in DOMAIN q.d : q.pos[q.d[i]] = i
  /\ Len(q.d) + 1 <= q.avail

=============================================================================
