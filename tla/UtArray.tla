------------------------------- MODULE UtArray -------------------------------
(***************************************************************************)
(* utarray.h and utringbuffer.h with ut_str_icd: an element is a pointer to *)
(* a heap copy of a string that the array owns (copy is strdup, dtor is     *)
(* free; extending puts NULL).  The heap is a function from block numbers   *)
(* to what they hold; a block that is free holds Free.                      *)
(***************************************************************************)
EXTENDS Integers, Sequences, FiniteSets

CONSTANTS
  Strings,    \* what is stored
  Other,      \* the contents of a second array, for insertions of an array
  Blocks,     \* heap blocks, 1 .. their number: the bound on live strings
  Slots0,     \* the first allocation of an array (8 in the code)
  RingSize,   \* n of the ring buffer
  MaxLen      \* the longest array

VARIABLES
  heap,       \* [Blocks -> Strings \cup {Free}]
  arr,        \* [i, n, d]: elements, slots, the slots' pointers
  ring,       \* [i, f, d]
  want, ringWant, \* history: the strings the array and the ring should hold
  bad         \* a block was freed twice, or an element read that is not there

vars == << heap, arr, ring, want, ringWant, bad >>

Free == "free"
NULL == 0          \* no block
Nil  == "nil"      \* an element that is a NULL pointer

Live(h) == {b \in Blocks : h[b] # Free}
\* utarray_str_cpy
Strdup(h, v) ==
  LET b == CHOOSE b \in Blocks : h[b] = Free /\ \A c \in Blocks : h[c] = Free => b <= c
  IN  [h |-> [h EXCEPT ![b] = v], b |-> b]
Room(k) == Cardinality(Live(heap)) + k <= Cardinality(Blocks)
\* utarray_str_dtor for a set of slots' pointers.
Freed(h, ps)   == [b \in Blocks |-> IF b \in ps THEN Free ELSE h[b]]
Pointers(d, S) == {d[s] : s \in S} \ {NULL}
TwiceFreed(h, ps) == \E b \in ps : h[b] = Free

\* utarray_reserve: the slots double until by more elements fit; what a new
\* slot holds is not known, NULL stands for it.
RECURSIVE Grown(_, _)
Grown(n, need) == IF need <= n THEN n ELSE Grown(IF n = 0 THEN Slots0 ELSE 2 * n, need)

Reserve(a, by) ==
  LET n == Grown(a.n, a.i + by)
  IN  [a EXCEPT !.n = n, !.d = [s \in 0 .. n - 1 |-> IF s < a.n THEN a.d[s] ELSE NULL]]

\* A plausible slip: one element too few is moved out of the way.
MovedUpShort(a, j, k) ==
  [a EXCEPT !.d = [s \in 0 .. a.n - 1 |->
                     IF s >= j + k /\ s < a.i + k - 1 THEN a.d[s - k] ELSE a.d[s]]]

\* memmove of the elements from j on, by k slots to the right.
MovedUp(a, j, k) ==
  [a EXCEPT !.d = [s \in 0 .. a.n - 1 |->
                     IF s >= j + k /\ s < a.i + k THEN a.d[s - k] ELSE a.d[s]]]

\* k copies made one after the other into the slots from j on.
RECURSIVE CopyIn(_, _, _, _)
CopyIn(h, a, j, vs) ==
  IF vs = << >> THEN [h |-> h, a |-> a]
  ELSE LET c == IF Head(vs) = Nil THEN [h |-> h, b |-> NULL] ELSE Strdup(h, Head(vs))
       IN  CopyIn(c.h, [a EXCEPT !.d[j] = c.b], j + 1, Tail(vs))

Resize(h, a, num) ==
  IF a.i > num
  THEN [h |-> Freed(h, Pointers(a.d, num .. a.i - 1)), a |-> [a EXCEPT !.i = num]]
  ELSE LET r == Reserve(a, num - a.i)
       IN  [h |-> h,
            a |-> [r EXCEPT !.i = num,
                            !.d = [s \in DOMAIN r.d |-> IF s >= a.i /\ s < num THEN NULL ELSE r.d[s]]]]

InsertAt(h, a, vs, j) ==
  LET z == IF j > a.i THEN Resize(h, a, j) ELSE [h |-> h, a |-> a]
      m == MovedUp(Reserve(z.a, Len(vs)), j, Len(vs))
      c == CopyIn(z.h, m, j, vs)
  IN  [c EXCEPT !.a.i = @ + Len(vs)]

\* The pointers behind the last element are never read: NULL stands for them.
Tidy(a) == [a EXCEPT !.d = [s \in DOMAIN @ |-> IF s < a.i THEN @[s] ELSE NULL]]

Values(a) == [k \in 1 .. a.i |-> IF a.d[k - 1] = NULL THEN Nil ELSE heap[a.d[k - 1]]]
-----------------------------------------------------------------------------
Init ==
  /\ heap = [b \in Blocks |-> Free]
  /\ arr = [i |-> 0, n |-> 0, d |-> << >>]
  /\ ring = [i |-> 0, f |-> FALSE, d |-> [s \in 0 .. RingSize - 1 |-> NULL]]
  /\ want = << >> /\ ringWant = << >> /\ bad = FALSE

Become(r) == heap' = r.h /\ arr' = Tidy(r.a)
Rest      == UNCHANGED << ring, ringWant >>

PushBack(v) ==
  /\ Room(1) /\ arr.i < MaxLen
  /\ \E r \in {CopyIn(heap, Reserve(arr, 1), arr.i, << v >>)} : Become([r EXCEPT !.a.i = @ + 1])
  /\ want' = Append(want, v) /\ UNCHANGED bad /\ Rest

PopBack ==
  /\ arr.i > 0
  /\ \E ps \in {Pointers(arr.d, {arr.i - 1})} :
       heap' = Freed(heap, ps) /\ bad' = (bad \/ TwiceFreed(heap, ps))
  /\ arr' = Tidy([arr EXCEPT !.i = @ - 1])
  /\ want' = SubSeq(want, 1, Len(want) - 1) /\ Rest

ExtendBack ==
  /\ arr.i < MaxLen
  /\ \E a \in {Reserve(arr, 1)} : arr' = [a EXCEPT !.d[arr.i] = NULL, !.i = @ + 1]
  /\ want' = Append(want, Nil) /\ UNCHANGED << heap, bad >> /\ Rest

Nulls(k) == [x \in 1 .. k |-> Nil]
\* The reference of an insertion: a gap behind the end is filled with NULL.
Inserted(s, vs, j) ==
  IF j > Len(s) THEN s \o Nulls(j - Len(s)) \o vs
  ELSE SubSeq(s, 1, j) \o vs \o SubSeq(s, j + 1, Len(s))

Insert(vs, j) ==
  /\ vs # << >> /\ Room(Len(vs))
  /\ (IF j > arr.i THEN j ELSE arr.i) + Len(vs) <= MaxLen
  /\ Become(InsertAt(heap, arr, vs, j))
  /\ want' = Inserted(want, vs, j) /\ UNCHANGED bad /\ Rest

\* utarray_concat(a, a)
ConcatSelf == Insert(Values(arr), arr.i)

Erase(pos, len) ==
  /\ pos + len <= arr.i
  /\ \E ps \in {Pointers(arr.d, pos .. pos + len - 1)} :
       heap' = Freed(heap, ps) /\ bad' = (bad \/ TwiceFreed(heap, ps))
  /\ arr' = Tidy([arr EXCEPT
                    !.i = @ - len,
                    !.d = [s \in DOMAIN @ |->
                             IF s >= pos /\ s + len < arr.i THEN @[s + len] ELSE @[s]]])
  /\ want' = SubSeq(want, 1, pos) \o SubSeq(want, pos + len + 1, Len(want)) /\ Rest

ResizeTo(num) ==
  /\ bad' = (bad \/ TwiceFreed(heap, Pointers(arr.d, num .. arr.i - 1)))
  /\ Become(Resize(heap, arr, num))
  /\ want' = IF num <= Len(want) THEN SubSeq(want, 1, num) ELSE want \o Nulls(num - Len(want))
  /\ Rest

\* utarray_clear keeps the slots, utarray_done gives them back.
ClearIt(keep) ==
  /\ \E ps \in {Pointers(arr.d, 0 .. arr.i - 1)} :
       heap' = Freed(heap, ps) /\ bad' = (bad \/ TwiceFreed(heap, ps))
  /\ arr' = IF keep THEN Tidy([arr EXCEPT !.i = 0]) ELSE [i |-> 0, n |-> 0, d |-> << >>]
  /\ want' = << >> /\ Rest

RingLen       == IF ring.f THEN RingSize ELSE ring.i
RealIdx(j)    == IF ring.f THEN (j + ring.i) % RingSize ELSE j
RingElts      == [k \in 1 .. RingLen |-> heap[ring.d[RealIdx(k - 1)]]]

RingPushBack(v) ==
  /\ Room(1)
  /\ \E old \in {IF ring.f THEN {ring.d[ring.i]} ELSE {}} :
     \E c \in {Strdup(Freed(heap, old), v)} :
       /\ bad' = (bad \/ TwiceFreed(heap, old)) /\ heap' = c.h
       /\ ring' = [i |-> IF ring.i + 1 = RingSize THEN 0 ELSE ring.i + 1,
                   f |-> ring.f \/ ring.i + 1 = RingSize,
                   d |-> [ring.d EXCEPT ![ring.i] = c.b]]
  /\ ringWant' = IF Len(ringWant) = RingSize THEN Append(Tail(ringWant), v) ELSE Append(ringWant, v)
  /\ UNCHANGED << arr, want >>

RingClear ==
  /\ \E ps \in {{ring.d[RealIdx(j)] : j \in 0 .. RingLen - 1}} :
       heap' = Freed(heap, ps) /\ bad' = (bad \/ TwiceFreed(heap, ps))
  /\ ring' = [i |-> 0, f |-> FALSE, d |-> [s \in DOMAIN ring.d |-> NULL]] /\ ringWant' = << >>
  /\ UNCHANGED << arr, want >>

Next ==
  \/ \E v \in Strings : PushBack(v) \/ RingPushBack(v)
  \/ \E j \in 0 .. MaxLen : (\E v \in Strings : Insert(<< v >>, j)) \/ Insert(Other, j) \/ ResizeTo(j)
  \/ \E pos, len \in 0 .. MaxLen : Erase(pos, len)
  \/ \E keep \in BOOLEAN : ClearIt(keep)
  \/ PopBack \/ ExtendBack \/ ConcatSelf \/ RingClear

Spec == Init /\ [][Next]_vars
-----------------------------------------------------------------------------
Used == [k \in 1 .. arr.i + RingLen |->
           IF k <= arr.i THEN arr.d[k - 1] ELSE ring.d[RealIdx(k - arr.i - 1)]]

\* Array and ring hold the strings that were put in and not taken out, in their
\* order (the ring the last RingSize); every live copy belongs to exactly one
\* element and none is freed twice: nothing leaks and nothing is shared,
\* whatever was inserted, erased, resized or overwritten.
Sound ==
  /\ Values(arr) = want /\ arr.i <= arr.n
  /\ RingElts = ringWant
  /\ {Used[k] : k \in DOMAIN Used} \ {NULL} = Live(heap)
  /\ \A k, l \in DOMAIN Used : k # l /\ Used[k] # NULL => Used[k] # Used[l]
  /\ ~bad
=============================================================================
