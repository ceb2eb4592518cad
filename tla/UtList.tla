------------------------------- MODULE UtList -------------------------------
(***************************************************************************)
(* utlist.h: singly linked (LL), doubly linked (DL) and circular doubly     *)
(* linked (CDL) lists.  The head of a DL list keeps the tail in prev, and   *)
(* only next ends with NULL; a CDL list is a ring both ways.  An element is *)
(* a number, 0 is NULL, and the memory of the elements is one function from *)
(* elements to their two links.  What an element's links held before it was *)
(* added does not matter; the model forgets them when it is deleted.        *)
(***************************************************************************)
EXTENDS MergeSort, FiniteSets

CONSTANTS
  Elems,      \* the elements, positive numbers
  Rank        \* what the comparison functions compare

VARIABLES
  kind,       \* which macros are used: "LL", "DL" or "CDL"
  mem,        \* [Elems -> [next, prev]]
  head, head2, \* two lists
  order, order2 \* history: the two lists as the application built them

vars == << kind, mem, head, head2, order, order2 >>

NULL == 0
Fresh == [next |-> NULL, prev |-> NULL]

\* A store through a pointer, one field of one element.
SetNext(m, e, v) == [m EXCEPT ![e].next = v]
SetPrev(m, e, v) == [m EXCEPT ![e].prev = v]

\* What a macro leaves: the memory and the head.
List(m, h) == [mem |-> m, head |-> h]

\* LL_FOREACH, DL_FOREACH: along next up to NULL; CDL_FOREACH: up to the head.
RECURSIVE Along(_, _, _, _)
Along(m, h, e, fuel) ==
  IF e = NULL \/ fuel = 0 THEN << >>
  ELSE << e >> \o (IF m[e].next = h THEN << >> ELSE Along(m, h, m[e].next, fuel - 1))

Foreach(m, h) == Along(m, h, h, Cardinality(Elems) + 1)

\* *_SEARCH: the first element that compares equal, or NULL.
Search(m, h, r) ==
  LET s == Foreach(m, h)
      f == {i \in DOMAIN s : Rank[s[i]] = r}
  IN  IF f = {} THEN NULL ELSE s[CHOOSE i \in f : \A j \in f : i <= j]

LastOf(m, h) == LET s == Foreach(m, h) IN s[Len(s)]

\* The element before e, found from the head (e is not the head).
Before(m, h, e) == LET s == Foreach(m, h) IN s[CHOOSE i \in DOMAIN s : m[s[i]].next = e]
-----------------------------------------------------------------------------
LLPrepend(m, h, e) == List(SetNext(m, e, h), e)

LLConcat(m, h, h2) ==
  IF h # NULL THEN List(SetNext(m, LastOf(m, h), h2), h) ELSE List(m, h2)

LLAppend(m, h, e) ==
  LET n == SetNext(m, e, NULL)
  IN  IF h # NULL THEN List(SetNext(n, LastOf(m, h), e), h) ELSE List(n, e)

LLDelete(m, h, e) ==
  IF h = e THEN List(m, m[e].next)
  ELSE List(SetNext(m, Before(m, h, e), m[e].next), h)

LLReplaceElem(m, h, el, e) ==
  LET n == SetNext(m, e, m[el].next)
  IN  IF h = el THEN List(n, e) ELSE List(SetNext(n, Before(m, h, el), e), h)

LLPrependElem(m, h, el, e) ==
  LET n == SetNext(m, e, el)
  IN  IF el = NULL THEN LLAppend(m, h, e)
      ELSE IF h = el THEN List(n, e)
      ELSE List(SetNext(n, Before(m, h, el), e), h)

LLAppendElem(m, h, el, e) ==
  IF el = NULL THEN LLPrepend(m, h, e)
  ELSE List(SetNext(SetNext(m, e, m[el].next), el, e), h)

\* *_LOWER_BOUND: the last element in front of the first that is not smaller.
LLLowerBound(m, h, e) ==
  LET s == Foreach(m, h)
      g == {i \in DOMAIN s : Rank[s[i]] >= Rank[e]}
      i == IF g = {} THEN Len(s) + 1 ELSE CHOOSE i \in g : \A j \in g : i <= j
  IN  IF i = 1 THEN NULL ELSE s[i - 1]

LLInsertInorder(m, h, e) ==
  IF h = NULL THEN List(SetNext(m, e, NULL), e)
  ELSE LLAppendElem(m, h, LLLowerBound(m, h, e), e)

\* The links of the sorted list s.
Linked(m, s, last) ==
  [e \in Elems |-> IF \E i \in DOMAIN s : s[i] = e
                   THEN LET i == CHOOSE i \in DOMAIN s : s[i] = e
                        IN  [m[e] EXCEPT !.next = IF i < Len(s) THEN s[i + 1] ELSE last]
                   ELSE m[e]]
LinkedBack(m, s) ==
  [e \in Elems |-> IF \E i \in DOMAIN s : s[i] = e
                   THEN LET i == CHOOSE i \in DOMAIN s : s[i] = e
                        IN  [m[e] EXCEPT !.prev = IF i > 1 THEN s[i - 1] ELSE s[Len(s)]]
                   ELSE m[e]]

LLSort(m, h) ==
  LET s == Sort(Foreach(m, h), Rank)
  IN  IF h = NULL THEN List(m, h) ELSE List(Linked(m, s, NULL), s[1])
-----------------------------------------------------------------------------
DLPrepend(m, h, e) ==
  LET n == SetNext(m, e, h)
  IN  IF h # NULL THEN List(SetPrev(SetPrev(n, e, m[h].prev), h, e), e)
      ELSE List(SetPrev(n, e, e), e)

DLAppend(m, h, e) ==
  IF h # NULL
  THEN List(SetNext(SetPrev(SetNext(SetPrev(m, e, m[h].prev), m[h].prev, e), h, e), e, NULL), h)
  ELSE List(SetNext(SetPrev(m, e, e), e, NULL), e)

DLConcat(m, h, h2) ==
  IF h2 = NULL THEN List(m, h)
  ELSE IF h = NULL THEN List(m, h2)
  ELSE List(SetPrev(SetNext(SetPrev(m, h2, m[h].prev), m[h].prev, h2), h, m[h2].prev), h)

DLDelete(m, h, e) ==
  IF m[e].prev = e THEN List(m, NULL)
  ELSE IF e = h THEN List(SetPrev(m, m[e].next, m[e].prev), m[e].next)
  ELSE LET n == SetNext(m, m[e].prev, m[e].next)
       IN  List(SetPrev(n, IF m[e].next # NULL THEN m[e].next ELSE h, m[e].prev), h)

DLReplaceElem(m, h, el, e) ==
  LET n == SetNext(m, e, m[el].next)
      p == m[el].prev
  IN  IF h = el
      THEN List(IF m[el].next = NULL THEN SetPrev(n, e, e)
                ELSE SetPrev(SetPrev(n, e, p), m[el].next, e), e)
      ELSE List(SetPrev(SetNext(SetPrev(n, e, p), p, e),
                      IF m[el].next = NULL THEN h ELSE m[el].next, e), h)

DLPrependElem(m, h, el, e) ==
  LET n == SetPrev(SetPrev(SetNext(m, e, el), e, m[el].prev), el, e)
  IN  IF el = NULL THEN DLAppend(m, h, e)
      ELSE IF h = el THEN List(n, e)
      ELSE List(SetNext(n, m[el].prev, e), h)

\* A plausible slip: appending behind the last element leaves the head's prev.
DLAppendElemNoTail(m, h, el, e) ==
  LET n == SetNext(SetPrev(SetNext(m, e, m[el].next), e, el), el, e)
  IN  IF el = NULL THEN DLPrepend(m, h, e)
      ELSE List(IF m[el].next # NULL THEN SetPrev(n, m[el].next, e) ELSE n, h)

DLAppendElem(m, h, el, e) ==
  LET n == SetNext(SetPrev(SetNext(m, e, m[el].next), e, el), el, e)
  IN  IF el = NULL THEN DLPrepend(m, h, e)
      ELSE List(SetPrev(n, IF m[el].next # NULL THEN m[el].next ELSE h, e), h)

DLLowerBound(m, h, e) == LLLowerBound(m, h, e)

DLInsertInorder(m, h, e) ==
  IF h = NULL THEN List(SetNext(SetPrev(m, e, e), e, NULL), e)
  ELSE DLAppendElem(m, h, DLLowerBound(m, h, e), e)

DLSort(m, h) ==
  LET s == Sort(Foreach(m, h), Rank)
  IN  IF h = NULL THEN List(m, h) ELSE List(LinkedBack(Linked(m, s, NULL), s), s[1])
-----------------------------------------------------------------------------
CDLAppend(m, h, e) ==
  IF h # NULL
  THEN List(SetNext(SetPrev(SetNext(SetPrev(m, e, m[h].prev), e, h), h, e), m[h].prev, e), h)
  ELSE List(SetNext(SetPrev(m, e, e), e, e), e)

CDLPrepend(m, h, e) == List(CDLAppend(m, h, e).mem, e)

CDLDelete(m, h, e) ==
  IF h = e /\ m[h].next = h THEN List(m, NULL)
  ELSE List(SetNext(SetPrev(m, m[e].next, m[e].prev), m[e].prev, m[e].next),
            IF e = h THEN m[e].next ELSE h)

CDLReplaceElem(m, h, el, e) ==
  IF m[el].next = el THEN List(SetPrev(SetNext(m, e, e), e, e), e)
  ELSE LET n == SetPrev(SetNext(m, e, m[el].next), e, m[el].prev)
       IN  List(SetNext(SetPrev(n, m[el].next, e), m[el].prev, e), IF h = el THEN e ELSE h)

CDLPrependElem(m, h, el, e) ==
  IF el = NULL THEN CDLAppend(m, h, e)
  ELSE List(SetNext(SetPrev(SetPrev(SetNext(m, e, el), e, m[el].prev), el, e), m[el].prev, e),
            IF h = el THEN e ELSE h)

CDLAppendElem(m, h, el, e) ==
  IF el = NULL THEN CDLPrepend(m, h, e)
  ELSE List(SetPrev(SetNext(SetPrev(SetNext(m, e, m[el].next), e, el), el, e), m[el].next, e), h)

CDLLowerBound(m, h, e) == LLLowerBound(m, h, e)

CDLInsertInorder(m, h, e) ==
  IF h = NULL THEN List(SetPrev(SetNext(m, e, e), e, e), e)
  ELSE CDLAppendElem(m, h, CDLLowerBound(m, h, e), e)

CDLSort(m, h) ==
  LET s == Sort(Foreach(m, h), Rank)
  IN  IF h = NULL THEN List(m, h) ELSE List(LinkedBack(Linked(m, s, s[1]), s), s[1])
-----------------------------------------------------------------------------
\* The same operation of the three families.
Of(ll, dl, cdl) == CASE kind = "LL" -> ll [] kind = "DL" -> dl [] OTHER -> cdl

Init == /\ kind \in {"LL", "DL", "CDL"} /\ mem = [e \in Elems |-> Fresh]
        /\ head = NULL /\ head2 = NULL /\ order = << >> /\ order2 = << >>

In(s)     == {s[i] : i \in DOMAIN s}
Outside   == Elems \ (In(order) \cup In(order2))
Become(l) == mem' = l.mem /\ head' = l.head
At(s, e)  == CHOOSE i \in DOMAIN s : s[i] = e
Put(s, i, e) == SubSeq(s, 1, i) \o << e >> \o SubSeq(s, i + 1, Len(s))
Drop(s, e)   == LET Keep(x) == x # e IN SelectSeq(s, Keep)
InFrontOf(s, e) == Cardinality({i \in DOMAIN s : \A j \in 1 .. i : Rank[s[j]] < Rank[e]})
RECURSIVE InOrder(_)
InOrder(s) ==
  IF s = << >> THEN << >>
  ELSE LET r == InOrder(Tail(s)) IN Put(r, InFrontOf(r, s[1]), s[1])

Prepend(e) ==
  /\ e \in Outside
  /\ Become(Of(LLPrepend(mem, head, e), DLPrepend(mem, head, e), CDLPrepend(mem, head, e)))
  /\ order' = << e >> \o order /\ UNCHANGED << kind, head2, order2 >>

AppendIt(e) ==
  /\ e \in Outside
  /\ Become(Of(LLAppend(mem, head, e), DLAppend(mem, head, e), CDLAppend(mem, head, e)))
  /\ order' = Append(order, e) /\ UNCHANGED << kind, head2, order2 >>

AppendSecond(e) ==
  /\ e \in Outside /\ kind # "CDL"
  /\ \E l \in {Of(LLAppend(mem, head2, e), DLAppend(mem, head2, e), << >>)} :
       mem' = l.mem /\ head2' = l.head
  /\ order2' = Append(order2, e) /\ UNCHANGED << kind, head, order >>

Concat ==
  /\ kind # "CDL"
  /\ Become(Of(LLConcat(mem, head, head2), DLConcat(mem, head, head2), << >>))
  /\ head2' = NULL /\ order' = order \o order2 /\ order2' = << >> /\ UNCHANGED kind

InsertInorder(e) ==
  /\ e \in Outside
  /\ Become(Of(LLInsertInorder(mem, head, e), DLInsertInorder(mem, head, e),
               CDLInsertInorder(mem, head, e)))
  /\ order' = Put(order, InFrontOf(order, e), e) /\ UNCHANGED << kind, head2, order2 >>

Forget(l, e) == Become([l EXCEPT !.mem[e] = Fresh])

Delete(e) ==
  /\ e \in In(order)
  /\ Forget(Of(LLDelete(mem, head, e), DLDelete(mem, head, e), CDLDelete(mem, head, e)), e)
  /\ order' = Drop(order, e) /\ UNCHANGED << kind, head2, order2 >>

ReplaceElem(el, e) ==
  /\ el \in In(order) /\ e \in Outside
  /\ Forget(Of(LLReplaceElem(mem, head, el, e), DLReplaceElem(mem, head, el, e),
               CDLReplaceElem(mem, head, el, e)), el)
  /\ order' = [order EXCEPT ![At(order, el)] = e] /\ UNCHANGED << kind, head2, order2 >>

\* el may be NULL in the next two.
PrependElem(el, e) ==
  /\ el \in In(order) \cup {NULL} /\ e \in Outside
  /\ Become(Of(LLPrependElem(mem, head, el, e),
               DLPrependElem(mem, head, el, e),
               CDLPrependElem(mem, head, el, e)))
  /\ order' = Put(order, IF el = NULL THEN Len(order) ELSE At(order, el) - 1, e)
  /\ UNCHANGED << kind, head2, order2 >>

AppendElem(el, e) ==
  /\ el \in In(order) \cup {NULL} /\ e \in Outside
  /\ Become(Of(LLAppendElem(mem, head, el, e), DLAppendElem(mem, head, el, e),
               CDLAppendElem(mem, head, el, e)))
  /\ order' = Put(order, IF el = NULL THEN 0 ELSE At(order, el), e)
  /\ UNCHANGED << kind, head2, order2 >>

SortIt ==
  /\ Become(Of(LLSort(mem, head), DLSort(mem, head), CDLSort(mem, head)))
  /\ order' = InOrder(order) /\ UNCHANGED << kind, head2, order2 >>

Next ==
  \/ \E e \in Elems :
       \/ Prepend(e) \/ AppendIt(e) \/ AppendSecond(e) \/ InsertInorder(e) \/ Delete(e)
       \/ \E el \in Elems \cup {NULL} :
            ReplaceElem(el, e) \/ PrependElem(el, e) \/ AppendElem(el, e)
  \/ Concat \/ SortIt

Spec == Init /\ [][Next]_vars
-----------------------------------------------------------------------------
\* Where prev points in a whole DL or CDL list s.
Back(s, h) ==
  \A i \in DOMAIN s : mem[s[i]].prev = IF i > 1 THEN s[i - 1] ELSE s[Len(s)]

\* After any sequence of operations of any of the three families a walk along
\* next meets exactly the elements in the order the application gave them, the
\* back links lead the same way, the head of a DL list knows its tail and a
\* ring is closed, and a search finds the first match.
Sound ==
  /\ Foreach(mem, head) = order /\ Foreach(mem, head2) = order2
  /\ kind # "LL" => Back(order, head) /\ Back(order2, head2)
  /\ order # << >> =>
       mem[order[Len(order)]].next = IF kind = "CDL" THEN head ELSE NULL
  /\ \A r \in {Rank[e] : e \in Elems} :
       LET x == Search(mem, head, r)
       IN  IF x = NULL THEN \A e \in In(order) : Rank[e] # r
           ELSE Rank[x] = r /\ \A i \in 1 .. At(order, x) - 1 : Rank[order[i]] # r
=============================================================================
