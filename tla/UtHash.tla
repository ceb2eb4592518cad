------------------------------- MODULE UtHash -------------------------------
(***************************************************************************)
(* uthash.h: an intrusive hash table.  An element carries a handle with     *)
(* two pairs of links: next/prev keep the order in which the application    *)
(* added (or sorted) the elements, hh_next/hh_prev the chain of the         *)
(* element's bucket.  Elements are numbers and 0 is NULL; the hash function *)
(* is the constant HashOf.  A handle is forgotten when its element leaves     *)
(* the table.  HASH_NONFATAL_OOM is off, as in the header's default: a      *)
(* failed allocation ends the program.                                      *)
(***************************************************************************)
EXTENDS MergeSort, FiniteSets

CONSTANTS
  Elems,      \* the elements, positive numbers
  Key,        \* key of an element
  HashOf,     \* hash value of a key
  Rank,       \* what the comparison functions compare
  Buckets0,   \* HASH_INITIAL_NUM_BUCKETS
  Thresh      \* HASH_BKT_CAPACITY_THRESH

VARIABLES
  users,      \* the table whose head the application holds
  chosen,     \* a table filled by HASH_SELECT, through a second handle
  order,      \* history: the elements of users as the application ordered them
  picked      \* history: the elements HASH_SELECT put in chosen

vars == << users, chosen, order, picked >>

NULL == 0
Handle == [next |-> NULL, prev |-> NULL, hh_next |-> NULL, hh_prev |-> NULL]
Bucket == [head |-> NULL, count |-> 0, mult |-> 0]
NoTable == [head |-> NULL, tail |-> NULL, num |-> 0, items |-> 0, ineff |-> 0,
            noexpand |-> FALSE, bkt |-> << >>, hh |-> << >>]

\* The elements from e on along the link `link'; a ring is cut off.
RECURSIVE Walk(_, _, _, _)
Walk(t, e, link, fuel) ==
  IF e = NULL \/ fuel = 0 THEN << >>
  ELSE << e >> \o Walk(t, t.hh[e][link], link, fuel - 1)

Fuel       == Cardinality(Elems) + 1
App(t)     == Walk(t, t.head, "next", Fuel)
Chain(t, b) == Walk(t, t.bkt[b].head, "hh_next", Fuel)

MakeTable(e) ==
  [NoTable EXCEPT !.head = e, !.tail = e, !.num = Buckets0,
                  !.bkt = [b \in 0 .. Buckets0 - 1 |-> Bucket],
                  !.hh = [x \in {e} |-> Handle]]

ToBkt(e, num) == HashOf[Key[e]] % num

\* One field of a handle, where the pointer is not NULL.
SetLink(hh, e, link, v) == IF e = NULL THEN hh ELSE [hh EXCEPT ![e][link] = v]

\* e goes to the front of bucket b of bkt.
InFront(bkt, hh, b, e) ==
  LET h == bkt[b].head
  IN  SetLink([hh EXCEPT ![e].hh_next = h, ![e].hh_prev = NULL], h, "hh_prev", e)

RECURSIVE InBucketOrder(_, _)
InBucketOrder(t, b) ==
  IF b = t.num THEN << >> ELSE Chain(t, b) \o InBucketOrder(t, b + 1)

\* HASH_EXPAND_BUCKETS: every element moves to the front of its new bucket; a
\* bucket beyond the ideal length may grow further before it asks again.
RECURSIVE Rehang(_, _, _, _)
Rehang(s, t, ideal, nonideal) ==
  IF s = << >> THEN [t |-> t, nonideal |-> nonideal]
  ELSE LET e     == Head(s)
           b     == ToBkt(e, t.num)
           n     == t.bkt[b].count + 1
           extra == n > ideal
       IN  Rehang(Tail(s),
                  [t EXCEPT !.hh = InFront(t.bkt, @, b, e),
                            !.bkt[b] = [head |-> e, count |-> n,
                                        mult |-> IF extra THEN n \div ideal ELSE @.mult]],
                  ideal, IF extra THEN nonideal + 1 ELSE nonideal)

Expand(t) ==
  LET num   == 2 * t.num
      ideal == (t.items \div num) + (IF t.items % num # 0 THEN 1 ELSE 0)
      r     == Rehang(InBucketOrder(t, 0),
                      [t EXCEPT !.num = num, !.bkt = [b \in 0 .. num - 1 |-> Bucket]],
                      ideal, 0)
      ineff == IF r.nonideal > t.items \div 2 THEN t.ineff + 1 ELSE 0
  IN  [r.t EXCEPT !.ineff = ineff, !.noexpand = @ \/ ineff > 1]

AddToBkt(t, e) ==
  LET b == ToBkt(e, t.num)
      u == [t EXCEPT !.hh = InFront(t.bkt, @, b, e),
                     !.bkt[b].head = e, !.bkt[b].count = @ + 1]
  IN  IF u.bkt[b].count >= (u.bkt[b].mult + 1) * Thresh /\ ~u.noexpand
      THEN Expand(u) ELSE u

AddToTable(t, e) == AddToBkt([t EXCEPT !.items = @ + 1], e)

WithHandle(t, e) ==
  [t EXCEPT !.hh = [x \in DOMAIN t.hh \cup {e} |-> IF x = e THEN Handle ELSE t.hh[x]]]

AppendList(t, e) ==
  [t EXCEPT !.hh = SetLink([@ EXCEPT ![e].prev = t.tail], t.tail, "next", e),
            !.tail = e]

Add(t, e) ==
  AddToTable(IF t.head = NULL THEN MakeTable(e) ELSE AppendList(WithHandle(t, e), e), e)

\* The first element that compares greater, or NULL.
AkbiInnerLoop(t, e) ==
  LET s == App(t)
      g == {i \in DOMAIN s : Rank[s[i]] > Rank[e]}
  IN  IF g = {} THEN NULL ELSE s[CHOOSE i \in g : \A j \in g : i <= j]

\* e in front of the element at.
InsertBefore(t, at, e) ==
  LET p == t.hh[at].prev
  IN  [t EXCEPT
         !.hh = [SetLink([@ EXCEPT ![e].next = at, ![e].prev = p], p, "next", e)
                   EXCEPT ![at].prev = e],
         !.head = IF p = NULL THEN e ELSE @]

AddInorder(t, e) ==
  LET at == AkbiInnerLoop(t, e)
  IN  AddToTable(IF t.head = NULL THEN MakeTable(e)
                 ELSE IF at # NULL THEN InsertBefore(WithHandle(t, e), at, e)
                 ELSE AppendList(WithHandle(t, e), e), e)

FindInBkt(t, b, k) ==
  LET s == Chain(t, b)
      m == {i \in DOMAIN s : Key[s[i]] = k}
  IN  IF m = {} THEN NULL ELSE s[CHOOSE i \in m : \A j \in m : i <= j]

Find(t, k) ==
  IF t.head = NULL THEN NULL ELSE FindInBkt(t, HashOf[k] % t.num, k)

DelInBkt(t, b, e) ==
  LET h == t.hh[e]
  IN  [t EXCEPT !.bkt[b].count = @ - 1,
                !.bkt[b].head = IF @ = e THEN h.hh_next ELSE @,
                !.hh = SetLink(SetLink(@, h.hh_prev, "hh_next", h.hh_next),
                               h.hh_next, "hh_prev", h.hh_prev)]

\* e leaves both lists of a table that has more elements.
Unlinked(t, e) ==
  LET h == t.hh[e]
      u == DelInBkt([t EXCEPT
                       !.head = IF h.prev = NULL THEN h.next ELSE @,
                       !.hh = SetLink(SetLink(@, h.prev, "next", h.next), h.next, "prev", h.prev),
                       !.items = @ - 1],
                    ToBkt(e, t.num), e)
  IN  [u EXCEPT !.hh = [x \in DOMAIN u.hh \ {e} |-> u.hh[x]]]

Alone(t, e) == t.hh[e].prev = NULL /\ t.hh[e].next = NULL

\* A plausible slip: the tail is not moved back with the last element.
DeleteKeepsTail(t, e) == IF Alone(t, e) THEN NoTable ELSE Unlinked(t, e)

Delete(t, e) ==
  IF Alone(t, e) THEN NoTable
  ELSE Unlinked([t EXCEPT !.tail = IF @ = e THEN t.hh[e].prev ELSE @], e)

Replace(t, e) ==
  LET r == Find(t, Key[e]) IN Add(IF r = NULL THEN t ELSE Delete(t, r), e)

ReplaceInorder(t, e) ==
  LET r == Find(t, Key[e]) IN AddInorder(IF r = NULL THEN t ELSE Delete(t, r), e)

\* The application list becomes s: the links a sort leaves.
Relink(t, s) ==
  [t EXCEPT !.head = s[1], !.tail = s[Len(s)],
            !.hh = [e \in DOMAIN @ |->
                      LET i == CHOOSE i \in DOMAIN s : s[i] = e
                      IN  [@[e] EXCEPT !.next = IF i = Len(s) THEN NULL ELSE s[i + 1],
                                       !.prev = IF i = 1 THEN NULL ELSE s[i - 1]]]]

Srt(t) == IF t.head = NULL THEN t ELSE Relink(t, Sort(App(t), Rank))

\* HASH_SELECT into an empty table: the elements of src that satisfy the
\* condition, in the order of its buckets.  The tail stays where MakeTable put
\* it, and num_items counts after the bucket was filled.
RECURSIVE SelectFrom(_, _, _)
SelectFrom(s, dst, last) ==
  IF s = << >> THEN dst
  ELSE LET e == Head(s)
           t == IF dst.head = NULL THEN MakeTable(e) ELSE WithHandle(dst, e)
           u == [t EXCEPT !.hh = SetLink([@ EXCEPT ![e].prev = last], last, "next", e)]
           v == AddToBkt(u, e)
       IN  SelectFrom(Tail(s), [v EXCEPT !.items = @ + 1], e)

Select(src, S) ==
  LET InS(e) == e \in S
  IN  SelectFrom(IF src.head = NULL THEN << >>
                 ELSE SelectSeq(InBucketOrder(src, 0), InS),
                 NoTable, NULL)

Clear(t) == NoTable
-----------------------------------------------------------------------------
Init == /\ users = NoTable /\ chosen = NoTable
        /\ order = << >> /\ picked = {}

Here == {order[i] : i \in DOMAIN order}
Without(s, e) == LET Keep(x) == x # e IN SelectSeq(s, Keep)
\* The reference of an insertion in order: behind everything that is not
\* greater, up to the first that is.
Placed(s, e) ==
  LET g == {i \in DOMAIN s : Rank[s[i]] > Rank[e]}
      i == IF g = {} THEN Len(s) + 1 ELSE CHOOSE i \in g : \A j \in g : i <= j
  IN  SubSeq(s, 1, i - 1) \o << e >> \o SubSeq(s, i, Len(s))
\* The reference of a sort: a stable sort by insertion.
RECURSIVE InOrder(_)
InOrder(s) ==
  IF s = << >> THEN << >> ELSE Placed(InOrder(SubSeq(s, 1, Len(s) - 1)), s[Len(s)])
SameKey(e) == {x \in Here : Key[x] = Key[e]}
Replaced(e) ==
  IF SameKey(e) = {} THEN order ELSE Without(order, CHOOSE x \in SameKey(e) : TRUE)

HashAdd(e) ==
  /\ SameKey(e) = {}
  /\ \/ users' = Add(users, e) /\ order' = Append(order, e)
     \/ users' = AddInorder(users, e) /\ order' = Placed(order, e)
  /\ UNCHANGED << chosen, picked >>

HashReplace(e) ==
  /\ e \notin Here
  /\ \/ users' = Replace(users, e) /\ order' = Append(Replaced(e), e)
     \/ users' = ReplaceInorder(users, e) /\ order' = Placed(Replaced(e), e)
  /\ UNCHANGED << chosen, picked >>

HashDelete(e) ==
  /\ e \in Here
  /\ users' = Delete(users, e) /\ order' = Without(order, e)
  /\ UNCHANGED << chosen, picked >>

HashSort ==
  /\ users' = Srt(users) /\ order' = InOrder(order)
  /\ UNCHANGED << chosen, picked >>

\* Elements of the second table must stay in the application's memory, so the
\* application clears it before it adds or deletes.
HashSelect(S) ==
  /\ users.head # NULL
  /\ chosen' = Select(users, S) /\ picked' = S \cap Here
  /\ UNCHANGED << users, order >>

ChosenSort  == /\ chosen' = Srt(chosen) /\ UNCHANGED << users, order, picked >>

HashClear ==
  /\ users' = Clear(users) /\ order' = << >>
  /\ UNCHANGED << chosen, picked >>

ChosenClear == /\ chosen' = Clear(chosen) /\ picked' = {}
               /\ UNCHANGED << users, order >>

Next ==
  \/ /\ chosen.head = NULL
     /\ \/ \E e \in Elems : HashAdd(e) \/ HashReplace(e) \/ HashDelete(e)
        \/ HashSort \/ HashClear
        \/ \E S \in SUBSET {e \in Elems : Rank[e] > 1} : HashSelect(S)
  \/ chosen.head # NULL /\ (ChosenSort \/ ChosenClear)

Spec == Init /\ [][Next]_vars
-----------------------------------------------------------------------------
\* What HASH_FSCK looks at: back links and counts of every bucket, the back
\* links and the number of the application list.
Fsck(t) ==
  t.head # NULL =>
    /\ \A b \in 0 .. t.num - 1 :
         LET s == Chain(t, b)
         IN  /\ Len(s) = t.bkt[b].count
             /\ \A i \in DOMAIN s :
                  t.hh[s[i]].hh_prev = IF i = 1 THEN NULL ELSE s[i - 1]
    /\ Len(InBucketOrder(t, 0)) = t.items
    /\ Len(App(t)) = t.items
    /\ \A i \in DOMAIN App(t) :
         t.hh[App(t)[i]].prev = IF i = 1 THEN NULL ELSE App(t)[i - 1]

\* Every element is found by its key, and no key that is not there.
FindsExactly(t, S) ==
  \A k \in {Key[e] : e \in Elems} :
    LET m == {e \in S : Key[e] = k}
    IN  Find(t, k) = IF m = {} THEN NULL ELSE CHOOSE e \in m : TRUE

\* No bucket that may still be expanded is over its limit, so that the chains
\* stay short.
ChainsShort(t) ==
  \A b \in DOMAIN t.bkt : t.noexpand \/ t.bkt[b].count < (t.bkt[b].mult + 1) * Thresh

\* After any sequence of additions, replacements, deletions, sorts, selections
\* and expansions the table passes HASH_FSCK, its application list is in the
\* order the application gave it and ends at tail, every key is found exactly
\* when it is there, and the same is true of the table HASH_SELECT made.
Sound ==
  /\ Fsck(users) /\ Fsck(chosen)
  /\ App(users) = order
  /\ users.tail = IF order = << >> THEN NULL ELSE order[Len(order)]
  /\ FindsExactly(users, Here) /\ FindsExactly(chosen, picked)
  /\ {App(chosen)[i] : i \in DOMAIN App(chosen)} = picked
  /\ ChainsShort(users) /\ ChainsShort(chosen)

\* HASH_SELECT leaves tail at the first element it selected: an element added
\* to the destination afterwards is linked behind that one.
SelectKeepsTail ==
  LET s == App(chosen) IN chosen.tail = IF s = << >> THEN NULL ELSE s[Len(s)]
=============================================================================
