---------------------------- MODULE LinkedQueue ----------------------------
(***************************************************************************)
(* The singly linked queue that common_blocked_queue.c,                    *)
(* fast_blocked_queue.c and fast_task_queue.c each write out by hand: a    *)
(* head pointer, a tail pointer and a `next' field in every node.          *)
(*                                                                         *)
(* q.chain is the sequence of nodes reached from the head pointer by       *)
(* following `next' (<<>> when head is NULL); q.tail is the tail pointer,  *)
(* kept apart because the code reads and writes it apart from the chain.   *)
(* Each operator does to the two what the code does to the pointers, also  *)
(* when the tail is stale.                                                 *)
(***************************************************************************)
EXTENDS Naturals, Sequences, SequenceTheorems, TLAPS

CONSTANT NULL

EmptyQueue == [chain |-> << >>, tail |-> NULL]

\* "tail->next = first": the nodes of ns now follow node t.  If t is not on
\* the chain the store goes to a node nobody reaches from the head.
LinkAfter(chain, t, ns) ==
  IF \E i \in 1..Len(chain) : chain[i] = t
  THEN SubSeq(chain, 1, CHOOSE i \in 1..Len(chain) : chain[i] = t) \o ns
  ELSE chain

\* Mutant: the new node is linked in front of the queue.
PushTailInFront(q, n) ==
  [chain |-> << n >> \o q.chain, tail |-> IF q.tail = NULL THEN n ELSE q.tail]

\* Push at the tail: the head pointer is overwritten when tail is NULL.
PushTail(q, n) ==
  [chain |-> IF q.tail = NULL THEN << n >> ELSE LinkAfter(q.chain, q.tail, << n >>),
   tail  |-> n]

\* Mutant: the last pop leaves the tail pointer behind.
PopHeadKeepsTail(q) == [chain |-> Tail(q.chain), tail |-> q.tail]

\* Pop at the head of a non-empty chain; the last pop resets the tail.
PopHead(q) ==
  [chain |-> Tail(q.chain),
   tail  |-> IF Tail(q.chain) = << >> THEN NULL ELSE q.tail]

\* Mutant: a push to the empty list leaves the tail NULL.
PushHeadKeepsTail(q, n) == [chain |-> << n >> \o q.chain, tail |-> q.tail]

\* Push at the head, as free_queue_push does.
PushHead(q, n) ==
  [chain |-> << n >> \o q.chain,
   tail  |-> IF q.tail = NULL THEN n ELSE q.tail]

\* free_queue_realloc: a fresh run of blocks becomes the chain when there is
\* none and is linked behind the tail node when there is a tail pointer.
AddBlocks(q, blocks) ==
  [chain |-> IF q.chain = << >> THEN blocks
             ELSE IF q.tail = NULL THEN q.chain
             ELSE LinkAfter(q.chain, q.tail, blocks),
   tail  |-> blocks[Len(blocks)]]

\* The pointers are in step: tail is NULL exactly for an empty chain and is
\* otherwise its last node, and no node is linked twice.
WellLinked(q) ==
  /\ q.chain = << >> <=> q.tail = NULL
  /\ q.chain # << >> => q.tail = q.chain[Len(q.chain)]
  /\ \A i, j \in 1..Len(q.chain) : q.chain[i] = q.chain[j] => i = j

\* Node k is reached from the head of q.
OnChain(q, k) == \E i \in 1..Len(q.chain) : q.chain[i] = k
-----------------------------------------------------------------------------
(* What the operations do to a well linked queue, for any set S of nodes.  *)

\* Pushing on a well linked queue (common_blocked_queue.c:75-88) appends the
\* node to the chain, whichever branch the tail pointer selects.
LEMMA PushTailAppends ==
  ASSUME NEW S, NULL \notin S,
         NEW r \in [chain : Seq(S), tail : S \cup {NULL}],
         WellLinked(r), NEW n \in S
  PROVE  PushTail(r, n) = [chain |-> Append(r.chain, n), tail |-> n]
<1>1. CASE r.tail = NULL
  BY <1>1 DEF WellLinked, PushTail
<1>2. CASE r.tail # NULL
  <2> DEFINE s == r.chain
             m == Len(s)
  <2>1. s \in Seq(S) /\ s # << >> /\ m \in Nat /\ m # 0
    BY <1>2 DEF WellLinked
  <2>2. s[m] = r.tail /\ m \in 1..m
    BY <2>1 DEF WellLinked
  <2>3. \A i \in 1..m : s[i] = r.tail => i = m
    BY <2>1, <2>2 DEF WellLinked
  <2>4. (CHOOSE i \in 1..m : s[i] = r.tail) = m
    BY <2>2, <2>3
  <2>5. LinkAfter(s, r.tail, << n >>) = SubSeq(s, 1, m) \o << n >>
    BY <2>2, <2>4 DEF LinkAfter
  <2>6. SubSeq(s, 1, m) \o << n >> = Append(s, n)
    BY <2>1, SubSeqFull, AppendIsConcat
  <2> QED
    BY <1>2, <2>5, <2>6 DEF PushTail
<1> QED
  BY <1>1, <1>2

\* Appending a node that is not linked yet keeps a queue well linked.
LEMMA AppendWellLinked ==
  ASSUME NEW S, NULL \notin S,
         NEW r \in [chain : Seq(S), tail : S \cup {NULL}],
         WellLinked(r), NEW n \in S,
         \A i \in 1..Len(r.chain) : r.chain[i] # n
  PROVE  WellLinked([chain |-> Append(r.chain, n), tail |-> n])
<1> DEFINE s == r.chain
           a == Append(s, n)
<1>1. /\ s \in Seq(S) /\ Len(s) \in Nat
      /\ a # << >> /\ Len(a) = Len(s) + 1 /\ a[Len(s) + 1] = n
      /\ \A i \in 1..Len(s) : a[i] = s[i]
  BY AppendProperties
<1>2. ASSUME NEW i \in 1..Len(a), NEW j \in 1..Len(a), a[i] = a[j]
      PROVE  i = j
  BY <1>1, <1>2 DEF WellLinked
<1> QED
  BY <1>1, <1>2 DEF WellLinked

\* Popping (common_blocked_queue.c:138-142) a well linked queue leaves one,
\* over the nodes behind the head.
LEMMA PopHeadWellLinked ==
  ASSUME NEW S, NULL \notin S,
         NEW r \in [chain : Seq(S), tail : S \cup {NULL}],
         WellLinked(r), r.chain # << >>
  PROVE  /\ PopHead(r) \in [chain : Seq(S), tail : S \cup {NULL}]
         /\ WellLinked(PopHead(r))
         /\ Head(r.chain) \in S
         /\ PopHead(r).chain = Tail(r.chain)
         /\ \A i \in 1..Len(Tail(r.chain)) : Tail(r.chain)[i] # Head(r.chain)
  BY DEF WellLinked, PopHead

\* The nodes that are left are the others.
LEMMA PopHeadOnChain ==
  ASSUME NEW S, NULL \notin S,
         NEW r \in [chain : Seq(S), tail : S \cup {NULL}],
         WellLinked(r), r.chain # << >>, NEW k
  PROVE  /\ OnChain(PopHead(r), k) <=> OnChain(r, k) /\ k # Head(r.chain)
         /\ OnChain(r, Head(r.chain))
<1> DEFINE s == r.chain
           u == Tail(s)
<1>1. /\ s \in Seq(S) /\ Len(s) \in Nat /\ Len(s) > 0 /\ Head(s) = s[1]
      /\ Len(u) = Len(s) - 1 /\ \A i \in 1..Len(u) : u[i] = s[i + 1]
  OBVIOUS
<1>2. PopHead(r).chain = u
  BY DEF PopHead
<1>3. OnChain(r, Head(s))
  BY <1>1 DEF OnChain
<1>4. ASSUME NEW i \in 1..Len(u), u[i] = k PROVE OnChain(r, k) /\ k # Head(s)
  <2>1. s[i + 1] = k /\ i + 1 \in 1..Len(s) /\ 1 \in 1..Len(s) /\ i + 1 # 1
    BY <1>1, <1>4
  <2> QED
    BY <1>1, <2>1 DEF OnChain, WellLinked
<1>5. ASSUME NEW i \in 1..Len(s), s[i] = k, k # Head(s) PROVE OnChain(PopHead(r), k)
  <2>1. i - 1 \in 1..Len(u) /\ u[i - 1] = k
    BY <1>1, <1>5
  <2> QED
    BY <1>2, <2>1 DEF OnChain
<1> QED
  BY <1>2, <1>3, <1>4, <1>5 DEF OnChain

\* A push at the tail adds its node.
LEMMA AppendOnChain ==
  ASSUME NEW S, NEW s \in Seq(S), NEW n \in S, NEW k
  PROVE  OnChain([chain |-> Append(s, n), tail |-> n], k)
           <=> k = n \/ \E i \in 1..Len(s) : s[i] = k
<1> DEFINE a == Append(s, n)
<1>1. /\ Len(s) \in Nat /\ Len(a) = Len(s) + 1 /\ a[Len(s) + 1] = n
      /\ \A i \in 1..Len(s) : a[i] = s[i]
  BY AppendProperties
<1> HIDE DEF a
<1>2. 1..Len(a) = (1..Len(s)) \cup {Len(s) + 1}
  BY <1>1
<1> QED
  BY <1>1, <1>2 DEF OnChain, a

\* A push at the head (fast_task_queue.c:496-501) keeps the queue well linked.
LEMMA PushHeadWellLinked ==
  ASSUME NEW S, NULL \notin S,
         NEW r \in [chain : Seq(S), tail : S \cup {NULL}],
         WellLinked(r), NEW n \in S, ~ OnChain(r, n)
  PROVE  /\ PushHead(r, n) \in [chain : Seq(S), tail : S \cup {NULL}]
         /\ WellLinked(PushHead(r, n))
         /\ \A k : OnChain(PushHead(r, n), k) <=> k = n \/ OnChain(r, k)
<1> DEFINE s == r.chain
           a == << n >> \o s
<1>1. /\ s \in Seq(S) /\ Len(s) \in Nat
      /\ a \in Seq(S) /\ a # << >> /\ Len(a) = Len(s) + 1 /\ a[1] = n
      /\ \A i \in 2..Len(s) + 1 : a[i] = s[i - 1]
  OBVIOUS
<1>2. PushHead(r, n).chain = a /\ PushHead(r, n).tail = IF r.tail = NULL THEN n ELSE r.tail
  BY DEF PushHead
<1>3. PushHead(r, n) \in [chain : Seq(S), tail : S \cup {NULL}]
  BY <1>1 DEF PushHead
<1>4. ASSUME NEW k PROVE OnChain(PushHead(r, n), k) <=> k = n \/ OnChain(r, k)
  <2>1. ASSUME NEW i \in 1..Len(a), a[i] = k PROVE k = n \/ OnChain(r, k)
    <3>1. CASE i = 1
      BY <1>1, <2>1, <3>1
    <3>2. CASE i # 1
      <4>1. i - 1 \in 1..Len(s) /\ s[i - 1] = k
        BY <1>1, <2>1, <3>2
      <4> QED
        BY <4>1 DEF OnChain
    <3> QED
      BY <3>1, <3>2
  <2>2. ASSUME NEW i \in 1..Len(s), s[i] = k PROVE \E j \in 1..Len(a) : a[j] = k
    <3>1. i + 1 \in 1..Len(a) /\ a[i + 1] = k
      BY <1>1, <2>2
    <3> QED
      BY <3>1
  <2>3. 1 \in 1..Len(a)
    BY <1>1
  <2> QED
    BY <1>1, <1>2, <2>1, <2>2, <2>3 DEF OnChain
<1>5. ASSUME NEW i \in 1..Len(a), NEW j \in 1..Len(a), a[i] = a[j]
      PROVE  i = j
  <2>1. \A m \in 2..Len(a) : m - 1 \in 1..Len(s) /\ a[m] = s[m - 1] /\ a[m] # n
    BY <1>1 DEF OnChain
  <2>2. CASE i = 1 \/ j = 1
    BY <1>1, <1>5, <2>1, <2>2
  <2>3. CASE i # 1 /\ j # 1
    <3>1. s[i - 1] = s[j - 1] /\ i - 1 \in 1..Len(s) /\ j - 1 \in 1..Len(s)
      BY <1>1, <1>5, <2>1, <2>3
    <3> QED
      BY <3>1, <1>1 DEF WellLinked
  <2> QED
    BY <2>2, <2>3
<1>6. PushHead(r, n).tail # NULL /\ PushHead(r, n).tail = a[Len(a)]
  <2>1. CASE r.tail = NULL
    BY <1>1, <1>2, <2>1 DEF WellLinked
  <2>2. CASE r.tail # NULL
    BY <1>1, <1>2, <2>2 DEF WellLinked
  <2> QED
    BY <2>1, <2>2
<1> QED
  BY <1>1, <1>2, <1>3, <1>4, <1>5, <1>6 DEF WellLinked
\* free_queue_realloc on an empty queue (fast_task_queue.c:389-399): the run of
\* n fresh blocks is the queue.
LEMMA AddBlocksWellLinked ==
  ASSUME NULL \notin Nat, NEW S \in SUBSET Nat, NEW a \in Nat, NEW b \in Seq(S), b # << >>,
         \A i \in 1..Len(b) : b[i] = a + i,
         NEW r, r.chain = << >>
  PROVE  /\ AddBlocks(r, b) \in [chain : Seq(S), tail : S \cup {NULL}]
         /\ WellLinked(AddBlocks(r, b))
         /\ \A k : OnChain(AddBlocks(r, b), k) <=> k \in a + 1..a + Len(b)
<1> DEFINE n == Len(b)
           q == AddBlocks(r, b)
<1>1. n \in Nat \ {0} /\ b[n] \in S /\ b[n] = a + n
  OBVIOUS
<1>2. q = [chain |-> b, tail |-> b[n]]
  BY <1>1 DEF AddBlocks
<1>3. \A k : (\E i \in 1..n : b[i] = k) <=> k \in a + 1..a + n
  <2>1. ASSUME NEW k \in a + 1..a + n PROVE \E i \in 1..n : b[i] = k
    <3>1. k - a \in 1..n /\ b[k - a] = k
      BY <1>1
    <3> QED
      BY <3>1
  <2> QED
    BY <1>1, <2>1
<1>4. q.chain = b /\ q.tail = b[n]
  BY <1>2
<1>5. q \in [chain : Seq(S), tail : S \cup {NULL}]
  BY <1>1, <1>2
<1>6. WellLinked(q)
  BY <1>1, <1>4 DEF WellLinked
<1>7. \A k : OnChain(q, k) <=> k \in a + 1..a + n
  BY <1>1, <1>3, <1>4 DEF OnChain
<1> QED
  BY <1>5, <1>6, <1>7
=============================================================================
