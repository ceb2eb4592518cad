------------------------------ MODULE AvlTree ------------------------------
(***************************************************************************)
(* avl_tree.c of libfastcommon: a balanced search tree whose nodes keep    *)
(* the difference of their subtrees' heights, -1, 0 or 1, and never the    *)
(* heights themselves.  A tree is a value: Leaf for NULL or a node with    *)
(* its subtrees l and r.  The source writes every case twice, once per     *)
(* side; here the side is a parameter.                                     *)
(***************************************************************************)
EXTENDS Integers, Sequences, FiniteSets

CONSTANTS
  Keys,      \* what compare_func compares: a set of integers
  Versions   \* data that compares equal and is not the same

Leaf == << >>

VARIABLES
  root,    \* tree->root
  map,     \* the data the tree was given, by key; NoData where it has none
  ret      \* what the last insert, replace or delete returned, and should

vars == << root, map, ret >>

NoData == 0
Other(s) == IF s = "l" THEN "r" ELSE "l"
Lean(s)  == IF s = "l" THEN -1 ELSE 1     \* the balance of a node heavier on s

-----------------------------------------------------------------------------
(* Rotations and rebalancing.                                              *)

\* avlRotateRight raises the left child, avlRotateLeft the right one.
Raise(t, s) ==
  LET c == t[s] IN [c EXCEPT ![Other(s)] = [t EXCEPT ![s] = c[Other(s)]]]

\* The case of avlLeft-, avlRightBalanceWhen* where the child leans the other
\* way: its inner child is raised twice.
RaiseTwice(t, s) ==
  LET o == Other(s)
      c == t[s]
      g == c[o]
      bt == IF g.b = Lean(s) THEN Lean(o) ELSE 0
      bc == IF g.b = Lean(o) THEN Lean(s) ELSE 0
      c2 == [c EXCEPT !.b = bc, ![o] = [g EXCEPT !.b = 0]]
  IN Raise([t EXCEPT !.b = bt, ![s] = Raise(c2, o)], s)

\* avlLeft-, avlRightBalanceWhenInsert: t leans to s and s grew.
BalanceWhenInsert(t, s) ==
  CASE t[s].b = Lean(s) ->
         [t |-> Raise([t EXCEPT !.b = 0, ![s] = [@ EXCEPT !.b = 0]], s), taller |-> FALSE]
    [] t[s].b = 0       -> [t |-> t, taller |-> TRUE]
    [] OTHER            -> [t |-> RaiseTwice(t, s), taller |-> FALSE]

\* avlLeft-, avlRightBalanceWhenDelete: t leans to s and the other side shrank.
BalanceWhenDelete(t, s) ==
  CASE t[s].b = Lean(s) ->
         [t |-> Raise([t EXCEPT !.b = 0, ![s] = [@ EXCEPT !.b = 0]], s), shorter |-> TRUE]
    [] t[s].b = 0       ->
         [t |-> Raise([t EXCEPT ![s] = [@ EXCEPT !.b = Lean(Other(s))]], s), shorter |-> FALSE]
    [] OTHER            -> [t |-> RaiseTwice(t, s), shorter |-> TRUE]

\* What insert_loop does with t when its side s came back taller.
Grown(t, s) ==
  CASE t.b = Lean(s) -> BalanceWhenInsert(t, s)
    [] t.b = 0       -> [t |-> [t EXCEPT !.b = Lean(s)], taller |-> TRUE]
    [] OTHER         -> [t |-> [t EXCEPT !.b = 0], taller |-> FALSE]

\* Mutant: a node that was balanced passes `shorter' on.
ShrunkTooFar(t, s) ==
  CASE t.b = Lean(s) -> [t |-> [t EXCEPT !.b = 0], shorter |-> TRUE]
    [] t.b = 0       -> [t |-> [t EXCEPT !.b = Lean(Other(s))], shorter |-> TRUE]
    [] OTHER         -> BalanceWhenDelete(t, Other(s))

\* What delete_loop does with t when its side s came back shorter.
Shrunk(t, s) ==
  CASE t.b = Lean(s) -> [t |-> [t EXCEPT !.b = 0], shorter |-> TRUE]
    [] t.b = 0       -> [t |-> [t EXCEPT !.b = Lean(Other(s))], shorter |-> FALSE]
    [] OTHER         -> BalanceWhenDelete(t, Other(s))

-----------------------------------------------------------------------------
(* The recursive operations.                                               *)

SideOf(t, k) == IF k < t.d.key THEN "l" ELSE "r"

\* avl_tree_insert_loop and avl_tree_replace_loop, which differ in what they
\* do with an equal node.
RECURSIVE InsertLoop(_, _, _)
InsertLoop(t, d, replace) ==
  IF t = Leaf
  THEN [t |-> [l |-> Leaf, d |-> d, r |-> Leaf, b |-> 0], taller |-> TRUE, ret |-> 1]
  ELSE IF t.d.key = d.key
  THEN [t |-> IF replace THEN [t EXCEPT !.d = d] ELSE t, taller |-> FALSE, ret |-> 0]
  ELSE LET s   == SideOf(t, d.key)
           sub == InsertLoop(t[s], d, replace)
           up  == [t EXCEPT ![s] = sub.t]
           g   == IF sub.taller THEN Grown(up, s) ELSE [t |-> up, taller |-> FALSE]
       IN [t |-> g.t, taller |-> g.taller, ret |-> sub.ret]

\* delete_loop with pDeletedDataNode: takes the rightmost node's data.
RECURSIVE TakeLast(_)
TakeLast(t) ==
  IF t.r = Leaf THEN [t |-> t.l, d |-> t.d, shorter |-> TRUE]
  ELSE LET sub == TakeLast(t.r)
           up  == [t EXCEPT !.r = sub.t]
           g   == IF sub.shorter THEN Shrunk(up, "r") ELSE [t |-> up, shorter |-> FALSE]
       IN [t |-> g.t, d |-> sub.d, shorter |-> g.shorter]

RECURSIVE DeleteLoop(_, _)
DeleteLoop(t, k) ==
  IF t = Leaf THEN [t |-> Leaf, shorter |-> FALSE, ret |-> 0]
  ELSE IF t.d.key # k
  THEN LET s   == SideOf(t, k)
           sub == DeleteLoop(t[s], k)
           up  == [t EXCEPT ![s] = sub.t]
           g   == IF sub.shorter THEN Shrunk(up, s) ELSE [t |-> up, shorter |-> FALSE]
       IN [t |-> g.t, shorter |-> g.shorter, ret |-> sub.ret]
  ELSE IF Leaf \in {t.l, t.r}
  THEN [t |-> IF t.l = Leaf THEN t.r ELSE t.l, shorter |-> TRUE, ret |-> 1]
  ELSE LET sub == TakeLast(t.l)
           up  == [t EXCEPT !.l = sub.t, !.d = sub.d]
           g   == IF sub.shorter THEN Shrunk(up, "l") ELSE [t |-> up, shorter |-> FALSE]
       IN [t |-> g.t, shorter |-> g.shorter, ret |-> 1]

RECURSIVE Find(_, _)
Find(t, k) ==
  IF t = Leaf THEN << >>
  ELSE IF t.d.key = k THEN << t.d >> ELSE Find(t[SideOf(t, k)], k)

\* avl_tree_find_ge: the least data that is not less than k.
RECURSIVE FindGe(_, _)
FindGe(t, k) ==
  IF t = Leaf THEN << >>
  ELSE IF t.d.key = k THEN << t.d >>
  ELSE IF t.d.key < k THEN FindGe(t.r, k)
  ELSE LET found == FindGe(t.l, k) IN IF found # << >> THEN found ELSE << t.d >>

\* avl_tree_walk: the data in the order data_op_func sees it.
RECURSIVE WalkTree(_)
WalkTree(t) ==
  IF t = Leaf THEN << >> ELSE WalkTree(t.l) \o << t.d >> \o WalkTree(t.r)

\* avl_tree_depth follows the balances down.
RECURSIVE Depth(_)
Depth(t) == IF t = Leaf THEN 0 ELSE 1 + Depth(IF t.b = -1 THEN t.l ELSE t.r)

-----------------------------------------------------------------------------

Init ==
  /\ root = Leaf
  /\ map = [k \in Keys |-> NoData]
  /\ ret = << 0, 0 >>

Insert(k, v) ==
  LET res == InsertLoop(root, [key |-> k, v |-> v], FALSE) IN
  /\ root' = res.t
  /\ map' = IF map[k] = NoData THEN [map EXCEPT ![k] = v] ELSE map
  /\ ret' = << res.ret, IF map[k] = NoData THEN 1 ELSE 0 >>

Replace(k, v) ==
  LET res == InsertLoop(root, [key |-> k, v |-> v], TRUE) IN
  /\ root' = res.t
  /\ map' = [map EXCEPT ![k] = v]
  /\ ret' = << res.ret, IF map[k] = NoData THEN 1 ELSE 0 >>

Delete(k) ==
  LET res == DeleteLoop(root, k) IN
  /\ root' = res.t
  /\ map' = [map EXCEPT ![k] = NoData]
  /\ ret' = << res.ret, IF map[k] = NoData THEN 0 ELSE 1 >>

\* avl_tree_destroy.
Destroy == root' = Leaf /\ map' = [k \in Keys |-> NoData] /\ ret' = << 0, 0 >>

Next ==
  \/ \E k \in Keys, v \in Versions : Insert(k, v) \/ Replace(k, v)
  \/ \E k \in Keys : Delete(k)
  \/ Destroy

Spec == Init /\ [][Next]_vars

-----------------------------------------------------------------------------

RECURSIVE Height(_)
Height(t) ==
  IF t = Leaf THEN 0
  ELSE 1 + (IF Height(t.l) > Height(t.r) THEN Height(t.l) ELSE Height(t.r))

RECURSIVE Balanced(_)
Balanced(t) ==
  t = Leaf \/ /\ t.b \in -1..1
              /\ t.b = Height(t.r) - Height(t.l)
              /\ Balanced(t.l) /\ Balanced(t.r)

Data(k) == IF map[k] = NoData THEN << >> ELSE << [key |-> k, v |-> map[k]] >>

\* After any sequence of insertions, replacements and deletions every node's
\* balance is the true difference of its subtrees' heights, avl_tree_depth is
\* the height, and the tree answers find, find_ge and walk as the map would.
Sound ==
  /\ Balanced(root)
  /\ Depth(root) = Height(root)
  /\ LET W == WalkTree(root) IN
       /\ \A i, j \in DOMAIN W : i < j => W[i].key < W[j].key
       /\ Len(W) = Cardinality({k \in Keys : map[k] # NoData})
  /\ \A k \in Keys :
       /\ Find(root, k) = Data(k)
       /\ LET above == {j \in Keys : j >= k /\ map[j] # NoData} IN
            FindGe(root, k) =
              IF above = {} THEN << >>
              ELSE Data(CHOOSE j \in above : \A i \in above : j <= i)
  /\ ret[1] = ret[2]

=============================================================================
