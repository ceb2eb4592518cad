------------------------------- MODULE Chain -------------------------------
(***************************************************************************)
(* chain.c: a singly linked list with a tail pointer, to which nodes are   *)
(* added in front, behind or in order, as its type says.                   *)
(***************************************************************************)
EXTENDS Integers, Sequences, FiniteSets, SequencesExt

CONSTANTS
  Cells,     \* the nodes malloc gives
  Data       \* the data, compared as integers

Null == 0

VARIABLES
  list,     \* type, head, tail
  node,     \* each allocated node's data and next
  want      \* the data in the order it should have

vars == << list, node, want >>

Alloc(c, d, next) == [x \in DOMAIN node \cup {c} |-> IF x = c THEN [d |-> d, next |-> next] ELSE node[x]]
Without(C, nd)    == [x \in DOMAIN nd \ C |-> nd[x]]
Available         == Cells \ DOMAIN node

Init ==
  /\ \E type \in {"insert", "append", "sorted"} :
       list = [type |-> type, head |-> Null, tail |-> Null]
  /\ node = << >>
  /\ want = << >>

InsertNodePrior(c, d) ==
  /\ node' = Alloc(c, d, list.head)
  /\ list' = [list EXCEPT !.head = c, !.tail = IF @ = Null THEN c ELSE @]
  /\ want' = << d >> \o want

AppendNode(c, d) ==
  LET new == Alloc(c, d, Null) IN
  /\ node' = IF list.tail = Null THEN new ELSE [new EXCEPT ![list.tail].next = c]
  /\ list' = [list EXCEPT !.tail = c, !.head = IF @ = Null THEN c ELSE @]
  /\ want' = Append(want, d)

\* The nodes before d's place, in order.
RECURSIVE Smaller(_, _)
Smaller(c, d) ==
  IF c = Null \/ node[c].d >= d THEN << >> ELSE << c >> \o Smaller(node[c].next, d)

InsertNodeAsc(c, d) ==
  LET before == Smaller(list.head, d)
      prev   == IF before = << >> THEN Null ELSE Last(before)
      next   == IF prev = Null THEN list.head ELSE node[prev].next
      new    == Alloc(c, d, next) IN
  /\ node' = IF prev = Null THEN new ELSE [new EXCEPT ![prev].next = c]
  /\ list' = [list EXCEPT !.head = IF prev = Null THEN c ELSE @,
                          !.tail = IF next = Null THEN c ELSE @]
  /\ want' = SelectSeq(want, LAMBDA x : x < d) \o << d >> \o SelectSeq(want, LAMBDA x : x >= d)

\* addNode.
AddNode(d) ==
  \E c \in Available :
    CASE list.type = "insert" -> InsertNodePrior(c, d)
      [] list.type = "append" -> AppendNode(c, d)
      [] OTHER                -> InsertNodeAsc(c, d)

\* Mutant: the tail is left when the last node goes.
DeleteNodeExTail(st, prev, c) ==
  [list |-> [st.list EXCEPT !.head = IF @ = c THEN st.node[c].next ELSE @],
   node |-> Without({c}, IF st.list.head = c THEN st.node
                         ELSE [st.node EXCEPT ![prev].next = st.node[c].next])]

\* deleteNodeEx, of c after prev.
DeleteNodeEx(st, prev, c) ==
  [list |-> [st.list EXCEPT !.head = IF @ = c THEN st.node[c].next ELSE @,
                            !.tail = IF @ = c THEN prev ELSE @],
   node |-> Without({c}, IF st.list.head = c THEN st.node
                         ELSE [st.node EXCEPT ![prev].next = st.node[c].next])]

\* deleteNode's loop, at c after prev.
RECURSIVE DeleteFrom(_, _, _, _, _)
DeleteFrom(st, prev, c, d, all) ==
  IF c = Null THEN st
  ELSE IF st.node[c].d = d
  THEN LET next == st.node[c].next
           cut  == DeleteNodeEx(st, prev, c)
       IN IF all THEN DeleteFrom(cut, prev, next, d, all) ELSE cut
  ELSE IF st.node[c].d > d /\ st.list.type = "sorted" THEN st
  ELSE DeleteFrom(st, c, st.node[c].next, d, all)

Delete(d, all) ==
  LET st == DeleteFrom([list |-> list, node |-> node], Null, list.head, d, all)
      at == SelectInSeq(want, LAMBDA x : x = d) IN
  /\ list' = st.list
  /\ node' = st.node
  /\ want' = IF all THEN SelectSeq(want, LAMBDA x : x # d)
             ELSE IF at = 0 THEN want ELSE RemoveAt(want, at)

\* The cells from the i-th on.
RECURSIVE From(_)
From(c) == IF c = Null THEN << >> ELSE << c >> \o From(node[c].next)

\* deleteToNodePrevious: the nodes between the i-th and the j-th (i = 0 for
\* none before, j past the end for none after).
DeleteToNodePrevious(i, j) ==
  LET all  == From(list.head)
      prev == IF i = 0 THEN Null ELSE all[i]
      next == IF j > Len(all) THEN Null ELSE all[j]
      rest == Without(ToSet(SubSeq(all, i + 1, j - 1)), node) IN
  /\ i < j /\ i <= Len(all) /\ j <= Len(all) + 1
  /\ node' = IF prev = Null THEN rest ELSE [rest EXCEPT ![prev].next = next]
  /\ list' = [list EXCEPT !.head = IF prev = Null THEN next ELSE @,
                          !.tail = IF next = Null THEN prev ELSE @]
  /\ want' = SubSeq(want, 1, i) \o SubSeq(want, j, Len(want))

PopHead ==
  LET next == node[list.head].next IN
  /\ list.head # Null
  /\ list' = [list EXCEPT !.head = next, !.tail = IF next = Null THEN Null ELSE @]
  /\ node' = Without({list.head}, node)
  /\ want' = Tail(want)

Destroy ==
  /\ list' = [list EXCEPT !.head = Null, !.tail = Null]
  /\ node' = << >>
  /\ want' = << >>

Next ==
  \/ \E d \in Data : AddNode(d) \/ \E all \in BOOLEAN : Delete(d, all)
  \/ \E i, j \in 0..(Cardinality(Cells) + 1) : DeleteToNodePrevious(i, j)
  \/ PopHead \/ Destroy

Spec == Init /\ [][Next]_vars

-----------------------------------------------------------------------------

\* The list holds what was put in and not taken out, in its order, no node is
\* lost, and the tail is its last node, after every mix of additions and
\* deletions.
Sound ==
  LET all == From(list.head) IN
  /\ [i \in DOMAIN all |-> node[all[i]].d] = want
  /\ ToSet(all) = DOMAIN node
  /\ list.tail = IF all = << >> THEN Null ELSE Last(all)

=============================================================================
