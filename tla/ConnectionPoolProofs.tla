------------------------ MODULE ConnectionPoolProofs ------------------------
(***************************************************************************)
(* The safety invariants of ConnectionPool for any number of threads,      *)
(* servers, managers and nodes, and any limit.                             *)
(***************************************************************************)
EXTENDS ConnectionPool, FiniteSetTheorems, TLAPS

\* What a thread's local variables and the manager locks say at each place of
\* the code.
CallState ==
  /\ \A t \in Threads :
       /\ Timed(t) \/ pc[t] = "connect" => cm[t] \in used /\ server[t] \in Servers
       /\ Timed(t) \/ pc[t] = "idle" => node[t] = NULL
       /\ pc[t] = "connect" => node[t] \in Nodes /\ owner[node[t]] = cm[t] /\ host[node[t]] = server[t]
       /\ pc[t] = "have" => node[t] \in Nodes
       /\ pc[t] = "locked" => lock[cm[t]] = t
  /\ \A m \in Managers : lock[m] # NULL => pc[lock[m]] = "locked" /\ cm[lock[m]] = m

\* What the table says about nodes: a manager it holds was allocated and
\* serves one key only, and none of its nodes is lost.
TableState ==
  /\ \A s \in Servers : hash[s] # NULL => hash[s] \in used
  /\ \A r, s \in Servers : hash[r] # NULL /\ hash[r] = hash[s] => r = s
  /\ \A n \in Nodes : owner[n] # NULL => owner[n] \in used /\ host[n] \in Servers
  /\ \A s \in Servers, n \in Nodes :
       hash[s] # NULL /\ owner[n] = hash[s] =>
         host[n] = s /\ (Free(n) \/ \E t \in Threads : node[t] = n)
  /\ \A s \in Servers, t \in Threads :
       (Timed(t) \/ pc[t] = "connect") /\ hash[s] = cm[t] => server[t] = s

\* The inductive invariant: the properties of the pool, with the two facts
\* above that they rest on.
IInv ==
  /\ TypeOK /\ CountsExact /\ WithinLimit /\ NoConnectionShared
  /\ SocketsMatchNodes /\ FreshestFirst /\ CallState /\ TableState

-----------------------------------------------------------------------------
\* What the code's list operations do to the free list.
LEMMA TailOfChain ==
  ASSUME NEW s \in Seq(Nodes), s # << >>
  PROVE  /\ Tail(s) \in Seq(Nodes)
         /\ Len(s) \in Nat /\ Len(s) >= 1
         /\ Len(Tail(s)) = Len(s) - 1
         /\ \A i \in 1..Len(Tail(s)) : i + 1 \in 1..Len(s) /\ Tail(s)[i] = s[i + 1]
         /\ Head(s) = s[1] /\ Head(s) \in Nodes
  OBVIOUS

\* Putting a node in front of a list keeps the list a sequence of nodes.
LEMMA PushOnChain ==
  ASSUME NEW s \in Seq(Nodes), NEW n \in Nodes
  PROVE  /\ << n >> \o s \in Seq(Nodes)
         /\ Len(s) \in Nat
         /\ Len(<< n >> \o s) = Len(s) + 1
         /\ (<< n >> \o s)[1] = n
         /\ \A i \in 2..Len(s) + 1 : i - 1 \in 1..Len(s) /\ (<< n >> \o s)[i] = s[i - 1]
  OBVIOUS

\* Counting the nodes of a manager when one node changes its owner.
LEMMA NodeGained ==
  ASSUME NEW m \in Managers, NEW n \in Nodes, owner \in [Nodes -> Managers \cup {NULL}],
         owner[n] # m, owner' = [owner EXCEPT ![n] = m]
  PROVE  /\ Cardinality(NodesOf(m)') = Cardinality(NodesOf(m)) + 1
         /\ \A k \in Managers : k # m /\ owner[n] # k => NodesOf(k)' = NodesOf(k)
<1>1. IsFiniteSet(NodesOf(m))
  BY PoolAssumption, FS_Subset DEF NodesOf
<1>2. NodesOf(m)' = NodesOf(m) \cup {n} /\ n \notin NodesOf(m)
  BY DEF NodesOf
<1> QED
  BY <1>1, <1>2, FS_AddElement DEF NodesOf

\* A manager that loses one node has one node less.
LEMMA NodeFreed ==
  ASSUME NEW m \in Managers, NEW n \in Nodes, owner \in [Nodes -> Managers \cup {NULL}],
         owner[n] = m, owner' = [owner EXCEPT ![n] = NULL]
  PROVE  /\ Cardinality(NodesOf(m)') = Cardinality(NodesOf(m)) - 1
         /\ Cardinality(NodesOf(m)) \in Nat \ {0}
         /\ \A k \in Managers : k # m => NodesOf(k)' = NodesOf(k)
<1>1. IsFiniteSet(NodesOf(m))
  BY PoolAssumption, FS_Subset DEF NodesOf
<1>2. NodesOf(m)' = NodesOf(m) \ {n} /\ n \in NodesOf(m)
  BY PoolAssumption DEF NodesOf
<1>3. Cardinality(NodesOf(m)) \in Nat /\ Cardinality(NodesOf(m)) # 0
  BY <1>1, <1>2, FS_CardinalityType, FS_EmptySet
<1>4. Cardinality(NodesOf(m) \ {n}) = Cardinality(NodesOf(m)) - 1
  BY <1>1, <1>2, FS_RemoveElement
<1>5. \A k \in Managers : k # m => NodesOf(k)' = NodesOf(k)
  BY PoolAssumption DEF NodesOf
<1> QED
  BY <1>2, <1>3, <1>4, <1>5

-----------------------------------------------------------------------------
\* The types of what the invariants about nodes speak of, without sequences.
NodeTypes ==
  /\ owner \in [Nodes -> Managers \cup {NULL}]
  /\ host \in [Nodes -> Servers \cup {NULL}]
  /\ open \subseteq Nodes
  /\ idle \in [Nodes -> 0..MaxAge] /\ MaxAge \in Nat
  /\ total \in [Managers -> Nat] /\ free \in [Managers -> Nat]
  /\ \A k \in Managers : Len(chain[k]) \in Nat
  /\ \A k \in Managers : \A i \in 1..Len(chain[k]) : chain[k][i] \in Nodes

\* What the invariants say about the nodes in the free lists.
ListsOk ==
  \A k \in Managers : \A i \in 1..Len(chain[k]) :
    /\ chain[k][i] \in Nodes
    /\ owner[chain[k][i]] = k
    /\ chain[k][i] \in open
    /\ \A u \in Threads : node[u] # chain[k][i]
    /\ \A j \in 1..Len(chain[k]) : chain[k][i] = chain[k][j] => i = j
    /\ \A j \in 1..Len(chain[k]) : i <= j => idle[chain[k][i]] <= idle[chain[k][j]]

\* The invariant gives what the lemmas on the free lists need.
LEMMA ListFacts == IInv => NodeTypes /\ ListsOk
<1> SUFFICES ASSUME IInv PROVE NodeTypes /\ ListsOk
  OBVIOUS
<1>1. \A k \in Managers : chain[k] \in Seq(Nodes)
  BY DEF IInv, TypeOK
<1>2. NodeTypes
  BY <1>1, PoolAssumption DEF IInv, TypeOK, NodeTypes, MaxAge
<1> QED
  BY <1>2 DEF IInv, NodeTypes, ListsOk, NoConnectionShared, SocketsMatchNodes, FreshestFirst

\* A step that leaves the free lists alone, and what they show of their nodes.
LEMMA ListsKept ==
  ASSUME NodeTypes, ListsOk, chain' = chain,
         \A n \in Nodes : Free(n) =>
           /\ owner'[n] = owner[n] /\ idle'[n] = idle[n] /\ n \in open'
           /\ \A u \in Threads : node'[u] # n
  PROVE  ListsOk' /\ \A n \in Nodes : Free(n)' <=> Free(n)
<1>1. \A k \in Managers : \A i \in 1..Len(chain[k]) : chain[k][i] \in Nodes /\ Free(chain[k][i])
  BY DEF Free, NodeTypes
<1>2. ASSUME NEW k \in Managers, NEW i \in 1..Len(chain[k])
      PROVE  /\ chain[k][i] \in Nodes
             /\ owner'[chain[k][i]] = k
             /\ chain[k][i] \in open'
             /\ \A u \in Threads : node'[u] # chain[k][i]
             /\ \A j \in 1..Len(chain[k]) : chain[k][i] = chain[k][j] => i = j
             /\ \A j \in 1..Len(chain[k]) : i <= j => idle'[chain[k][i]] <= idle'[chain[k][j]]
  BY <1>1 DEF ListsOk
<1>3. ListsOk'
  BY <1>2 DEF ListsOk
<1> QED
  BY <1>3 DEF Free

\* The free list of m after its head was taken: the positions move up by one
\* and the other lists stay as they are.
Popped(m) ==
  /\ Len(chain[m]) \in Nat \ {0} /\ Len(chain'[m]) = Len(chain[m]) - 1
  /\ \A i \in 1..Len(chain'[m]) : i + 1 \in 1..Len(chain[m]) /\ chain'[m][i] = chain[m][i + 1]
  /\ \A k \in Managers : k # m => chain'[k] = chain[k]

\* Taking the head off a free list: what the next state of the list is.
LEMMA PopNodeEffect ==
  ASSUME IInv, NEW m \in Managers, PopNode(m)
  PROVE  /\ Popped(m) /\ chain' \in [Managers -> Seq(Nodes)]
         /\ chain[m][1] \in Nodes /\ Head(chain[m]) = chain[m][1]
         /\ owner[chain[m][1]] = m /\ chain[m][1] \in open
         /\ \A t \in Threads : node[t] # chain[m][1]
         /\ \A i \in 2..Len(chain[m]) : chain[m][i] # chain[m][1]
<1>1. chain[m] \in Seq(Nodes) /\ chain[m] # << >>
  BY DEF IInv, TypeOK, PopNode
<1>2. chain' = [chain EXCEPT ![m] = Tail(chain[m])] /\ chain \in [Managers -> Seq(Nodes)]
  BY DEF IInv, TypeOK, PopNode
<1>3. Popped(m) /\ chain' \in [Managers -> Seq(Nodes)]
  BY <1>1, <1>2, TailOfChain DEF Popped
<1>4. 1 \in 1..Len(chain[m]) /\ chain[m][1] \in Nodes /\ Head(chain[m]) = chain[m][1]
  BY <1>1, TailOfChain
<1>5. /\ owner[chain[m][1]] = m /\ chain[m][1] \in open
      /\ \A t \in Threads : node[t] # chain[m][1]
      /\ \A i \in 1..Len(chain[m]) : chain[m][i] = chain[m][1] => i = 1
  BY <1>4 DEF IInv, NoConnectionShared, SocketsMatchNodes
<1> QED
  BY <1>3, <1>4, <1>5 DEF Popped

\* The free lists stay in order when one node leaves the head of one of them
\* and nothing that the lists show of their other nodes is touched.
LEMMA PoppedLists ==
  ASSUME NodeTypes, ListsOk, NEW m \in Managers, Popped(m),
         \A i \in 2..Len(chain[m]) : chain[m][i] # chain[m][1],
         owner[chain[m][1]] = m,
         \A n \in Nodes : n # chain[m][1] =>
           owner'[n] = owner[n] /\ idle'[n] = idle[n] /\ (n \in open' <=> n \in open),
         \A n \in Nodes, u \in Threads : n # chain[m][1] /\ node'[u] = n => node[u] = n
  PROVE  ListsOk' /\ \A n \in Nodes : n # chain[m][1] => (Free(n) <=> Free(n)')
<1>1. \A k \in Managers : k # m =>
        /\ chain'[k] = chain[k]
        /\ \A i \in 1..Len(chain[k]) : chain[k][i] \in Nodes /\ chain[k][i] # chain[m][1]
  BY DEF ListsOk, Popped
<1>2. \A i \in 1..Len(chain'[m]) :
        /\ i + 1 \in 2..Len(chain[m]) /\ i + 1 \in 1..Len(chain[m])
        /\ chain'[m][i] = chain[m][i + 1]
        /\ chain'[m][i] \in Nodes /\ chain'[m][i] # chain[m][1]
  BY DEF Popped, NodeTypes
<1>3. ASSUME NEW k \in Managers, k # m, NEW i \in 1..Len(chain'[k])
      PROVE  /\ chain'[k][i] \in Nodes
             /\ owner'[chain'[k][i]] = k
             /\ chain'[k][i] \in open'
             /\ \A u \in Threads : node'[u] # chain'[k][i]
             /\ \A j \in 1..Len(chain'[k]) : chain'[k][i] = chain'[k][j] => i = j
             /\ \A j \in 1..Len(chain'[k]) : i <= j => idle'[chain'[k][i]] <= idle'[chain'[k][j]]
  BY <1>1, <1>3 DEF ListsOk
<1>4. ASSUME NEW i \in 1..Len(chain'[m])
      PROVE  /\ chain'[m][i] \in Nodes
             /\ owner'[chain'[m][i]] = m
             /\ chain'[m][i] \in open'
             /\ \A u \in Threads : node'[u] # chain'[m][i]
             /\ \A j \in 1..Len(chain'[m]) : chain'[m][i] = chain'[m][j] => i = j
             /\ \A j \in 1..Len(chain'[m]) : i <= j => idle'[chain'[m][i]] <= idle'[chain'[m][j]]
  <2>1. /\ \A u \in Threads : node[u] # chain[m][i + 1]
        /\ owner[chain[m][i + 1]] = m /\ chain[m][i + 1] \in open
    BY <1>2 DEF ListsOk
  <2>2. ASSUME NEW j \in 1..Len(chain'[m])
        PROVE  /\ chain'[m][i] = chain'[m][j] => i = j
               /\ i <= j => idle'[chain'[m][i]] <= idle'[chain'[m][j]]
    <3>1. chain[m][i + 1] = chain[m][j + 1] => i + 1 = j + 1
      BY <1>2 DEF ListsOk
    <3>2. i <= j => idle[chain[m][i + 1]] <= idle[chain[m][j + 1]]
      BY <1>2 DEF ListsOk
    <3>3. chain'[m][i] = chain'[m][j] => i = j
      BY <1>2, <3>1 DEF Popped
    <3>4. i <= j => idle'[chain'[m][i]] <= idle'[chain'[m][j]]
      BY <1>2, <3>2
    <3> QED
      BY <3>3, <3>4
  <2> QED
    BY <1>2, <2>1, <2>2
<1>5. ASSUME NEW n \in Nodes, n # chain[m][1]
      PROVE  Free(n) <=> Free(n)'
  <2>1. \A i \in 1..Len(chain[m]) :
          chain[m][i] = n => i - 1 \in 1..Len(chain'[m]) /\ chain'[m][i - 1] = n
    BY <1>5 DEF Popped
  <2>2. \A k \in Managers :
          (\E i \in 1..Len(chain[k]) : chain[k][i] = n) => \E i \in 1..Len(chain'[k]) : chain'[k][i] = n
    BY <1>1, <2>1
  <2>3. \A k \in Managers :
          (\E i \in 1..Len(chain'[k]) : chain'[k][i] = n) => \E i \in 1..Len(chain[k]) : chain[k][i] = n
    BY <1>1, <1>2
  <2> QED
    BY <2>2, <2>3 DEF Free
<1>6. ListsOk'
  BY <1>3, <1>4 DEF ListsOk
<1> QED
  BY <1>5, <1>6

-----------------------------------------------------------------------------
\* The types of a thread's variables when it returns from the pool.
LEMMA ReturnTypes ==
  ASSUME TypeOK, NEW t \in Threads, NEW n \in Nodes \cup {NULL}, Return(t, n)
  PROVE  /\ pc' \in [Threads -> {"idle", "get", "locked", "connect", "have"}]
         /\ server' \in [Threads -> Servers \cup {NULL}]
         /\ cm' \in [Threads -> Managers \cup {NULL}]
         /\ node' \in [Threads -> Nodes \cup {NULL}]
         /\ lag' \in [Threads -> 0..MaxLag]
  BY PoolAssumption DEF TypeOK, Return

\* conn_pool_get_connection closing an expired head of the free list.
LEMMA DropExpiredInv ==
  ASSUME IInv, NEW t \in Threads, DropExpired(t)
  PROVE  IInv'
<1> USE PoolAssumption
<1>0. PICK m \in Managers : m = cm[t] /\ PopNode(m)
  BY DEF IInv, TypeOK, CallState, DropExpired, Timed
<1>1. NodeTypes /\ ListsOk
  BY ListFacts
<1>2. PICK n \in Nodes :
      /\ n = chain[m][1]
      /\ Popped(m) /\ chain' \in [Managers -> Seq(Nodes)]
      /\ Head(chain[cm[t]]) = n
      /\ owner[n] = m /\ n \in open
      /\ \A u \in Threads : node[u] # n
      /\ \A i \in 2..Len(chain[m]) : chain[m][i] # n
  BY <1>0, PopNodeEffect
<1>3. /\ owner' = [owner EXCEPT ![n] = NULL]
      /\ host' = [host EXCEPT ![n] = NULL]
      /\ open' = open \ {n}
      /\ free' = [free EXCEPT ![m] = free[m] - 1]
      /\ total' = [total EXCEPT ![m] = total[m] - 1]
      /\ idle' = [idle EXCEPT ![n] = 0]
      /\ UNCHANGED << hash, used, lock, pc, server, cm, node, lag, destroyed >>
  BY <1>0, <1>2 DEF DropExpired, PopNode, FreeNode
<1>4. /\ Cardinality(NodesOf(m)') = Cardinality(NodesOf(m)) - 1
      /\ Cardinality(NodesOf(m)) \in Nat \ {0}
      /\ \A k \in Managers : k # m => NodesOf(k)' = NodesOf(k)
  BY <1>0, <1>1, <1>2, <1>3, NodeFreed DEF NodeTypes
<1>5. ListsOk' /\ \A x \in Nodes : x # n => (Free(x) <=> Free(x)')
  <2>1. \A x \in Nodes : x # chain[m][1] =>
          owner'[x] = owner[x] /\ idle'[x] = idle[x] /\ (x \in open' <=> x \in open)
    BY <1>1, <1>2, <1>3 DEF NodeTypes
  <2>2. node' = node
    BY <1>3
  <2> QED
    BY <1>1, <1>2, <2>1, <2>2, PoppedLists
<1>6. CountsExact' /\ total[m] - 1 \in Nat /\ free[m] - 1 \in Nat
  <2>1. ASSUME NEW k \in Managers, k # m
        PROVE  total'[k] = Cardinality(NodesOf(k)') /\ free'[k] = Len(chain'[k])
    BY <1>1, <1>2, <1>3, <1>4, <2>1 DEF IInv, NodeTypes, CountsExact, Popped
  <2>2. /\ total'[m] = total[m] - 1 /\ free'[m] = free[m] - 1
        /\ total[m] = Cardinality(NodesOf(m)) /\ free[m] = Len(chain[m])
    BY <1>1, <1>3 DEF IInv, NodeTypes, CountsExact
  <2> QED
    BY <1>2, <1>4, <2>1, <2>2 DEF CountsExact, Popped
<1>7. TypeOK'
  BY <1>0, <1>1, <1>2, <1>3, <1>6 DEF IInv, TypeOK, MaxAge
<1>8. WithinLimit'
  BY <1>0, <1>1, <1>3 DEF IInv, TypeOK, WithinLimit
<1>9. NoConnectionShared' /\ FreshestFirst'
  BY <1>3, <1>5 DEF IInv, NoConnectionShared, FreshestFirst, ListsOk
<1>10. SocketsMatchNodes'
  BY <1>0, <1>1, <1>2, <1>3, <1>5 DEF IInv, SocketsMatchNodes, NodeTypes, ListsOk
<1>11. CallState'
  BY <1>0, <1>1, <1>2, <1>3 DEF IInv, TypeOK, CallState, Timed
<1>12. TableState'
  BY <1>0, <1>1, <1>2, <1>3, <1>5 DEF IInv, NodeTypes, TableState, Timed
<1> QED
  BY <1>6, <1>7, <1>8, <1>9, <1>10, <1>11, <1>12 DEF IInv

\* conn_pool_get_connection handing out the head of the free list.
LEMMA ReuseInv ==
  ASSUME IInv, NEW t \in Threads, Reuse(t)
  PROVE  IInv'
<1> USE PoolAssumption
<1>0. PICK m \in Managers : m = cm[t] /\ PopNode(m) /\ pc[t] = "locked" /\ m \in used
  BY DEF IInv, TypeOK, CallState, Reuse, Timed
<1>1. NodeTypes /\ ListsOk
  BY ListFacts
<1>2. PICK n \in Nodes :
      /\ n = chain[m][1]
      /\ Popped(m) /\ chain' \in [Managers -> Seq(Nodes)]
      /\ Head(chain[cm[t]]) = n
      /\ owner[n] = m /\ n \in open
      /\ \A u \in Threads : node[u] # n
      /\ \A i \in 2..Len(chain[m]) : chain[m][i] # n
  BY <1>0, PopNodeEffect
<1>3. /\ free' = [free EXCEPT ![m] = free[m] - 1]
      /\ idle' = [idle EXCEPT ![n] = 0]
      /\ lock' = [lock EXCEPT ![m] = NULL]
      /\ node' = [node EXCEPT ![t] = n]
      /\ pc' = [pc EXCEPT ![t] = "have"]
      /\ cm' = [cm EXCEPT ![t] = NULL]
      /\ server' = [server EXCEPT ![t] = NULL]
      /\ lag' = [lag EXCEPT ![t] = 0]
      /\ UNCHANGED << hash, used, total, owner, host, open, destroyed >>
  BY <1>0, <1>2 DEF Reuse, PopNode, Return, UnlockManager
<1>4. ListsOk' /\ \A x \in Nodes : x # n => (Free(x) <=> Free(x)')
  <2>1. \A x \in Nodes : x # chain[m][1] =>
          owner'[x] = owner[x] /\ idle'[x] = idle[x] /\ (x \in open' <=> x \in open)
    BY <1>1, <1>2, <1>3 DEF NodeTypes
  <2>2. \A x \in Nodes, u \in Threads : x # chain[m][1] /\ node'[u] = x => node[u] = x
    BY <1>2, <1>3 DEF IInv, TypeOK
  <2> QED
    BY <1>1, <1>2, <2>1, <2>2, PoppedLists
<1>5. CountsExact' /\ free[m] - 1 \in Nat
  <2>1. \A k \in Managers : NodesOf(k)' = NodesOf(k)
    BY <1>3 DEF NodesOf
  <2>2. ASSUME NEW k \in Managers, k # m
        PROVE  total'[k] = Cardinality(NodesOf(k)) /\ free'[k] = Len(chain'[k])
    BY <1>1, <1>2, <1>3, <2>2 DEF IInv, NodeTypes, CountsExact, Popped
  <2>3. /\ total'[m] = total[m] /\ free'[m] = free[m] - 1
        /\ total[m] = Cardinality(NodesOf(m)) /\ free[m] = Len(chain[m])
    BY <1>1, <1>3 DEF IInv, NodeTypes, CountsExact
  <2> QED
    BY <1>2, <2>1, <2>2, <2>3 DEF CountsExact, Popped
<1>6. TypeOK'
  <2>1. Return(t, n)
    BY <1>2 DEF Reuse
  <2>2. /\ pc' \in [Threads -> {"idle", "get", "locked", "connect", "have"}]
        /\ server' \in [Threads -> Servers \cup {NULL}]
        /\ cm' \in [Threads -> Managers \cup {NULL}]
        /\ node' \in [Threads -> Nodes \cup {NULL}]
        /\ lag' \in [Threads -> 0..MaxLag]
    BY <2>1, ReturnTypes DEF IInv
  <2>3. /\ free' \in [Managers -> Nat] /\ idle' \in [Nodes -> 0..MaxAge]
        /\ lock' \in [Managers -> Threads \cup {NULL}]
    BY <1>1, <1>3, <1>5 DEF NodeTypes, IInv, TypeOK
  <2> QED
    BY <1>2, <1>3, <2>2, <2>3 DEF IInv, TypeOK
<1>7. WithinLimit'
  BY <1>3 DEF IInv, WithinLimit
<1>8. NoConnectionShared' /\ FreshestFirst'
  <2>1. \A u, v \in Threads : u # v /\ node'[u] # NULL => node'[u] # node'[v]
    BY <1>0, <1>2, <1>3 DEF IInv, TypeOK, NoConnectionShared
  <2> QED
    BY <1>4, <2>1 DEF NoConnectionShared, FreshestFirst, ListsOk
<1>9. SocketsMatchNodes'
  <2>1. \A u \in Threads : pc'[u] = "have" => node'[u] \in open'
    BY <1>2, <1>3 DEF IInv, TypeOK, SocketsMatchNodes
  <2> QED
    BY <1>3, <1>4, <2>1 DEF IInv, SocketsMatchNodes, ListsOk
<1>10. CallState'
  BY <1>0, <1>1, <1>2, <1>3 DEF IInv, TypeOK, CallState, Timed
<1>11. TableState'
  <2>1. \A x \in Nodes : Free(x) \/ (\E u \in Threads : node[u] = x)
          => Free(x)' \/ \E u \in Threads : node'[u] = x
    BY <1>0, <1>1, <1>2, <1>3, <1>4 DEF IInv, TypeOK, CallState, Timed
  <2>2. \A s \in Servers, u \in Threads :
         (pc'[u] \in {"get", "locked"} \/ pc'[u] = "connect") /\ hash[s] = cm'[u] => server'[u] = s
    BY <1>0, <1>3 DEF IInv, TypeOK, TableState, Timed
  <2> QED
    BY <1>3, <2>1, <2>2 DEF IInv, TableState, Timed
<1> QED
  BY <1>5, <1>6, <1>7, <1>8, <1>9, <1>10, <1>11 DEF IInv

-----------------------------------------------------------------------------
\* conn_pool_get_connection giving up for the limit or for memory.
LEMMA GetFailsInv ==
  ASSUME IInv, NEW t \in Threads, GetFails(t)
  PROVE  IInv'
<1> USE PoolAssumption
<1>0. PICK m \in Managers : m = cm[t] /\ pc[t] = "locked"
  BY DEF IInv, TypeOK, CallState, GetFails, Timed
<1>1. NodeTypes /\ ListsOk
  BY ListFacts
<1>2. /\ lock' = [lock EXCEPT ![m] = NULL]
      /\ pc' = [pc EXCEPT ![t] = "idle"]
      /\ node' = [node EXCEPT ![t] = NULL]
      /\ cm' = [cm EXCEPT ![t] = NULL]
      /\ server' = [server EXCEPT ![t] = NULL]
      /\ UNCHANGED << managerVars, nodeVars, destroyed >>
  BY <1>0 DEF GetFails, Return, UnlockManager
<1>3. node' = node /\ chain' = chain /\ owner' = owner /\ idle' = idle /\ open' = open
  BY <1>0, <1>2 DEF IInv, TypeOK, CallState, Timed, managerVars, nodeVars
<1>4. ListsOk' /\ \A n \in Nodes : Free(n)' <=> Free(n)
  BY <1>1, <1>3 DEF ListsOk, Free
<1>5. TypeOK'
  <2>1. Return(t, NULL)
    BY DEF GetFails
  <2> QED
    BY <1>2, <2>1, ReturnTypes DEF IInv, TypeOK, managerVars, nodeVars
<1>6. CountsExact' /\ WithinLimit'
  BY <1>2 DEF IInv, CountsExact, WithinLimit, NodesOf, managerVars, nodeVars
<1>7. NoConnectionShared' /\ FreshestFirst'
  BY <1>3 DEF IInv, NoConnectionShared, FreshestFirst
<1>8. SocketsMatchNodes'
  BY <1>2, <1>3 DEF IInv, TypeOK, SocketsMatchNodes
<1>9. CallState'
  BY <1>0, <1>2 DEF IInv, TypeOK, CallState, Timed, managerVars, nodeVars
<1>10. TableState'
  BY <1>2, <1>3, <1>4 DEF IInv, TypeOK, TableState, Timed, managerVars, nodeVars
<1> QED
  BY <1>5, <1>6, <1>7, <1>8, <1>9, <1>10 DEF IInv

\* conn_pool_get_connection counting a new node before it connects.
LEMMA NewNodeInv ==
  ASSUME IInv, NEW t \in Threads, NewNode(t)
  PROVE  IInv'
<1> USE PoolAssumption
<1>0. PICK m \in Managers :
        m = cm[t] /\ pc[t] = "locked" /\ m \in used /\ server[t] \in Servers /\ lock[m] = t
  BY DEF IInv, TypeOK, CallState, NewNode, Timed
<1>1. NodeTypes /\ ListsOk
  BY ListFacts
<1>2. PICK n \in Nodes :
        /\ owner[n] = NULL
        /\ owner' = [owner EXCEPT ![n] = m]
        /\ host' = [host EXCEPT ![n] = server[t]]
        /\ node' = [node EXCEPT ![t] = n]
        /\ total' = [total EXCEPT ![m] = total[m] + 1]
        /\ lock' = [lock EXCEPT ![m] = NULL]
        /\ pc' = [pc EXCEPT ![t] = "connect"]
        /\ ~ AtLimit(m)
        /\ UNCHANGED << hash, used, chain, free, open, idle, server, cm, lag, destroyed >>
  BY <1>0 DEF NewNode, UnlockManager
<1>3. ~ Free(n) /\ n \notin open /\ \A u \in Threads : node[u] # n
  <2>1. ~ Free(n) /\ n \notin open
    BY <1>1, <1>2 DEF IInv, ListsOk, Free, SocketsMatchNodes
  <2>2. \A u \in Threads : node[u] # n
    <3>1. ASSUME NEW u \in Threads PROVE pc[u] \in {"idle", "get", "locked", "connect", "have"}
      BY DEF IInv, TypeOK
    <3>2. ASSUME NEW u \in Threads, pc[u] = "connect" PROVE owner[node[u]] # NULL
      BY <3>2 DEF IInv, TypeOK, CallState
    <3>3. ASSUME NEW u \in Threads, pc[u] = "have" PROVE owner[node[u]] # NULL
      BY <3>3 DEF IInv, SocketsMatchNodes
    <3> QED
      BY <1>2, <3>1, <3>2, <3>3 DEF IInv, CallState, Timed
  <2> QED
    BY <2>1, <2>2
<1>4. ListsOk' /\ \A x \in Nodes : Free(x)' <=> Free(x)
  <2>1. \A x \in Nodes : Free(x) =>
          /\ owner'[x] = owner[x] /\ idle'[x] = idle[x] /\ x \in open'
          /\ \A u \in Threads : node'[u] # x
    <3>1. ASSUME NEW x \in Nodes, Free(x) PROVE x \in open /\ \A u \in Threads : node[u] # x
      BY <1>1, <3>1 DEF ListsOk, Free
    <3>2. ASSUME NEW x \in Nodes, Free(x) PROVE x # n
      BY <1>3, <3>2
    <3>3. ASSUME NEW x \in Nodes, x # n, NEW u \in Threads PROVE node'[u] = x => node[u] = x
      BY <1>2, <3>3 DEF IInv, TypeOK
    <3>4. ASSUME NEW x \in Nodes, x # n PROVE owner'[x] = owner[x]
      BY <1>1, <1>2, <3>4 DEF NodeTypes
    <3>5. idle' = idle /\ open' = open
      BY <1>2
    <3> QED
      BY <3>1, <3>2, <3>3, <3>4, <3>5
  <2> QED
    BY <1>1, <1>2, <2>1, ListsKept
<1>5. /\ Cardinality(NodesOf(m)') = Cardinality(NodesOf(m)) + 1
      /\ \A k \in Managers : k # m => NodesOf(k)' = NodesOf(k)
  BY <1>1, <1>2, NodeGained DEF NodeTypes
<1>6. CountsExact' /\ WithinLimit'
  BY <1>1, <1>2, <1>5 DEF IInv, NodeTypes, CountsExact, WithinLimit, AtLimit
<1>7. TypeOK'
  BY <1>0, <1>1, <1>2 DEF IInv, TypeOK, NodeTypes
<1>8. NoConnectionShared' /\ FreshestFirst'
  <2>1. \A u, v \in Threads : u # v /\ node'[u] # NULL => node'[u] # node'[v]
    BY <1>2, <1>3 DEF IInv, TypeOK, NoConnectionShared
  <2> QED
    BY <1>4, <2>1 DEF NoConnectionShared, FreshestFirst, ListsOk
<1>9. SocketsMatchNodes'
  <2>1. \A u \in Threads : pc'[u] = "have" => node'[u] \in open'
    BY <1>2 DEF IInv, TypeOK, SocketsMatchNodes
  <2>2. \A x \in open' : owner'[x] # NULL
    BY <1>1, <1>2 DEF IInv, SocketsMatchNodes, NodeTypes
  <2> QED
    BY <1>4, <2>1, <2>2 DEF SocketsMatchNodes, ListsOk
<1>10. CallState'
  BY <1>0, <1>1, <1>2, <1>3 DEF IInv, TypeOK, CallState, Timed, NodeTypes
<1>11. TableState'
  <2>1. \A x \in Nodes : x # n => owner'[x] = owner[x] /\ host'[x] = host[x]
    BY <1>1, <1>2 DEF NodeTypes
  <2>2. \A x \in Nodes : Free(x) \/ (\E u \in Threads : node[u] = x)
          => Free(x)' \/ \E u \in Threads : node'[u] = x
    BY <1>0, <1>2, <1>4 DEF IInv, TypeOK, CallState, Timed
  <2>3. owner'[n] = m /\ host'[n] = server[t] /\ node'[t] = n
    BY <1>1, <1>2 DEF NodeTypes, IInv, TypeOK
  <2>4. \A s \in Servers, u \in Threads :
          (pc'[u] \in {"get", "locked"} \/ pc'[u] = "connect") /\ hash[s] = cm[u] => server[u] = s
    BY <1>0, <1>2 DEF IInv, TypeOK, TableState, Timed
  <2>5. \A s \in Servers, x \in Nodes :
          hash[s] # NULL /\ owner'[x] = hash[s] =>
            host'[x] = s /\ (Free(x)' \/ \E u \in Threads : node'[u] = x)
    BY <1>0, <2>1, <2>2, <2>3 DEF IInv, TableState, Timed
  <2>6. \A x \in Nodes : owner'[x] # NULL => owner'[x] \in used /\ host'[x] \in Servers
    BY <1>0, <2>1, <2>3 DEF IInv, TableState
  <2> QED
    BY <1>2, <2>4, <2>5, <2>6 DEF IInv, TableState, Timed
<1> QED
  BY <1>6, <1>7, <1>8, <1>9, <1>10, <1>11 DEF IInv

\* A holder frees its node: a failed connect and a forced close.
LEMMA GiveUpInv ==
  ASSUME IInv, NEW t \in Threads, NEW n \in Nodes, NEW m \in Managers,
         node[t] = n, owner[n] = m,
         total' = [total EXCEPT ![m] = total[m] - 1],
         FreeNode(n), Return(t, NULL),
         UNCHANGED << hash, used, chain, free, lock, idle, destroyed >>
  PROVE  IInv'
<1> USE PoolAssumption
<1>1. NodeTypes /\ ListsOk /\ ~ Timed(t)
  BY ListFacts DEF IInv, TypeOK, CallState
<1>2. /\ owner' = [owner EXCEPT ![n] = NULL]
      /\ host' = [host EXCEPT ![n] = NULL]
      /\ open' = open \ {n}
      /\ pc' = [pc EXCEPT ![t] = "idle"]
      /\ node' = [node EXCEPT ![t] = NULL]
      /\ cm' = [cm EXCEPT ![t] = NULL]
      /\ server' = [server EXCEPT ![t] = NULL]
  BY DEF FreeNode, Return
<1>3. ~ Free(n) /\ \A u \in Threads : u # t => node[u] # n
  BY <1>1 DEF IInv, NoConnectionShared, ListsOk, Free
<1>4. ListsOk' /\ \A x \in Nodes : Free(x)' <=> Free(x)
  <2>1. \A x \in Nodes : Free(x) =>
          /\ owner'[x] = owner[x] /\ idle'[x] = idle[x] /\ x \in open'
          /\ \A u \in Threads : node'[u] # x
    BY <1>1, <1>2, <1>3 DEF IInv, TypeOK, NodeTypes, ListsOk, Free
  <2> QED
    BY <1>1, <2>1, ListsKept
<1>5. /\ Cardinality(NodesOf(m)') = Cardinality(NodesOf(m)) - 1
      /\ Cardinality(NodesOf(m)) \in Nat \ {0}
      /\ \A k \in Managers : k # m => NodesOf(k)' = NodesOf(k)
  BY <1>1, <1>2, NodeFreed DEF NodeTypes
<1>6. CountsExact' /\ WithinLimit' /\ total[m] - 1 \in Nat
  BY <1>1, <1>5 DEF IInv, NodeTypes, CountsExact, WithinLimit
<1>7. TypeOK'
  BY <1>1, <1>2, <1>6, ReturnTypes DEF IInv, TypeOK, NodeTypes
<1>8. NoConnectionShared' /\ FreshestFirst'
  <2>1. \A u, v \in Threads : u # v /\ node'[u] # NULL => node'[u] # node'[v]
    BY <1>2 DEF IInv, TypeOK, NoConnectionShared
  <2> QED
    BY <1>4, <2>1 DEF NoConnectionShared, FreshestFirst, ListsOk
<1>9. SocketsMatchNodes'
  <2>1. \A u \in Threads : pc'[u] = "have" => node'[u] \in open'
    BY <1>2, <1>3 DEF IInv, TypeOK, SocketsMatchNodes
  <2>2. \A x \in open' : owner'[x] # NULL
    BY <1>1, <1>2 DEF IInv, SocketsMatchNodes, NodeTypes
  <2> QED
    BY <1>4, <2>1, <2>2 DEF SocketsMatchNodes, ListsOk
<1>10. CallState'
  BY <1>1, <1>2, <1>3 DEF IInv, TypeOK, CallState, Timed, NodeTypes
<1>11. TableState'
  <2>1. \A x \in Nodes : x # n => owner'[x] = owner[x] /\ host'[x] = host[x]
    BY <1>1, <1>2 DEF NodeTypes
  <2>2. \A x \in Nodes : x # n /\ (Free(x) \/ (\E u \in Threads : node[u] = x))
          => Free(x)' \/ \E u \in Threads : node'[u] = x
    BY <1>2, <1>4 DEF IInv, TypeOK
  <2>3. owner'[n] = NULL
    BY <1>1, <1>2 DEF NodeTypes
  <2>4. \A s \in Servers, u \in Threads :
          (pc'[u] \in {"get", "locked"} \/ pc'[u] = "connect") /\ hash[s] = cm'[u] => server'[u] = s
    BY <1>2 DEF IInv, TypeOK, TableState, Timed
  <2> QED
    BY <2>1, <2>2, <2>3, <2>4 DEF IInv, TableState, Timed
<1> QED
  BY <1>6, <1>7, <1>8, <1>9, <1>10, <1>11 DEF IInv

\* A failed connect takes its count back and frees its node.
LEMMA ConnectFailsInv ==
  ASSUME IInv, NEW t \in Threads, ConnectFails(t)
  PROVE  IInv'
<1>1. node[t] \in Nodes /\ cm[t] \in Managers /\ owner[node[t]] = cm[t]
  BY DEF IInv, TypeOK, CallState, ConnectFails
<1> QED
  BY <1>1, GiveUpInv DEF ConnectFails

\* conn_pool_close_connection_ex with bForce frees the node of its caller.
LEMMA CloseForceInv ==
  ASSUME IInv, NEW t \in Threads, CloseForce(t)
  PROVE  IInv'
<1>1. node[t] \in Nodes /\ owner[node[t]] \in Managers
  BY DEF IInv, TypeOK, CallState, SocketsMatchNodes, CloseForce
<1> QED
  BY <1>1, GiveUpInv DEF CloseForce

\* conn_pool_connect_server succeeded.
LEMMA ConnectOkInv ==
  ASSUME IInv, NEW t \in Threads, ConnectOk(t)
  PROVE  IInv'
<1> USE PoolAssumption
<1>0. PICK n \in Nodes :
        n = node[t] /\ pc[t] = "connect" /\ owner[n] = cm[t] /\ owner[n] \in Managers
  BY DEF IInv, TypeOK, CallState, ConnectOk
<1>1. NodeTypes /\ ListsOk
  BY ListFacts
<1>2. /\ open' = open \cup {n}
      /\ pc' = [pc EXCEPT ![t] = "have"]
      /\ cm' = [cm EXCEPT ![t] = NULL]
      /\ server' = [server EXCEPT ![t] = NULL]
      /\ UNCHANGED << managerVars, lock, owner, host, idle, destroyed >>
      /\ node' = node
  BY <1>0 DEF ConnectOk, Return, IInv, TypeOK
<1>3. ListsOk' /\ \A x \in Nodes : Free(x)' <=> Free(x)
  BY <1>1, <1>2 DEF ListsOk, Free, managerVars
<1>4. TypeOK'
  <2>1. Return(t, n)
    BY <1>0 DEF ConnectOk
  <2> QED
    BY <1>2, <2>1, ReturnTypes DEF IInv, TypeOK, managerVars
<1>5. CountsExact' /\ WithinLimit'
  BY <1>2 DEF IInv, CountsExact, WithinLimit, NodesOf, managerVars
<1>6. NoConnectionShared' /\ FreshestFirst'
  BY <1>2 DEF IInv, NoConnectionShared, FreshestFirst, managerVars
<1>7. SocketsMatchNodes'
  <2>1. \A u \in Threads : pc'[u] = "have" => node'[u] \in open'
    BY <1>0, <1>2 DEF IInv, TypeOK, SocketsMatchNodes
  <2> QED
    BY <1>0, <1>2, <1>3, <2>1 DEF IInv, SocketsMatchNodes, ListsOk
<1>8. CallState'
  BY <1>0, <1>2 DEF IInv, TypeOK, CallState, Timed, managerVars
<1>9. TableState'
  BY <1>2, <1>3 DEF IInv, TypeOK, TableState, Timed, managerVars
<1> QED
  BY <1>4, <1>5, <1>6, <1>7, <1>8, <1>9 DEF IInv

\* conn_pool_close_connection: the node goes to the head of its free list.
LEMMA PutBackInv ==
  ASSUME IInv, NEW t \in Threads, PutBack(t)
  PROVE  IInv'
<1> USE PoolAssumption
<1>0. PICK n \in Nodes : n = node[t] /\ pc[t] = "have" /\ n \in open /\ owner[n] \in Managers
  BY DEF IInv, TypeOK, CallState, SocketsMatchNodes, PutBack
<1>m. PICK m \in Managers : m = owner[n]
  BY <1>0
<1>1. NodeTypes /\ ListsOk
  BY ListFacts
<1>2. /\ chain' = [chain EXCEPT ![m] = << n >> \o chain[m]]
      /\ free' = [free EXCEPT ![m] = free[m] + 1]
      /\ idle' = [idle EXCEPT ![n] = 0]
      /\ pc' = [pc EXCEPT ![t] = "idle"]
      /\ node' = [node EXCEPT ![t] = NULL]
      /\ cm' = [cm EXCEPT ![t] = NULL]
      /\ server' = [server EXCEPT ![t] = NULL]
      /\ UNCHANGED << hash, used, total, lock, owner, host, open, destroyed >>
  BY <1>0, <1>m DEF PutBack, Return
<1>3. ~ Free(n) /\ \A u \in Threads : u # t => node[u] # n
  BY <1>0, <1>1 DEF IInv, NoConnectionShared, ListsOk, Free
<1>4. /\ Len(chain[m]) \in Nat /\ Len(chain'[m]) = Len(chain[m]) + 1
      /\ chain'[m][1] = n
      /\ \A i \in 2..Len(chain[m]) + 1 : i - 1 \in 1..Len(chain[m]) /\ chain'[m][i] = chain[m][i - 1]
      /\ \A k \in Managers : k # m => chain'[k] = chain[k]
  <2>1. chain \in [Managers -> Seq(Nodes)] /\ chain[m] \in Seq(Nodes)
    BY DEF IInv, TypeOK
  <2>2. chain'[m] = << n >> \o chain[m]
    BY <1>2, <2>1
  <2> QED
    BY <1>2, <2>1, <2>2, PushOnChain
<1>5. \A x \in Nodes : x # n => idle'[x] = idle[x] /\ \A u \in Threads : node'[u] = x => node[u] = x
  BY <1>1, <1>2 DEF NodeTypes, IInv, TypeOK
<1>6. \A k \in Managers : \A i \in 1..Len(chain[k]) : chain[k][i] \in Nodes /\ chain[k][i] # n
  BY <1>1, <1>3 DEF Free, NodeTypes
<1>7. ListsOk'
  <2>1. ASSUME NEW k \in Managers, k # m, NEW i \in 1..Len(chain'[k])
        PROVE  /\ chain'[k][i] \in Nodes
               /\ owner'[chain'[k][i]] = k
               /\ chain'[k][i] \in open'
               /\ \A u \in Threads : node'[u] # chain'[k][i]
               /\ \A j \in 1..Len(chain'[k]) : chain'[k][i] = chain'[k][j] => i = j
               /\ \A j \in 1..Len(chain'[k]) : i <= j => idle'[chain'[k][i]] <= idle'[chain'[k][j]]
    <3>1. chain'[k] = chain[k]
      BY <1>4, <2>1
    <3>2. \A j \in 1..Len(chain[k]) : idle'[chain[k][j]] = idle[chain[k][j]]
      BY <1>5, <1>6
    <3>3. /\ chain[k][i] \in Nodes /\ owner[chain[k][i]] = k /\ chain[k][i] \in open
          /\ \A u \in Threads : node[u] # chain[k][i]
          /\ \A j \in 1..Len(chain[k]) : chain[k][i] = chain[k][j] => i = j
          /\ \A j \in 1..Len(chain[k]) : i <= j => idle[chain[k][i]] <= idle[chain[k][j]]
      BY <1>1, <3>1 DEF ListsOk
    <3>4. chain[k][i] # n
      BY <1>6, <3>1
    <3>5. owner' = owner /\ open' = open /\ \A u \in Threads : node'[u] # chain[k][i]
      BY <1>2, <1>5, <3>3, <3>4
    <3>6. i \in 1..Len(chain[k])
      BY <3>1
    <3>7. \A j \in 1..Len(chain[k]) : i <= j => idle'[chain[k][i]] <= idle'[chain[k][j]]
      BY <3>2, <3>3, <3>6
    <3> QED
      BY <3>1, <3>3, <3>5, <3>7
  <2>2. ASSUME NEW i \in 1..Len(chain'[m])
        PROVE  /\ chain'[m][i] \in Nodes
               /\ owner'[chain'[m][i]] = m
               /\ chain'[m][i] \in open'
               /\ \A u \in Threads : node'[u] # chain'[m][i]
               /\ \A j \in 1..Len(chain'[m]) : chain'[m][i] = chain'[m][j] => i = j
               /\ \A j \in 1..Len(chain'[m]) : i <= j => idle'[chain'[m][i]] <= idle'[chain'[m][j]]
    <3>0. ASSUME NEW j \in 1..Len(chain'[m]), j # 1
          PROVE  /\ j \in 2..Len(chain[m]) + 1 /\ j - 1 \in 1..Len(chain[m])
                 /\ chain'[m][j] = chain[m][j - 1] /\ chain'[m][j] # n /\ chain'[m][j] \in Nodes
      BY <1>4, <1>6, <3>0
    <3>1. CASE i = 1
      <4>1. idle'[n] = 0 /\ \A u \in Threads : node'[u] # n
        BY <1>0, <1>1, <1>2, <1>3 DEF NodeTypes, IInv, TypeOK
      <4>2. \A j \in 1..Len(chain'[m]) : chain'[m][j] \in Nodes /\ idle'[chain'[m][j]] >= 0
        <5>1. idle' \in [Nodes -> Nat]
          BY <1>1, <1>2 DEF NodeTypes
        <5> QED
          BY <1>4, <3>0, <5>1
      <4>3. chain'[m][i] = n /\ owner' = owner /\ open' = open
        BY <1>2, <1>4, <3>1
      <4>4. ASSUME NEW j \in 1..Len(chain'[m])
            PROVE  /\ chain'[m][i] = chain'[m][j] => i = j
                   /\ idle'[chain'[m][i]] <= idle'[chain'[m][j]]
        <5>1. chain'[m][i] = chain'[m][j] => i = j
          BY <3>0, <3>1, <4>3
        <5>2. idle'[chain'[m][j]] >= 0
          BY <4>2
        <5> QED
          BY <4>1, <4>3, <5>1, <5>2
      <4> QED
        BY <1>0, <1>m, <4>1, <4>3, <4>4
    <3>2. CASE i # 1
      <4>1. /\ owner[chain[m][i - 1]] = m /\ chain[m][i - 1] \in open
            /\ \A u \in Threads : node[u] # chain[m][i - 1]
        BY <1>1, <3>0, <3>2 DEF ListsOk
      <4>2. ASSUME NEW j \in 1..Len(chain'[m]), j # 1
            PROVE  /\ chain'[m][i] = chain'[m][j] => i = j
                   /\ i <= j => idle'[chain'[m][i]] <= idle'[chain'[m][j]]
        <5>1. chain[m][i - 1] = chain[m][j - 1] => i - 1 = j - 1
          BY <1>1, <3>0, <3>2, <4>2 DEF ListsOk
        <5>2. i - 1 <= j - 1 => idle[chain[m][i - 1]] <= idle[chain[m][j - 1]]
          BY <1>1, <3>0, <3>2, <4>2 DEF ListsOk
        <5>3. i \in Nat /\ j \in Nat
          BY <1>4
        <5>4. /\ chain'[m][i] = chain[m][i - 1] /\ chain'[m][j] = chain[m][j - 1]
              /\ idle'[chain'[m][i]] = idle[chain[m][i - 1]]
              /\ idle'[chain'[m][j]] = idle[chain[m][j - 1]]
          BY <1>5, <3>0, <3>2, <4>2
        <5> QED
          BY <5>1, <5>2, <5>3, <5>4
      <4>3. chain'[m][i] # chain'[m][1] /\ ~ (i <= 1)
        BY <1>4, <3>0, <3>2
      <4> QED
        BY <1>2, <1>5, <3>0, <3>2, <4>1, <4>2, <4>3
    <3> QED
      BY <3>1, <3>2
  <2> QED
    BY <2>1, <2>2 DEF ListsOk
<1>8. Free(n)' /\ \A x \in Nodes : Free(x) => Free(x)'
  <2>1. Free(n)'
    BY <1>4 DEF Free
  <2>2. ASSUME NEW x \in Nodes, NEW k \in Managers, NEW i \in 1..Len(chain[k]), chain[k][i] = x
        PROVE  \E j \in 1..Len(chain'[k]) : chain'[k][j] = x
    <3>1. CASE k = m
      <4>1. i + 1 \in 2..Len(chain[m]) + 1 /\ i + 1 \in 1..Len(chain'[m]) /\ i + 1 - 1 = i
        BY <1>4, <3>1
      <4> QED
        BY <1>4, <2>2, <3>1, <4>1
    <3>2. CASE k # m
      BY <1>4, <2>2, <3>2
    <3> QED
      BY <3>1, <3>2
  <2> QED
    BY <2>1, <2>2 DEF Free
<1>9. CountsExact' /\ WithinLimit'
  <2>1. \A k \in Managers : NodesOf(k)' = NodesOf(k)
    BY <1>2 DEF NodesOf
  <2>2. \A k \in Managers : free'[k] = Len(chain'[k])
    BY <1>1, <1>2, <1>4 DEF IInv, CountsExact, NodeTypes
  <2> QED
    BY <1>2, <2>1, <2>2 DEF IInv, CountsExact, WithinLimit
<1>10. TypeOK'
  <2>1. Return(t, NULL)
    BY DEF PutBack
  <2>2. /\ pc' \in [Threads -> {"idle", "get", "locked", "connect", "have"}]
        /\ server' \in [Threads -> Servers \cup {NULL}]
        /\ cm' \in [Threads -> Managers \cup {NULL}]
        /\ node' \in [Threads -> Nodes \cup {NULL}]
        /\ lag' \in [Threads -> 0..MaxLag]
    BY <2>1, ReturnTypes DEF IInv
  <2>3. free' \in [Managers -> Nat] /\ idle' \in [Nodes -> 0..MaxAge]
    BY <1>1, <1>2 DEF NodeTypes
  <2>4. chain' \in [Managers -> Seq(Nodes)]
    BY <1>2, PushOnChain DEF IInv, TypeOK
  <2> QED
    BY <1>2, <2>2, <2>3, <2>4 DEF IInv, TypeOK
<1>11. NoConnectionShared' /\ FreshestFirst'
  <2>1. \A u, v \in Threads : u # v /\ node'[u] # NULL => node'[u] # node'[v]
    BY <1>2 DEF IInv, TypeOK, NoConnectionShared
  <2> QED
    BY <1>7, <2>1 DEF NoConnectionShared, FreshestFirst, ListsOk
<1>12. SocketsMatchNodes'
  <2>1. \A u \in Threads : pc'[u] = "have" => node'[u] \in open'
    BY <1>2 DEF IInv, TypeOK, SocketsMatchNodes
  <2> QED
    BY <1>2, <1>7, <2>1 DEF IInv, SocketsMatchNodes, ListsOk
<1>13. CallState'
  BY <1>0, <1>2 DEF IInv, TypeOK, CallState, Timed
<1>14. TableState'
  <2>1. \A x \in Nodes : Free(x) \/ (\E u \in Threads : node[u] = x)
          => Free(x)' \/ \E u \in Threads : node'[u] = x
    BY <1>0, <1>2, <1>8 DEF IInv, TypeOK
  <2>2. \A s \in Servers, u \in Threads :
          (pc'[u] \in {"get", "locked"} \/ pc'[u] = "connect") /\ hash[s] = cm'[u] => server'[u] = s
    BY <1>2 DEF IInv, TypeOK, TableState, Timed
  <2> QED
    BY <1>2, <2>1, <2>2 DEF IInv, TableState, Timed
<1> QED
  BY <1>9, <1>10, <1>11, <1>12, <1>13, <1>14 DEF IInv

\* conn_pool_close_connection of a node whose manager is not in the table.
LEMMA CloseFailsInv ==
  ASSUME IInv, NEW t \in Threads, CloseFails(t)
  PROVE  IInv'
<1> USE PoolAssumption
<1>0. PICK n \in Nodes :
        n = node[t] /\ pc[t] = "have" /\ ~ Managed(n) /\ owner[n] # NULL
  BY DEF IInv, TypeOK, CallState, SocketsMatchNodes, CloseFails
<1>1. NodeTypes /\ ListsOk
  BY ListFacts
<1>2. /\ pc' = [pc EXCEPT ![t] = "idle"]
      /\ node' = [node EXCEPT ![t] = NULL]
      /\ cm' = [cm EXCEPT ![t] = NULL]
      /\ server' = [server EXCEPT ![t] = NULL]
      /\ UNCHANGED << managerVars, lock, nodeVars, destroyed >>
  BY <1>0 DEF CloseFails, Return
<1>3. ListsOk' /\ \A x \in Nodes : Free(x)' <=> Free(x)
  <2>1. \A x \in Nodes : Free(x) =>
          /\ owner'[x] = owner[x] /\ idle'[x] = idle[x] /\ x \in open'
          /\ \A u \in Threads : node'[u] # x
    BY <1>1, <1>2 DEF IInv, TypeOK, NodeTypes, ListsOk, Free, managerVars, nodeVars
  <2> QED
    BY <1>1, <1>2, <2>1, ListsKept DEF managerVars
<1>4. TypeOK'
  <2>1. Return(t, NULL)
    BY DEF CloseFails
  <2> QED
    BY <1>2, <2>1, ReturnTypes DEF IInv, TypeOK, managerVars, nodeVars
<1>5. CountsExact' /\ WithinLimit'
  BY <1>2 DEF IInv, CountsExact, WithinLimit, NodesOf, managerVars, nodeVars
<1>6. NoConnectionShared' /\ FreshestFirst'
  <2>1. \A u, v \in Threads : u # v /\ node'[u] # NULL => node'[u] # node'[v]
    BY <1>2 DEF IInv, TypeOK, NoConnectionShared
  <2> QED
    BY <1>3, <2>1 DEF NoConnectionShared, FreshestFirst, ListsOk
<1>7. SocketsMatchNodes'
  BY <1>2 DEF IInv, TypeOK, SocketsMatchNodes, managerVars, nodeVars
<1>8. CallState'
  BY <1>0, <1>2 DEF IInv, TypeOK, CallState, Timed, managerVars, nodeVars
<1>9. TableState'
  <2>1. \A x \in Nodes : x # n /\ (Free(x) \/ (\E u \in Threads : node[u] = x))
          => Free(x)' \/ \E u \in Threads : node'[u] = x
    BY <1>0, <1>2, <1>3 DEF IInv, TypeOK
  <2>2. \A s \in Servers : hash[s] # owner[n]
    BY <1>0 DEF IInv, TableState, Managed
  <2>3. \A s \in Servers, u \in Threads :
          (pc'[u] \in {"get", "locked"} \/ pc'[u] = "connect") /\ hash[s] = cm'[u] => server'[u] = s
    BY <1>2 DEF IInv, TypeOK, TableState, Timed
  <2> QED
    BY <1>2, <2>1, <2>2, <2>3 DEF IInv, TableState, Timed, managerVars, nodeVars
<1> QED
  BY <1>4, <1>5, <1>6, <1>7, <1>8, <1>9 DEF IInv

\* conn_pool_get_connection waiting for cm->lock and getting it.
LEMMA LockManagerInv ==
  ASSUME IInv, NEW t \in Threads, LockManager(t)
  PROVE  IInv'
<1> USE PoolAssumption
<1>0. PICK m \in Managers : m = cm[t] /\ pc[t] = "get" /\ lock[m] = NULL
  BY DEF IInv, TypeOK, CallState, LockManager, Timed
<1>1. /\ lock' = [lock EXCEPT ![m] = t]
      /\ pc' = [pc EXCEPT ![t] = "locked"]
      /\ UNCHANGED << managerVars, nodeVars, server, cm, node, lag, destroyed >>
  BY <1>0 DEF LockManager
<1>2. TypeOK'
  BY <1>1 DEF IInv, TypeOK, managerVars, nodeVars
<1>3. CountsExact' /\ WithinLimit' /\ NoConnectionShared' /\ FreshestFirst'
  BY <1>1 DEF IInv, CountsExact, WithinLimit, NoConnectionShared, FreshestFirst, NodesOf,
              managerVars, nodeVars
<1>4. SocketsMatchNodes'
  BY <1>1 DEF IInv, TypeOK, SocketsMatchNodes, managerVars, nodeVars
<1>5. CallState'
  BY <1>0, <1>1 DEF IInv, TypeOK, CallState, Timed, managerVars, nodeVars
<1>6. TableState'
  <2>1. \A u \in Threads : Timed(u)' <=> Timed(u)
    BY <1>0, <1>1 DEF IInv, TypeOK, Timed
  <2>2. \A u \in Threads : pc'[u] = "connect" <=> pc[u] = "connect"
    BY <1>0, <1>1 DEF IInv, TypeOK
  <2>3. \A n \in Nodes : Free(n)' <=> Free(n)
    BY <1>1 DEF Free, managerVars
  <2> QED
    BY <1>1, <2>1, <2>2, <2>3 DEF IInv, TableState, managerVars, nodeVars
<1> QED
  BY <1>2, <1>3, <1>4, <1>5, <1>6 DEF IInv

\* conn_pool_get_connection finding or making the manager.
LEMMA FindManagerInv ==
  ASSUME IInv, NEW t \in Threads, NEW s \in Servers, FindManager(t, s)
  PROVE  IInv'
<1> USE PoolAssumption
<1>1. NodeTypes /\ ListsOk
  BY ListFacts
<1>2. PICK m \in Managers :
        /\ m \in used'
        /\ hash' = hash \/ (m \notin used /\ hash' = [hash EXCEPT ![s] = m])
        /\ used \subseteq used' /\ used' \subseteq Managers
        /\ m \notin used \/ hash[s] = m
        /\ cm' = [cm EXCEPT ![t] = m]
        /\ UNCHANGED << chain, total, free >>
  <2>1. CASE hash[s] # NULL /\ UNCHANGED managerVars /\ cm' = [cm EXCEPT ![t] = hash[s]]
    BY <2>1 DEF IInv, TypeOK, TableState, managerVars
  <2>2. ASSUME NEW m \in Managers \ used,
               used' = used \cup {m},
               chain' = [chain EXCEPT ![m] = << >>],
               total' = [total EXCEPT ![m] = 0],
               free' = [free EXCEPT ![m] = 0],
               hash' \in {hash, [hash EXCEPT ![s] = m]},
               cm' = [cm EXCEPT ![t] = m]
        PROVE  UNCHANGED << chain, total, free >>
    <3>1. NodesOf(m) = {}
      BY DEF IInv, TableState, NodesOf
    <3>2. chain[m] \in Seq(Nodes) /\ Len(chain[m]) = 0
      <4>1. chain[m] \in Seq(Nodes) /\ Len(chain[m]) \in Nat
        BY <1>1 DEF IInv, TypeOK, NodeTypes
      <4>2. ASSUME Len(chain[m]) # 0 PROVE FALSE
        <5>1. 1 \in 1..Len(chain[m])
          BY <4>1, <4>2
        <5>2. chain[m][1] \in Nodes /\ owner[chain[m][1]] = m
          BY <1>1, <5>1 DEF ListsOk
        <5> QED
          BY <3>1, <5>2 DEF NodesOf
      <4> QED
        BY <4>1, <4>2
    <3>3. chain[m] = << >>
      BY <3>2
    <3>4. total[m] = 0 /\ free[m] = 0
      BY <3>1, <3>2, FS_EmptySet DEF IInv, CountsExact
    <3> QED
      BY <2>2, <3>3, <3>4 DEF IInv, TypeOK
  <2> QED
    BY <2>1, <2>2 DEF FindManager, IInv, TypeOK
<1>3. /\ pc[t] = "idle"
      /\ pc' = [pc EXCEPT ![t] = "get"]
      /\ server' = [server EXCEPT ![t] = s]
      /\ UNCHANGED << lock, nodeVars, node, lag, destroyed >>
  BY DEF FindManager
<1>4. TypeOK'
  BY <1>2, <1>3 DEF IInv, TypeOK, nodeVars
<1>5. CountsExact' /\ WithinLimit' /\ NoConnectionShared' /\ FreshestFirst'
  BY <1>2, <1>3 DEF IInv, CountsExact, WithinLimit, NoConnectionShared, FreshestFirst, NodesOf, nodeVars
<1>6. SocketsMatchNodes'
  BY <1>2, <1>3 DEF IInv, TypeOK, SocketsMatchNodes, nodeVars
<1>7. CallState'
  BY <1>2, <1>3 DEF IInv, TypeOK, CallState, Timed, nodeVars
<1>8. TableState'
  <2>1. \A x \in Nodes : Free(x)' <=> Free(x)
    BY <1>2 DEF Free
  <2>2. \A r \in Servers : hash'[r] = hash[r] \/ (r = s /\ hash'[r] = m /\ m \notin used)
    BY <1>2 DEF IInv, TypeOK
  <2>3. \A r \in Servers, u \in Threads :
          (pc'[u] \in {"get", "locked"} \/ pc'[u] = "connect") /\ hash'[r] = cm'[u] => server'[u] = r
    <3>1. ASSUME NEW r \in Servers, NEW u \in Threads, u # t,
                 pc'[u] \in {"get", "locked"} \/ pc'[u] = "connect", hash'[r] = cm'[u]
          PROVE  server'[u] = r
      BY <1>2, <1>3, <2>2, <3>1 DEF IInv, TypeOK, CallState, TableState, Timed
    <3>2. ASSUME NEW r \in Servers, hash'[r] = cm'[t] PROVE server'[t] = r
      <4>1. cm'[t] = m /\ server'[t] = s
        BY <1>2, <1>3 DEF IInv, TypeOK
      <4>2. CASE m \notin used
        BY <2>2, <3>2, <4>1, <4>2 DEF IInv, TableState
      <4>3. CASE hash[s] = m
        <5>1. CASE r = s
          BY <4>1, <5>1
        <5>2. CASE r # s
          BY <1>2, <2>2, <3>2, <4>1, <4>3, <5>2 DEF IInv, TableState
        <5> QED
          BY <5>1, <5>2
      <4> QED
        BY <1>2, <4>2, <4>3
    <3> QED
      BY <3>1, <3>2
  <2>4. \A q, r \in Servers : hash'[q] # NULL /\ hash'[q] = hash'[r] => q = r
    BY <2>2 DEF IInv, TableState
  <2>5. \A r \in Servers : hash'[r] # NULL => hash'[r] \in used'
    BY <1>2, <2>2 DEF IInv, TableState
  <2>6. \A r \in Servers, x \in Nodes :
          hash'[r] # NULL /\ owner[x] = hash'[r] =>
            host[x] = r /\ (Free(x) \/ \E u \in Threads : node[u] = x)
    BY <2>2 DEF IInv, TableState
  <2>7. \A x \in Nodes : owner[x] # NULL => owner[x] \in used' /\ host[x] \in Servers
    BY <1>2 DEF IInv, TableState
  <2> QED
    BY <1>3, <2>1, <2>3, <2>4, <2>5, <2>6, <2>7 DEF TableState, Timed, nodeVars
<1> QED
  BY <1>4, <1>5, <1>6, <1>7, <1>8 DEF IInv

\* A second passing: every free node ages by the same amount, up to MaxAge.
LEMMA TickInv == IInv /\ Tick => IInv'
<1> SUFFICES ASSUME IInv, Tick PROVE IInv'
  OBVIOUS
<1> USE PoolAssumption
<1>1. NodeTypes /\ ListsOk
  BY ListFacts
<1>2. /\ idle' = [n \in Nodes |-> IF Free(n) /\ idle[n] < MaxAge THEN idle[n] + 1 ELSE idle[n]]
      /\ lag' = [t \in Threads |-> IF Timed(t) THEN lag[t] + 1 ELSE lag[t]]
      /\ \A t \in Threads : lag[t] < MaxLag \/ ~ Timed(t)
      /\ UNCHANGED << managerVars, lock, owner, host, open, pc, server, cm, node, destroyed >>
  BY DEF Tick
<1>3. TypeOK'
  <2>1. idle' \in [Nodes -> 0..MaxAge]
    BY <1>1, <1>2 DEF NodeTypes
  <2>2. lag' \in [Threads -> 0..MaxLag]
    BY <1>2 DEF IInv, TypeOK
  <2> QED
    BY <1>2, <2>1, <2>2 DEF IInv, TypeOK, managerVars
<1>4. CountsExact' /\ WithinLimit' /\ NoConnectionShared' /\ SocketsMatchNodes'
  BY <1>2 DEF IInv, CountsExact, WithinLimit, NoConnectionShared, SocketsMatchNodes, NodesOf, managerVars
<1>5. FreshestFirst'
  <2>1. \A m \in Managers : \A i \in 1..Len(chain[m]) : chain[m][i] \in Nodes /\ Free(chain[m][i])
    BY <1>1 DEF NodeTypes, Free
  <2>2. \A a, b \in Nodes : Free(a) /\ Free(b) /\ idle[a] <= idle[b] => idle'[a] <= idle'[b]
    BY <1>1, <1>2 DEF NodeTypes
  <2>3. chain' = chain
    BY <1>2 DEF managerVars
  <2> QED
    BY <2>1, <2>2, <2>3 DEF IInv, FreshestFirst
<1>6. CallState' /\ TableState'
  BY <1>2 DEF IInv, CallState, TableState, Timed, Free, managerVars
<1> QED
  BY <1>3, <1>4, <1>5, <1>6 DEF IInv

\* conn_pool_destroy: every node of a manager in the table is on its free
\* list then, so none is left behind when the lists are closed.
LEMMA DestroyEffect ==
  ASSUME IInv, Destroy
  PROVE  /\ \A n \in Nodes : owner'[n] = IF InTable(owner[n]) THEN NULL ELSE owner[n]
         /\ \A n \in Nodes : n \in open' <=> n \in open /\ ~ InTable(owner[n])
<1> USE PoolAssumption
<1>1. NodeTypes
  BY ListFacts
<1>2. \A n \in Nodes : InTable(owner[n]) /\ owner[n] # NULL => Free(n)
  BY <1>1 DEF Destroy, IInv, TableState, CallState, InTable
<1>3. \A n \in Nodes : Free(n) => owner[n] # NULL
  BY <1>1, ListFacts DEF Free, ListsOk
<1>4. \A n \in Nodes : n \in open => owner[n] # NULL
  BY DEF IInv, SocketsMatchNodes
<1>5. /\ owner' = [n \in Nodes |-> IF Free(n) /\ InTable(owner[n]) THEN NULL ELSE owner[n]]
      /\ open' = open \ {n \in Nodes : Free(n) /\ InTable(owner[n])}
  BY DEF Destroy
<1> QED
  BY <1>1, <1>2, <1>3, <1>4, <1>5 DEF NodeTypes

\* conn_pool_destroy keeps the invariant for the managers it does not reach.
LEMMA DestroyInv == IInv /\ Destroy => IInv'
<1> SUFFICES ASSUME IInv, Destroy PROVE IInv'
  OBVIOUS
<1> USE PoolAssumption
<1>1. NodeTypes /\ ListsOk
  BY ListFacts
<1>2. /\ \A n \in Nodes : owner'[n] = IF InTable(owner[n]) THEN NULL ELSE owner[n]
      /\ \A n \in Nodes : n \in open' <=> n \in open /\ ~ InTable(owner[n])
  BY DestroyEffect
<1>3. /\ owner' = [n \in Nodes |-> IF Free(n) /\ InTable(owner[n]) THEN NULL ELSE owner[n]]
      /\ host' = [n \in Nodes |-> IF Free(n) /\ InTable(owner[n]) THEN NULL ELSE host[n]]
      /\ open' = open \ {n \in Nodes : Free(n) /\ InTable(owner[n])}
      /\ used' = {m \in used : ~ InTable(m)}
      /\ chain' = [m \in Managers |-> IF InTable(m) THEN << >> ELSE chain[m]]
      /\ total' = [m \in Managers |-> IF InTable(m) THEN 0 ELSE total[m]]
      /\ free' = [m \in Managers |-> IF InTable(m) THEN 0 ELSE free[m]]
      /\ hash' = [s \in Servers |-> NULL]
      /\ idle' = [n \in Nodes |-> 0]
      /\ destroyed' = TRUE
      /\ UNCHANGED << lock, pc, server, cm, node, lag >>
      /\ \A t \in Threads : pc[t] = "idle"
  BY DEF Destroy
<1>4. TypeOK'
  <2>1. chain' \in [Managers -> Seq(Nodes)]
    BY <1>3 DEF IInv, TypeOK
  <2>2. idle' \in [Nodes -> 0..MaxAge]
    BY <1>1, <1>3 DEF NodeTypes
  <2>3. total' \in [Managers -> Nat] /\ free' \in [Managers -> Nat]
    BY <1>1, <1>3 DEF NodeTypes
  <2>4. /\ owner' \in [Nodes -> Managers \cup {NULL}]
        /\ host' \in [Nodes -> Servers \cup {NULL}]
        /\ open' \subseteq Nodes
    BY <1>1, <1>3 DEF NodeTypes
  <2>5. hash' \in [Servers -> Managers \cup {NULL}] /\ used' \subseteq Managers
    BY <1>3 DEF IInv, TypeOK
  <2> QED
    BY <1>3, <2>1, <2>2, <2>3, <2>4, <2>5 DEF IInv, TypeOK
<1>5. CountsExact' /\ WithinLimit'
  <2>1. ASSUME NEW m \in Managers, InTable(m)
        PROVE  total'[m] = Cardinality(NodesOf(m)') /\ free'[m] = Len(chain'[m]) /\ total'[m] = 0
    <3>1. NodesOf(m)' = {}
      BY <1>2, <2>1 DEF NodesOf
    <3> QED
      BY <1>3, <2>1, <3>1, FS_EmptySet
  <2>2. ASSUME NEW m \in Managers, ~ InTable(m)
        PROVE  /\ total'[m] = Cardinality(NodesOf(m)') /\ free'[m] = Len(chain'[m])
               /\ total'[m] = total[m]
    <3>1. NodesOf(m)' = NodesOf(m)
      BY <1>2, <2>2 DEF NodesOf
    <3> QED
      BY <1>3, <2>2, <3>1 DEF IInv, CountsExact
  <2> QED
    BY <2>1, <2>2 DEF IInv, CountsExact, WithinLimit
<1>6. ListsOk'
  <2>1. ASSUME NEW k \in Managers, NEW i \in 1..Len(chain'[k])
        PROVE  ~ InTable(k) /\ chain'[k] = chain[k]
    BY <1>3
  <2>2. ASSUME NEW k \in Managers, NEW i \in 1..Len(chain'[k])
        PROVE  /\ chain'[k][i] \in Nodes
               /\ owner'[chain'[k][i]] = k
               /\ chain'[k][i] \in open'
               /\ \A u \in Threads : node'[u] # chain'[k][i]
               /\ \A j \in 1..Len(chain'[k]) : chain'[k][i] = chain'[k][j] => i = j
    BY <1>1, <1>2, <1>3, <2>1 DEF ListsOk
  <2>3. ASSUME NEW k \in Managers, NEW i \in 1..Len(chain'[k]), NEW j \in 1..Len(chain'[k])
        PROVE  idle'[chain'[k][i]] <= idle'[chain'[k][j]]
    <3>1. idle'[chain'[k][i]] = 0 /\ idle'[chain'[k][j]] = 0
      BY <1>3, <2>2
    <3> QED
      BY <3>1
  <2> QED
    BY <2>2, <2>3 DEF ListsOk
<1>7. NoConnectionShared' /\ FreshestFirst'
  BY <1>3, <1>6 DEF IInv, NoConnectionShared, FreshestFirst, ListsOk
<1>8. SocketsMatchNodes'
  <2>1. \A n \in open' : owner'[n] # NULL
    BY <1>1, <1>2, <1>3 DEF IInv, SocketsMatchNodes, NodeTypes
  <2>2. \A t \in Threads : pc'[t] # "have"
    BY <1>3
  <2> QED
    BY <1>6, <2>1, <2>2 DEF SocketsMatchNodes, ListsOk
<1>9. CallState'
  BY <1>3 DEF IInv, TypeOK, CallState, Timed
<1>10. TableState'
  <2>1. \A n \in Nodes : owner'[n] # NULL => owner'[n] \in used' /\ host'[n] \in Servers
    BY <1>2, <1>3 DEF IInv, TableState
  <2> QED
    BY <1>3, <2>1 DEF TableState, Timed
<1> QED
  BY <1>4, <1>5, <1>7, <1>8, <1>9, <1>10 DEF IInv

-----------------------------------------------------------------------------
\* conn_pool_init starts with no manager, no node and no lock held.
LEMMA InitIInv == Init => IInv
<1> SUFFICES ASSUME Init PROVE IInv
  OBVIOUS
<1> USE PoolAssumption
<1>1. TypeOK
  <2>1. chain \in [Managers -> Seq(Nodes)]
    BY DEF Init
  <2>2. 0 \in 0..MaxAge /\ 0 \in 0..MaxLag
    BY DEF MaxAge
  <2>3. idle \in [Nodes -> 0..MaxAge] /\ lag \in [Threads -> 0..MaxLag]
    BY <2>2 DEF Init
  <2>4. /\ hash \in [Servers -> Managers \cup {NULL}] /\ lock \in [Managers -> Threads \cup {NULL}]
        /\ total \in [Managers -> Nat] /\ free \in [Managers -> Nat]
        /\ owner \in [Nodes -> Managers \cup {NULL}] /\ host \in [Nodes -> Servers \cup {NULL}]
    BY DEF Init
  <2>5. /\ pc \in [Threads -> {"idle", "get", "locked", "connect", "have"}]
        /\ server \in [Threads -> Servers \cup {NULL}]
        /\ cm \in [Threads -> Managers \cup {NULL}]
        /\ node \in [Threads -> Nodes \cup {NULL}]
        /\ used \subseteq Managers /\ open \subseteq Nodes /\ destroyed \in BOOLEAN
    BY DEF Init
  <2> QED
    BY <2>1, <2>3, <2>4, <2>5 DEF TypeOK
<1>2. CountsExact /\ WithinLimit
  <2>1. \A m \in Managers : NodesOf(m) = {}
    BY DEF Init, NodesOf
  <2>2. \A m \in Managers : Len(chain[m]) = 0 /\ total[m] = 0 /\ free[m] = 0
    BY DEF Init
  <2>3. \A m \in Managers : Cardinality(NodesOf(m)) = 0
    BY <2>1, FS_EmptySet
  <2> QED
    BY <2>2, <2>3 DEF CountsExact, WithinLimit
<1>3. NoConnectionShared /\ SocketsMatchNodes /\ FreshestFirst
  BY DEF Init, NoConnectionShared, SocketsMatchNodes, FreshestFirst
<1>4. CallState /\ TableState
  BY DEF Init, CallState, TableState, Timed
<1> QED
  BY <1>1, <1>2, <1>3, <1>4 DEF IInv

\* The invariant is inductive: every step of every thread keeps it.
LEMMA NextIInv == IInv /\ [Next]_vars => IInv'
<1> SUFFICES ASSUME IInv, [Next]_vars PROVE IInv'
  OBVIOUS
<1>1. CASE Tick
  BY <1>1, TickInv
<1>2. CASE Destroy
  BY <1>2, DestroyInv
<1>3. ASSUME NEW t \in Threads, Get(t) PROVE IInv'
  BY <1>3, FindManagerInv, LockManagerInv, DropExpiredInv, ReuseInv, GetFailsInv, NewNodeInv,
     ConnectOkInv, ConnectFailsInv DEF Get
<1>4. ASSUME NEW t \in Threads, Close(t) PROVE IInv'
  BY <1>4, CloseForceInv, PutBackInv, CloseFailsInv DEF Close
<1>5. CASE UNCHANGED vars
  <2> USE <1>5 DEF vars, managerVars, nodeVars
  <2>1. TypeOK'
    BY DEF IInv, TypeOK
  <2>2. CountsExact' /\ WithinLimit'
    BY DEF IInv, CountsExact, WithinLimit, NodesOf
  <2>3. NoConnectionShared' /\ SocketsMatchNodes' /\ FreshestFirst'
    BY DEF IInv, NoConnectionShared, SocketsMatchNodes, FreshestFirst
  <2>4. CallState' /\ TableState'
    BY DEF IInv, CallState, TableState, Free, Timed
  <2> QED
    BY <2>1, <2>2, <2>3, <2>4 DEF IInv
<1> QED
  BY <1>1, <1>2, <1>3, <1>4, <1>5 DEF Next

\* For every number of threads, servers and nodes and every limit: the counts
\* of connection_pool.c are exact, the limit holds although connects run
\* outside the locks, no connection is ever in two hands, sockets and nodes
\* go together, and the free lists are ordered by idle time.
THEOREM PoolSafety ==
  Spec => [](CountsExact /\ ConnectionsAccounted)
<1>1. IInv => CountsExact /\ ConnectionsAccounted
  BY DEF IInv, ConnectionsAccounted
<1> QED
  BY <1>1, InitIInv, NextIInv, PTL DEF Spec

\* In particular cm->total_count and cm->free_count are what they count, in the
\* middle of every conn_pool_get_connection that connects outside the lock.
THEOREM PoolCounts == Spec => []CountsExact
  BY PoolSafety, PTL

\* conn_pool_destroy closes the socket of every connection whose manager is
\* in the table.
THEOREM DestroyClosesAll == Spec => DestroyClosesTable
<1>1. IInv /\ [Next]_vars => [destroyed' # destroyed => \A n \in open' : ~ InTable(owner[n])]_vars
  <2> SUFFICES ASSUME IInv, Next, destroyed' # destroyed
               PROVE  \A n \in open' : ~ InTable(owner[n])
    OBVIOUS
  <2>1. Destroy
    BY DEF Next, Tick, Get, Close, FindManager, LockManager, DropExpired, Reuse, GetFails, NewNode,
           ConnectOk, ConnectFails, CloseForce, PutBack, CloseFails
  <2>2. open' \subseteq Nodes
    BY <2>1 DEF Destroy, IInv, TypeOK
  <2> QED
    BY <2>1, <2>2, DestroyEffect
<1> QED
  BY <1>1, InitIInv, NextIInv, PTL DEF Spec, DestroyClosesTable
=============================================================================
