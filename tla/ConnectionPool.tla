--------------------------- MODULE ConnectionPool ---------------------------
(***************************************************************************)
(* connection_pool.c of libfastcommon: a pool of client connections, with  *)
(* one ConnectionManager per server (host:port) found through a hash       *)
(* table.  cp->lock guards the table and cm->lock the fields of a manager; *)
(* neither is held while a connection is being made.                       *)
(*                                                                         *)
(* The clock appears only through two differences: idle[n], the time since *)
(* the free node n was put back (now - node->atime), and lag[t], the time  *)
(* since thread t read current_time, which it does before it gets          *)
(* cm->lock.  So "current_time - node->atime" is idle[n] - lag[t].         *)
(***************************************************************************)
EXTENDS Integers, Sequences, FiniteSets

CONSTANTS
  Threads,
  Servers,          \* the host:port keys
  Managers,         \* the ConnectionManager structs malloc can supply
  Nodes,            \* the ConnectionNode structs malloc can supply
  MaxCountPerEntry, \* cp->max_count_per_entry, 0 for no limit
  MaxIdleTime,      \* cp->max_idle_time
  MaxLag,           \* bound: ticks between the read of the clock and its use
  NULL

ASSUME PoolAssumption ==
  /\ MaxCountPerEntry \in Nat /\ MaxIdleTime \in Nat /\ MaxLag \in Nat
  /\ IsFiniteSet(Nodes)
  /\ NULL \notin Threads /\ NULL \notin Servers
  /\ NULL \notin Managers /\ NULL \notin Nodes

VARIABLES
  hash,       \* cp->hash_array: the manager of each server
  used,       \* the managers allocated
  chain,      \* of each manager: the nodes from cm->head on
  total,      \* cm->total_count
  free,       \* cm->free_count
  lock,       \* the thread that holds cm->lock
  owner,      \* node->manager, NULL when the node is not allocated
  host,       \* the server of node->conn
  open,       \* the nodes with node->conn->sock >= 0
  idle,       \* see above
  pc, server, cm, node, lag,  \* of each thread: its place and its local variables
  destroyed   \* conn_pool_destroy was called

managerVars == << hash, used, chain, total, free >>
nodeVars == << owner, host, open, idle >>
vars == << managerVars, lock, nodeVars, pc, server, cm, node, lag, destroyed >>

\* Beyond this age no comparison of the code changes its result.
MaxAge == MaxIdleTime + MaxLag + 1

Free(n) == \E m \in Managers : \E i \in 1..Len(chain[m]) : chain[m][i] = n

Init ==
  /\ hash = [s \in Servers |-> NULL]
  /\ used = {}
  /\ chain = [m \in Managers |-> << >>]
  /\ total = [m \in Managers |-> 0]
  /\ free = [m \in Managers |-> 0]
  /\ lock = [m \in Managers |-> NULL]
  /\ owner = [n \in Nodes |-> NULL]
  /\ host = [n \in Nodes |-> NULL]
  /\ open = {}
  /\ idle = [n \in Nodes |-> 0]
  /\ pc = [t \in Threads |-> "idle"]
  /\ server = [t \in Threads |-> NULL]
  /\ cm = [t \in Threads |-> NULL]
  /\ node = [t \in Threads |-> NULL]
  /\ lag = [t \in Threads |-> 0]
  /\ destroyed = FALSE

-----------------------------------------------------------------------------
\* Thread t has read current_time and may still compare with it.
Timed(t) == pc[t] \in {"get", "locked"}

\* A second passes (only free nodes have an atime that is ever read).
Tick ==
  /\ ~ destroyed
  /\ \A t \in Threads : lag[t] < MaxLag \/ ~ Timed(t)
  /\ idle' = [n \in Nodes |-> IF Free(n) /\ idle[n] < MaxAge THEN idle[n] + 1 ELSE idle[n]]
  /\ lag' = [t \in Threads |-> IF Timed(t) THEN lag[t] + 1 ELSE lag[t]]
  /\ UNCHANGED << managerVars, lock, owner, host, open, pc, server, cm, node, destroyed >>

\* A thread leaves a call of the pool, with or without a connection.
Return(t, n) ==
  /\ node' = [node EXCEPT ![t] = n]
  /\ pc' = [pc EXCEPT ![t] = IF n = NULL THEN "idle" ELSE "have"]
  /\ cm' = [cm EXCEPT ![t] = NULL]
  /\ server' = [server EXCEPT ![t] = NULL]
  /\ lag' = [lag EXCEPT ![t] = 0]

\* conn_pool_get_connection, the part under cp->lock and the read of the
\* clock: find the manager of s or make one (a failed malloc returns NULL
\* with nothing changed).  The result of hash_insert is not looked at, so a
\* new manager may stay outside the table.
FindManager(t, s) ==
  /\ ~ destroyed /\ pc[t] = "idle"
  /\ \/ /\ hash[s] # NULL
        /\ cm' = [cm EXCEPT ![t] = hash[s]]
        /\ UNCHANGED managerVars
     \/ /\ hash[s] = NULL
        /\ \E m \in Managers \ used :
             /\ used' = used \cup {m}
             /\ chain' = [chain EXCEPT ![m] = << >>]
             /\ total' = [total EXCEPT ![m] = 0]
             /\ free' = [free EXCEPT ![m] = 0]
             /\ hash' \in {hash, [hash EXCEPT ![s] = m]}
             /\ cm' = [cm EXCEPT ![t] = m]
  /\ pc' = [pc EXCEPT ![t] = "get"]
  /\ server' = [server EXCEPT ![t] = s]
  /\ UNCHANGED << lock, nodeVars, node, lag, destroyed >>

LockManager(t) ==
  /\ pc[t] = "get" /\ lock[cm[t]] = NULL
  /\ lock' = [lock EXCEPT ![cm[t]] = t]
  /\ pc' = [pc EXCEPT ![t] = "locked"]
  /\ UNCHANGED << managerVars, nodeVars, server, cm, node, lag, destroyed >>

UnlockManager(m) == lock' = [lock EXCEPT ![m] = NULL]

\* Mutant: the node is freed and its socket stays open.
FreeNodeLeavesSocket(n) ==
  /\ owner' = [owner EXCEPT ![n] = NULL]
  /\ host' = [host EXCEPT ![n] = NULL]
  /\ UNCHANGED open

FreeNode(n) ==
  /\ owner' = [owner EXCEPT ![n] = NULL]
  /\ host' = [host EXCEPT ![n] = NULL]
  /\ open' = open \ {n}

\* Mutant: cm->head does not advance.
PopNodeKeepsHead(m) ==
  /\ chain[m] # << >>
  /\ free' = [free EXCEPT ![m] = @ - 1]
  /\ idle' = [idle EXCEPT ![Head(chain[m])] = 0]
  /\ UNCHANGED chain

\* The rest of conn_pool_get_connection runs under cm->lock, in a loop over
\* the free list.  PopNode: the head node leaves it.
PopNode(m) ==
  /\ chain[m] # << >>
  /\ chain' = [chain EXCEPT ![m] = Tail(@)]
  /\ free' = [free EXCEPT ![m] = @ - 1]
  /\ idle' = [idle EXCEPT ![Head(chain[m])] = 0]

Expired(t, n) == idle[n] - lag[t] > MaxIdleTime

\* Mutant: total_count is not lowered for an expired connection.
DropExpiredKeepsTotal(t) ==
  /\ pc[t] = "locked"
  /\ PopNode(cm[t])
  /\ Expired(t, Head(chain[cm[t]]))
  /\ FreeNode(Head(chain[cm[t]]))
  /\ UNCHANGED << hash, used, total, lock, pc, server, cm, node, lag, destroyed >>

\* The head has been idle for too long: close it and try the next one.
DropExpired(t) ==
  /\ pc[t] = "locked"
  /\ PopNode(cm[t])
  /\ Expired(t, Head(chain[cm[t]]))
  /\ total' = [total EXCEPT ![cm[t]] = @ - 1]
  /\ FreeNode(Head(chain[cm[t]]))
  /\ UNCHANGED << hash, used, lock, pc, server, cm, node, lag, destroyed >>

Reuse(t) ==
  /\ pc[t] = "locked"
  /\ PopNode(cm[t])
  /\ ~ Expired(t, Head(chain[cm[t]]))
  /\ UnlockManager(cm[t])
  /\ Return(t, Head(chain[cm[t]]))
  /\ UNCHANGED << hash, used, total, owner, host, open, destroyed >>

\* Mutant: one connection too many.
AtLimitOffByOne(m) == MaxCountPerEntry > 0 /\ total[m] > MaxCountPerEntry

AtLimit(m) == MaxCountPerEntry > 0 /\ total[m] >= MaxCountPerEntry

\* No free node, and either the limit is reached (ENOSPC) or malloc fails.
GetFails(t) ==
  /\ pc[t] = "locked"
  /\ chain[cm[t]] = << >>
  /\ UnlockManager(cm[t])
  /\ Return(t, NULL)
  /\ UNCHANGED << managerVars, nodeVars, destroyed >>

\* A new node is counted and the lock given up before the connect.
NewNode(t) ==
  /\ pc[t] = "locked"
  /\ chain[cm[t]] = << >>
  /\ ~ AtLimit(cm[t])
  /\ \E n \in Nodes :
       /\ owner[n] = NULL
       /\ owner' = [owner EXCEPT ![n] = cm[t]]
       /\ host' = [host EXCEPT ![n] = server[t]]
       /\ node' = [node EXCEPT ![t] = n]
  /\ total' = [total EXCEPT ![cm[t]] = @ + 1]
  /\ UnlockManager(cm[t])
  /\ pc' = [pc EXCEPT ![t] = "connect"]
  /\ UNCHANGED << hash, used, chain, free, open, idle, server, cm, lag, destroyed >>

ConnectOk(t) ==
  /\ pc[t] = "connect"
  /\ open' = open \cup {node[t]}
  /\ Return(t, node[t])
  /\ UNCHANGED << managerVars, lock, owner, host, idle, destroyed >>

\* conn_pool_connect_server failed: the count is taken back under the lock.
ConnectFails(t) ==
  /\ pc[t] = "connect" /\ lock[cm[t]] = NULL
  /\ total' = [total EXCEPT ![cm[t]] = @ - 1]
  /\ FreeNode(node[t])
  /\ Return(t, NULL)
  /\ UNCHANGED << hash, used, chain, free, lock, idle, destroyed >>

-----------------------------------------------------------------------------
\* conn_pool_close_connection_ex: the manager is looked up by key again.  A
\* manager in the table stays the one of its key, so the lookup and the part
\* under cm->lock can be one step.
Managed(n) == hash[host[n]] = owner[n]

\* bForce: disconnect and free.
CloseForce(t) ==
  /\ pc[t] = "have" /\ Managed(node[t]) /\ lock[owner[node[t]]] = NULL
  /\ total' = [total EXCEPT ![owner[node[t]]] = @ - 1]
  /\ FreeNode(node[t])
  /\ Return(t, NULL)
  /\ UNCHANGED << hash, used, chain, free, lock, idle, destroyed >>

\* Mutant: the node goes to the end of the free list.
PutBackAtEnd(t) ==
  /\ pc[t] = "have" /\ Managed(node[t]) /\ lock[owner[node[t]]] = NULL
  /\ chain' = [chain EXCEPT ![owner[node[t]]] = Append(@, node[t])]
  /\ free' = [free EXCEPT ![owner[node[t]]] = @ + 1]
  /\ idle' = [idle EXCEPT ![node[t]] = 0]
  /\ Return(t, NULL)
  /\ UNCHANGED << hash, used, total, lock, owner, host, open, destroyed >>

\* Otherwise the node goes to the head of the free list.
PutBack(t) ==
  /\ pc[t] = "have" /\ Managed(node[t]) /\ lock[owner[node[t]]] = NULL
  /\ chain' = [chain EXCEPT ![owner[node[t]]] = << node[t] >> \o @]
  /\ free' = [free EXCEPT ![owner[node[t]]] = @ + 1]
  /\ idle' = [idle EXCEPT ![node[t]] = 0]
  /\ Return(t, NULL)
  /\ UNCHANGED << hash, used, total, lock, owner, host, open, destroyed >>

\* ENOENT or EINVAL: the table does not know the node's manager.  The call
\* returns before it does anything, and the caller is left with a connection
\* that nobody will close.
CloseFails(t) ==
  /\ pc[t] = "have" /\ ~ Managed(node[t])
  /\ Return(t, NULL)
  /\ UNCHANGED << managerVars, lock, nodeVars, destroyed >>

\* conn_pool_destroy, called as it has to be: when no thread is in the pool
\* or has a connection.  It walks the managers in the table only.
InTable(m) == \E s \in Servers : hash[s] = m

\* Mutant: only the first node of each free list is closed.
DestroyHeadsOnly ==
  /\ ~ destroyed
  /\ \A t \in Threads : pc[t] = "idle"
  /\ LET closed == {n \in Nodes : \E m \in Managers : InTable(m) /\ n = Head(chain[m] \o << NULL >>)}
     IN  /\ owner' = [n \in Nodes |-> IF n \in closed THEN NULL ELSE owner[n]]
         /\ host' = [n \in Nodes |-> IF n \in closed THEN NULL ELSE host[n]]
         /\ open' = open \ closed
  /\ hash' = [s \in Servers |-> NULL]
  /\ destroyed' = TRUE
  /\ UNCHANGED << used, chain, total, free, idle, lock, pc, server, cm, node, lag >>

Destroy ==
  /\ ~ destroyed
  /\ \A t \in Threads : pc[t] = "idle"
  /\ LET closed == {n \in Nodes : Free(n) /\ InTable(owner[n])}
     IN  /\ owner' = [n \in Nodes |-> IF n \in closed THEN NULL ELSE owner[n]]
         /\ host' = [n \in Nodes |-> IF n \in closed THEN NULL ELSE host[n]]
         /\ open' = open \ closed
  /\ used' = {m \in used : ~ InTable(m)}
  /\ chain' = [m \in Managers |-> IF InTable(m) THEN << >> ELSE chain[m]]
  /\ total' = [m \in Managers |-> IF InTable(m) THEN 0 ELSE total[m]]
  /\ free' = [m \in Managers |-> IF InTable(m) THEN 0 ELSE free[m]]
  /\ hash' = [s \in Servers |-> NULL]
  /\ idle' = [n \in Nodes |-> 0]
  /\ destroyed' = TRUE
  /\ UNCHANGED << lock, pc, server, cm, node, lag >>

-----------------------------------------------------------------------------
Get(t) ==
  \/ \E s \in Servers : FindManager(t, s)
  \/ LockManager(t) \/ DropExpired(t) \/ Reuse(t) \/ GetFails(t) \/ NewNode(t)
  \/ ConnectOk(t) \/ ConnectFails(t)

Close(t) == CloseForce(t) \/ PutBack(t) \/ CloseFails(t)

Next ==
  \/ Tick
  \/ \E t \in Threads : Get(t) \/ Close(t)
  \/ Destroy

Spec == Init /\ [][Next]_vars

-----------------------------------------------------------------------------
\* The counters of a manager never go below zero, and pointers point to
\* objects of their kind.
TypeOK ==
  /\ hash \in [Servers -> Managers \cup {NULL}]
  /\ used \subseteq Managers
  /\ chain \in [Managers -> Seq(Nodes)]
  /\ total \in [Managers -> Nat]
  /\ free \in [Managers -> Nat]
  /\ lock \in [Managers -> Threads \cup {NULL}]
  /\ owner \in [Nodes -> Managers \cup {NULL}]
  /\ host \in [Nodes -> Servers \cup {NULL}]
  /\ open \subseteq Nodes
  /\ idle \in [Nodes -> 0..MaxAge]
  /\ pc \in [Threads -> {"idle", "get", "locked", "connect", "have"}]
  /\ server \in [Threads -> Servers \cup {NULL}]
  /\ cm \in [Threads -> Managers \cup {NULL}]
  /\ node \in [Threads -> Nodes \cup {NULL}]
  /\ lag \in [Threads -> 0..MaxLag]
  /\ destroyed \in BOOLEAN

NodesOf(m) == {n \in Nodes : owner[n] = m}

\* cm->total_count is raised before a connect, taken back in another critical
\* section when it fails, and lowered by expiry and forced close.  At every
\* moment it is the number of the manager's nodes, connecting ones included,
\* and cm->free_count the length of the free list.
CountsExact ==
  \A m \in Managers :
    /\ total[m] = Cardinality(NodesOf(m))
    /\ free[m] = Len(chain[m])

\* Although the limit is tested in one critical section and connects run
\* outside it, no manager ever has more than max_count_per_entry nodes.
WithinLimit ==
  \A m \in Managers : MaxCountPerEntry > 0 => total[m] <= MaxCountPerEntry

\* A connection is in one place: in the free list of its own manager, once,
\* or with one thread.
NoConnectionShared ==
  /\ \A m \in Managers : \A i \in 1..Len(chain[m]) :
       /\ owner[chain[m][i]] = m
       /\ \A j \in 1..Len(chain[m]) : chain[m][i] = chain[m][j] => i = j
       /\ \A t \in Threads : node[t] # chain[m][i]
  /\ \A t, u \in Threads : t # u /\ node[t] # NULL => node[t] # node[u]

\* Sockets and memory go together: what a caller holds or the free list
\* offers is connected, and no socket outlives its node.
SocketsMatchNodes ==
  /\ \A m \in Managers : \A i \in 1..Len(chain[m]) : chain[m][i] \in open
  /\ \A t \in Threads : pc[t] = "have" => node[t] \in open
  /\ \A n \in open : owner[n] # NULL

\* atime is taken under cm->lock and nodes are put back at the head, so the
\* free list is ordered by idle time: when get closes an expired head and
\* goes on, everything behind it is expired as well, and the first one that
\* is not expired is the freshest there is.
FreshestFirst ==
  \A m \in Managers : \A i, j \in 1..Len(chain[m]) :
    i <= j => idle[chain[m][i]] <= idle[chain[m][j]]

\* Through every interleaving of gets, connects that run outside the lock,
\* closes, expiry and destruction, a connection is in one place, as long as its
\* socket lives, a manager has no more of them than it may, and the free list
\* is ordered.
ConnectionsAccounted == TypeOK /\ WithinLimit /\ NoConnectionShared /\ SocketsMatchNodes
                        /\ FreshestFirst

\* conn_pool_destroy leaves no socket behind but those of managers that a
\* failed hash_insert kept out of the table.
DestroyClosesTable ==
  [][destroyed' # destroyed => \A n \in open' : ~ InTable(owner[n])]_vars

\* "max connection count per host:port" (connection_pool.h) taken over all
\* the connections there are to a server.
LimitPerServer ==
  \A s \in Servers :
    MaxCountPerEntry > 0 =>
      Cardinality({n \in Nodes : owner[n] # NULL /\ host[n] = s}) <= MaxCountPerEntry

-----------------------------------------------------------------------------
\* The program keeps using the pool (no thread that wants a manager's lock is
\* passed over for ever), connects end one way or the other, time passes.
Fairness ==
  /\ \A t \in Threads : SF_vars(Get(t)) /\ SF_vars(Close(t))
  /\ WF_vars(Tick)

FairSpec == Spec /\ Fairness

\* "connections whose the idle time exceeds this time will be closed"
\* (connection_pool.h): a free connection does not stay idle for ever.
IdleIsClosed ==
  \A n \in Nodes : idle[n] > MaxIdleTime ~> idle[n] = 0
=============================================================================
