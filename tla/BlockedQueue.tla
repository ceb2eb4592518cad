--------------------------- MODULE BlockedQueue ---------------------------
(***************************************************************************)
(* common_blocked_queue.c of libfastcommon: a queue guarded by one mutex   *)
(* and one condition variable, whose nodes come from a memory block        *)
(* manager (queue->mblock).                                                *)
(*                                                                         *)
(* Everything between pthread_mutex_lock and pthread_mutex_unlock is one   *)
(* action: no thread sees the fields in between.  The steps the mutex does *)
(* NOT cover are actions of their own: the pthread_cond_signal of a push,  *)
(* which comes after the unlock, and the return from pthread_cond_wait,    *)
(* which has to take the mutex again.                                      *)
(***************************************************************************)
EXTENDS LinkedQueue

CONSTANTS
  Producers,   \* threads that push
  Consumers,   \* threads that pop, over and over
  Nodes,       \* the nodes queue->mblock can supply before memory runs out
  Data         \* what is pushed

ASSUME QueueAssumption ==
  /\ Consumers # {}
  /\ Producers \cap Consumers = {}
  /\ NULL \notin Nodes
  /\ NULL \notin Data

VARIABLES
  q,           \* the queue: chain of nodes from queue->head, and queue->tail
  data,        \* node->data
  freeNodes,   \* the nodes mblock has to give
  pc,          \* where each thread is
  got          \* what the last finished pop of each consumer returned

vars == << q, data, freeNodes, pc, got >>

Waiting == {c \in Consumers : pc[c] = "waiting"}

\* The data queued, oldest first.
Contents == [i \in 1..Len(q.chain) |-> data[q.chain[i]]]

Init ==
  /\ q = EmptyQueue
  /\ data \in [Nodes -> Data]
  /\ freeNodes = Nodes
  /\ pc = [t \in Producers \cup Consumers |-> "idle"]
  /\ got = [c \in Consumers |-> NULL]

-----------------------------------------------------------------------------

\* Mutant: `notify' is decided after the node was linked, so never TRUE.
PushLockedNoNotify(p, d) ==
  /\ pc[p] = "idle"
  /\ \E n \in freeNodes :
       /\ freeNodes' = freeNodes \ {n}
       /\ data' = [data EXCEPT ![n] = d]
       /\ q' = PushTail(q, n)
  /\ UNCHANGED << pc, got >>

\* Push up to the unlock.  `notify' is decided under the lock, by the tail
\* pointer as it was before this node: only a push to an empty queue signals.
PushLocked(p, d) ==
  /\ pc[p] = "idle"
  /\ \E n \in freeNodes :
       /\ freeNodes' = freeNodes \ {n}
       /\ data' = [data EXCEPT ![n] = d]
       /\ q' = PushTail(q, n)
  /\ pc' = [pc EXCEPT ![p] = IF q.tail = NULL THEN "notify" ELSE "idle"]
  /\ UNCHANGED got

\* fast_mblock_alloc_object returned NULL: the push returns ENOMEM.
PushNoMemory(p) ==
  /\ pc[p] = "idle"
  /\ freeNodes = {}
  /\ UNCHANGED vars

\* pthread_cond_signal wakes at least one of the threads blocked on the
\* condition variable at that moment, and nobody when there is none.
CondSignal(pcAfter) ==
  IF Waiting = {}
  THEN pc' = pcAfter
  ELSE \E W \in SUBSET Waiting :
         /\ W # {}
         /\ pc' = [t \in DOMAIN pc |-> IF t \in W THEN "woken" ELSE pcAfter[t]]

\* Mutant: the push returns without its signal.
PushNotifyForgotten(p) ==
  /\ pc[p] = "notify"
  /\ pc' = [pc EXCEPT ![p] = "idle"]
  /\ UNCHANGED << q, data, freeNodes, got >>

PushNotify(p) ==
  /\ pc[p] = "notify"
  /\ CondSignal([pc EXCEPT ![p] = "idle"])
  /\ UNCHANGED << q, data, freeNodes, got >>

-----------------------------------------------------------------------------

\* The pop proper: the head node is unlinked, its data returned and the node
\* given back to mblock.
TakeHead(c) ==
  /\ q.chain # << >>
  /\ q' = PopHead(q)
  /\ got' = [got EXCEPT ![c] = data[Head(q.chain)]]
  /\ freeNodes' = freeNodes \cup {Head(q.chain)}
  /\ pc' = [pc EXCEPT ![c] = "idle"]
  /\ UNCHANGED data

ReturnNull(c) ==
  /\ q.chain = << >>
  /\ got' = [got EXCEPT ![c] = NULL]
  /\ pc' = [pc EXCEPT ![c] = "idle"]
  /\ UNCHANGED << q, data, freeNodes >>

\* common_blocked_queue_try_pop: blocked is false.
TryPop(c) ==
  /\ pc[c] = "idle"
  /\ TakeHead(c) \/ ReturnNull(c)

\* common_blocked_queue_pop on an empty queue: pthread_cond_wait gives the
\* mutex back and sleeps.
PopWait(c) ==
  /\ q.chain = << >>
  /\ pc' = [pc EXCEPT ![c] = "waiting"]
  /\ UNCHANGED << q, data, freeNodes, got >>

Pop(c) ==
  /\ pc[c] = "idle"
  /\ TakeHead(c) \/ PopWait(c)

\* pthread_cond_wait has returned with the mutex: the head is read again,
\* once, and a queue emptied in the meantime makes the pop return NULL.
PopWoken(c) ==
  /\ pc[c] = "woken"
  /\ TakeHead(c) \/ ReturnNull(c)

\* pthread_cond_wait may return although nobody signalled.
SpuriousWakeup(c) ==
  /\ pc[c] = "waiting"
  /\ pc' = [pc EXCEPT ![c] = "woken"]
  /\ UNCHANGED << q, data, freeNodes, got >>

\* One round of common_blocked_queue_terminate(_all), called by any thread
\* and without the mutex.
Terminate ==
  /\ CondSignal(pc)
  /\ UNCHANGED << q, data, freeNodes, got >>

Produce(p) == PushNoMemory(p) \/ PushNotify(p) \/ \E d \in Data : PushLocked(p, d)

Consume(c) == Pop(c) \/ TryPop(c) \/ PopWoken(c)

Next ==
  \/ \E p \in Producers : Produce(p)
  \/ \E c \in Consumers : Consume(c) \/ SpuriousWakeup(c)
  \/ Terminate

Spec == Init /\ [][Next]_vars

-----------------------------------------------------------------------------
\* The queue holds nodes, nodes hold data, and a pop returns data or NULL.
TypeOK ==
  /\ q \in [chain : Seq(Nodes), tail : Nodes \cup {NULL}]
  /\ data \in [Nodes -> Data]
  /\ freeNodes \subseteq Nodes
  /\ pc \in [Producers \cup Consumers -> {"idle", "notify", "waiting", "woken"}]
  /\ got \in [Consumers -> Data \cup {NULL}]

\* The head chain and the tail pointer stay in step, so that no push is
\* linked behind a node that already left the queue, and a node is never in
\* the queue and back in mblock at once.
QueueWellFormed ==
  /\ WellLinked(q)
  /\ \A i \in 1..Len(q.chain) : q.chain[i] \notin freeNodes

\* A push into a non-empty queue does not signal, so a consumer may sleep
\* while there is work.  What saves the queue is that they never ALL sleep on
\* it: while anything is queued, some consumer is up, or the one push that
\* found the queue empty is still on its way to its signal.
NeverAllAsleep ==
  q.chain # << >> =>
    \/ \E c \in Consumers : pc[c] # "waiting"
    \/ \E p \in Producers : pc[p] = "notify"

\* What threads waiting, nodes recycled and signals lost add up to is still
\* a FIFO queue: the abstract queue is the data along the chain.
Fifo == INSTANCE FifoQueue WITH queue <- Contents

\* Pushes and pops of common_blocked_queue, whoever waits and whichever
\* signals are sent, are those of a FIFO queue: each element comes out once,
\* in order, and a pop returns NULL only at a moment when nothing is queued.
ImplementsFifo == Fifo!Spec
-----------------------------------------------------------------------------
\* A thread inside the library keeps running, and a consumer calls pop again
\* after each result (the loop of tests/test_blocked_queue.c); nobody has to
\* push and no wakeup is owed to a waiting consumer but by a signal.
Fairness ==
  /\ \A p \in Producers : WF_vars(PushNotify(p))
  /\ \A c \in Consumers : WF_vars(Pop(c) \/ PopWoken(c))

FairSpec == Spec /\ Fairness

\* Every node that is queued leaves the queue again, whichever pushes
\* signalled and whoever took the wakeup.
EveryPushIsPopped ==
  \A n \in Nodes :
    (\E i \in 1..Len(q.chain) : q.chain[i] = n)
      ~> ~ (\E i \in 1..Len(q.chain) : q.chain[i] = n)
-----------------------------------------------------------------------------
(***************************************************************************)
(* The safety properties of BlockedQueue, for any number of threads and    *)
(* nodes: the queue stays well linked, the consumers never all sleep on a  *)
(* non-empty queue, and the whole implements the FIFO queue of FifoQueue.  *)
(***************************************************************************)

\* The three invariants together are inductive: the well-formed queue is what
\* makes PushTail an append, and NeverAllAsleep needs only the types besides.
Inv == TypeOK /\ QueueWellFormed /\ NeverAllAsleep

\* common_blocked_queue_init leaves an empty queue with every node in mblock.
LEMMA InitInv == Init => Inv
<1> SUFFICES ASSUME Init PROVE Inv
  OBVIOUS
<1>1. TypeOK
  BY QueueAssumption DEF Init, TypeOK, EmptyQueue
<1>2. QueueWellFormed
  BY DEF Init, QueueWellFormed, WellLinked, EmptyQueue
<1>3. NeverAllAsleep
  BY DEF Init, NeverAllAsleep, EmptyQueue
<1> QED
  BY <1>1, <1>2, <1>3 DEF Inv

\* What PushLocked does to the queue, seen from the invariants.
LEMMA PushLockedEffect ==
  ASSUME Inv, NEW p \in Producers, NEW d \in Data, PushLocked(p, d)
  PROVE  \E n \in freeNodes :
           /\ \A i \in 1..Len(q.chain) : q.chain[i] # n
           /\ q' = [chain |-> Append(q.chain, n), tail |-> n]
           /\ data' = [data EXCEPT ![n] = d]
           /\ freeNodes' = freeNodes \ {n}
<1>1. PICK n \in freeNodes : /\ freeNodes' = freeNodes \ {n}
                             /\ data' = [data EXCEPT ![n] = d]
                             /\ q' = PushTail(q, n)
  BY DEF PushLocked
<1>2. n \in Nodes /\ NULL \notin Nodes
  BY QueueAssumption DEF Inv, TypeOK
<1>3. PushTail(q, n) = [chain |-> Append(q.chain, n), tail |-> n]
  BY <1>2, PushTailAppends DEF Inv, TypeOK, QueueWellFormed
<1>4. \A i \in 1..Len(q.chain) : q.chain[i] # n
  BY DEF Inv, QueueWellFormed
<1> QED
  BY <1>1, <1>3, <1>4

\* common_blocked_queue_push up to its unlock keeps the invariant: the push
\* that makes the queue non-empty is the one that will notify.
LEMMA PushLockedInv ==
  ASSUME Inv, NEW p \in Producers, NEW d \in Data, PushLocked(p, d)
  PROVE  Inv'
<1>1. PICK n \in freeNodes : /\ \A i \in 1..Len(q.chain) : q.chain[i] # n
                             /\ q' = [chain |-> Append(q.chain, n), tail |-> n]
                             /\ data' = [data EXCEPT ![n] = d]
                             /\ freeNodes' = freeNodes \ {n}
  BY PushLockedEffect
<1>2. n \in Nodes /\ NULL \notin Nodes /\ q.chain \in Seq(Nodes)
  BY QueueAssumption DEF Inv, TypeOK
<1>3. /\ Append(q.chain, n) \in Seq(Nodes)
      /\ Len(Append(q.chain, n)) = Len(q.chain) + 1
      /\ Append(q.chain, n)[Len(q.chain) + 1] = n
      /\ \A i \in 1..Len(q.chain) : Append(q.chain, n)[i] = q.chain[i]
      /\ Len(q.chain) \in Nat
  BY <1>2, AppendProperties
<1>4. TypeOK'
  BY <1>1, <1>2, <1>3 DEF Inv, TypeOK, PushLocked
<1>5. QueueWellFormed'
  <2>1. WellLinked(q')
    BY <1>1, <1>2, AppendWellLinked DEF Inv, TypeOK, QueueWellFormed
  <2>2. \A i \in 1..Len(q'.chain) : q'.chain[i] \notin freeNodes'
    BY <1>1, <1>3 DEF Inv, QueueWellFormed
  <2> QED
    BY <2>1, <2>2 DEF QueueWellFormed, WellLinked
<1>6. NeverAllAsleep'
  <2>1. CASE q.tail = NULL
    BY <2>1 DEF PushLocked, NeverAllAsleep, Inv, TypeOK
  <2>2. CASE q.tail # NULL
    <3>1. q.chain # << >> /\ pc' = pc
      BY <2>2 DEF Inv, TypeOK, QueueWellFormed, WellLinked, PushLocked
    <3> QED
      BY <3>1 DEF Inv, NeverAllAsleep
  <2> QED
    BY <2>1, <2>2
<1> QED
  BY <1>4, <1>5, <1>6 DEF Inv

\* A pthread_cond_signal: the queue is left alone and, whichever waiters it
\* wakes, one consumer at least is up afterwards.
LEMMA SignalInv ==
  ASSUME Inv, UNCHANGED << q, data, freeNodes, got >>,
         NEW f \in [Producers \cup Consumers -> {"idle", "notify", "waiting", "woken"}],
         \A c \in Consumers : f[c] = pc[c],
         CondSignal(f)
  PROVE  Inv'
<1>1. TypeOK'
  BY DEF Inv, TypeOK, CondSignal
<1>2. \E c \in Consumers : pc'[c] # "waiting"
  <2>1. CASE Waiting = {}
    BY <2>1, QueueAssumption DEF CondSignal, Waiting
  <2>2. CASE Waiting # {}
    BY <2>2 DEF CondSignal, Waiting, Inv, TypeOK
  <2> QED
    BY <2>1, <2>2
<1> QED
  BY <1>1, <1>2 DEF Inv, QueueWellFormed, NeverAllAsleep, WellLinked

\* A pop that finds a node keeps the invariant, and its thread is up.
LEMMA TakeHeadInv ==
  ASSUME Inv, NEW c \in Consumers, TakeHead(c)
  PROVE  Inv'
<1>1. /\ q' \in [chain : Seq(Nodes), tail : Nodes \cup {NULL}]
      /\ WellLinked(q')
      /\ Head(q.chain) \in Nodes
      /\ q'.chain = Tail(q.chain)
      /\ \A i \in 1..Len(q'.chain) : q'.chain[i] # Head(q.chain)
  BY PopHeadWellLinked, QueueAssumption DEF Inv, TypeOK, QueueWellFormed, TakeHead
<1>2. \A i \in 1..Len(q'.chain) : q'.chain[i] \notin freeNodes
  <2>1. /\ q.chain \in Seq(Nodes) /\ q.chain # << >> /\ Len(q.chain) \in Nat
        /\ Len(q'.chain) = Len(q.chain) - 1
        /\ \A i \in 1..Len(q'.chain) : q'.chain[i] = q.chain[i + 1]
    BY <1>1, HeadTailProperties DEF Inv, TypeOK, TakeHead
  <2> QED
    BY <2>1 DEF Inv, QueueWellFormed
<1>3. TypeOK'
  BY <1>1 DEF Inv, TypeOK, TakeHead
<1>4. QueueWellFormed'
  BY <1>1, <1>2 DEF QueueWellFormed, TakeHead, WellLinked
<1>5. NeverAllAsleep'
  BY DEF NeverAllAsleep, TakeHead, Inv, TypeOK
<1> QED
  BY <1>3, <1>4, <1>5 DEF Inv

\* The other steps of a consumer keep it: it sleeps only on an empty queue.
LEMMA ConsumerInv ==
  ASSUME Inv, NEW c \in Consumers,
         ReturnNull(c) \/ PopWait(c) \/ SpuriousWakeup(c)
  PROVE  Inv'
<1>1. TypeOK'
  BY DEF Inv, TypeOK, ReturnNull, PopWait, SpuriousWakeup
<1>2. QueueWellFormed'
  BY DEF Inv, QueueWellFormed, WellLinked, ReturnNull, PopWait, SpuriousWakeup
<1>3. NeverAllAsleep'
  <2>1. CASE ReturnNull(c) \/ PopWait(c)
    BY <2>1 DEF NeverAllAsleep, ReturnNull, PopWait
  <2>2. CASE SpuriousWakeup(c)
    BY <2>2 DEF NeverAllAsleep, SpuriousWakeup, Inv, TypeOK
  <2> QED
    BY <2>1, <2>2
<1> QED
  BY <1>1, <1>2, <1>3 DEF Inv

\* The invariant is inductive: every step of every thread keeps it.
LEMMA NextInv == Inv /\ [Next]_vars => Inv'
<1> SUFFICES ASSUME Inv, [Next]_vars PROVE Inv'
  OBVIOUS
<1>1. ASSUME NEW p \in Producers, NEW d \in Data, PushLocked(p, d) PROVE Inv'
  BY <1>1, PushLockedInv
<1>2. ASSUME NEW p \in Producers, PushNotify(p) PROVE Inv'
  <2> DEFINE f == [pc EXCEPT ![p] = "idle"]
  <2>1. /\ f \in [Producers \cup Consumers -> {"idle", "notify", "waiting", "woken"}]
        /\ \A c \in Consumers : f[c] = pc[c]
    BY QueueAssumption DEF Inv, TypeOK
  <2> QED
    BY <1>2, <2>1, SignalInv DEF PushNotify
<1>3. ASSUME NEW c \in Consumers, Consume(c) PROVE Inv'
  BY <1>3, TakeHeadInv, ConsumerInv DEF Consume, Pop, TryPop, PopWoken
<1>4. ASSUME NEW c \in Consumers, SpuriousWakeup(c) PROVE Inv'
  BY <1>4, ConsumerInv
<1>5. CASE Terminate
  BY <1>5, SignalInv DEF Terminate, Inv, TypeOK
<1>6. CASE UNCHANGED vars
  BY <1>6 DEF Inv, TypeOK, QueueWellFormed, WellLinked, NeverAllAsleep, vars
<1>7. ASSUME NEW p \in Producers, PushNoMemory(p) PROVE Inv'
  BY <1>6, <1>7 DEF PushNoMemory
<1> QED
  BY <1>1, <1>2, <1>3, <1>4, <1>5, <1>6, <1>7 DEF Next, Produce

\* common_blocked_queue.c keeps its fields in their types, its list well
\* linked, and never lets all its consumers sleep on a non-empty queue,
\* however many threads and nodes there are.
THEOREM QueueSafety == Spec => [](TypeOK /\ QueueWellFormed /\ NeverAllAsleep)
  BY InitInv, NextInv, PTL DEF Spec, Inv

\* In particular no push of common_blocked_queue_push_ex is linked behind a
\* node that has left the queue, and no node is queued and back in mblock.
THEOREM QueueLinked == Spec => []QueueWellFormed
  BY QueueSafety, PTL
-----------------------------------------------------------------------------
\* The data along the chain is a sequence of data.
LEMMA ContentsType ==
  ASSUME Inv
  PROVE  /\ Contents \in Seq(Data)
         /\ Len(Contents) = Len(q.chain)
         /\ Contents = << >> <=> q.chain = << >>
  BY DEF Inv, TypeOK, Contents

\* A push that found a node is an Enqueue of the abstract queue.
LEMMA PushRefines ==
  ASSUME Inv, NEW p \in Producers, NEW d \in Data, PushLocked(p, d)
  PROVE  Fifo!Enqueue(d)
<1>1. PICK n \in freeNodes : /\ \A i \in 1..Len(q.chain) : q.chain[i] # n
                             /\ q' = [chain |-> Append(q.chain, n), tail |-> n]
                             /\ data' = [data EXCEPT ![n] = d]
                             /\ freeNodes' = freeNodes \ {n}
  BY PushLockedEffect
<1>2. n \in Nodes /\ q.chain \in Seq(Nodes) /\ Len(q.chain) \in Nat
  BY DEF Inv, TypeOK
<1>3. /\ Len(q'.chain) = Len(q.chain) + 1
      /\ q'.chain[Len(q.chain) + 1] = n
      /\ \A i \in 1..Len(q.chain) : q'.chain[i] = q.chain[i]
  BY <1>1, <1>2, AppendProperties
<1>4. /\ data'[n] = d
      /\ \A i \in 1..Len(q.chain) : data'[q.chain[i]] = data[q.chain[i]]
  BY <1>1, <1>2 DEF Inv, TypeOK
<1>5. Contents' = [i \in 1..Len(q.chain) + 1 |->
                     IF i = Len(q.chain) + 1 THEN d ELSE Contents[i]]
  BY <1>2, <1>3, <1>4 DEF Contents
<1>6. Contents' = Append(Contents, d)
  <2>1. /\ Append(Contents, d) \in Seq(Data)
        /\ Len(Append(Contents, d)) = Len(q.chain) + 1
        /\ \A i \in 1..Len(q.chain) : Append(Contents, d)[i] = Contents[i]
        /\ Append(Contents, d)[Len(q.chain) + 1] = d
    BY ContentsType, AppendProperties
  <2>2. Contents' \in Seq(Data) /\ Len(Contents') = Len(q.chain) + 1
    BY <1>2, <1>5, ContentsType
  <2>3. \A i \in 1..Len(Contents') : Contents'[i] = Append(Contents, d)[i]
    BY <1>2, <1>5, <2>1, <2>2
  <2> QED
    BY <2>1, <2>2, <2>3, SeqEqual
<1> QED
  BY <1>6 DEF Fifo!Enqueue, PushLocked

\* A pop that found a node is a Dequeue of the oldest element.
LEMMA PopRefines ==
  ASSUME Inv, NEW c \in Consumers, TakeHead(c)
  PROVE  Fifo!Dequeue(c)
<1>1. /\ q.chain \in Seq(Nodes) /\ q.chain # << >> /\ Len(q.chain) \in Nat
      /\ q'.chain = Tail(q.chain)
  BY DEF Inv, TypeOK, TakeHead, PopHead
<1>2. /\ Len(q'.chain) = Len(q.chain) - 1
      /\ \A i \in 1..Len(q'.chain) : q'.chain[i] = q.chain[i + 1]
      /\ Head(q.chain) = q.chain[1]
  BY <1>1, HeadTailProperties
<1>3. Contents # << >> /\ Head(Contents) = data[Head(q.chain)]
  BY <1>1, <1>2, ContentsType DEF Contents
<1>4. Contents' = [i \in 1..Len(q.chain) - 1 |-> Contents[i + 1]]
  BY <1>1, <1>2 DEF Contents, TakeHead
<1>5. Contents' = Tail(Contents)
  <2>1. /\ Tail(Contents) \in Seq(Data)
        /\ Len(Tail(Contents)) = Len(q.chain) - 1
        /\ \A i \in 1..Len(q.chain) - 1 : Tail(Contents)[i] = Contents[i + 1]
    BY <1>3, ContentsType, HeadTailProperties
  <2>2. Contents' \in Seq(Data) /\ Len(Contents') = Len(q.chain) - 1
    BY <1>1, <1>4, ContentsType
  <2>3. \A i \in 1..Len(Contents') : Contents'[i] = Tail(Contents)[i]
    BY <1>1, <1>4, <2>1, <2>2
  <2> QED
    BY <2>1, <2>2, <2>3, SeqEqual
<1> QED
  BY <1>3, <1>5 DEF Fifo!Dequeue, TakeHead

\* common_blocked_queue.c implements a FIFO queue: no element is lost, given
\* out twice or out of order, and a pop returns NULL only at an instant when
\* nothing is queued.
THEOREM QueueImplementsFifo == Spec => ImplementsFifo
<1>1. Init => Fifo!Init
  BY DEF Init, EmptyQueue, Fifo!Init, Contents
<1>2. Inv /\ [Next]_vars => [Fifo!Next]_(Fifo!vars)
  <2> SUFFICES ASSUME Inv, [Next]_vars PROVE [Fifo!Next]_(Fifo!vars)
    OBVIOUS
  <2>1. ASSUME NEW p \in Producers, NEW d \in Data, PushLocked(p, d)
        PROVE  Fifo!Next
    BY <2>1, PushRefines DEF Fifo!Next
  <2>2. ASSUME NEW c \in Consumers, TakeHead(c)
        PROVE  Fifo!Next
    BY <2>2, PopRefines DEF Fifo!Next
  <2>3. ASSUME NEW c \in Consumers, ReturnNull(c)
        PROVE  Fifo!Next
    BY <2>3, ContentsType DEF Fifo!Next, Fifo!ReturnNull, ReturnNull, Contents
  <2>4. ASSUME UNCHANGED << q, data, got >>
        PROVE  UNCHANGED Fifo!vars
    BY <2>4 DEF Fifo!vars, Contents
  <2>5. ASSUME NEW p \in Producers, PushNoMemory(p) \/ PushNotify(p)
        PROVE  UNCHANGED Fifo!vars
    BY <2>4, <2>5 DEF PushNoMemory, PushNotify, vars
  <2>6. ASSUME NEW c \in Consumers, PopWait(c) \/ SpuriousWakeup(c)
        PROVE  UNCHANGED Fifo!vars
    BY <2>4, <2>6 DEF PopWait, SpuriousWakeup
  <2>7. CASE Terminate \/ UNCHANGED vars
    BY <2>4, <2>7 DEF Terminate, vars
  <2> QED
    BY <2>1, <2>2, <2>3, <2>5, <2>6, <2>7
       DEF Next, Produce, Consume, Pop, TryPop, PopWoken
<1> QED
  BY <1>1, <1>2, InitInv, NextInv, PTL DEF Spec, ImplementsFifo, Fifo!Spec
=============================================================================
